------------------------------ MODULE FilesProofs ------------------------------
(***************************************************************************)
(* Two files that are read as a whole, whose readers want the last entry   *)
(* of each name: the delegation log and the notebook, for every number of  *)
(* lines, cells, sessions and calls.                                       *)
(*                                                                         *)
(* Picked keeps the order of what it picks (Nth is the rank of a place     *)
(* among the places chosen).  So the collapsed log has one record per id,  *)
(* the one of its last line, in the order of those lines (Collapsed), and  *)
(* an emitted notebook each of its names once, with the text written last, *)
(* in canonical order (Emitted).                                           *)
(*                                                                         *)
(* The invariant of the log: a rewrite in progress holds each id once, no  *)
(* id on record is beyond the last one handed out, and an attempt on       *)
(* record is one that was acknowledged.  Every step of the log is a step   *)
(* of DelegationRecords.  The invariant of the notebook: while a call has  *)
(* the file open, the call holds the cells the agent was told of.          *)
(***************************************************************************)
EXTENDS DelegationLog, Notebook, FiniteSetTheorems, WellFoundedInduction, TLAPS

-----------------------------------------------------------------------------
(* Largest elements and ranks.                                             *)

LEMMA Largest ==
  ASSUME NEW n \in Nat, NEW S \in SUBSET (0..n), S # {}
  PROVE  \E m \in S : \A x \in S : x <= m
<1> DEFINE Less == {ss \in Nat \X Nat : ss[1] < ss[2]}
           T == {n - x : x \in S}
<1>1. IsWellFoundedOn(Less, Nat)
  BY NatLessThanWellFounded DEF OpToRel
<1>2. T \subseteq Nat /\ T # {}
  <2>1. ASSUME NEW x \in S PROVE n - x \in Nat
    <3>1. x \in 0..n
      OBVIOUS
    <3>2. QED  BY <3>1
  <2>2. QED  BY <2>1
<1>3. PICK t \in T : \A x \in T : <<x, t>> \notin Less
  <2> HIDE DEF Less, T
  <2>1. QED
    BY <1>1, <1>2, WFMin
<1>4. PICK m \in S : t = n - m
  BY <1>3
<1>5. ASSUME NEW x \in S PROVE x <= m
  <2>1. n - x \in T
    OBVIOUS
  <2>2. ~(n - x < t)
    BY <1>2, <1>3, <2>1
  <2>3. QED  BY <1>4, <2>2
<1>6. QED  BY <1>5

LEMMA MaxIsLargest ==
  ASSUME NEW n \in Nat, NEW S \in SUBSET (0..n), S # {}
  PROVE  Max(S) \in S /\ \A x \in S : x <= Max(S)
<1>1. \E m \in S : \A x \in S : m >= x
  BY Largest
<1>2. Max(S) \in S /\ \A x \in S : Max(S) >= x
  BY <1>1 DEF Max
<1>3. QED  BY <1>2

LEMMA MaxIs ==
  ASSUME NEW n \in Nat, NEW S \in SUBSET (0..n), NEW m \in S, \A x \in S : x <= m
  PROVE  Max(S) = m
<1>1. Max(S) \in S /\ \A x \in S : x <= Max(S)
  BY MaxIsLargest
<1>2. Max(S) \in 0..n /\ m \in 0..n
  BY <1>1
<1>3. Max(S) <= m /\ m <= Max(S)
  BY <1>1
<1>4. QED  BY <1>2, <1>3

Rank(S, i) == Cardinality({j \in S : j <= i})

LEMMA Ranks ==
  ASSUME NEW n \in Nat, NEW S \in SUBSET (1..n)
  PROVE  /\ IsFiniteSet(S) /\ Cardinality(S) \in Nat
         /\ \A i \in S : Rank(S, i) \in 1..Cardinality(S)
         /\ \A i, k \in S : i < k => Rank(S, i) < Rank(S, k)
<1>1. IsFiniteSet(S) /\ Cardinality(S) \in Nat
  <2>1. IsFiniteSet(1..n)
    BY FS_Interval
  <2>2. QED  BY <2>1, FS_Subset, FS_CardinalityType
<1>2. ASSUME NEW i \in S PROVE Rank(S, i) \in 1..Cardinality(S)
  <2> DEFINE T == {j \in S : j <= i}
  <2>1. IsFiniteSet(T) /\ Cardinality(T) <= Cardinality(S) /\ Cardinality(T) \in Nat
    BY <1>1, FS_Subset, FS_CardinalityType
  <2>2. T # {}
    OBVIOUS
  <2>3. Cardinality(T) # 0
    <3> HIDE DEF T
    <3>1. QED  BY <2>1, <2>2, FS_EmptySet
  <2>4. QED  BY <1>1, <2>1, <2>3 DEF Rank
<1>3. ASSUME NEW i \in S, NEW k \in S, i < k PROVE Rank(S, i) < Rank(S, k)
  <2> DEFINE T == {j \in S : j <= i}
             U == {j \in S : j <= k}
  <2>1. IsFiniteSet(U) /\ Cardinality(U) \in Nat
    BY <1>1, FS_Subset, FS_CardinalityType
  <2>2. T \subseteq U /\ k \in U /\ k \notin T
    <3>1. \A x \in S : x \in Int
      OBVIOUS
    <3>2. k \in U /\ k \notin T
      BY <1>3, <3>1
    <3>3. ASSUME NEW j \in T PROVE j \in U
      BY <1>3, <3>1
    <3>4. QED  BY <3>2, <3>3
  <2>3. Cardinality(T) <= Cardinality(U) /\ Cardinality(T) # Cardinality(U)
        /\ Cardinality(T) \in Nat
    <3> HIDE DEF T, U
    <3>1. QED  BY <2>1, <2>2, FS_Subset, FS_CardinalityType
  <2>4. QED  BY <2>1, <2>3 DEF Rank
<1>4. QED  BY <1>1, <1>2, <1>3

LEMMA RankOnto ==
  ASSUME NEW n \in Nat, NEW S \in SUBSET (1..n), NEW k \in 1..Cardinality(S)
  PROVE  \E i \in S : Rank(S, i) = k
<1> DEFINE size == Cardinality(S)
           T == (1..size) \ {k}
           r == [i \in S |-> Rank(S, i)]
<1>1. IsFiniteSet(S) /\ size \in Nat
  BY Ranks
<1>2. IsFiniteSet(1..size) /\ Cardinality(1..size) = size
  <2> HIDE DEF size
  <2>1. QED  BY <1>1, FS_Interval
<1>3. IsFiniteSet(T) /\ Cardinality(T) = size - 1
  BY <1>2, FS_RemoveElement
<1>4. SUFFICES ASSUME \A i \in S : Rank(S, i) # k PROVE FALSE
  OBVIOUS
<1>5. r \in [S -> T]
  BY <1>4, Ranks
<1>6. Cardinality(T) < Cardinality(S)
  BY <1>1, <1>3
<1>7. \E x, y \in S : x # y /\ r[x] = r[y]
  <2> HIDE DEF r, T
  <2>1. QED  BY <1>1, <1>3, <1>5, <1>6, FS_PigeonHole
<1>8. PICK x \in S, y \in S : x # y /\ Rank(S, x) = Rank(S, y)
  BY <1>7
<1>9. x \in 1..n /\ y \in 1..n
  OBVIOUS
<1>10. x < y \/ y < x
  BY <1>8, <1>9
<1>11. Rank(S, x) \in 1..size /\ Rank(S, y) \in 1..size
       /\ \A i, j \in S : i < j => Rank(S, i) < Rank(S, j)
  BY Ranks
<1>12. QED  BY <1>1, <1>8, <1>10, <1>11

\* Nth enumerates S from below.
LEMMA NthEnumerates ==
  ASSUME NEW n \in Nat, NEW S \in SUBSET (1..n)
  PROVE  /\ Cardinality(S) \in Nat
         /\ \A k \in 1..Cardinality(S) : Nth(S, k) \in S /\ Rank(S, Nth(S, k)) = k
         /\ \A k, l \in 1..Cardinality(S) : k < l <=> Nth(S, k) < Nth(S, l)
         /\ \A i \in S : Rank(S, i) \in 1..Cardinality(S) /\ Nth(S, Rank(S, i)) = i
<1>1. Cardinality(S) \in Nat
  BY Ranks
<1>2. \A k \in 1..Cardinality(S) : Nth(S, k) \in S /\ Rank(S, Nth(S, k)) = k
  <2>1. ASSUME NEW k \in 1..Cardinality(S)
        PROVE  Nth(S, k) \in S /\ Rank(S, Nth(S, k)) = k
    <3>1. \E i \in S : Cardinality({j \in S : j <= i}) = k
      BY RankOnto DEF Rank
    <3>2. QED  BY <3>1 DEF Nth, Rank
  <2>2. QED  BY <2>1
<1>3. ASSUME NEW k \in 1..Cardinality(S), NEW l \in 1..Cardinality(S)
      PROVE  k < l <=> Nth(S, k) < Nth(S, l)
  <2>1. Nth(S, k) \in S /\ Nth(S, l) \in S /\ Rank(S, Nth(S, k)) = k /\ Rank(S, Nth(S, l)) = l
    BY <1>2
  <2>2. \A i, j \in S : i < j => Rank(S, i) < Rank(S, j)
    BY Ranks
  <2>3. Nth(S, k) \in 1..n /\ Nth(S, l) \in 1..n
    BY <2>1
  <2>4. QED  BY <2>1, <2>2, <2>3
<1>4. ASSUME NEW i \in S PROVE Rank(S, i) \in 1..Cardinality(S) /\ Nth(S, Rank(S, i)) = i
  <2>1. Rank(S, i) \in 1..Cardinality(S)
    BY Ranks
  <2>2. Nth(S, Rank(S, i)) \in S /\ Rank(S, Nth(S, Rank(S, i))) = Rank(S, i)
    BY <1>2, <2>1
  <2>3. ASSUME NEW j \in S, Rank(S, j) = Rank(S, i) PROVE j = i
    <3>1. i \in 1..n /\ j \in 1..n
      OBVIOUS
    <3>2. i < j => Rank(S, i) < Rank(S, j)
      BY Ranks
    <3>3. j < i => Rank(S, j) < Rank(S, i)
      BY Ranks
    <3>4. QED  BY <1>1, <2>1, <2>3, <3>1, <3>2, <3>3
  <2>4. QED  BY <2>1, <2>2, <2>3
<1>5. QED  BY <1>1, <1>2, <1>3, <1>4

-----------------------------------------------------------------------------
(* What reading a log finds.                                               *)

LogLine == Record \cup {Junk}

Distinct(f) == \A i, j \in DOMAIN f : f[i].id = f[j].id => i = j

Latest(f, d) == IF d \in IdsIn(f) THEN f[LastLine(f, d)] ELSE NoRecord

\* The order of the delegations on record.
Before(f) == {p \in Ids \X Ids : /\ {p[1], p[2]} \subseteq IdsIn(f)
                                 /\ LastLine(f, p[1]) < LastLine(f, p[2])}

LEMMA LineTypes ==
  ASSUME NEW x \in LogLine
  PROVE  /\ x.id \in Ids \cup {0} /\ (x.id # 0 <=> x \in Record) /\ (x.id = 0 <=> x = Junk)
         /\ 0 \notin Ids
<1>1. 0 \notin Ids
  BY BoundAssumption DEF Ids
<1>2. QED  BY <1>1 DEF LogLine, Record, Junk

LEMMA LastLines ==
  ASSUME NEW f \in Seq(LogLine), NEW d \in IdsIn(f)
  PROVE  /\ LastLine(f, d) \in DOMAIN f /\ LastLine(f, d) \in Nat
         /\ f[LastLine(f, d)].id = d
         /\ f[LastLine(f, d)] \in Record
         /\ \A i \in DOMAIN f : f[i].id = d => i <= LastLine(f, d)
         /\ d \in Ids
<1> DEFINE S == {i \in DOMAIN f : f[i].id = d}
<1>1. Len(f) \in Nat /\ S \in SUBSET (0..Len(f)) /\ S # {} /\ d # 0
  BY DEF IdsIn
<1>2. Max(S) \in S /\ \A x \in S : x <= Max(S)
  <2> HIDE DEF S
  <2>1. QED  BY <1>1, MaxIsLargest
<1>3. LastLine(f, d) = Max(S)
  BY DEF LastLine
<1>4. f[Max(S)] \in LogLine
  BY <1>2
<1>5. QED  BY <1>1, <1>2, <1>3, <1>4, LineTypes

LEMMA LastLineIs ==
  ASSUME NEW f \in Seq(LogLine), NEW d \in IdsIn(f), NEW m \in DOMAIN f, f[m].id = d,
         \A i \in DOMAIN f : f[i].id = d => i <= m
  PROVE  LastLine(f, d) = m
<1>1. LastLine(f, d) \in DOMAIN f /\ f[LastLine(f, d)].id = d
      /\ \A i \in DOMAIN f : f[i].id = d => i <= LastLine(f, d)
  BY LastLines
<1>2. LastLine(f, d) \in Nat /\ m \in Nat /\ LastLine(f, d) <= m /\ m <= LastLine(f, d)
  BY <1>1
<1>3. QED  BY <1>2

LEMMA DistinctLast ==
  ASSUME NEW f \in Seq(LogLine), Distinct(f), NEW i \in DOMAIN f, f[i].id # 0
  PROVE  f[i].id \in IdsIn(f) /\ LastLine(f, f[i].id) = i
<1>1. f[i].id \in IdsIn(f)
  BY DEF IdsIn
<1>2. QED  BY <1>1, LastLines DEF Distinct

LEMMA Collapsed ==
  ASSUME NEW f \in Seq(LogLine)
  PROVE  /\ Collapse(f) \in Seq(Record) /\ Len(Collapse(f)) <= Len(f)
         /\ Distinct(Collapse(f))
         /\ IdsIn(Collapse(f)) = IdsIn(f)
         /\ \A k \in DOMAIN Collapse(f) :
              Collapse(f)[k] = f[LastLine(f, Collapse(f)[k].id)]
         /\ \A d, e \in IdsIn(f) : LastLine(Collapse(f), d) < LastLine(Collapse(f), e)
                                     <=> LastLine(f, d) < LastLine(f, e)
<1> DEFINE S == {LastLine(f, d) : d \in IdsIn(f)}
           n == Cardinality(S)
           c == [k \in 1..n |-> f[Nth(S, k)]]
<1>1. Len(f) \in Nat /\ S \in SUBSET (1..Len(f))
  BY LastLines
<1>2. c = Collapse(f)
  BY DEF Collapse, Picked
<1> HIDE DEF S
<1>3. /\ n \in Nat
      /\ \A k \in 1..n : Nth(S, k) \in S /\ Rank(S, Nth(S, k)) = k
      /\ \A k, l \in 1..n : k < l <=> Nth(S, k) < Nth(S, l)
      /\ \A i \in S : Rank(S, i) \in 1..n /\ Nth(S, Rank(S, i)) = i
  BY <1>1, NthEnumerates
<1> HIDE DEF n
<1>4. n <= Len(f)
  <2>1. IsFiniteSet(1..Len(f)) /\ Cardinality(1..Len(f)) = Len(f)
    BY <1>1, FS_Interval, SMTT(30)
  <2>2. QED  BY <1>1, <2>1, FS_Subset DEF n
<1>5. ASSUME NEW k \in 1..n
      PROVE  /\ c[k].id \in IdsIn(f) /\ Nth(S, k) = LastLine(f, c[k].id)
             /\ c[k] \in Record /\ c[k] = f[LastLine(f, c[k].id)]
  <2>1. PICK d \in IdsIn(f) : Nth(S, k) = LastLine(f, d)
    BY <1>3 DEF S
  <2>2. f[LastLine(f, d)].id = d /\ f[LastLine(f, d)] \in Record
    BY LastLines
  <2>3. c[k] = f[LastLine(f, d)]
    BY <2>1
  <2>4. QED  BY <2>1, <2>2, <2>3
<1>6. DOMAIN c = 1..n
  OBVIOUS
<1>7. ASSUME NEW d \in IdsIn(f)
      PROVE  /\ Rank(S, LastLine(f, d)) \in 1..n
             /\ Nth(S, Rank(S, LastLine(f, d))) = LastLine(f, d)
             /\ c[Rank(S, LastLine(f, d))].id = d
  <2>1. LastLine(f, d) \in S
    BY DEF S
  <2>2. QED  BY <1>3, <2>1, LastLines
<1>8. c \in Seq(Record) /\ Len(c) = n
  <2>1. c \in [1..n -> Record]
    BY <1>5
  <2>2. QED  BY <1>3, <2>1
<1>9. Distinct(c)
  BY <1>3, <1>5, <1>6 DEF Distinct
<1>10. IdsIn(c) = IdsIn(f)
  <2>1. \A k \in 1..n : c[k].id \in IdsIn(f)
    BY <1>5
  <2>2. 0 \notin IdsIn(f)
    BY DEF IdsIn
  <2> HIDE DEF c
  <2>3. QED  BY <1>6, <1>7, <2>1, <2>2 DEF IdsIn
<1> HIDE DEF c
<1>11. c \in Seq(LogLine)
  BY <1>8 DEF LogLine
<1>12. ASSUME NEW d \in IdsIn(f) PROVE LastLine(c, d) = Rank(S, LastLine(f, d))
  <2>1. d # 0
    BY DEF IdsIn
  <2>2. QED  BY <1>6, <1>7, <1>9, <1>11, <2>1, DistinctLast, ZenonT(30)
<1>13. \A d, e \in IdsIn(f) : LastLine(c, d) < LastLine(c, e) <=> LastLine(f, d) < LastLine(f, e)
  BY <1>3, <1>7, <1>12
<1>14. QED  BY <1>2, <1>4, <1>5, <1>6, <1>8, <1>9, <1>10, <1>13

\* What is read of a collapsed log is what is read of the log.
LEMMA LatestRead ==
  ASSUME NEW f \in Seq(LogLine)
  PROVE  \A d \in IdsIn(f) :
           (CHOOSE r \in ToSet(Collapse(f)) : r.id = d) = f[LastLine(f, d)]
<1> SUFFICES ASSUME NEW d \in IdsIn(f)
             PROVE  (CHOOSE r \in ToSet(Collapse(f)) : r.id = d) = f[LastLine(f, d)]
  OBVIOUS
<1>1. \A r \in ToSet(Collapse(f)) : r = f[LastLine(f, r.id)]
  BY Collapsed DEF ToSet
<1>2. \E r \in ToSet(Collapse(f)) : r.id = d
  <2>1. d \in IdsIn(Collapse(f))
    BY Collapsed
  <2>2. QED  BY <2>1 DEF ToSet, IdsIn
<1>3. QED  BY <1>1, <1>2

\* One more line: it is the last of its id, and nothing else moves.
LEMMA Appended ==
  ASSUME NEW f \in Seq(LogLine), NEW x \in LogLine
  PROVE  /\ Append(f, x) \in Seq(LogLine)
         /\ IdsIn(Append(f, x)) = IdsIn(f) \cup ({x.id} \ {0})
         /\ \A d \in IdsIn(f) \ {x.id} : LastLine(Append(f, x), d) = LastLine(f, d)
         /\ x.id # 0 => LastLine(Append(f, x), x.id) = Len(f) + 1
<1> DEFINE g == Append(f, x)
<1>1. /\ g \in Seq(LogLine) /\ Len(f) \in Nat /\ Len(g) = Len(f) + 1
      /\ DOMAIN f = 1..Len(f) /\ DOMAIN g = 1..(Len(f) + 1)
      /\ g[Len(f) + 1] = x /\ \A i \in DOMAIN f : g[i] = f[i]
  OBVIOUS
<1> HIDE DEF g
<1>2. DOMAIN g = DOMAIN f \cup {Len(f) + 1} /\ \A i \in DOMAIN f : i <= Len(f) + 1
  BY <1>1
<1>3. IdsIn(g) = IdsIn(f) \cup ({x.id} \ {0})
  BY <1>1, <1>2 DEF IdsIn
<1>4. ASSUME NEW d \in IdsIn(f) \ {x.id} PROVE LastLine(g, d) = LastLine(f, d)
  <2>1. LastLine(f, d) \in DOMAIN f /\ f[LastLine(f, d)].id = d
        /\ \A i \in DOMAIN f : f[i].id = d => i <= LastLine(f, d)
    BY LastLines
  <2>2. d \in IdsIn(g)
    BY <1>3
  <2>3. \A i \in DOMAIN g : g[i].id = d => i <= LastLine(f, d)
    BY <1>1, <1>2, <2>1
  <2>4. QED  BY <1>1, <1>2, <2>1, <2>2, <2>3, LastLineIs
<1>5. ASSUME x.id # 0 PROVE LastLine(g, x.id) = Len(f) + 1
  <2>1. x.id \in IdsIn(g)
    BY <1>3, <1>5
  <2>2. QED  BY <1>1, <1>2, <2>1, LastLineIs
<1>6. QED  BY <1>1, <1>3, <1>4, <1>5 DEF g

-----------------------------------------------------------------------------
(* The invariant.                                                          *)

\* A rewrite in progress has emptied the file, and writes every id once.
Rewriting ==
  /\ Distinct(rewrite) /\ Len(rewrite) <= MaxLines
  /\ ~Free => file = <<>> /\ ~torn

\* A line without its end is the last one, and its id has no attempt on record:
\* Ending refuses to write after one.
Torn ==
  torn =>
    /\ cut /\ file # <<>>
    /\ \A i \in DOMAIN file :
         file[i].id = file[Len(file)].id /\ file[i].id # 0 => ~file[i].attempt

AttemptsAcked ==
  \A i \in DOMAIN Lines : Lines[i].id # 0 /\ Lines[i].attempt => acked[Lines[i].id].attempt

WithinSeq == IdsIn(Lines) \subseteq 1..seq

IndInv == TypeOK /\ Rewriting /\ Torn /\ AttemptsAcked /\ WithinSeq /\ AckedIsRead

-----------------------------------------------------------------------------
LEMMA LinesTyped == TypeOK => Lines \in Seq(LogLine) /\ file \in Seq(LogLine)
<1> SUFFICES ASSUME TypeOK PROVE Lines \in Seq(LogLine) /\ file \in Seq(LogLine)
  OBVIOUS
<1>1. file \in Seq(LogLine) /\ rewrite \in Seq(Record)
  BY DEF TypeOK, LogLine
<1>2. rewrite \in Seq(LogLine)
  BY <1>1 DEF LogLine
<1>3. QED  BY <1>1, <1>2 DEF Lines

LEMMA LatestOfIs == TypeOK => \A d : LatestOf(d) = Latest(Lines, d)
<1> SUFFICES ASSUME TypeOK, NEW d PROVE LatestOf(d) = Latest(Lines, d)
  OBVIOUS
<1>1. CASE d \in IdsIn(Lines)
  BY <1>1, LinesTyped, LatestRead DEF LatestOf, Latest
<1>2. CASE d \notin IdsIn(Lines)
  BY <1>2 DEF LatestOf, Latest
<1>3. QED  BY <1>1, <1>2

LEMMA LatestOfIsNext == TypeOK' => \A d : LatestOf(d)' = Latest(Lines', d)
<1> SUFFICES ASSUME TypeOK', NEW d PROVE LatestOf(d)' = Latest(Lines', d)
  OBVIOUS
<1>1. Lines' \in Seq(LogLine)
  <2>1. file' \in Seq(LogLine) /\ rewrite' \in Seq(Record)
    BY DEF TypeOK, LogLine
  <2>2. rewrite' \in Seq(LogLine)
    BY <2>1 DEF LogLine
  <2>3. QED  BY <2>1, <2>2 DEF Lines
<1>2. CASE d \in IdsIn(Lines')
  BY <1>1, <1>2, LatestRead DEF LatestOf, Latest
<1>3. CASE d \notin IdsIn(Lines')
  BY <1>3 DEF LatestOf, Latest
<1>4. QED  BY <1>2, <1>3

\* A line that was cut is the last one.
LEMMA Continued ==
  ASSUME NEW f \in Seq(LogLine), f # <<>>
  PROVE  /\ Front(f) \in Seq(LogLine) /\ Len(Front(f)) = Len(f) - 1 /\ Len(f) \in Nat \ {0}
         /\ f[Len(f)] \in LogLine
         /\ f = Append(Front(f), f[Len(f)])
         /\ \A i \in DOMAIN Front(f) : i \in DOMAIN f /\ Front(f)[i] = f[i] /\ i # Len(f)
<1> DEFINE n == Len(f)
           g == Front(f)
           h == Append(g, f[n])
<1>1. n \in Nat \ {0} /\ DOMAIN f = 1..n /\ n \in DOMAIN f /\ f[n] \in LogLine
  OBVIOUS
<1>2. g \in Seq(LogLine) /\ Len(g) = n - 1 /\ \A i \in 1..(n - 1) : g[i] = f[i]
  BY <1>1 DEF Front
<1> HIDE DEF n, g
<1>3. DOMAIN g = 1..(n - 1)
  BY <1>2
<1>4. h \in Seq(LogLine) /\ Len(h) = n /\ h[n] = f[n]
  BY <1>1, <1>2
<1>5. \A i \in 1..(n - 1) : h[i] = f[i]
  BY <1>1, <1>2, <1>3
<1> HIDE DEF h
<1>6. \A i \in 1..n : h[i] = f[i]
  BY <1>1, <1>4, <1>5
<1>7. h = f
  BY <1>1, <1>4, <1>6
<1>8. QED  BY <1>1, <1>2, <1>3, <1>7 DEF n, g, h

LEMMA RowTyped ==
  ASSUME NEW d \in Ids, NEW s \in Statuses
  PROVE  /\ Row(d, s) \in Record /\ Row(d, s) \in LogLine /\ Junk \in LogLine
         /\ Row(d, s).id = d /\ d # 0 /\ Junk.id = 0
         /\ Row(d, s).status = s /\ Row(d, s).attempt = FALSE
BY BoundAssumption DEF Row, Record, LogLine, Junk, Ids

\* What a write about d leaves in the file, whole or cut short.
LEMMA Grown ==
  ASSUME IndInv, NEW d \in Ids, NEW s \in Statuses, Starting(d) \/ Ending(d),
         Len(file) < MaxLines, NEW f,
         \/ ~torn /\ (f = Append(file, Row(d, s)) \/ f = Append(file, Junk))
         \/ torn /\ f = Append(Front(file), Junk)
  PROVE  /\ f \in Seq(LogLine) /\ Len(f) <= MaxLines /\ f # <<>>
         /\ IdsIn(f) \subseteq IdsIn(file) \cup {d}
         /\ \A i \in DOMAIN f : \/ i = Len(f) /\ f[i] \in {Junk, Row(d, s)}
                                \/ i \in DOMAIN file /\ f[i] = file[i]
<1>1. file \in Seq(LogLine)
  BY LinesTyped DEF IndInv
<1>2. CASE ~torn
  <2>1. PICK x \in {Junk, Row(d, s)} : f = Append(file, x)
    BY <1>2
  <2>2. x \in LogLine /\ x.id \in {0, d}
    <3>1. CASE x = Junk
      BY <3>1, RowTyped
    <3>2. CASE x = Row(d, s)
      BY <3>2, RowTyped
    <3>3. QED  BY <2>1, <3>1, <3>2
  <2>3. QED  BY <1>1, <2>1, <2>2, Appended, BoundAssumption
<1>3. CASE torn
  <2>1. file # <<>>
    BY <1>3 DEF IndInv, Torn
  <2>2. Front(file) \in Seq(LogLine) /\ Len(Front(file)) = Len(file) - 1
        /\ file = Append(Front(file), file[Len(file)]) /\ file[Len(file)] \in LogLine
        /\ Len(file) \in Nat \ {0}
        /\ \A i \in DOMAIN Front(file) : i \in DOMAIN file /\ Front(file)[i] = file[i]
    BY <1>1, <2>1, Continued
  <2>3. IdsIn(Front(file)) \subseteq IdsIn(file)
    BY <1>1, <2>2, Appended
  <2>4. f = Append(Front(file), Junk) /\ Junk \in LogLine /\ Junk.id = 0
    BY <1>3, RowTyped
  <2>5. f \in Seq(LogLine) /\ IdsIn(f) = IdsIn(Front(file))
    <3>1. /\ Append(Front(file), Junk) \in Seq(LogLine)
          /\ IdsIn(Append(Front(file), Junk)) = IdsIn(Front(file)) \cup ({Junk.id} \ {0})
      BY <2>2, <2>4, Appended
    <3>2. QED  BY <2>4, <3>1
  <2>6. Len(f) = Len(file) /\ f # <<>>
    BY <2>2, <2>4
  <2>7. ASSUME NEW i \in DOMAIN f
        PROVE  \/ i = Len(f) /\ f[i] = Junk
               \/ i \in DOMAIN file /\ f[i] = file[i]
    <3> DEFINE g == Front(file)
    <3>1. g \in Seq(LogLine) /\ f = Append(g, Junk)
      BY <2>2, <2>4
    <3>2. \A j \in DOMAIN g : j \in DOMAIN file /\ g[j] = file[j]
      BY <2>2
    <3> HIDE DEF g
    <3>3. /\ Len(g) \in Nat /\ DOMAIN g = 1..Len(g)
          /\ Len(f) = Len(g) + 1 /\ DOMAIN f = 1..(Len(g) + 1) /\ f[Len(g) + 1] = Junk
          /\ \A j \in DOMAIN g : f[j] = g[j]
      BY <3>1
    <3>4. CASE i \in DOMAIN g
      BY <3>2, <3>3, <3>4
    <3>5. CASE i = Len(g) + 1
      BY <3>3, <3>5
    <3>6. QED  BY <3>3, <3>4, <3>5
  <2>8. QED  BY <2>3, <2>5, <2>6, <2>7, BoundAssumption
<1>4. QED  BY <1>2, <1>3

-----------------------------------------------------------------------------
(* The invariant, one operation at a time.                                 *)

LEMMA Starts == Init => IndInv
<1> SUFFICES ASSUME Init PROVE IndInv
  OBVIOUS
<1> USE BoundAssumption DEF Init
<1>1. Lines = <<>> /\ IdsIn(Lines) = {} /\ DOMAIN Lines = {}
  BY DEF Lines, Free, IdsIn
<1>2. TypeOK
  <2>1. file \in Seq(Record \cup {Junk}) /\ Len(file) <= MaxLines /\ rewrite \in Seq(Record)
    OBVIOUS
  <2>2. seq \in 0..MaxIds /\ crashes \in 0..MaxCrashes
    OBVIOUS
  <2>3. QED  BY <2>1, <2>2 DEF TypeOK
<1>3. Rewriting /\ Torn /\ AttemptsAcked /\ WithinSeq
  BY <1>1 DEF Rewriting, Torn, AttemptsAcked, WithinSeq, Distinct, Free
<1>4. AckedIsRead
  BY <1>1 DEF AckedIsRead, LatestOf
<1>5. QED  BY <1>2, <1>3, <1>4 DEF IndInv

\* A write about d leaves the attempts acknowledged and the ids within _seq.
LEMMA GrownKeeps ==
  ASSUME IndInv, NEW d \in Ids, NEW s \in Statuses, Starting(d) \/ Ending(d),
         Len(file) < MaxLines, Free,
         \/ ~torn /\ (file' = Append(file, Row(d, s)) \/ file' = Append(file, Junk))
         \/ torn /\ file' = Append(Front(file), Junk),
         acked' = acked \/ acked' = [acked EXCEPT ![d] = Row(d, s)],
         UNCHANGED <<seq, rewrite, crashes>>, {torn', cut'} \subseteq BOOLEAN
  PROVE  TypeOK' /\ Rewriting' /\ AttemptsAcked' /\ WithinSeq'
<1> USE DEF IndInv
<1>1. /\ file' \in Seq(LogLine) /\ Len(file') <= MaxLines /\ file' # <<>>
      /\ IdsIn(file') \subseteq IdsIn(file) \cup {d}
      /\ \A i \in DOMAIN file' : \/ i = Len(file') /\ file'[i] \in {Junk, Row(d, s)}
                                 \/ i \in DOMAIN file /\ file'[i] = file[i]
  BY Grown
<1>2. Lines = file /\ Lines' = file'
  BY DEF Lines, Free
<1>3. TypeOK'
  <2>1. file' \in Seq(Record \cup {Junk}) /\ Len(file') <= MaxLines
    BY <1>1 DEF LogLine
  <2>2. acked' \in [Ids -> Record \cup {NoRecord}]
    <3>1. acked \in [Ids -> Record \cup {NoRecord}] /\ Row(d, s) \in Record
      BY RowTyped DEF TypeOK
    <3>2. QED  BY <3>1
  <2>3. torn' \in BOOLEAN /\ cut' \in BOOLEAN
    OBVIOUS
  <2>4. QED  BY <2>1, <2>2, <2>3 DEF TypeOK
<1>4. Rewriting'
  BY DEF Rewriting, Free
<1>5. AttemptsAcked'
  <2> SUFFICES ASSUME NEW i \in DOMAIN file', file'[i].id # 0, file'[i].attempt
               PROVE  acked'[file'[i].id].attempt
    BY <1>2 DEF AttemptsAcked
  <2>1. i \in DOMAIN file /\ file'[i] = file[i]
    BY <1>1, RowTyped, ZenonT(30)
  <2>2. acked[file[i].id].attempt
    BY <1>2, <2>1 DEF AttemptsAcked
  <2>3. file[i].id = d => Ending(d)
    BY <2>1 DEF Starting, IdsIn
  <2>4. file[i].id # d
    BY <2>2, <2>3 DEF Ending
  <2>5. file[i].id \in Ids
    BY <2>1, LinesTyped, LineTypes
  <2>6. QED  BY <2>1, <2>2, <2>4, <2>5 DEF TypeOK
<1>6. WithinSeq'
  <2>1. d \in 1..seq
    BY DEF Starting, Ending, Ids, TypeOK
  <2>2. QED  BY <1>1, <1>2, <2>1 DEF WithinSeq
<1>7. QED  BY <1>3, <1>4, <1>5, <1>6

LEMMA WriteStep ==
  ASSUME IndInv, NEW d \in Ids, NEW s \in Statuses, Starting(d) \/ Ending(d),
         Write(Row(d, s))
  PROVE  IndInv'
<1> USE DEF IndInv
<1>1. /\ Free /\ Len(file) < MaxLines /\ file' = Written(Row(d, s)) /\ torn' = FALSE
      /\ acked' = [acked EXCEPT ![d] = Row(d, s)]
      /\ UNCHANGED <<seq, rewrite, cut, crashes>>
  BY RowTyped DEF Write
<1>2. \/ ~torn /\ file' = Append(file, Row(d, s))
      \/ torn /\ file' = Append(Front(file), Junk)
  BY <1>1 DEF Written, TypeOK
<1>3. {torn', cut'} \subseteq BOOLEAN
  BY <1>1 DEF TypeOK
<1>4. TypeOK' /\ Rewriting' /\ AttemptsAcked' /\ WithinSeq'
  BY <1>1, <1>2, <1>3, GrownKeeps
<1>5. Torn'
  BY <1>1 DEF Torn
<1>6. AckedIsRead'
  <2> SUFFICES ASSUME ~cut, NEW e \in Ids PROVE acked'[e] = Latest(Lines', e)
    BY <1>1, <1>4, LatestOfIsNext DEF AckedIsRead
  <2>1. file' = Append(file, Row(d, s)) /\ file \in Seq(LogLine)
        /\ Lines = file /\ Lines' = file'
    BY <1>1, <1>2, LinesTyped DEF Torn, Lines, Free
  <2>2. Row(d, s) \in LogLine /\ Row(d, s).id = d /\ d # 0
    BY RowTyped
  <2>3. /\ IdsIn(file') = IdsIn(file) \cup {d}
        /\ \A x \in IdsIn(file) \ {d} : LastLine(file', x) = LastLine(file, x)
        /\ LastLine(file', d) = Len(file) + 1
    BY <2>1, <2>2, Appended
  <2>4. CASE e = d
    <3>1. file'[Len(file) + 1] = Row(d, s)
      BY <2>1, <2>2
    <3>2. QED  BY <1>1, <2>1, <2>3, <2>4, <3>1 DEF Latest, TypeOK
  <2>5. CASE e # d
    <3>1. acked'[e] = acked[e] /\ acked[e] = Latest(file, e)
      BY <1>1, <2>1, <2>5, LatestOfIs DEF AckedIsRead, TypeOK
    <3>2. ASSUME e \in IdsIn(file) PROVE file'[LastLine(file, e)] = file[LastLine(file, e)]
      BY <2>1, <2>2, <3>2, LastLines
    <3>3. QED  BY <2>1, <2>3, <2>5, <3>1, <3>2 DEF Latest
  <2>6. QED  BY <2>4, <2>5
<1>7. QED  BY <1>4, <1>5, <1>6

LEMMA TearStep ==
  ASSUME IndInv, NEW d \in Ids, NEW s \in Statuses, Tear(d, s)
  PROVE  IndInv'
<1> USE DEF IndInv
<1>1. /\ Free /\ Len(file) < MaxLines
      /\ Starting(d) \/ Ending(d)
      /\ torn' = TRUE /\ cut' = TRUE
      /\ UNCHANGED <<seq, rewrite, acked, crashes>>
  BY DEF Tear
<1>2. \/ ~torn /\ (file' = Append(file, Row(d, s)) \/ file' = Append(file, Junk))
      \/ torn /\ file' = Append(Front(file), Junk)
  BY DEF Tear, TypeOK
<1>3. TypeOK' /\ Rewriting' /\ AttemptsAcked' /\ WithinSeq'
  BY <1>1, <1>2, GrownKeeps
<1>4. Torn'
  <2>1. /\ file' # <<>>
        /\ \A i \in DOMAIN file' : \/ i = Len(file') /\ file'[i] \in {Junk, Row(d, s)}
                                   \/ i \in DOMAIN file /\ file'[i] = file[i]
    BY <1>1, <1>2, Grown
  <2>2. file' \in Seq(LogLine)
    BY <1>3 DEF TypeOK, LogLine
  <2>3. Len(file') \in DOMAIN file' /\ file'[Len(file')] \in {Junk, Row(d, s)}
    BY <1>1, <1>2, LinesTyped, Continued, RowTyped DEF Torn
  <2>4. ASSUME NEW i \in DOMAIN file', file'[i].id = d PROVE ~file'[i].attempt
    <3>1. CASE i \in DOMAIN file /\ file'[i] = file[i]
      <4>1. d \in IdsIn(file)
        BY <2>4, <3>1, RowTyped DEF IdsIn
      <4>2. ~acked[d].attempt
        BY <1>1, <4>1 DEF Starting, Ending
      <4>3. Lines = file
        BY <1>1 DEF Lines
      <4>4. QED  BY <2>4, <3>1, <4>2, <4>3, RowTyped DEF AttemptsAcked
    <3>2. CASE file'[i] \in {Junk, Row(d, s)}
      BY <2>4, <3>2, RowTyped
    <3>3. QED  BY <2>1, <3>1, <3>2
  <2>5. ASSUME NEW i \in DOMAIN file', file'[i].id = file'[Len(file')].id, file'[i].id # 0
        PROVE  ~file'[i].attempt
    <3>1. file'[i].id = d
      <4>1. file'[Len(file')] = Row(d, s)
        BY <2>3, <2>5, RowTyped
      <4>2. Row(d, s).id = d
        BY RowTyped
      <4>3. QED  BY <2>5, <4>1, <4>2
    <3>2. QED  BY <2>4, <3>1
  <2>6. QED  BY <1>1, <2>1, <2>5 DEF Torn
<1>5. AckedIsRead'
  BY <1>1 DEF AckedIsRead
<1>6. QED  BY <1>3, <1>4, <1>5

LEMMA NextIdStep ==
  ASSUME IndInv, NextId
  PROVE  IndInv'
<1> USE DEF IndInv
<1>1. /\ seq < MaxIds /\ seq' = seq + 1
      /\ UNCHANGED <<file, torn, rewrite, acked, cut, crashes>>
  BY DEF NextId
<1>2. Lines' = Lines
  BY <1>1 DEF Lines, Free
<1>3. TypeOK'
  BY <1>1, BoundAssumption DEF TypeOK
<1>4. Rewriting' /\ Torn' /\ AttemptsAcked'
  BY <1>1, <1>2 DEF Rewriting, Torn, AttemptsAcked, Free
<1>5. WithinSeq'
  BY <1>1, <1>2 DEF WithinSeq, TypeOK
<1>6. AckedIsRead'
  BY <1>1, <1>2, <1>3, LatestOfIs, LatestOfIsNext DEF AckedIsRead
<1>7. QED  BY <1>3, <1>4, <1>5, <1>6

\* mark_attempt writes back what was read, with one attempt more.
LEMMA MarkedReads ==
  ASSUME NEW f \in Seq(LogLine), NEW g, NEW d \in Ids,
         DOMAIN g = DOMAIN Collapse(f), g = [i \in DOMAIN g |-> g[i]],
         \A i \in DOMAIN g :
           g[i] = [Collapse(f)[i] EXCEPT !.attempt = @ \/ Collapse(f)[i].id = d]
  PROVE  /\ g \in Seq(Record) /\ Len(g) <= Len(f) /\ Distinct(g)
         /\ IdsIn(g) = IdsIn(f)
         /\ \A e \in IdsIn(f) :
              g[LastLine(g, e)] = [f[LastLine(f, e)] EXCEPT !.attempt = @ \/ e = d]
         /\ \A x, e \in IdsIn(f) : LastLine(g, x) < LastLine(g, e)
                                     <=> LastLine(f, x) < LastLine(f, e)
<1> DEFINE c == Collapse(f)
<1>1. /\ c \in Seq(Record) /\ Len(c) <= Len(f) /\ Distinct(c) /\ IdsIn(c) = IdsIn(f)
      /\ \A k \in DOMAIN c : c[k] = f[LastLine(f, c[k].id)]
      /\ \A x, e \in IdsIn(f) : LastLine(c, x) < LastLine(c, e)
                                  <=> LastLine(f, x) < LastLine(f, e)
  BY Collapsed
<1>2. g = [i \in DOMAIN c |-> g[i]]
      /\ \A i \in DOMAIN c : g[i] = [c[i] EXCEPT !.attempt = @ \/ c[i].id = d]
  OBVIOUS
<1>4. DOMAIN g = DOMAIN c
  OBVIOUS
<1> HIDE DEF c
<1>3. ASSUME NEW i \in DOMAIN c
      PROVE  /\ c[i] \in Record /\ g[i] \in Record
             /\ g[i] = [c[i] EXCEPT !.attempt = @ \/ c[i].id = d]
             /\ g[i].id = c[i].id
  <2>1. c[i] \in Record
    BY <1>1
  <2>2. g[i] = [c[i] EXCEPT !.attempt = @ \/ c[i].id = d]
    BY <1>2
  <2>3. (c[i].attempt \/ c[i].id = d) \in BOOLEAN
    OBVIOUS
  <2>4. QED  BY <2>1, <2>2, <2>3 DEF Record
<1>5. g \in Seq(Record) /\ Len(g) = Len(c)
  <2>1. Len(c) \in Nat /\ DOMAIN c = 1..Len(c)
    BY <1>1
  <2>2. g \in [1..Len(c) -> Record]
    BY <1>2, <1>3, <2>1
  <2>3. QED  BY <2>1, <2>2
<1>6. Distinct(g) /\ IdsIn(g) = IdsIn(f)
  <2>1. Distinct(g)
    BY <1>1, <1>3, <1>4 DEF Distinct
  <2>2. IdsIn(g) = IdsIn(c)
    BY <1>3, <1>4 DEF IdsIn
  <2>3. QED  BY <1>1, <2>1, <2>2
<1>7. g \in Seq(LogLine) /\ c \in Seq(LogLine)
  BY <1>1, <1>5 DEF LogLine
<1>8. ASSUME NEW e \in IdsIn(f)
      PROVE  /\ LastLine(g, e) = LastLine(c, e)
             /\ g[LastLine(g, e)] = [f[LastLine(f, e)] EXCEPT !.attempt = @ \/ e = d]
  <2>1. PICK i \in DOMAIN c : c[i].id = e
    BY <1>1 DEF IdsIn
  <2>2. e # 0
    BY DEF IdsIn
  <2>3. LastLine(c, e) = i
    BY <1>1, <1>7, <2>1, <2>2, DistinctLast
  <2>4. LastLine(g, e) = i
    BY <1>3, <1>4, <1>6, <1>7, <2>1, <2>2, DistinctLast
  <2>5. c[i] = f[LastLine(f, e)]
    BY <1>1, <2>1
  <2>6. QED  BY <1>3, <2>1, <2>3, <2>4, <2>5
<1>9. QED  BY <1>1, <1>5, <1>6, <1>8

LEMMA MarkStep ==
  ASSUME IndInv, NEW d \in Ids, MarkAttempt(d)
  PROVE  IndInv'
<1> USE DEF IndInv
<1>1. /\ Free /\ d \in IdsIn(file) /\ acked[d].status = "DONE"
      /\ rewrite' = Marked(d) /\ file' = <<>> /\ torn' = FALSE
      /\ acked' = [acked EXCEPT ![d].attempt = TRUE]
      /\ UNCHANGED <<seq, cut, crashes>>
  BY DEF MarkAttempt
<1>2. file \in Seq(LogLine) /\ Len(file) <= MaxLines /\ Len(file) \in Nat /\ Lines = file
  BY <1>1, LinesTyped DEF Lines, TypeOK
<1>3. PICK g : g = rewrite'
  OBVIOUS
<1>4. /\ g \in Seq(Record) /\ Len(g) <= Len(file) /\ Distinct(g)
      /\ IdsIn(g) = IdsIn(file)
      /\ \A e \in IdsIn(file) :
           g[LastLine(g, e)] = [file[LastLine(file, e)] EXCEPT !.attempt = @ \/ e = d]
  <2>1. /\ DOMAIN g = DOMAIN Collapse(file) /\ g = [i \in DOMAIN g |-> g[i]]
        /\ \A i \in DOMAIN g :
             g[i] = [Collapse(file)[i] EXCEPT !.attempt = @ \/ Collapse(file)[i].id = d]
    BY <1>1, <1>3 DEF Marked
  <2>2. QED  BY <1>2, <2>1, MarkedReads
<1>5. g # <<>>
  <2>1. d \in IdsIn(g)
    BY <1>1, <1>4
  <2>2. \E i \in DOMAIN g : g[i].id = d
    BY <2>1 DEF IdsIn
  <2>3. DOMAIN <<>> = {}
    OBVIOUS
  <2>4. QED  BY <2>2, <2>3
<1>6. Lines' = g
  BY <1>3, <1>5 DEF Lines, Free
<1>7. acked[d] \in Record /\ acked' \in [Ids -> Record \cup {NoRecord}]
  <2>1. acked[d] \in Record /\ acked \in [Ids -> Record \cup {NoRecord}]
    BY <1>1 DEF TypeOK, NoRecord
  <2>2. [acked[d] EXCEPT !.attempt = TRUE] \in Record
    BY <2>1 DEF Record
  <2>3. QED  BY <1>1, <2>1, <2>2
<1>8. TypeOK'
  <2>1. file' \in Seq(Record \cup {Junk}) /\ Len(file') <= MaxLines /\ torn' \in BOOLEAN
    <3>1. <<>> \in Seq(Record \cup {Junk}) /\ Len(<<>>) = 0
      OBVIOUS
    <3>2. file' = <<>> /\ torn' = FALSE
      BY <1>1
    <3>3. MaxLines \in Nat
      BY BoundAssumption
    <3>4. Len(file') <= MaxLines
      BY <3>1, <3>2, <3>3
    <3>5. file' \in Seq(Record \cup {Junk}) /\ torn' \in BOOLEAN
      BY <3>1, <3>2
    <3>6. QED  BY <3>4, <3>5
  <2>2. rewrite' \in Seq(Record) /\ acked' \in [Ids -> Record \cup {NoRecord}]
    BY <1>3, <1>4, <1>7
  <2>3. seq' \in 0..MaxIds /\ cut' \in BOOLEAN /\ crashes' \in 0..MaxCrashes
    BY <1>1 DEF TypeOK
  <2>4. QED  BY <2>1, <2>2, <2>3 DEF TypeOK
<1>9. Rewriting' /\ Torn'
  BY <1>1, <1>2, <1>3, <1>4, BoundAssumption DEF Rewriting, Torn
<1>10. WithinSeq'
  BY <1>1, <1>2, <1>4, <1>6 DEF WithinSeq
<1>11. AttemptsAcked'
  <2> SUFFICES ASSUME NEW i \in DOMAIN g, g[i].id # 0, g[i].attempt
               PROVE  acked'[g[i].id].attempt
    BY <1>6 DEF AttemptsAcked
  <2> DEFINE e == g[i].id
             m == LastLine(file, e)
  <2>1. g \in Seq(LogLine)
    BY <1>4 DEF LogLine
  <2>2. e \in IdsIn(g) /\ LastLine(g, e) = i
    BY <1>4, <2>1, DistinctLast
  <2>3. g[i] = [file[m] EXCEPT !.attempt = @ \/ e = d]
    BY <1>4, <2>2
  <2>4. m \in DOMAIN file /\ file[m].id = e /\ file[m] \in Record /\ e \in Ids
    BY <1>2, <1>4, <2>2, LastLines
  <2>5. file[m].attempt \/ e = d
    BY <2>3, <2>4 DEF Record
  <2>6. file[m].attempt => acked[e].attempt
    BY <1>2, <2>4, LineTypes DEF AttemptsAcked
  <2>7. acked'[e].attempt
    BY <1>1, <1>7, <2>4, <2>5, <2>6 DEF TypeOK, Record
  <2>8. QED  BY <2>7
<1>12. AckedIsRead'
  <2> SUFFICES ASSUME ~cut, NEW e \in Ids PROVE acked'[e] = Latest(Lines', e)
    BY <1>1, <1>8, LatestOfIsNext DEF AckedIsRead
  <2>1. acked[e] = Latest(file, e)
    BY <1>2, LatestOfIs DEF AckedIsRead
  <2>2. CASE e \notin IdsIn(file)
    BY <1>1, <1>4, <1>6, <2>1, <2>2 DEF Latest, TypeOK
  <2>3. CASE e \in IdsIn(file)
    <3>1. acked[e] = file[LastLine(file, e)] /\ acked[e] \in Record
      BY <1>2, <2>1, <2>3, LastLines DEF Latest
    <3>2. Latest(Lines', e) = [acked[e] EXCEPT !.attempt = @ \/ e = d]
      BY <1>4, <1>6, <2>3, <3>1 DEF Latest
    <3>3. acked'[e] = IF e = d THEN [acked[e] EXCEPT !.attempt = TRUE] ELSE acked[e]
      BY <1>1 DEF TypeOK
    <3>4. acked'[e] = [acked[e] EXCEPT !.attempt = @ \/ e = d]
      BY <3>1, <3>3 DEF Record
    <3>5. QED  BY <3>2, <3>4
  <2>4. QED  BY <2>2, <2>3
<1>13. QED  BY <1>8, <1>9, <1>10, <1>11, <1>12

LEMMA MarkWritesStep ==
  ASSUME IndInv, MarkWrites
  PROVE  IndInv' /\ Lines' = Lines
<1> USE DEF IndInv
<1>1. ~Free /\ file' = rewrite /\ rewrite' = <<>> /\ UNCHANGED <<torn, seq, acked, cut, crashes>>
  BY DEF MarkWrites
<1>2. Lines = rewrite /\ Lines' = rewrite /\ ~torn
  BY <1>1 DEF Lines, Free, Rewriting
<1>3. TypeOK'
  <2>1. rewrite \in Seq(Record \cup {Junk})
    BY DEF TypeOK
  <2>2. QED  BY <1>1, <2>1 DEF TypeOK, Rewriting
<1>4. Rewriting' /\ Torn'
  BY <1>1, <1>2, BoundAssumption DEF Rewriting, Torn, Free, Distinct
<1>5. AttemptsAcked' /\ WithinSeq'
  BY <1>1, <1>2 DEF AttemptsAcked, WithinSeq
<1>6. AckedIsRead'
  BY <1>1, <1>2, <1>3, LatestOfIs, LatestOfIsNext DEF AckedIsRead
<1>7. QED  BY <1>2, <1>3, <1>4, <1>5, <1>6

LEMMA SeqIsHighest ==
  ASSUME NEW f \in Seq(LogLine)
  PROVE  /\ MaxExistingSeq(f) \in 0..MaxIds
         /\ IdsIn(f) \subseteq 1..MaxExistingSeq(f)
         /\ IdsIn(f) # {} => MaxExistingSeq(f) \in IdsIn(f)
<1>1. IdsIn(f) \in SUBSET (0..MaxIds) /\ 0 \notin IdsIn(f)
  BY LastLines DEF Ids, IdsIn
<1>2. CASE IdsIn(f) = {}
  BY <1>2, BoundAssumption DEF MaxExistingSeq
<1>3. CASE IdsIn(f) # {}
  <2>1. Max(IdsIn(f)) \in IdsIn(f) /\ \A x \in IdsIn(f) : x <= Max(IdsIn(f))
    BY <1>1, <1>3, BoundAssumption, MaxIsLargest
  <2>2. MaxExistingSeq(f) = Max(IdsIn(f))
    BY <1>3 DEF MaxExistingSeq
  <2>3. \A x \in IdsIn(f) : x \in 1..MaxIds
    BY <1>1
  <2>4. QED  BY <1>1, <2>1, <2>2, <2>3
<1>4. QED  BY <1>2, <1>3

\* The first lines of a rewrite.
LEMMA Prefix ==
  ASSUME NEW g \in Seq(Record), NEW n \in 0..Len(g) - 1, NEW h, h = SubSeq(g, 1, n)
  PROVE  /\ h \in Seq(LogLine) /\ Len(h) = n /\ DOMAIN h = 1..n
         /\ \A i \in 1..n : i \in DOMAIN g /\ h[i] = g[i]
         /\ Append(h, Junk) \in Seq(LogLine) /\ Len(Append(h, Junk)) = n + 1
         /\ DOMAIN Append(h, Junk) = 1..(n + 1) /\ Append(h, Junk)[n + 1] = Junk
         /\ \A i \in 1..n : Append(h, Junk)[i] = g[i]
<1>1. Len(g) \in Nat /\ n \in Nat /\ DOMAIN g = 1..Len(g) /\ \A i \in 1..n : i \in DOMAIN g
  OBVIOUS
<1>2. h \in Seq(Record) /\ Len(h) = n /\ \A i \in 1..n : h[i] = g[i]
  BY <1>1
<1>3. DOMAIN h = 1..n
  BY <1>2
<1>4. h \in Seq(LogLine) /\ Junk \in LogLine
  BY <1>2 DEF LogLine
<1>5. QED  BY <1>1, <1>2, <1>3, <1>4

\* A session that ends in a rewrite leaves lines of it, and perhaps junk.
LEMMA CutShort ==
  ASSUME IndInv, CrashAndResume, ~Free
  PROVE  /\ file' \in Seq(LogLine) /\ Len(file') <= MaxLines
         /\ \A i \in DOMAIN file' : \/ file'[i] = Junk
                                    \/ i \in DOMAIN rewrite /\ file'[i] = rewrite[i]
         /\ torn' \in BOOLEAN /\ (torn' => file' # <<>> /\ file'[Len(file')] = Junk)
<1>1. PICK n \in 0..Len(rewrite) - 1 :
        \/ file' = SubSeq(rewrite, 1, n) /\ torn' = FALSE
        \/ file' = Append(SubSeq(rewrite, 1, n), Junk) /\ torn' = TRUE
  BY DEF CrashAndResume
<1>2. PICK h : h = SubSeq(rewrite, 1, n)
  OBVIOUS
<1>3. rewrite \in Seq(Record) /\ Len(rewrite) <= MaxLines /\ Len(rewrite) \in Nat /\ MaxLines \in Nat
  BY BoundAssumption DEF IndInv, TypeOK, Rewriting
<1>4. /\ h \in Seq(LogLine) /\ Len(h) = n /\ DOMAIN h = 1..n
      /\ \A i \in 1..n : i \in DOMAIN rewrite /\ h[i] = rewrite[i]
      /\ Append(h, Junk) \in Seq(LogLine) /\ Len(Append(h, Junk)) = n + 1
      /\ DOMAIN Append(h, Junk) = 1..(n + 1) /\ Append(h, Junk)[n + 1] = Junk
      /\ \A i \in 1..n : Append(h, Junk)[i] = rewrite[i]
  <2>1. rewrite \in Seq(Record) /\ n \in 0..Len(rewrite) - 1
    BY <1>3
  <2>2. QED  BY <1>2, <2>1, Prefix
<1>5. CASE file' = h /\ torn' = FALSE
  <2>1. Len(file') <= MaxLines /\ file' \in Seq(LogLine)
    BY <1>3, <1>4, <1>5
  <2>2. \A i \in DOMAIN file' : i \in DOMAIN rewrite /\ file'[i] = rewrite[i]
    BY <1>4, <1>5
  <2>3. QED  BY <1>5, <2>1, <2>2
<1>6. CASE file' = Append(h, Junk) /\ torn' = TRUE
  <2>1. \A i \in 1..(n + 1) : i \in 1..n \/ i = n + 1
    OBVIOUS
  <2>2. \A i \in DOMAIN file' : \/ file'[i] = Junk
                                \/ i \in DOMAIN rewrite /\ file'[i] = rewrite[i]
    BY <1>4, <1>6, <2>1
  <2>3. file' # <<>> /\ Len(file') <= MaxLines /\ file'[Len(file')] = Junk
    BY <1>3, <1>4, <1>6
  <2>4. QED  BY <1>4, <1>6, <2>2, <2>3
<1>7. QED  BY <1>1, <1>2, <1>5, <1>6

LEMMA CrashStep ==
  ASSUME IndInv, CrashAndResume
  PROVE  IndInv'
<1> USE DEF IndInv
<1>1. /\ crashes < MaxCrashes /\ crashes' = crashes + 1
      /\ cut' = (cut \/ ~Free) /\ rewrite' = <<>>
      /\ seq' = MaxExistingSeq(file') /\ acked' = acked
      /\ Free => UNCHANGED <<file, torn>>
  <2>1. Free => Len(rewrite) = 0 /\ 0..Len(rewrite) - 1 = {}
    BY DEF Free
  <2>2. QED  BY <2>1 DEF CrashAndResume
<1>2. file' \in Seq(LogLine) /\ Len(file') <= MaxLines /\ torn' \in BOOLEAN
  BY <1>1, LinesTyped, CutShort DEF TypeOK
<1>3. Lines' = file'
  BY <1>1 DEF Lines, Free
<1>4. TypeOK'
  <2>1. file' \in Seq(Record \cup {Junk}) /\ seq' \in 0..MaxIds
    BY <1>1, <1>2, SeqIsHighest DEF LogLine
  <2>2. rewrite' \in Seq(Record)
    BY <1>1
  <2>3. cut' \in BOOLEAN /\ crashes' \in 0..MaxCrashes /\ acked' \in [Ids -> Record \cup {NoRecord}]
    BY <1>1, BoundAssumption DEF TypeOK
  <2>4. QED  BY <1>2, <2>1, <2>2, <2>3 DEF TypeOK
<1>5. Rewriting'
  BY <1>1, BoundAssumption DEF Rewriting, Free, Distinct
<1>6. WithinSeq'
  BY <1>1, <1>2, <1>3, SeqIsHighest DEF WithinSeq
<1>7. CASE Free
  <2>1. Lines = file /\ Lines' = Lines
    BY <1>1, <1>3, <1>7 DEF Lines
  <2>2. Torn' /\ AttemptsAcked'
    <3>1. UNCHANGED <<file, torn, acked>> /\ (cut => cut')
      BY <1>1, <1>7
    <3>2. Torn'
      BY <3>1 DEF Torn
    <3>3. QED  BY <2>1, <3>1, <3>2 DEF AttemptsAcked
  <2>3. AckedIsRead'
    BY <1>1, <1>4, <1>7, <2>1, LatestOfIs, LatestOfIsNext DEF AckedIsRead
  <2>4. QED  BY <1>4, <1>5, <1>6, <2>2, <2>3
<1>8. CASE ~Free
  <2>1. Lines = rewrite
    BY <1>8 DEF Lines
  <2>2. Junk.id = 0
    BY DEF Junk
  <2>3. Torn'
    BY <1>1, <1>8, <2>2, CutShort DEF Torn
  <2>4. AttemptsAcked'
    <3>1. \A i \in DOMAIN file' : \/ file'[i] = Junk
                                  \/ i \in DOMAIN rewrite /\ file'[i] = rewrite[i]
      BY <1>8, CutShort
    <3>2. QED  BY <1>1, <1>3, <2>1, <2>2, <3>1 DEF AttemptsAcked
  <2>5. AckedIsRead'
    BY <1>1, <1>8 DEF AckedIsRead
  <2>6. QED  BY <1>4, <1>5, <1>6, <2>3, <2>4, <2>5
<1>9. QED  BY <1>7, <1>8

LEMMA NextStep ==
  ASSUME IndInv, [Next]_vars
  PROVE  IndInv'
<1>1. CASE UNCHANGED vars
  BY <1>1 DEF vars, IndInv, TypeOK, Rewriting, Torn, AttemptsAcked, WithinSeq, AckedIsRead,
              Free, Lines, LatestOf
<1>2. CASE \E d \in Ids : RecordStarted(d)
  BY <1>2, WriteStep DEF RecordStarted, Statuses
<1>3. CASE \E d \in Ids, s \in Terminal : RecordEnd(d, s)
  BY <1>3, WriteStep DEF RecordEnd, Statuses
<1>4. CASE \E d \in Ids, s \in Statuses : Tear(d, s)
  BY <1>4, TearStep
<1>5. CASE \E d \in Ids : MarkAttempt(d)
  BY <1>5, MarkStep
<1>6. CASE NextId \/ MarkWrites \/ CrashAndResume
  BY <1>6, NextIdStep, MarkWritesStep, CrashStep
<1>7. QED  BY <1>1, <1>2, <1>3, <1>4, <1>5, <1>6 DEF Next

\* The invariant behind the other theorems.
THEOREM Inductive == Spec => []IndInv
<1>1. IndInv /\ [Next]_vars => IndInv'
  BY NextStep
<1>2. QED  BY <1>1, Starts, PTL DEF Spec

\* TypeOK: the file holds records and junk within its bound, and a rewrite in
\* progress holds only records.
THEOREM TypeCorrect == Spec => []TypeOK
<1>1. IndInv => TypeOK
  BY DEF IndInv
<1>2. QED  BY <1>1, Inductive, PTL

\* AckedIsRead: as long as no write was cut short, every reader finds for every
\* delegation the record that its last writer was told is written, over any
\* number of rewrites and sessions (record, mark_attempt, _load_all).
THEOREM AckedRecordsAreRead == Spec => []AckedIsRead
<1>1. IndInv => AckedIsRead
  BY DEF IndInv
<1>2. QED  BY <1>1, Inductive, PTL

\* NoReissue: no session hands out the id of a delegation on record
\* (_max_existing_seq).
THEOREM IdsAreNotReissued == Spec => NoReissue
<1>1. ASSUME IndInv, Next, seq' = seq + 1, ~cut
      PROVE  acked[seq'] = NoRecord
  <2>1. TypeOK /\ TypeOK' /\ seq' \in Ids
    BY <1>1, NextStep DEF IndInv, TypeOK, Ids
  <2>2. seq' \notin IdsIn(Lines)
    BY <1>1, <2>1 DEF IndInv, WithinSeq, TypeOK
  <2>3. QED  BY <1>1, <2>1, <2>2, LatestOfIs DEF IndInv, AckedIsRead, Latest
<1>2. IndInv /\ [Next]_vars => [(seq' = seq + 1 /\ ~cut) => acked[seq'] = NoRecord]_vars
  BY <1>1
<1>3. QED  BY <1>2, Inductive, PTL DEF Spec, NoReissue

-----------------------------------------------------------------------------
(* The refinement: what a step of the log does to what its readers find.   *)

Rec(f) == [d \in Ids |-> [status |-> Latest(f, d).status, attempt |-> Latest(f, d).attempt]]

LEMMA Mapped ==
  ASSUME IndInv
  PROVE  /\ RecordOf = Rec(Lines) /\ OrderOf = Before(Lines)
         /\ Abstract!Recorded = IdsIn(Lines)
<1>1. RecordOf = Rec(Lines)
  BY LatestOfIs DEF IndInv, RecordOf, Rec
<1>2. Abstract!Recorded = IdsIn(Lines)
  <2>1. Lines \in Seq(LogLine)
    BY LinesTyped DEF IndInv
  <2>2. \A d \in Ids : d \notin IdsIn(Lines) => RecordOf[d] = Abstract!None
    BY <1>1 DEF Rec, Latest, NoRecord, Abstract!None
  <2>3. ASSUME NEW d \in IdsIn(Lines) PROVE d \in Ids /\ RecordOf[d] # Abstract!None
    <3>1. d \in Ids /\ Lines[LastLine(Lines, d)].status \in Statuses
      BY <2>1, LastLines DEF Record
    <3>2. RecordOf[d].status \in Statuses
      BY <1>1, <3>1 DEF Rec, Latest
    <3>3. QED  BY <3>1, <3>2 DEF Abstract!None, Statuses, Terminal
  <2>4. QED  BY <2>2, <2>3 DEF Abstract!Recorded
<1>3. QED  BY <1>1, <1>2 DEF OrderOf, Before

LEMMA MappedNext ==
  ASSUME IndInv'
  PROVE  /\ RecordOf' = Rec(Lines') /\ OrderOf' = Before(Lines')
         /\ Abstract!Recorded' = IdsIn(Lines')
         /\ Lines' \in Seq(LogLine)
<1>1. RecordOf' = Rec(Lines')
  BY LatestOfIsNext DEF IndInv, RecordOf, Rec
<1>2. Lines' \in Seq(LogLine)
  <2>1. file' \in Seq(LogLine) /\ rewrite' \in Seq(Record)
    BY DEF IndInv, TypeOK, LogLine
  <2>2. rewrite' \in Seq(LogLine)
    BY <2>1 DEF LogLine
  <2>3. QED  BY <2>1, <2>2 DEF Lines
<1>3. Abstract!Recorded' = IdsIn(Lines')
  <2>1. \A d \in Ids : d \notin IdsIn(Lines') => RecordOf'[d] = Abstract!None
    BY <1>1 DEF Rec, Latest, NoRecord, Abstract!None
  <2>2. ASSUME NEW d \in IdsIn(Lines') PROVE d \in Ids /\ RecordOf'[d] # Abstract!None
    <3>1. d \in Ids /\ Lines'[LastLine(Lines', d)].status \in Statuses
      BY <1>2, LastLines DEF Record
    <3>2. RecordOf'[d].status \in Statuses
      BY <1>1, <2>2, <3>1 DEF Rec, Latest
    <3>3. QED  BY <3>1, <3>2 DEF Abstract!None, Statuses, Terminal
  <2>3. QED  BY <2>1, <2>2 DEF Abstract!Recorded
<1>4. QED  BY <1>1, <1>2, <1>3 DEF OrderOf, Before

\* Two ids have different last lines, so their order is strict and total.
LEMMA BeforeOrders ==
  ASSUME NEW f \in Seq(LogLine)
  PROVE  Abstract!Orders(Before(f), IdsIn(f))
<1>1. IdsIn(f) \subseteq Ids
  BY LastLines
<1>2. \A d \in IdsIn(f) : LastLine(f, d) \in Nat /\ f[LastLine(f, d)].id = d
  BY LastLines
<1>3. \A d, e \in IdsIn(f) : <<d, e>> \in Before(f) <=> LastLine(f, d) < LastLine(f, e)
  BY <1>1 DEF Before
<1>4. \A d, e \in IdsIn(f) : d # e => LastLine(f, d) # LastLine(f, e)
  BY <1>2
<1>5. Before(f) \subseteq IdsIn(f) \X IdsIn(f)
  BY DEF Before
<1>6. ASSUME NEW d \in IdsIn(f), NEW e \in IdsIn(f)
      PROVE  <<d, e>> \in Before(f) <=> (d # e /\ <<e, d>> \notin Before(f))
  <2>1. /\ <<d, e>> \in Before(f) <=> LastLine(f, d) < LastLine(f, e)
        /\ <<e, d>> \in Before(f) <=> LastLine(f, e) < LastLine(f, d)
    BY <1>3
  <2>2. LastLine(f, d) \in Nat /\ LastLine(f, e) \in Nat
    BY <1>2
  <2>3. CASE d = e
    <3>1. ~(LastLine(f, d) < LastLine(f, e))
      BY <2>2, <2>3
    <3>2. QED  BY <2>1, <2>3, <3>1
  <2>4. CASE d # e
    <3>1. LastLine(f, d) # LastLine(f, e)
      BY <1>4, <2>4
    <3>2. LastLine(f, d) < LastLine(f, e) <=> ~(LastLine(f, e) < LastLine(f, d))
      BY <2>2, <3>1
    <3>3. QED  BY <2>1, <2>4, <3>2
  <2>5. QED  BY <2>3, <2>4
<1>7. \A c, d, e \in IdsIn(f) :
        <<c, d>> \in Before(f) /\ <<d, e>> \in Before(f) => <<c, e>> \in Before(f)
  BY <1>2, <1>3
<1>8. QED  BY <1>5, <1>6, <1>7 DEF Abstract!Orders

\* The logs f and g read the same, d aside.
Alike(f, g, d) ==
  /\ IdsIn(f) \ {d} = IdsIn(g) \ {d}
  /\ \A e \in IdsIn(f) \ {d} : /\ f[LastLine(f, e)] = g[LastLine(g, e)]
                               /\ LastLine(f, e) = LastLine(g, e)

LEMMA AlikeAppended ==
  ASSUME NEW f \in Seq(LogLine), NEW x \in LogLine, NEW d, x.id \in {0, d}
  PROVE  Alike(f, Append(f, x), d)
<1> DEFINE g == Append(f, x)
<1>1. /\ IdsIn(g) = IdsIn(f) \cup ({x.id} \ {0})
      /\ \A e \in IdsIn(f) \ {x.id} : LastLine(g, e) = LastLine(f, e)
  BY Appended
<1>2. \A i \in DOMAIN f : g[i] = f[i]
  OBVIOUS
<1>3. \A e \in IdsIn(f) : LastLine(f, e) \in DOMAIN f /\ e # 0
  BY LastLines DEF IdsIn
<1> HIDE DEF g
<1>4. QED  BY <1>1, <1>2, <1>3 DEF Alike, g

LEMMA AlikeTrans ==
  ASSUME NEW f, NEW g, NEW h, NEW d, Alike(f, g, d), Alike(f, h, d)
  PROVE  Alike(g, h, d)
BY DEF Alike

\* What one write that is cut short costs.
LEMMA DamageStep ==
  ASSUME IndInv, IndInv', NEW d \in Ids, Alike(Lines, Lines', d),
         d \in IdsIn(Lines') => ~Lines'[LastLine(Lines', d)].attempt,
         cut', seq' = seq
  PROVE  Abstract!Damage(d)
<1> DEFINE f == Lines
           g == Lines'
           r == [status |-> Latest(g, d).status, attempt |-> Latest(g, d).attempt]
<1>1. /\ RecordOf = Rec(f) /\ OrderOf = Before(f)
      /\ RecordOf' = Rec(g) /\ OrderOf' = Before(g)
      /\ Abstract!Recorded' = IdsIn(g) /\ g \in Seq(LogLine) /\ f \in Seq(LogLine)
  BY Mapped, MappedNext, LinesTyped DEF IndInv
<1>2. r \in {Abstract!None} \cup [status : Statuses, attempt : {FALSE}]
  <2>1. CASE d \in IdsIn(g)
    <3>1. g[LastLine(g, d)] \in Record /\ ~g[LastLine(g, d)].attempt
      BY <1>1, <2>1, LastLines
    <3>2. QED  BY <2>1, <3>1 DEF Latest, Record
  <2>2. CASE d \notin IdsIn(g)
    BY <2>2 DEF Latest, NoRecord, Abstract!None
  <2>3. QED  BY <2>1, <2>2
<1>3. \A e \in Ids \ {d} : Latest(g, e) = Latest(f, e)
  BY DEF Alike, Latest
<1>4. Rec(g) = [Rec(f) EXCEPT ![d] = r]
  BY <1>3 DEF Rec
<1>5. Abstract!Without(Before(g), d) = Abstract!Without(Before(f), d)
  <2>1. \A x, y \in Ids : d \notin {x, y} =>
          (<<x, y>> \in Before(g) <=> <<x, y>> \in Before(f))
    BY DEF Before, Alike
  <2>2. Before(f) \subseteq Ids \X Ids /\ Before(g) \subseteq Ids \X Ids
    BY DEF Before
  <2>3. QED  BY <2>1, <2>2 DEF Abstract!Without
<1>6. Abstract!Orders(Before(g), IdsIn(g))
  BY <1>1, BeforeOrders
<1> HIDE DEF f, g, r
<1>7. QED  BY <1>1, <1>2, <1>4, <1>5, <1>6 DEF Abstract!Damage

\* A line that has no end is lost to the line that continues it: the record it
\* held is damaged, or it held none and nothing changes.
LEMMA SwallowedStep ==
  ASSUME IndInv, IndInv', torn, Free, file' = Append(Front(file), Junk),
         cut' = cut, seq' = seq, rewrite' = rewrite
  PROVE  [Abstract!Step]_(Abstract!records)
<1>1. PICK f, h, x : f = file /\ h = Front(f) /\ x = f[Len(f)]
  OBVIOUS
<1>2. PICK g : g = Append(h, Junk)
  OBVIOUS
<1>3. file' = g /\ Lines = f /\ Lines' = g
  BY <1>1, <1>2 DEF Lines, Free
<1>4. /\ f \in Seq(LogLine) /\ f # <<>> /\ cut
      /\ \A i \in DOMAIN f : f[i].id = x.id /\ f[i].id # 0 => ~f[i].attempt
  BY <1>1, LinesTyped DEF IndInv, Torn
<1>5. /\ h \in Seq(LogLine) /\ x \in LogLine /\ f = Append(h, x)
      /\ \A i \in DOMAIN h : i \in DOMAIN f /\ h[i] = f[i]
  BY <1>1, <1>4, Continued
<1>6. Junk \in LogLine /\ Junk.id = 0
  BY DEF LogLine, Junk
<1>7. Alike(f, g, x.id)
  <2>1. Alike(h, f, x.id)
    BY <1>5, AlikeAppended
  <2>2. Alike(h, g, x.id)
    BY <1>2, <1>5, <1>6, AlikeAppended
  <2>3. QED  BY <2>1, <2>2, AlikeTrans
<1>8. CASE x.id = 0
  <2>1. IdsIn(f) = IdsIn(g)
    BY <1>7, <1>8 DEF Alike, IdsIn
  <2>2. \A e \in IdsIn(f) : /\ f[LastLine(f, e)] = g[LastLine(g, e)]
                            /\ LastLine(f, e) = LastLine(g, e)
    BY <1>7, <1>8 DEF Alike, IdsIn
  <2>3. \A e : Latest(f, e) = Latest(g, e)
    BY <2>1, <2>2 DEF Latest
  <2>4. Rec(f) = Rec(g)
    BY <2>3 DEF Rec
  <2>5. Before(f) = Before(g)
    BY <2>1, <2>2 DEF Before
  <2>6. RecordOf' = RecordOf /\ OrderOf' = OrderOf
    BY <1>3, <2>4, <2>5, Mapped, MappedNext
  <2>7. QED  BY <2>6 DEF Abstract!records
<1>9. CASE x.id # 0
  <2>1. x.id \in Ids
    BY <1>5, <1>9, LineTypes
  <2>2. x.id \in IdsIn(g) => ~g[LastLine(g, x.id)].attempt
    <3> SUFFICES ASSUME x.id \in IdsIn(g) PROVE ~g[LastLine(g, x.id)].attempt
      OBVIOUS
    <3>1. g \in Seq(LogLine) /\ DOMAIN g = 1..(Len(h) + 1) /\ DOMAIN h = 1..Len(h)
          /\ Len(h) \in Nat /\ g[Len(h) + 1] = Junk /\ \A i \in DOMAIN h : g[i] = h[i]
      BY <1>2, <1>5, <1>6
    <3>2. PICK i : i = LastLine(g, x.id)
      OBVIOUS
    <3>3. i \in DOMAIN g /\ g[i].id = x.id
      BY <3>1, <3>2, LastLines
    <3>4. i # Len(h) + 1
      BY <1>6, <1>9, <3>1, <3>3
    <3>5. i \in DOMAIN h
      BY <3>1, <3>3, <3>4
    <3>6. g[i] = f[i] /\ i \in DOMAIN f
      BY <1>5, <3>1, <3>5
    <3>7. QED  BY <1>4, <1>9, <3>2, <3>3, <3>6
  <2>3. Abstract!Damage(x.id)
    BY <1>3, <1>4, <1>7, <2>1, <2>2, DamageStep
  <2>4. QED  BY <1>4, <2>1, <2>3 DEF Abstract!Step
<1>10. QED  BY <1>8, <1>9

\* A line that is cut short where the last one ended costs d its record.
LEMMA TornStep ==
  ASSUME IndInv, IndInv', NEW d \in Ids, NEW s \in Statuses, Tear(d, s), ~torn
  PROVE  Abstract!Damage(d)
<1>1. /\ Free /\ Len(file) < MaxLines /\ (Starting(d) \/ Ending(d))
      /\ cut' /\ seq' = seq /\ rewrite' = rewrite /\ acked' = acked
      /\ (file' = Append(file, Junk) \/ file' = Append(file, Row(d, s)))
  BY DEF Tear
<1>2. Lines = file /\ Lines' = file' /\ file \in Seq(LogLine)
  BY <1>1, LinesTyped DEF Lines, Free, IndInv
<1>3. Alike(file, file', d)
  <2>1. Junk \in LogLine /\ Junk.id \in {0, d} /\ Row(d, s) \in LogLine /\ Row(d, s).id \in {0, d}
    BY RowTyped
  <2>2. PICK x \in LogLine : x.id \in {0, d} /\ file' = Append(file, x)
    BY <1>1, <2>1
  <2>3. Alike(file, Append(file, x), d)
    BY <1>2, <2>2, AlikeAppended
  <2>4. QED  BY <2>2, <2>3
<1>4. ASSUME d \in IdsIn(file') PROVE ~file'[LastLine(file', d)].attempt
  <2>1. file' \in Seq(LogLine)
        /\ \A i \in DOMAIN file' : \/ i = Len(file') /\ file'[i] \in {Junk, Row(d, s)}
                                   \/ i \in DOMAIN file /\ file'[i] = file[i]
    BY <1>1, Grown
  <2>2. PICK i : i = LastLine(file', d)
    OBVIOUS
  <2>3. i \in DOMAIN file' /\ file'[i].id = d
    BY <1>4, <2>1, <2>2, LastLines
  <2>4. CASE file'[i] \in {Junk, Row(d, s)}
    BY <2>2, <2>3, <2>4, RowTyped, ZenonT(30)
  <2>5. CASE i \in DOMAIN file /\ file'[i] = file[i]
    <3>1. d \in IdsIn(file)
      BY <2>3, <2>5, RowTyped DEF IdsIn
    <3>2. ~acked[d].attempt
      BY <1>1, <3>1 DEF Starting, Ending
    <3>3. file[i].attempt => acked[d].attempt
      BY <1>2, <2>3, <2>5, RowTyped DEF IndInv, AttemptsAcked
    <3>4. QED  BY <2>2, <2>5, <3>2, <3>3
  <2>6. QED  BY <2>1, <2>3, <2>4, <2>5
<1>5. QED  BY <1>1, <1>2, <1>3, <1>4, DamageStep

\* A whole line puts its record last.
LEMMA PutStep ==
  ASSUME IndInv, IndInv', NEW d \in Ids, NEW s \in Statuses, Starting(d) \/ Ending(d),
         Write(Row(d, s)), ~torn
  PROVE  Abstract!Put(d, s)
<1>1. PICK f, g : f = file /\ g = Append(f, Row(d, s))
  OBVIOUS
<1>2. /\ file' = g /\ Lines = f /\ Lines' = g /\ f \in Seq(LogLine)
      /\ seq' = seq /\ d <= seq /\ cut' = cut
  <2>1. file' = g /\ Lines = f /\ Lines' = g /\ seq' = seq /\ cut' = cut
    BY <1>1 DEF Write, Written, Lines, Free
  <2>2. f \in Seq(LogLine)
    BY <1>1, LinesTyped DEF IndInv
  <2>3. d <= seq
    BY DEF Starting, Ending, Ids, IndInv, TypeOK
  <2>4. QED  BY <2>1, <2>2, <2>3
<1>3. /\ IdsIn(g) = IdsIn(f) \cup {d}
      /\ \A e \in IdsIn(f) \ {d} : LastLine(g, e) = LastLine(f, e)
      /\ LastLine(g, d) = Len(f) + 1
  <2>1. Row(d, s) \in LogLine /\ Row(d, s).id = d /\ d # 0
    BY RowTyped
  <2>2. QED  BY <1>1, <1>2, <2>1, Appended
<1>4. /\ g[Len(f) + 1] = Row(d, s) /\ \A i \in DOMAIN f : g[i] = f[i]
      /\ Len(f) \in Nat /\ DOMAIN f = 1..Len(f)
  <2>1. Row(d, s) \in LogLine
    BY RowTyped
  <2>2. QED  BY <1>1, <1>2, <2>1
<1>5. \A e \in IdsIn(f) : LastLine(f, e) \in DOMAIN f /\ LastLine(f, e) \in Nat
  BY <1>2, LastLines
<1>6. Rec(g) = [Rec(f) EXCEPT ![d] = [status |-> s, attempt |-> FALSE]]
  <2>1. \A e \in Ids \ {d} : Latest(g, e) = Latest(f, e)
    BY <1>3, <1>4, <1>5 DEF Latest
  <2>2. Latest(g, d) = Row(d, s)
    BY <1>3, <1>4 DEF Latest
  <2>3. Row(d, s).status = s /\ Row(d, s).attempt = FALSE
    BY RowTyped
  <2>4. QED  BY <2>1, <2>2, <2>3 DEF Rec
<1>7. Before(g) = Abstract!Without(Before(f), d) \cup ((IdsIn(f) \ {d}) \X {d})
  <2>1. IdsIn(f) \subseteq Ids
    BY <1>2, LastLines
  <2>2. ASSUME NEW x \in Ids, NEW y \in Ids
        PROVE  <<x, y>> \in Before(g)
                 <=> \/ d \notin {x, y} /\ <<x, y>> \in Before(f)
                     \/ y = d /\ x \in IdsIn(f) \ {d}
    <3>1. <<x, y>> \in Before(g)
            <=> (x \in IdsIn(g) /\ y \in IdsIn(g) /\ LastLine(g, x) < LastLine(g, y))
      BY DEF Before
    <3>2. <<x, y>> \in Before(f)
            <=> (x \in IdsIn(f) /\ y \in IdsIn(f) /\ LastLine(f, x) < LastLine(f, y))
      BY DEF Before
    <3>3. CASE x # d /\ y # d
      BY <1>3, <3>1, <3>2, <3>3
    <3>4. CASE x = d /\ y = d
      <4>1. ~(LastLine(g, x) < LastLine(g, y))
        BY <1>3, <1>4, <3>4
      <4>2. QED  BY <3>1, <3>4, <4>1
    <3>5. CASE x # d /\ y = d
      <4>1. x \in IdsIn(f) => LastLine(g, x) < LastLine(g, y)
        BY <1>3, <1>4, <1>5, <3>5
      <4>2. QED  BY <1>3, <3>1, <3>5, <4>1
    <3>6. CASE x = d /\ y # d
      <4>1. y \in IdsIn(f) => ~(LastLine(g, x) < LastLine(g, y))
        BY <1>3, <1>4, <1>5, <3>6
      <4>2. QED  BY <1>3, <3>1, <3>6, <4>1
    <3>7. QED  BY <3>3, <3>4, <3>5, <3>6
  <2>3. Before(f) \subseteq Ids \X Ids /\ Before(g) \subseteq Ids \X Ids
    BY DEF Before
  <2>4. QED  BY <2>1, <2>2, <2>3 DEF Abstract!Without
<1>8. QED
  BY <1>2, <1>6, <1>7, Mapped, MappedNext DEF Abstract!Put

\* mark_attempt changes one field of one record, and no place in the order.
LEMMA LinkStep ==
  ASSUME IndInv, IndInv', NEW d \in Ids, MarkAttempt(d)
  PROVE  Abstract!Link(d)
<1>1. /\ Free /\ d \in IdsIn(file) /\ rewrite' = Marked(d) /\ file' = <<>> /\ seq' = seq
  BY DEF MarkAttempt
<1>2. PICK f, g : f = file /\ g = rewrite'
  OBVIOUS
<1>3. f \in Seq(LogLine) /\ Lines = f
  BY <1>1, <1>2, LinesTyped DEF Lines, Free, IndInv
<1>4. /\ IdsIn(g) = IdsIn(f)
      /\ \A e \in IdsIn(f) :
           g[LastLine(g, e)] = [f[LastLine(f, e)] EXCEPT !.attempt = @ \/ e = d]
      /\ \A x, e \in IdsIn(f) : LastLine(g, x) < LastLine(g, e)
                                  <=> LastLine(f, x) < LastLine(f, e)
  <2>1. /\ DOMAIN g = DOMAIN Collapse(f) /\ g = [i \in DOMAIN g |-> g[i]]
        /\ \A i \in DOMAIN g :
             g[i] = [Collapse(f)[i] EXCEPT !.attempt = @ \/ Collapse(f)[i].id = d]
    BY <1>1, <1>2 DEF Marked
  <2>2. QED  BY <1>3, <2>1, MarkedReads
<1>5. Lines' = g
  <2>1. g # <<>>
    <3>1. \E i \in DOMAIN g : g[i].id = d
      BY <1>1, <1>2, <1>4 DEF IdsIn
    <3>2. DOMAIN <<>> = {}
      OBVIOUS
    <3>3. QED  BY <3>1, <3>2
  <2>2. QED  BY <1>2, <2>1 DEF Lines, Free
<1>6. Before(g) = Before(f)
  BY <1>4 DEF Before
<1>7. Rec(g) = [Rec(f) EXCEPT ![d].attempt = TRUE]
  <2>1. ASSUME NEW e \in Ids
        PROVE  /\ Latest(g, e).status = Latest(f, e).status
               /\ Latest(g, e).attempt = IF e = d THEN TRUE ELSE Latest(f, e).attempt
    <3>1. CASE e \in IdsIn(f)
      <4>1. f[LastLine(f, e)] \in Record
        BY <1>3, <3>1, LastLines
      <4>2. Latest(g, e) = [Latest(f, e) EXCEPT !.attempt = @ \/ e = d]
            /\ Latest(f, e) \in Record
        BY <1>4, <3>1, <4>1 DEF Latest
      <4>3. QED  BY <4>2 DEF Record
    <3>2. CASE e \notin IdsIn(f)
      BY <1>1, <1>2, <1>4, <3>2 DEF Latest
    <3>3. QED  BY <3>1, <3>2
  <2>2. QED  BY <2>1 DEF Rec
<1>8. RecordOf[d] # Abstract!None
  <2>1. d \in Abstract!Recorded
    BY <1>1, <1>2, <1>3, Mapped
  <2>2. QED  BY <2>1 DEF Abstract!Recorded
<1>9. QED
  BY <1>1, <1>3, <1>5, <1>6, <1>7, <1>8, Mapped, MappedNext DEF Abstract!Link

\* The highest recorded id is the one _max_existing_seq finds.
LEMMA HighestIs ==
  ASSUME NEW f \in Seq(LogLine)
  PROVE  MaxExistingSeq(f) = IF IdsIn(f) = {} THEN 0
                             ELSE CHOOSE d \in IdsIn(f) : \A e \in IdsIn(f) : e <= d
<1>1. CASE IdsIn(f) = {}
  BY <1>1 DEF MaxExistingSeq
<1>2. CASE IdsIn(f) # {}
  <2>1. /\ IdsIn(f) \subseteq 1..MaxExistingSeq(f)
        /\ MaxExistingSeq(f) \in IdsIn(f) /\ MaxExistingSeq(f) \in Nat
    BY <1>2, SeqIsHighest
  <2>2. PICK m : m = CHOOSE d \in IdsIn(f) : \A e \in IdsIn(f) : e <= d
    OBVIOUS
  <2>3. m \in IdsIn(f) /\ \A e \in IdsIn(f) : e <= m
    BY <2>1, <2>2
  <2>4. m = MaxExistingSeq(f)
    BY <2>1, <2>3
  <2>5. QED  BY <1>2, <2>2, <2>4
<1>3. QED  BY <1>1, <1>2

LEMMA ResumeStep ==
  ASSUME IndInv, IndInv', CrashAndResume, Free
  PROVE  Abstract!Resume
<1>1. Lines' = Lines /\ Lines = file /\ file' = file /\ seq' = MaxExistingSeq(file')
  <2>1. Len(rewrite) = 0 /\ 0..Len(rewrite) - 1 = {}
    BY DEF Free
  <2>2. file' = file /\ rewrite' = <<>> /\ seq' = MaxExistingSeq(file')
    BY <2>1 DEF CrashAndResume
  <2>3. QED  BY <2>2 DEF Lines, Free
<1>2. Lines \in Seq(LogLine)
  BY LinesTyped DEF IndInv
<1>3. seq' = Abstract!Highest
  BY <1>1, <1>2, HighestIs, Mapped DEF Abstract!Highest
<1>4. RecordOf' = RecordOf /\ OrderOf' = OrderOf
  BY <1>1, Mapped, MappedNext
<1>5. QED  BY <1>3, <1>4 DEF Abstract!Resume

LEMMA NotBelow ==
  ASSUME NEW n \in Nat, NEW m \in Nat, n < m, NEW i \in 1..n
  PROVE  i # m
OBVIOUS

\* The lines of a rewrite that are back on disk hold the first records of it.
LEMMA FirstRecords ==
  ASSUME NEW g \in Seq(Record), Distinct(g), NEW n \in 0..Len(g) - 1,
         NEW h \in Seq(LogLine), DOMAIN h \in {1..n, 1..(n + 1)},
         \A i \in 1..n : h[i] = g[i],
         \A i \in DOMAIN h : i \notin 1..n => h[i] = Junk
  PROVE  /\ IdsIn(h) \subseteq IdsIn(g) /\ IdsIn(h) # IdsIn(g)
         /\ \A e \in IdsIn(h) : LastLine(h, e) = LastLine(g, e)
                                /\ h[LastLine(h, e)] = g[LastLine(g, e)]
         /\ \A d \in IdsIn(g), e \in IdsIn(h) :
              LastLine(g, d) < LastLine(g, e) => d \in IdsIn(h)
<1>1. /\ Len(g) \in Nat /\ n \in Nat /\ DOMAIN g = 1..Len(g) /\ Len(g) \in DOMAIN g
      /\ n < Len(g) /\ Junk.id = 0
  BY DEF Junk
<1>2. \A i \in 1..n : i \in DOMAIN g /\ i \in DOMAIN h
  BY <1>1
<1>3. g \in Seq(LogLine) /\ \A i \in DOMAIN g : g[i].id # 0
  <2>1. g \in Seq(LogLine)
    BY DEF LogLine
  <2>2. ASSUME NEW i \in DOMAIN g PROVE g[i].id # 0
    <3>1. g[i] \in Record /\ g[i] \in LogLine
      BY DEF LogLine
    <3>2. QED  BY <3>1, LineTypes
  <2>3. QED  BY <2>1, <2>2
<1>4. ASSUME NEW i \in DOMAIN h, h[i].id # 0 PROVE i \in 1..n /\ h[i] = g[i]
  BY <1>1, <1>4
<1>5. IdsIn(h) = {g[i].id : i \in 1..n}
  BY <1>2, <1>3, <1>4 DEF IdsIn
<1>6. \A i \in DOMAIN g : g[i].id \in IdsIn(g) /\ LastLine(g, g[i].id) = i
  BY <1>3, DistinctLast
<1>7. Distinct(g)
  OBVIOUS
<1>8. IdsIn(h) \subseteq IdsIn(g)
  BY <1>2, <1>5, <1>6
<1>9. g[Len(g)].id \in IdsIn(g) /\ g[Len(g)].id \notin IdsIn(h)
  <2>1. ASSUME NEW i \in 1..n PROVE i # Len(g) /\ i \in DOMAIN g
    <3>1. i \in DOMAIN g
      BY <1>2
    <3>2. i # Len(g)
      BY <1>1, NotBelow
    <3>3. QED  BY <3>1, <3>2
  <2>2. \A i \in 1..n : g[i].id # g[Len(g)].id
    BY <1>1, <2>1 DEF Distinct
  <2>3. QED  BY <1>1, <1>5, <1>6, <2>2
<1>10. ASSUME NEW e \in IdsIn(h)
       PROVE  LastLine(h, e) = LastLine(g, e) /\ h[LastLine(h, e)] = g[LastLine(g, e)]
              /\ LastLine(g, e) \in 1..n
  <2>1. PICK i \in 1..n : e = g[i].id
    BY <1>5
  <2>2. LastLine(g, e) = i /\ h[i] = g[i]
    BY <1>2, <1>6, <2>1
  <2>3. LastLine(h, e) \in DOMAIN h /\ h[LastLine(h, e)].id = e /\ e # 0
    BY LastLines DEF IdsIn
  <2>4. LastLine(h, e) \in 1..n /\ g[LastLine(h, e)].id = e
    BY <1>4, <2>3
  <2>5. LastLine(h, e) = i
    BY <1>2, <2>1, <2>4 DEF Distinct
  <2>6. QED  BY <2>2, <2>5
<1>11. ASSUME NEW d \in IdsIn(g), NEW e \in IdsIn(h), LastLine(g, d) < LastLine(g, e)
       PROVE  d \in IdsIn(h)
  <2>1. LastLine(g, d) \in DOMAIN g /\ g[LastLine(g, d)].id = d
    BY <1>3, LastLines
  <2>2. LastLine(g, e) \in 1..n
    BY <1>10
  <2>3. LastLine(g, d) \in 1..n
    BY <1>1, <1>11, <2>1, <2>2
  <2>4. QED  BY <1>5, <2>1, <2>3
<1>12. QED  BY <1>8, <1>9, <1>10, <1>11

LEMMA TruncateStep ==
  ASSUME IndInv, IndInv', CrashAndResume, ~Free
  PROVE  Abstract!Truncate
<1>1. PICK n \in 0..Len(rewrite) - 1 :
        \/ file' = SubSeq(rewrite, 1, n) /\ torn' = FALSE
        \/ file' = Append(SubSeq(rewrite, 1, n), Junk) /\ torn' = TRUE
  BY DEF CrashAndResume
<1>2. PICK g, h, k : g = rewrite /\ h = file' /\ k = SubSeq(g, 1, n)
  OBVIOUS
<1>3. /\ g \in Seq(Record) /\ Distinct(g) /\ n \in 0..Len(g) - 1
      /\ Lines = g /\ Lines' = h /\ cut' /\ seq' = MaxExistingSeq(h)
  <2>1. rewrite' = <<>> /\ cut' = (cut \/ ~Free) /\ seq' = MaxExistingSeq(file')
    BY DEF CrashAndResume
  <2>2. QED  BY <1>1, <1>2, <2>1 DEF IndInv, TypeOK, Rewriting, Lines, Free
<1>4. /\ h \in Seq(LogLine) /\ DOMAIN h \in {1..n, 1..(n + 1)}
      /\ \A i \in 1..n : h[i] = g[i]
      /\ \A i \in DOMAIN h : i \notin 1..n => h[i] = Junk
  <2>1. /\ k \in Seq(LogLine) /\ Len(k) = n /\ DOMAIN k = 1..n
        /\ \A i \in 1..n : i \in DOMAIN g /\ k[i] = g[i]
        /\ Append(k, Junk) \in Seq(LogLine) /\ Len(Append(k, Junk)) = n + 1
        /\ DOMAIN Append(k, Junk) = 1..(n + 1) /\ Append(k, Junk)[n + 1] = Junk
        /\ \A i \in 1..n : Append(k, Junk)[i] = g[i]
    <3>1. g \in Seq(Record) /\ n \in 0..Len(g) - 1
      BY <1>3
    <3>2. k = SubSeq(g, 1, n)
      BY <1>2
    <3>3. QED  BY <3>1, <3>2, Prefix
  <2>2. CASE h = k
    BY <2>1, <2>2
  <2>3. CASE h = Append(k, Junk)
    <3>1. \A i \in 1..(n + 1) : i \notin 1..n => i = n + 1
      OBVIOUS
    <3>2. QED  BY <2>1, <2>3, <3>1
  <2>4. QED  BY <1>1, <1>2, <2>2, <2>3
<1>5. /\ IdsIn(h) \subseteq IdsIn(g) /\ IdsIn(h) # IdsIn(g)
      /\ \A e \in IdsIn(h) : /\ LastLine(h, e) = LastLine(g, e)
                             /\ h[LastLine(h, e)] = g[LastLine(g, e)]
      /\ \A d \in IdsIn(g), e \in IdsIn(h) :
           LastLine(g, d) < LastLine(g, e) => d \in IdsIn(h)
  BY <1>3, <1>4, FirstRecords
<1>6. IdsIn(g) \subseteq Ids
  <2>1. g \in Seq(LogLine)
    BY <1>3 DEF LogLine
  <2>2. QED  BY <2>1, LastLines
<1>7. \A p \in Before(g) : p[2] \in IdsIn(h) => p[1] \in IdsIn(h)
  BY <1>5 DEF Before
<1>8. Before(h) = Before(g) \cap (IdsIn(h) \X IdsIn(h))
  <2>1. \A x, y \in Ids : <<x, y>> \in Before(h)
                            <=> <<x, y>> \in Before(g) /\ x \in IdsIn(h) /\ y \in IdsIn(h)
    BY <1>5 DEF Before
  <2>2. Before(h) \subseteq Ids \X Ids /\ Before(g) \subseteq Ids \X Ids
    BY DEF Before
  <2>3. QED  BY <2>1, <2>2
<1>9. Rec(h) = [d \in Ids |-> IF d \in IdsIn(h) THEN Rec(g)[d] ELSE Abstract!None]
  <2>1. \A d \in IdsIn(h) : Latest(h, d) = Latest(g, d)
    BY <1>5 DEF Latest
  <2>2. ASSUME NEW d \in Ids, d \notin IdsIn(h)
        PROVE  [status |-> Latest(h, d).status, attempt |-> Latest(h, d).attempt]
                 = Abstract!None
    BY <2>2 DEF Latest, NoRecord, Abstract!None
  <2>3. QED  BY <2>1, <2>2 DEF Rec
<1>10. seq' = Abstract!Highest'
  BY <1>3, <1>4, HighestIs, MappedNext DEF Abstract!Highest
<1>11. /\ RecordOf = Rec(g) /\ OrderOf = Before(g) /\ Abstract!Recorded = IdsIn(g)
       /\ RecordOf' = Rec(h) /\ OrderOf' = Before(h)
  BY <1>3, Mapped, MappedNext
<1>12. IdsIn(h) \in SUBSET Abstract!Recorded /\ IdsIn(h) # Abstract!Recorded
  BY <1>5, <1>11
<1>13. OrderOf' = OrderOf \cap (IdsIn(h) \X IdsIn(h))
  BY <1>8, <1>11
<1>14. RecordOf' = [d \in Ids |-> IF d \in IdsIn(h) THEN RecordOf[d] ELSE Abstract!None]
  BY <1>9, <1>11
<1>15. \A p \in OrderOf : p[2] \in IdsIn(h) => p[1] \in IdsIn(h)
  BY <1>7, <1>11
<1>16. QED
  BY <1>3, <1>10, <1>12, <1>13, <1>14, <1>15 DEF Abstract!Truncate

-----------------------------------------------------------------------------
LEMMA MapsStart == Init => Abstract!Start
<1> SUFFICES ASSUME Init PROVE Abstract!Start
  OBVIOUS
<1>1. IndInv
  BY Starts
<1>2. IdsIn(Lines) = {}
  BY DEF Init, Lines, Free, IdsIn
<1>3. RecordOf = [d \in Ids |-> Abstract!None]
  BY <1>1, <1>2, Mapped DEF Rec, Latest, NoRecord, Abstract!None
<1>4. OrderOf = {}
  BY <1>1, <1>2, Mapped DEF Before
<1>5. QED  BY <1>3, <1>4 DEF Init, Abstract!Start

LEMMA MapsStep ==
  ASSUME IndInv, [Next]_vars
  PROVE  [Abstract!Step]_(Abstract!records)
<1>1. IndInv'
  BY NextStep
<1>2. CASE UNCHANGED vars \/ MarkWrites
  <2>1. Lines' = Lines /\ seq' = seq /\ cut' = cut
    BY <1>2, MarkWritesStep DEF vars, Lines, Free, MarkWrites
  <2>2. RecordOf' = RecordOf /\ OrderOf' = OrderOf
    BY <1>1, <2>1, Mapped, MappedNext
  <2>3. QED  BY <2>1, <2>2 DEF Abstract!records
<1>3. CASE NextId
  <2>1. Lines' = Lines /\ seq' = seq + 1 /\ seq < MaxIds /\ cut' = cut /\ seq \in Nat
    BY <1>3 DEF NextId, Lines, Free, IndInv, TypeOK
  <2>2. RecordOf' = RecordOf /\ OrderOf' = OrderOf /\ seq + 1 \in Ids
    BY <1>1, <2>1, Mapped, MappedNext, BoundAssumption DEF Ids
  <2>3. QED  BY <2>1, <2>2 DEF Abstract!Step, Abstract!HandOut
<1>4. ASSUME NEW d \in Ids, NEW s \in Statuses, Starting(d) \/ Ending(d), Write(Row(d, s))
      PROVE  [Abstract!Step]_(Abstract!records)
  <2>1. cut' = cut /\ seq' = seq /\ rewrite' = rewrite /\ Free
    BY <1>4 DEF Write
  <2>2. CASE torn
    <3>1. file' = Append(Front(file), Junk)
      BY <1>4, <2>2 DEF Write, Written
    <3>2. QED  BY <1>1, <2>1, <2>2, <3>1, SwallowedStep
  <2>3. CASE ~torn
    <3>1. Abstract!Put(d, s)
      BY <1>1, <1>4, <2>3, PutStep
    <3>2. QED  BY <2>1, <3>1 DEF Abstract!Step
  <2>4. QED  BY <2>2, <2>3
<1>5. CASE \E d \in Ids : RecordStarted(d)
  BY <1>4, <1>5 DEF RecordStarted, Statuses
<1>6. CASE \E d \in Ids, s \in Terminal : RecordEnd(d, s)
  BY <1>4, <1>6 DEF RecordEnd, Statuses
<1>7. ASSUME NEW d \in Ids, NEW s \in Statuses, Tear(d, s)
      PROVE  [Abstract!Step]_(Abstract!records)
  <2>1. cut' = TRUE /\ seq' = seq /\ rewrite' = rewrite /\ Free
    BY <1>7 DEF Tear
  <2>2. CASE torn
    <3>1. file' = Append(Front(file), Junk)
      BY <1>7, <2>2 DEF Tear
    <3>2. cut' = cut
      BY <2>1, <2>2 DEF IndInv, TypeOK, Torn
    <3>3. QED  BY <1>1, <2>1, <2>2, <3>1, <3>2, SwallowedStep
  <2>3. CASE ~torn
    <3>1. Abstract!Damage(d)
      BY <1>1, <1>7, <2>3, TornStep
    <3>2. QED  BY <2>1, <3>1 DEF Abstract!Step
  <2>4. QED  BY <2>2, <2>3
<1>8. CASE \E d \in Ids : MarkAttempt(d)
  <2>1. PICK d \in Ids : MarkAttempt(d)
    BY <1>8
  <2>2. Abstract!Link(d)
    BY <1>1, <2>1, LinkStep
  <2>3. cut' = cut
    BY <2>1 DEF MarkAttempt
  <2>4. QED  BY <2>2, <2>3 DEF Abstract!Step
<1>9. CASE CrashAndResume
  <2>1. cut => cut'
    BY <1>9 DEF CrashAndResume
  <2>2. Abstract!Resume \/ Abstract!Truncate
    BY <1>1, <1>9, ResumeStep, TruncateStep
  <2>3. QED  BY <2>1, <2>2 DEF Abstract!Step
<1>10. QED
  BY <1>2, <1>3, <1>5, <1>6, <1>7, <1>8, <1>9 DEF Next

\* ImplementsRecords: whatever is written, cut short, rewritten or resumed, the
\* log keeps its readers' promise: one record per delegation, the last one
\* written, in the order of those writes; a write that is cut short costs one
\* delegation its last record, a rewrite that is cut short the last of them
\* (record, mark_attempt, _load_all, _max_existing_seq).
THEOREM LogImplementsRecords == Spec => ImplementsRecords
<1>1. IndInv /\ [Next]_vars => [Abstract!Step]_(Abstract!records)
  BY MapsStep
<1>2. QED  BY <1>1, MapsStart, Inductive, PTL DEF Spec, ImplementsRecords, Abstract!Records

-----------------------------------------------------------------------------
(* The cells of a notebook.                                                *)

\* A selection has the chosen elements, in their order.
LEMMA PickedIs ==
  ASSUME NEW A, NEW f \in Seq(A), NEW S \in SUBSET (DOMAIN f)
  PROVE  /\ Picked(f, S) \in Seq(A) /\ Cardinality(S) \in Nat
         /\ DOMAIN Picked(f, S) = 1..Cardinality(S) /\ Len(Picked(f, S)) = Cardinality(S)
         /\ \A k \in 1..Cardinality(S) : Nth(S, k) \in S /\ Picked(f, S)[k] = f[Nth(S, k)]
         /\ \A k, l \in 1..Cardinality(S) : k < l <=> Nth(S, k) < Nth(S, l)
         /\ \A i \in S : \E k \in 1..Cardinality(S) : Nth(S, k) = i
<1>1. Len(f) \in Nat /\ S \in SUBSET (1..Len(f))
  OBVIOUS
<1> DEFINE n == Cardinality(S)
           p == [k \in 1..n |-> f[Nth(S, k)]]
<1>2. /\ n \in Nat
      /\ \A k \in 1..n : Nth(S, k) \in S
      /\ \A k, l \in 1..n : k < l <=> Nth(S, k) < Nth(S, l)
      /\ \A i \in S : \E k \in 1..n : Nth(S, k) = i
  BY <1>1, NthEnumerates
<1>3. p = Picked(f, S)
  BY DEF Picked
<1> HIDE DEF n
<1>4. p \in [1..n -> A]
  <2>1. \A k \in 1..n : f[Nth(S, k)] \in A
    BY <1>2
  <2>2. QED  BY <2>1
<1>5. p \in Seq(A) /\ Len(p) = n
  BY <1>2, <1>4
<1>6. DOMAIN p = 1..n /\ \A k \in 1..n : p[k] = f[Nth(S, k)]
  OBVIOUS
<1> HIDE DEF p
<1>7. QED  BY <1>2, <1>3, <1>5, <1>6 DEF n

\* Where the elements of two sequences are once they are joined.
LEMMA Joined ==
  ASSUME NEW A, NEW f \in Seq(A), NEW g \in Seq(A), NEW h, h = f \o g
  PROVE  /\ h \in Seq(A) /\ Len(f) \in Nat /\ Len(g) \in Nat
         /\ DOMAIN f = 1..Len(f) /\ DOMAIN g = 1..Len(g)
         /\ DOMAIN h = 1..(Len(f) + Len(g))
         /\ \A i \in 1..Len(f) : i \in DOMAIN h /\ h[i] = f[i]
         /\ \A i \in 1..Len(g) : Len(f) + i \in DOMAIN h /\ h[Len(f) + i] = g[i]
         /\ \A k \in DOMAIN h :
              \/ k \in 1..Len(f) /\ h[k] = f[k]
              \/ k - Len(f) \in 1..Len(g) /\ h[k] = g[k - Len(f)] /\ k > Len(f)
<1>1. /\ h \in Seq(A) /\ Len(f) \in Nat /\ Len(g) \in Nat
      /\ DOMAIN f = 1..Len(f) /\ DOMAIN g = 1..Len(g) /\ DOMAIN h = 1..(Len(f) + Len(g))
      /\ \A i \in DOMAIN f : i \in DOMAIN h /\ h[i] = f[i]
      /\ \A i \in DOMAIN g : Len(f) + i \in DOMAIN h /\ h[Len(f) + i] = g[i]
  OBVIOUS
<1>2. ASSUME NEW k \in DOMAIN h
      PROVE  \/ k \in 1..Len(f) /\ h[k] = f[k]
             \/ k - Len(f) \in 1..Len(g) /\ h[k] = g[k - Len(f)] /\ k > Len(f)
  <2>1. CASE k <= Len(f)
    BY <1>1, <2>1
  <2>2. CASE k > Len(f)
    <3>1. k - Len(f) \in DOMAIN g /\ Len(f) + (k - Len(f)) = k
      BY <1>1, <2>2
    <3>2. QED  BY <1>1, <2>2, <3>1
  <2>3. QED  BY <1>1, <2>1, <2>2
<1>3. QED  BY <1>1, <1>2

LEMMA LastOfName ==
  ASSUME NEW f \in Seq(CellType), NEW n \in NamesIn(f)
  PROVE  \E m \in DOMAIN f : /\ f[m].name = n /\ Text(f, n) = f[m].text
                             /\ \A i \in DOMAIN f : f[i].name = n => i <= m
<1> DEFINE S == {i \in DOMAIN f : f[i].name = n}
<1>1. Len(f) \in Nat /\ S \in SUBSET (0..Len(f)) /\ S # {}
  BY DEF NamesIn
<1>2. Max(S) \in S /\ \A x \in S : x <= Max(S)
  <2> HIDE DEF S
  <2>1. QED  BY <1>1, MaxIsLargest
<1>3. Text(f, n) = f[Max(S)].text
  BY DEF Text
<1>4. QED  BY <1>2, <1>3

LEMMA TextIs ==
  ASSUME NEW f \in Seq(CellType), NEW m \in DOMAIN f, f[m].name # NoName,
         \A i \in DOMAIN f : f[i].name = f[m].name => i <= m
  PROVE  f[m].name \in NamesIn(f) /\ Text(f, f[m].name) = f[m].text
<1>1. f[m].name \in NamesIn(f)
  BY DEF NamesIn
<1>2. PICK k \in DOMAIN f : /\ f[k].name = f[m].name /\ Text(f, f[m].name) = f[k].text
                            /\ \A i \in DOMAIN f : f[i].name = f[m].name => i <= k
  BY <1>1, LastOfName
<1>3. k <= m /\ m <= k /\ k \in Nat /\ m \in Nat
  BY <1>2
<1>4. QED  BY <1>1, <1>2, <1>3

LEMMA NamesTyped ==
  ASSUME NEW f \in Seq(CellType)
  PROVE  /\ NamesIn(f) \subseteq Names /\ NoName \notin NamesIn(f) /\ NoName \notin Names
         /\ \A n \in NamesIn(f) : Text(f, n) \in Texts
<1>1. NoName \notin Names
  BY DEF NoName, Names, Main, Why
<1>2. \A i \in DOMAIN f : f[i] \in CellType /\ f[i].name \in Names \cup {NoName} /\ f[i].text \in Texts
  <2>1. ASSUME NEW x \in CellType PROVE x.name \in Names \cup {NoName} /\ x.text \in Texts
    BY DEF CellType
  <2>2. \A i \in DOMAIN f : f[i] \in CellType
    OBVIOUS
  <2>3. QED  BY <2>1, <2>2
<1>3. NamesIn(f) \subseteq Names /\ NoName \notin NamesIn(f)
  BY <1>2 DEF NamesIn
<1>4. QED  BY <1>1, <1>2, <1>3, LastOfName

\* Of the cells of two notebooks, those of the second one count.
LEMMA Replaced ==
  ASSUME NEW f \in Seq(CellType), NEW g \in Seq(CellType)
  PROVE  /\ f \o g \in Seq(CellType)
         /\ NamesIn(f \o g) = NamesIn(f) \cup NamesIn(g)
         /\ \A n \in NamesIn(g) : Text(f \o g, n) = Text(g, n)
         /\ \A n \in NamesIn(f) \ NamesIn(g) : Text(f \o g, n) = Text(f, n)
<1>0. PICK h : h = f \o g
  OBVIOUS
<1>1. /\ h \in Seq(CellType) /\ Len(f) \in Nat /\ Len(g) \in Nat
      /\ DOMAIN f = 1..Len(f) /\ DOMAIN g = 1..Len(g) /\ DOMAIN h = 1..(Len(f) + Len(g))
      /\ \A i \in 1..Len(f) : i \in DOMAIN h /\ h[i] = f[i]
      /\ \A i \in 1..Len(g) : Len(f) + i \in DOMAIN h /\ h[Len(f) + i] = g[i]
  BY <1>0, Joined
<1>2. \A k \in DOMAIN h :
        \/ k \in 1..Len(f) /\ h[k] = f[k]
        \/ k - Len(f) \in 1..Len(g) /\ h[k] = g[k - Len(f)] /\ k > Len(f)
  BY <1>0, Joined
<1>3. NamesIn(h) = NamesIn(f) \cup NamesIn(g)
  <2>1. ASSUME NEW n \in NamesIn(h) PROVE n \in NamesIn(f) \cup NamesIn(g)
    BY <1>2 DEF NamesIn
  <2>2. NamesIn(f) \cup NamesIn(g) \subseteq NamesIn(h)
    BY <1>1 DEF NamesIn
  <2>3. QED  BY <2>1, <2>2
<1>4. ASSUME NEW n \in NamesIn(g) PROVE Text(h, n) = Text(g, n)
  <2>1. PICK m \in DOMAIN g : /\ g[m].name = n /\ Text(g, n) = g[m].text
                              /\ \A i \in DOMAIN g : g[i].name = n => i <= m
    BY LastOfName
  <2>2. Len(f) + m \in DOMAIN h /\ h[Len(f) + m] = g[m]
    BY <1>1
  <2>3. ASSUME NEW k \in DOMAIN h, h[k].name = n PROVE k <= Len(f) + m
    <3>1. CASE k \in DOMAIN f
      BY <1>1, <3>1
    <3>2. CASE k - Len(f) \in DOMAIN g /\ h[k] = g[k - Len(f)]
      <4>1. k - Len(f) <= m
        BY <2>1, <2>3, <3>2
      <4>2. QED  BY <1>1, <4>1
    <3>3. QED  BY <1>2, <3>1, <3>2
  <2>4. n # NoName
    BY DEF NamesIn
  <2>5. QED  BY <1>1, <2>1, <2>2, <2>3, <2>4, TextIs
<1>5. ASSUME NEW n \in NamesIn(f) \ NamesIn(g) PROVE Text(h, n) = Text(f, n)
  <2>1. PICK m \in DOMAIN f : /\ f[m].name = n /\ Text(f, n) = f[m].text
                              /\ \A i \in DOMAIN f : f[i].name = n => i <= m
    BY LastOfName
  <2>2. n # NoName /\ \A i \in DOMAIN g : g[i].name # n
    BY DEF NamesIn
  <2>3. ASSUME NEW k \in DOMAIN h, h[k].name = n PROVE k <= m
    BY <1>2, <2>1, <2>2, <2>3
  <2>4. QED  BY <1>1, <2>1, <2>2, <2>3, TextIs
<1>6. QED  BY <1>0, <1>1, <1>3, <1>4, <1>5

\* What a delete leaves is what was there, without its targets.
LEMMA RemainingIs ==
  ASSUME NEW f \in Seq(CellType), NEW D
  PROVE  /\ Remaining(f, D) \in Seq(CellType)
         /\ NamesIn(Remaining(f, D)) = NamesIn(f) \ D
         /\ \A n \in NamesIn(f) \ D : Text(Remaining(f, D), n) = Text(f, n)
<1> DEFINE S == {i \in DOMAIN f : f[i].name \notin D}
           c == Cardinality(S)
           g == Picked(f, S)
<1>1. S \in SUBSET (DOMAIN f)
  OBVIOUS
<1>2. Remaining(f, D) = g
  BY DEF Remaining
<1> HIDE DEF S
<1>3. /\ g \in Seq(CellType) /\ c \in Nat /\ DOMAIN g = 1..c
      /\ \A k \in 1..c : Nth(S, k) \in S /\ g[k] = f[Nth(S, k)]
      /\ \A k, l \in 1..c : k < l <=> Nth(S, k) < Nth(S, l)
      /\ \A i \in S : \E k \in 1..c : Nth(S, k) = i
  BY <1>1, PickedIs
<1> HIDE DEF g, c
<1>4. NamesIn(g) = NamesIn(f) \ D
  <2>1. ASSUME NEW n \in NamesIn(g) PROVE n \in NamesIn(f) \ D
    <3>1. PICK k \in 1..c : g[k].name = n
      BY <1>3 DEF NamesIn
    <3>2. Nth(S, k) \in S /\ g[k] = f[Nth(S, k)] /\ n # NoName
      BY <1>3 DEF NamesIn
    <3>3. QED  BY <3>1, <3>2 DEF NamesIn, S
  <2>2. ASSUME NEW n \in NamesIn(f) \ D PROVE n \in NamesIn(g)
    <3>1. PICK i \in DOMAIN f : f[i].name = n /\ n # NoName
      BY DEF NamesIn
    <3>2. i \in S
      BY <3>1 DEF S
    <3>3. PICK k \in 1..c : Nth(S, k) = i
      BY <1>3, <3>2
    <3>4. g[k].name = n
      BY <1>3, <3>1, <3>3
    <3>5. QED  BY <1>3, <3>1, <3>4 DEF NamesIn
  <2>3. QED  BY <2>1, <2>2
<1>5. ASSUME NEW n \in NamesIn(f) \ D PROVE Text(g, n) = Text(f, n)
  <2>1. PICK m \in DOMAIN f : /\ f[m].name = n /\ Text(f, n) = f[m].text
                              /\ \A i \in DOMAIN f : f[i].name = n => i <= m
    BY LastOfName
  <2>2. m \in S /\ n # NoName
    BY <2>1 DEF S, NamesIn
  <2>3. PICK k \in 1..c : Nth(S, k) = m
    BY <1>3, <2>2
  <2>4. g[k] = f[m]
    BY <1>3, <2>3
  <2>5. ASSUME NEW l \in DOMAIN g, g[l].name = n PROVE l <= k
    <3>1. Nth(S, l) \in S /\ g[l] = f[Nth(S, l)]
      BY <1>3
    <3>2. Nth(S, l) <= m /\ Nth(S, l) \in Nat /\ m \in Nat
      BY <2>1, <2>5, <3>1 DEF S
    <3>3. ~(k < l)
      BY <1>3, <2>3, <3>2
    <3>4. QED  BY <1>3, <3>3
  <2>6. QED  BY <1>3, <2>1, <2>2, <2>4, <2>5, TextIs
<1>6. QED  BY <1>2, <1>3, <1>4, <1>5

\* The slots are distinct, and hold every canonical name.
LEMMA SlotsAre ==
  /\ Slots \in Seq(Names) /\ Len(Slots) = 2 * Len(Spine) /\ Len(Spine) \in Nat
  /\ \A i, j \in DOMAIN Slots : Slots[i] = Slots[j] => i = j
  /\ \A n \in Canonical : \E i \in DOMAIN Slots : Slots[i] = n
  /\ Canonical \subseteq Names
<1> DEFINE N == Len(Spine)
<1>1. /\ N \in Nat /\ DOMAIN Spine = 1..N
      /\ \A i, j \in 1..N : Spine[i] = Spine[j] => i = j
      /\ ToSet(Spine) = {Spine[i] : i \in 1..N} /\ Pillars \subseteq ToSet(Spine)
  BY SpineAssumption DEF IsInjective, ToSet
<1> HIDE DEF N
<1>2. DOMAIN Slots = 1..(2 * N)
  BY DEF Slots, N
<1>3. ASSUME NEW k \in 1..N
      PROVE  /\ 2 * k \in 1..(2 * N) /\ 2 * k - 1 \in 1..(2 * N)
             /\ Slots[2 * k] = Main(Spine[k]) /\ Slots[2 * k - 1] = Why(Spine[k])
  <2>1. 2 * k \in 1..(2 * N) /\ 2 * k - 1 \in 1..(2 * N)
    BY <1>1
  <2>2. (2 * k) % 2 = 0 /\ (2 * k) \div 2 = k /\ (2 * k - 1) % 2 = 1
        /\ ((2 * k - 1) + 1) \div 2 = k
    BY <1>1
  <2>3. QED  BY <2>1, <2>2 DEF Slots, N
<1>4. ASSUME NEW i \in 1..(2 * N) PROVE \E k \in 1..N : i = 2 * k \/ i = 2 * k - 1
  <2>1. i = 2 * (i \div 2) + (i % 2) /\ i % 2 \in {0, 1} /\ i \div 2 \in Nat
    BY <1>1
  <2>2. CASE i % 2 = 0
    <3>1. i \div 2 \in 1..N
      BY <1>1, <2>1, <2>2
    <3>2. QED  BY <2>1, <2>2, <3>1
  <2>3. CASE i % 2 = 1
    <3>1. (i \div 2) + 1 \in 1..N /\ i = 2 * ((i \div 2) + 1) - 1
      BY <1>1, <2>1, <2>3
    <3>2. QED  BY <3>1
  <2>4. QED  BY <2>1, <2>2, <2>3
<1>5. \A s, t : Main(s) # Why(t) /\ (Main(s) = Main(t) => s = t) /\ (Why(s) = Why(t) => s = t)
  BY DEF Main, Why
<1>6. ASSUME NEW i \in 1..(2 * N), NEW j \in 1..(2 * N), Slots[i] = Slots[j] PROVE i = j
  <2>1. PICK k \in 1..N : i = 2 * k \/ i = 2 * k - 1
    BY <1>4
  <2>2. PICK l \in 1..N : j = 2 * l \/ j = 2 * l - 1
    BY <1>4
  <2>3. /\ Slots[2 * k] = Main(Spine[k]) /\ Slots[2 * k - 1] = Why(Spine[k])
        /\ Slots[2 * l] = Main(Spine[l]) /\ Slots[2 * l - 1] = Why(Spine[l])
    BY <1>3
  <2>4. CASE i = 2 * k /\ j = 2 * l
    <3>1. Spine[k] = Spine[l]
      BY <1>5, <1>6, <2>3, <2>4
    <3>2. QED  BY <1>1, <2>4, <3>1
  <2>5. CASE i = 2 * k - 1 /\ j = 2 * l - 1
    <3>1. Spine[k] = Spine[l]
      BY <1>5, <1>6, <2>3, <2>5
    <3>2. QED  BY <1>1, <2>5, <3>1
  <2>6. QED  BY <1>5, <1>6, <2>1, <2>2, <2>3, <2>4, <2>5
<1>7. ASSUME NEW i \in 1..(2 * N) PROVE Slots[i] \in Names
  <2>1. PICK k \in 1..N : i = 2 * k \/ i = 2 * k - 1
    BY <1>4
  <2>2. Spine[k] \in Sections
    BY <1>1 DEF Sections
  <2>3. QED  BY <1>3, <2>1, <2>2 DEF Names
<1>8. Slots \in Seq(Names) /\ Len(Slots) = 2 * N
  <2>1. Slots \in [1..(2 * N) -> Names]
    BY <1>2, <1>7 DEF Slots
  <2>2. 2 * N \in Nat
    BY <1>1
  <2>3. QED  BY <2>1, <2>2
<1>9. ASSUME NEW n \in Canonical PROVE n \in Names /\ \E i \in 1..(2 * N) : Slots[i] = n
  <2>1. PICK s \in ToSet(Spine) : n = Main(s) \/ n = Why(s)
    BY <1>1 DEF Canonical
  <2>2. PICK k \in 1..N : s = Spine[k]
    BY <1>1, <2>1
  <2>3. \E i \in 1..(2 * N) : Slots[i] = n
    BY <1>3, <2>1, <2>2
  <2>4. QED  BY <1>7, <2>3
<1>10. QED  BY <1>1, <1>2, <1>6, <1>8, <1>9 DEF N

\* A canonical name is placed at its slot, any other name after all slots.
LEMMA Places ==
  /\ \A i \in DOMAIN Slots : Slots[i] \in Canonical => Place(Slots[i]) = i
  /\ \A n \in Names \ Canonical : Place(n) = 2 * Len(Spine) + 1
  /\ Place(NoName) = 2 * Len(Spine) + 2
<1>1. ASSUME NEW i \in DOMAIN Slots, Slots[i] \in Canonical PROVE Place(Slots[i]) = i
  <2>1. (CHOOSE j \in DOMAIN Slots : Slots[j] = Slots[i]) = i
    BY SlotsAre
  <2>2. QED  BY <1>1, <2>1 DEF Place
<1>2. NoName \notin Names
  BY DEF NoName, Names, Main, Why
<1>3. NoName \notin Canonical
  BY <1>2, SlotsAre
<1>4. QED  BY <1>1, <1>2, <1>3 DEF Place

\* A name is first seen at its first place.
LEMMA FirstOfName ==
  ASSUME NEW f \in Seq(CellType), NEW n \in NamesIn(f)
  PROVE  \E i \in DOMAIN f : f[i].name = n /\ \A j \in 1..(i - 1) : f[j].name # n
<1> DEFINE S == {i \in DOMAIN f : f[i].name = n}
           c == Cardinality(S)
<1>1. Len(f) \in Nat /\ S \in SUBSET (1..Len(f)) /\ S # {} /\ DOMAIN f = 1..Len(f)
  BY DEF NamesIn
<1>2. PICK m \in S : TRUE
  BY <1>1
<1> HIDE DEF S
<1>3. /\ c \in Nat
      /\ \A k \in 1..c : Nth(S, k) \in S
      /\ \A j, k \in 1..c : j < k <=> Nth(S, j) < Nth(S, k)
      /\ \A i \in S : Rank(S, i) \in 1..c /\ Nth(S, Rank(S, i)) = i
  BY <1>1, NthEnumerates
<1> HIDE DEF c
<1>4. 1 \in 1..c
  BY <1>2, <1>3
<1>5. ASSUME NEW j \in 1..(Nth(S, 1) - 1) PROVE j \notin S
  <2>1. SUFFICES ASSUME j \in S PROVE FALSE
    OBVIOUS
  <2>2. Nth(S, 1) \in 1..Len(f) /\ j \in 1..Len(f)
    BY <1>1, <1>3, <1>4, <2>1
  <2>3. Rank(S, j) \in 1..c /\ Nth(S, Rank(S, j)) = j
    BY <1>3, <2>1
  <2>4. j < Nth(S, 1)
    BY <2>2
  <2>5. Rank(S, j) < 1
    BY <1>3, <1>4, <2>3, <2>4
  <2>6. QED  BY <1>3, <2>3, <2>5
<1>6. Nth(S, 1) \in S /\ Nth(S, 1) \in 1..Len(f)
  BY <1>1, <1>3, <1>4
<1>7. \A j \in 1..(Nth(S, 1) - 1) : j \in DOMAIN f
  BY <1>1, <1>6
<1>8. QED  BY <1>5, <1>6, <1>7 DEF S

\* The canonical names there are come once each, by their slots.
LEMMA ListedIs ==
  ASSUME NEW f \in Seq(CellType)
  PROVE  /\ Listed(f) \in Seq(Names)
         /\ \A k \in DOMAIN Listed(f) :
              /\ Listed(f)[k] \in NamesIn(f) \cap Canonical
              /\ Place(Listed(f)[k]) \in 1..(2 * Len(Spine))
         /\ \A k, l \in DOMAIN Listed(f) :
              k < l => Place(Listed(f)[k]) < Place(Listed(f)[l])
         /\ \A n \in NamesIn(f) \cap Canonical : \E k \in DOMAIN Listed(f) : Listed(f)[k] = n
<1> DEFINE S == {i \in DOMAIN Slots : Slots[i] \in NamesIn(f) \cap Canonical}
           p == Picked(Slots, S)
           c == Cardinality(S)
<1>1. S \in SUBSET (DOMAIN Slots) /\ Slots \in Seq(Names) /\ DOMAIN Slots = 1..(2 * Len(Spine))
  BY SlotsAre
<1>2. Listed(f) = p
  BY DEF Listed
<1> HIDE DEF S
<1>3. /\ p \in Seq(Names) /\ c \in Nat /\ DOMAIN p = 1..c
      /\ \A k \in 1..c : Nth(S, k) \in S /\ p[k] = Slots[Nth(S, k)]
      /\ \A k, l \in 1..c : k < l <=> Nth(S, k) < Nth(S, l)
      /\ \A i \in S : \E k \in 1..c : Nth(S, k) = i
  BY <1>1, PickedIs
<1> HIDE DEF p, c
<1>4. ASSUME NEW k \in 1..c
      PROVE  /\ p[k] \in NamesIn(f) \cap Canonical /\ Place(p[k]) = Nth(S, k)
             /\ Nth(S, k) \in 1..(2 * Len(Spine))
  <2>1. Nth(S, k) \in DOMAIN Slots /\ Slots[Nth(S, k)] \in NamesIn(f) \cap Canonical
    BY <1>3 DEF S
  <2>2. QED  BY <1>1, <1>3, <2>1, Places
<1>5. ASSUME NEW n \in NamesIn(f) \cap Canonical PROVE \E k \in 1..c : p[k] = n
  <2>1. PICK i \in DOMAIN Slots : Slots[i] = n
    BY SlotsAre
  <2>2. i \in S
    BY <2>1 DEF S
  <2>3. PICK k \in 1..c : Nth(S, k) = i
    BY <1>3, <2>2
  <2>4. QED  BY <1>3, <2>1, <2>3
<1>6. ASSUME NEW k \in 1..c, NEW l \in 1..c, k < l PROVE Place(p[k]) < Place(p[l])
  BY <1>3, <1>4, <1>6
<1>7. \A k \in DOMAIN p : p[k] \in NamesIn(f) \cap Canonical /\ Place(p[k]) \in 1..(2 * Len(Spine))
  BY <1>3, <1>4
<1>8. QED  BY <1>2, <1>3, <1>5, <1>6, <1>7

\* So do the others, by where they were first seen.
LEMMA CustomIs ==
  ASSUME NEW f \in Seq(CellType)
  PROVE  /\ Custom(f) \in Seq(Names)
         /\ \A k \in DOMAIN Custom(f) : Custom(f)[k] \in NamesIn(f) \ Canonical
         /\ \A k, l \in DOMAIN Custom(f) : k < l => Custom(f)[k] # Custom(f)[l]
         /\ \A n \in NamesIn(f) \ Canonical : \E k \in DOMAIN Custom(f) : Custom(f)[k] = n
<1> DEFINE S == {i \in DOMAIN f : /\ f[i].name \in NamesIn(f) \ Canonical
                                  /\ \A j \in 1..(i - 1) : f[j].name # f[i].name}
           names == [i \in DOMAIN f |-> f[i].name]
           A == Names \cup {NoName}
           p == Picked(names, S)
           c == Cardinality(S)
<1>1. names \in Seq(A) /\ DOMAIN names = DOMAIN f /\ S \in SUBSET (DOMAIN names)
  <2>1. ASSUME NEW x \in CellType PROVE x.name \in A
    BY DEF CellType
  <2>2. \A i \in DOMAIN f : f[i].name \in A
    BY <2>1
  <2> HIDE DEF A
  <2>3. names \in [1..Len(f) -> A] /\ Len(f) \in Nat
    BY <2>2
  <2>4. QED  BY <2>3
<1>2. Custom(f) = p
  BY DEF Custom
<1>3. \A i \in DOMAIN f : names[i] = f[i].name
  OBVIOUS
<1> HIDE DEF S, names, A, p, c
<1>4. /\ p \in Seq(A) /\ c \in Nat /\ DOMAIN p = 1..c
      /\ \A k \in 1..c : Nth(S, k) \in S /\ p[k] = names[Nth(S, k)]
      /\ \A k, l \in 1..c : k < l <=> Nth(S, k) < Nth(S, l)
      /\ \A i \in S : \E k \in 1..c : Nth(S, k) = i
  <2>1. PICK q, m : q = names /\ m = S
    OBVIOUS
  <2>2. q \in Seq(A) /\ m \in SUBSET (DOMAIN q) /\ p = Picked(q, m) /\ c = Cardinality(m)
    BY <1>1, <2>1 DEF p, c
  <2>3. /\ p \in Seq(A) /\ c \in Nat /\ DOMAIN p = 1..c
        /\ \A k \in 1..c : Nth(m, k) \in m /\ p[k] = q[Nth(m, k)]
        /\ \A k, l \in 1..c : k < l <=> Nth(m, k) < Nth(m, l)
        /\ \A i \in m : \E k \in 1..c : Nth(m, k) = i
    BY <2>2, PickedIs
  <2>4. QED  BY <2>1, <2>3
<1>5. \A k \in 1..c : Nth(S, k) \in DOMAIN f /\ p[k] = f[Nth(S, k)].name
  BY <1>3, <1>4 DEF S
<1>6. \A k \in 1..c : p[k] \in NamesIn(f) \ Canonical
  BY <1>4, <1>5 DEF S
<1>7. ASSUME NEW k \in 1..c, NEW l \in 1..c, k < l PROVE p[k] # p[l]
  <2>1. /\ Nth(S, k) < Nth(S, l) /\ Nth(S, k) \in 1..Len(f) /\ Nth(S, l) \in 1..Len(f)
        /\ Len(f) \in Nat
    BY <1>4, <1>5, <1>7
  <2>2. Nth(S, k) \in 1..(Nth(S, l) - 1)
    BY <2>1
  <2>3. f[Nth(S, k)].name # f[Nth(S, l)].name
    BY <1>4, <2>2 DEF S
  <2>4. QED  BY <1>5, <2>3
<1>8. ASSUME NEW n \in NamesIn(f) \ Canonical PROVE \E k \in 1..c : p[k] = n
  <2>1. PICK i \in DOMAIN f : f[i].name = n /\ \A j \in 1..(i - 1) : f[j].name # n
    BY FirstOfName
  <2>2. i \in S
    BY <2>1 DEF S
  <2>3. PICK k \in 1..c : Nth(S, k) = i
    BY <1>4, <2>2
  <2>4. QED  BY <1>5, <2>1, <2>3
<1>9. p \in Seq(Names)
  <2>1. \A k \in 1..c : p[k] \in Names
    BY <1>6, NamesTyped
  <2>2. p \in [1..c -> Names]
    BY <1>4, <2>1
  <2>3. QED  BY <1>4, <2>2
<1>10. QED  BY <1>2, <1>4, <1>6, <1>7, <1>8, <1>9

\* The names an emitted notebook lists: each of those there, once, in place.
LEMMA EmittedNames ==
  ASSUME NEW f \in Seq(CellType), NEW s, s = Ordered(f)
  PROVE  /\ s \in Seq(Names)
         /\ \A k \in DOMAIN s : s[k] \in NamesIn(f) /\ Place(s[k]) \in 1..(2 * Len(Spine) + 1)
         /\ \A k, l \in DOMAIN s : k < l => s[k] # s[l] /\ Place(s[k]) <= Place(s[l])
         /\ \A n \in NamesIn(f) : \E k \in DOMAIN s : s[k] = n
<1>1. PICK p, c : p = Listed(f) /\ c = Custom(f)
  OBVIOUS
<1> DEFINE N == 2 * Len(Spine)
<1>2. /\ p \in Seq(Names) /\ c \in Seq(Names) /\ N \in Nat
      /\ \A k \in DOMAIN p : p[k] \in NamesIn(f) \cap Canonical /\ Place(p[k]) \in 1..N
      /\ \A k, l \in DOMAIN p : k < l => Place(p[k]) < Place(p[l])
      /\ \A n \in NamesIn(f) \cap Canonical : \E k \in DOMAIN p : p[k] = n
      /\ \A k \in DOMAIN c : c[k] \in NamesIn(f) \ Canonical
      /\ \A k, l \in DOMAIN c : k < l => c[k] # c[l]
      /\ \A n \in NamesIn(f) \ Canonical : \E k \in DOMAIN c : c[k] = n
  BY <1>1, ListedIs, CustomIs, SlotsAre
<1>3. \A k \in DOMAIN c : Place(c[k]) = N + 1
  BY <1>2, NamesTyped, Places
<1> HIDE DEF N
<1>4. /\ s \in Seq(Names) /\ Len(p) \in Nat /\ Len(c) \in Nat
      /\ DOMAIN p = 1..Len(p) /\ DOMAIN c = 1..Len(c) /\ DOMAIN s = 1..(Len(p) + Len(c))
      /\ \A k \in 1..Len(p) : k \in DOMAIN s /\ s[k] = p[k]
      /\ \A k \in 1..Len(c) : Len(p) + k \in DOMAIN s /\ s[Len(p) + k] = c[k]
  <2>1. s = p \o c
    BY <1>1 DEF Ordered
  <2>2. p \in Seq(Names) /\ c \in Seq(Names)
    BY <1>2
  <2>3. QED  BY <2>1, <2>2, Joined
<1>5. ASSUME NEW k \in DOMAIN s
      PROVE  \/ k \in 1..Len(p) /\ s[k] = p[k]
             \/ k - Len(p) \in 1..Len(c) /\ s[k] = c[k - Len(p)] /\ k > Len(p)
  <2>1. CASE k <= Len(p)
    BY <1>4, <2>1
  <2>2. CASE k > Len(p)
    <3>1. k - Len(p) \in 1..Len(c) /\ Len(p) + (k - Len(p)) = k
      BY <1>4, <2>2
    <3>2. QED  BY <1>4, <2>2, <3>1
  <2>3. QED  BY <1>4, <2>1, <2>2
<1>6. ASSUME NEW k \in DOMAIN s
      PROVE  s[k] \in NamesIn(f) /\ Place(s[k]) \in 1..(N + 1)
  BY <1>2, <1>3, <1>4, <1>5
<1>7. ASSUME NEW k \in DOMAIN s, NEW l \in DOMAIN s, k < l
      PROVE  s[k] # s[l] /\ Place(s[k]) <= Place(s[l])
  <2>1. k \in Nat /\ l \in Nat
    BY <1>4
  <2>2. CASE k \in DOMAIN p /\ s[k] = p[k] /\ l \in DOMAIN p /\ s[l] = p[l]
    BY <1>2, <1>7, <2>2
  <2>3. CASE k \in DOMAIN p /\ s[k] = p[k] /\ l - Len(p) \in DOMAIN c /\ s[l] = c[l - Len(p)]
    BY <1>2, <1>3, <2>3
  <2>4. CASE /\ k - Len(p) \in DOMAIN c /\ s[k] = c[k - Len(p)]
             /\ l - Len(p) \in DOMAIN c /\ s[l] = c[l - Len(p)]
    <3>1. k - Len(p) < l - Len(p)
      BY <1>4, <1>7, <2>1
    <3>2. Place(s[k]) = N + 1 /\ Place(s[l]) = N + 1
      BY <1>3, <2>4
    <3>3. QED  BY <1>2, <2>4, <3>1, <3>2
  <2>5. ~(k > Len(p) /\ l <= Len(p))
    BY <1>4, <1>7, <2>1
  <2>6. /\ \/ k \in DOMAIN p /\ s[k] = p[k] /\ k <= Len(p)
           \/ k - Len(p) \in DOMAIN c /\ s[k] = c[k - Len(p)] /\ k > Len(p)
        /\ \/ l \in DOMAIN p /\ s[l] = p[l] /\ l <= Len(p)
           \/ l - Len(p) \in DOMAIN c /\ s[l] = c[l - Len(p)]
    BY <1>4, <1>5
  <2>7. QED  BY <2>2, <2>3, <2>4, <2>5, <2>6
<1>8. ASSUME NEW n \in NamesIn(f) PROVE \E k \in DOMAIN s : s[k] = n
  <2>1. CASE n \in Canonical
    <3>1. PICK k \in DOMAIN p : p[k] = n
      BY <1>2, <2>1
    <3>2. QED  BY <1>4, <3>1
  <2>2. CASE n \notin Canonical
    <3>1. PICK k \in DOMAIN c : c[k] = n
      BY <1>2, <2>2
    <3>2. QED  BY <1>4, <3>1
  <2>3. QED  BY <2>1, <2>2
<1>9. QED  BY <1>4, <1>6, <1>7, <1>8 DEF N

LEMMA ExtrasAre ==
  ASSUME NEW f \in Seq(CellType)
  PROVE  /\ Extras(f) \in Seq(CellType)
         /\ \A k \in DOMAIN Extras(f) : Extras(f)[k].name = NoName
         /\ Len(Extras(f)) = Cardinality({i \in DOMAIN f : f[i].name = NoName})
         /\ Len(Extras(f)) \in Nat
<1> DEFINE S == {i \in DOMAIN f : f[i].name = NoName}
<1>1. S \in SUBSET (DOMAIN f)
  OBVIOUS
<1>2. Extras(f) = Picked(f, S)
  BY DEF Extras
<1>3. \A i \in S : f[i].name = NoName
  OBVIOUS
<1> HIDE DEF S
<1>4. /\ Picked(f, S) \in Seq(CellType) /\ Cardinality(S) \in Nat
      /\ DOMAIN Picked(f, S) = 1..Cardinality(S) /\ Len(Picked(f, S)) = Cardinality(S)
      /\ \A k \in 1..Cardinality(S) : Nth(S, k) \in S /\ Picked(f, S)[k] = f[Nth(S, k)]
  BY <1>1, PickedIs
<1>5. QED  BY <1>2, <1>3, <1>4 DEF S

\* What add and edit write: the latest text of each name that was there or is
\* set, one cell each, in place, and then as many unnamed cells as there were.
LEMMA Emitted ==
  ASSUME NEW f \in Seq(CellType), NEW g \in Seq(CellType), NEW e, e = Emit(f, g)
  PROVE  /\ e \in Seq(CellType)
         /\ NamesIn(e) = NamesIn(f \o g)
         /\ \A n \in NamesIn(f \o g) : Text(e, n) = Text(f \o g, n)
         /\ InOrder(e)
         /\ Len(Extras(e)) = Len(Extras(f))
<1>1. PICK h, s, x : h = f \o g /\ s = Ordered(h) /\ x = Extras(f)
  OBVIOUS
<1> DEFINE N == 2 * Len(Spine)
           S == Len(s)
           X == Len(x)
           w == [i \in DOMAIN s |-> Cell(s[i], Text(h, s[i]))]
<1>2. h \in Seq(CellType)
  BY <1>1
<1>3. /\ s \in Seq(Names) /\ S \in Nat /\ DOMAIN s = 1..S /\ N \in Nat
      /\ \A k \in 1..S : s[k] \in NamesIn(h) /\ Place(s[k]) \in 1..(N + 1)
      /\ \A k, l \in 1..S : k < l => s[k] # s[l] /\ Place(s[k]) <= Place(s[l])
      /\ \A n \in NamesIn(h) : \E k \in 1..S : s[k] = n
  <2>1. /\ s \in Seq(Names)
        /\ \A k \in DOMAIN s : s[k] \in NamesIn(h) /\ Place(s[k]) \in 1..(2 * Len(Spine) + 1)
        /\ \A k, l \in DOMAIN s : k < l => s[k] # s[l] /\ Place(s[k]) <= Place(s[l])
        /\ \A n \in NamesIn(h) : \E k \in DOMAIN s : s[k] = n
    <3>1. s = Ordered(h)
      BY <1>1
    <3>2. QED  BY <1>2, <3>1, EmittedNames
  <2>2. S \in Nat /\ DOMAIN s = 1..S
    BY <2>1
  <2>3. N \in Nat
    BY SlotsAre
  <2>4. QED  BY <2>1, <2>2, <2>3
<1>4. /\ x \in Seq(CellType) /\ X \in Nat /\ DOMAIN x = 1..X
      /\ \A k \in 1..X : x[k].name = NoName
  <2>1. x \in Seq(CellType) /\ \A k \in DOMAIN x : x[k].name = NoName
    BY <1>1, ExtrasAre
  <2>2. X \in Nat /\ DOMAIN x = 1..X
    BY <2>1
  <2>3. QED  BY <2>1, <2>2
<1>5. e = w \o x
  BY <1>1 DEF Emit
<1>6. /\ w \in Seq(CellType) /\ Len(w) = S /\ DOMAIN w = 1..S
      /\ \A k \in 1..S : w[k].name = s[k] /\ w[k].text = Text(h, s[k])
  <2>1. \A k \in 1..S : w[k].name = s[k] /\ w[k].text = Text(h, s[k])
    BY <1>3 DEF Cell
  <2>2. \A k \in 1..S : s[k] \in Names /\ Text(h, s[k]) \in Texts
    BY <1>2, <1>3, NamesTyped
  <2>3. \A k \in 1..S : Cell(s[k], Text(h, s[k])) \in CellType
    BY <2>2 DEF Cell, CellType
  <2>4. w \in [1..S -> CellType]
    BY <1>3, <2>3
  <2> HIDE DEF w, S
  <2>5. QED  BY <1>3, <2>1, <2>4
<1> HIDE DEF w, S, X, N
<1>7. /\ e \in Seq(CellType) /\ Len(e) = S + X /\ DOMAIN e = 1..(S + X)
      /\ \A k \in 1..S : k \in DOMAIN e /\ e[k] = w[k]
      /\ \A k \in 1..X : S + k \in DOMAIN e /\ e[S + k] = x[k]
  <2>1. Len(x) = X
    BY DEF X
  <2>2. e \in Seq(CellType) /\ DOMAIN e = 1..(S + X)
    BY <1>4, <1>5, <1>6, <2>1, Joined
  <2>3. Len(e) = S + X
    BY <1>3, <1>4, <2>2
  <2>4. \A k \in 1..S : k \in DOMAIN e /\ e[k] = w[k]
    BY <1>4, <1>5, <1>6, <2>1, Joined
  <2>5. \A k \in 1..X : S + k \in DOMAIN e /\ e[S + k] = x[k]
    BY <1>4, <1>5, <1>6, <2>1, Joined
  <2>6. QED  BY <2>2, <2>3, <2>4, <2>5
<1>8. ASSUME NEW k \in DOMAIN e
      PROVE  \/ k \in 1..S /\ e[k].name = s[k] /\ e[k].text = Text(h, s[k])
             \/ k > S /\ e[k].name = NoName
  <2>1. CASE k <= S
    <3>1. k \in 1..S
      BY <1>3, <1>4, <1>7, <2>1
    <3>2. QED  BY <1>6, <1>7, <3>1
  <2>2. CASE k > S
    <3>1. k - S \in 1..X /\ S + (k - S) = k
      BY <1>3, <1>4, <1>7, <2>2
    <3>2. QED  BY <1>4, <1>7, <2>2, <3>1
  <2>3. QED  BY <1>3, <1>4, <1>7, <2>1, <2>2
<1>9. ASSUME NEW k \in 1..S
      PROVE  k \in DOMAIN e /\ e[k].name = s[k] /\ e[k].text = Text(h, s[k]) /\ s[k] # NoName
  BY <1>2, <1>3, <1>6, <1>7, NamesTyped
<1>10. NamesIn(e) = NamesIn(h)
  <2>1. ASSUME NEW n \in NamesIn(e) PROVE n \in NamesIn(h)
    <3>1. PICK k \in DOMAIN e : e[k].name = n /\ n # NoName
      BY DEF NamesIn
    <3>2. QED  BY <1>3, <1>8, <3>1
  <2>2. ASSUME NEW n \in NamesIn(h) PROVE n \in NamesIn(e)
    <3>1. PICK k \in 1..S : s[k] = n
      BY <1>3
    <3>2. QED  BY <1>9, <3>1 DEF NamesIn
  <2>3. QED  BY <2>1, <2>2
<1>11. ASSUME NEW n \in NamesIn(h) PROVE Text(e, n) = Text(h, n)
  <2>1. PICK k \in 1..S : s[k] = n
    BY <1>3
  <2>2. ASSUME NEW i \in DOMAIN e, e[i].name = n PROVE i <= k
    <3>1. i \in 1..S /\ s[i] = s[k]
      BY <1>8, <1>9, <2>1, <2>2
    <3>2. ~(k < i)
      BY <1>3, <3>1
    <3>3. QED  BY <1>3, <3>1, <3>2
  <2>3. k \in DOMAIN e /\ e[k].name = n /\ n # NoName /\ e[k].text = Text(h, n)
    BY <1>9, <2>1
  <2>4. QED  BY <1>7, <2>2, <2>3, TextIs
<1>12. ASSUME NEW i \in DOMAIN e, NEW j \in DOMAIN e, i < j
       PROVE  /\ Place(e[i].name) <= Place(e[j].name)
              /\ e[i].name = e[j].name => e[i].name = NoName
  <2>1. Place(NoName) = N + 2
    BY Places DEF N
  <2>2. i \in Nat /\ j \in Nat
    BY <1>7
  <2>3. CASE i \in 1..S /\ j \in 1..S
    <3>1. e[i].name = s[i] /\ e[j].name = s[j]
      BY <1>9, <2>3
    <3>2. QED  BY <1>3, <1>12, <2>3, <3>1
  <2>4. CASE i \in 1..S /\ e[j].name = NoName
    <3>1. e[i].name = s[i] /\ s[i] # NoName /\ Place(s[i]) \in 1..(N + 1)
      BY <1>3, <1>9, <2>4
    <3>2. QED  BY <1>3, <2>1, <2>4, <3>1
  <2>5. CASE e[i].name = NoName /\ e[j].name = NoName
    BY <1>3, <2>1, <2>5
  <2>6. ~(i > S /\ j \in 1..S)
    BY <1>3, <1>12, <2>2
  <2>7. QED  BY <1>8, <2>3, <2>4, <2>5, <2>6
<1>13. Len(Extras(e)) = X
  <2> DEFINE T == {k \in DOMAIN e : e[k].name = NoName}
  <2>1. T = (S + 1)..(S + X)
    <3>1. ASSUME NEW k \in T PROVE k \in (S + 1)..(S + X)
      <4>1. k \notin 1..S /\ k \in 1..(S + X)
        BY <1>7, <1>9
      <4>2. QED  BY <1>3, <1>4, <4>1
    <3>2. ASSUME NEW k \in (S + 1)..(S + X) PROVE k \in T
      <4>1. k \in DOMAIN e /\ k \notin 1..S
        BY <1>3, <1>4, <1>7
      <4>2. QED  BY <1>8, <4>1
    <3>3. QED  BY <3>1, <3>2
  <2> HIDE DEF T
  <2>2. Cardinality((S + 1)..(S + X)) = X
    <3>1. S + 1 \in Int /\ S + X \in Int
      BY <1>3, <1>4
    <3>2. PICK a, b : a = S + 1 /\ b = S + X
      OBVIOUS
    <3>3. Cardinality(a..b) = IF a > b THEN 0 ELSE b - a + 1
      BY <3>1, <3>2, FS_Interval
    <3>4. QED  BY <1>3, <1>4, <3>2, <3>3
  <2>3. Len(Extras(e)) = Cardinality(T)
    BY <1>7, ExtrasAre DEF T
  <2>4. QED  BY <2>1, <2>2, <2>3
<1>14. QED  BY <1>1, <1>7, <1>10, <1>11, <1>12, <1>13 DEF X, InOrder

-----------------------------------------------------------------------------
(* The invariant of the notebook, when one call runs at a time.            *)

Ops == {"none", "add", "edit", "delete", "raw"}

FileType == [state : {"absent", "emptied", "mixed", "ok"}, cells : Seq(CellType)]

CallType ==
  [pc : {"idle", "loaded", "writing"}, op : Ops,
   cells : Seq(CellType), set : Seq(CellType), drop : SUBSET Names]

\* Adding and editing leave nothing out, a raw write everything; a delete sets
\* nothing.
Consistent(x) ==
  /\ x.op \in {"add", "edit"} => x.drop = {}
  /\ x.op = "raw" => x.drop = Names
  /\ x.op = "delete" => x.set = <<>>
  /\ x.op = "none" => x.pc = "idle"

NotebookTypeOK ==
  /\ notebook \in FileType
  /\ call \in [Calls -> CallType]
  /\ \A c \in Calls : Consistent(call[c])
  /\ DOMAIN kept \subseteq Names /\ DOMAIN revs \subseteq Names
  /\ checks \in 0..CheckBudget /\ writes \in 0..MaxWrites /\ kills \in 0..MaxKills

AsTold(cells) ==
  /\ NamesIn(cells) = DOMAIN kept
  /\ \A n \in DOMAIN kept : Text(cells, n) = kept[n]

\* Between opening the notebook and writing it, the call holds its cells.
HeldCells ==
  /\ \A c \in Calls :
       /\ call[c].pc = "loaded" => call[c].cells = Loaded
       /\ call[c].pc = "writing" => notebook = Emptied /\ AsTold(call[c].cells)
  /\ (\A c \in Calls : call[c].pc # "writing") => AsTold(Loaded)

\* The Claude backend runs the tool calls of a turn one by one.
OneCall == \A c, d \in Calls : c = d

-----------------------------------------------------------------------------
LEMMA LoadedTyped == NotebookTypeOK => Loaded \in Seq(CellType)
BY DEF NotebookTypeOK, FileType, Loaded

LEMMA FilesTyped ==
  /\ Absent \in FileType /\ Emptied \in FileType /\ Mixed \in FileType
  /\ \A cells \in Seq(CellType) : Saved(cells) \in FileType
BY DEF FileType, Absent, Emptied, Mixed, Saved

LEMMA CellsTyped ==
  ASSUME NEW n \in Names, NEW t \in Texts
  PROVE  /\ <<Cell(n, t)>> \in Seq(CellType)
         /\ \A m \in Names : <<Cell(m, t), Cell(n, t)>> \in Seq(CellType)
<1>1. \A m \in Names : Cell(m, t) \in CellType
  BY DEF Cell, CellType
<1>2. QED  BY <1>1

LEMMA SectionNames ==
  /\ \A s \in Sections : Main(s) \in Names /\ Why(s) \in Names
  /\ \A n \in {Main(s) : s \in Pillars} : n \in Names /\ Why(n[1]) \in Names
<1>1. \A s \in Sections : Main(s) \in Names /\ Why(s) \in Names
  BY DEF Names
<1>2. ASSUME NEW s \in Pillars PROVE s \in Sections /\ Main(s)[1] = s
  BY SpineAssumption DEF Sections, Main
<1>3. QED  BY <1>1, <1>2

LEMMA DropsNames == \A n \in Names : DropTargets(n) \in SUBSET Names
<1> SUFFICES ASSUME NEW n \in Names PROVE DropTargets(n) \in SUBSET Names
  OBVIOUS
<1>1. CASE n \in {Main(s) : s \in Pillars}
  BY <1>1, SectionNames DEF DropTargets
<1>2. CASE n \notin {Main(s) : s \in Pillars}
  BY <1>2 DEF DropTargets
<1>3. QED  BY <1>1, <1>2

\* A call of a tool that writes is accepted.
Accepting(c) ==
  \E x \in CallType : /\ x.pc = "loaded" /\ x.op # "none" /\ x.cells = Loaded /\ Consistent(x)
                      /\ Accept(c, x.op, x.set, x.drop)

LEMMA Accepted ==
  ASSUME NotebookTypeOK, NEW c \in Calls,
         NEW op \in {"add", "edit", "delete", "raw"}, NEW set \in Seq(CellType),
         NEW drop \in SUBSET Names,
         op \in {"add", "edit"} => drop = {}, op = "raw" => drop = Names,
         op = "delete" => set = <<>>, Accept(c, op, set, drop)
  PROVE  Accepting(c)
<1> DEFINE x == [pc |-> "loaded", op |-> op, cells |-> Loaded, set |-> set, drop |-> drop]
<1>1. x \in CallType
  BY LoadedTyped DEF CallType, Ops
<1>2. Consistent(x)
  BY DEF Consistent
<1>3. QED  BY <1>1, <1>2 DEF Accepting

\* What the actions of the notebook come down to.
LEMMA NotebookSteps ==
  ASSUME NotebookTypeOK, NotebookNext
  PROVE  \/ \E c \in Calls : Accepting(c) \/ BeginWrite(c) \/ EndWrite(c)
         \/ \E names : ShowNotebook(names)
         \/ CheckDeliverable \/ Kill \/ FreshRun
<1>1. ASSUME NEW c \in Calls, NEW n \in Names, NEW t \in Texts,
             \/ AddPipelineMarkdownCell(c, n, t)
             \/ EditPipelineCell(c, n, t)
             \/ SurgicalEdit(c, n, t)
      PROVE  Accepting(c)
  <2>1. \A m \in Names : <<Cell(n, t)>> \in Seq(CellType)
                        /\ <<Cell(m, t)>> \in Seq(CellType)
                        /\ <<Cell(m, t), Cell(n, t)>> \in Seq(CellType)
    BY CellsTyped
  <2>2. CASE AddPipelineMarkdownCell(c, n, t)
    <3>1. PICK set : set = <<Cell(n, t)>> /\ Accept(c, "add", set, {})
      BY <2>2 DEF AddPipelineMarkdownCell
    <3>2. set \in Seq(CellType) /\ Accept(c, "add", set, {})
      BY <2>1, <3>1
    <3>3. QED  BY <3>2, Accepted
  <2>3. CASE SurgicalEdit(c, n, t)
    <3>1. PICK set : set = <<Cell(n, t)>> /\ Accept(c, "edit", set, {})
      BY <2>3 DEF SurgicalEdit
    <3>2. set \in Seq(CellType) /\ Accept(c, "edit", set, {})
      BY <2>1, <3>1
    <3>3. QED  BY <3>2, Accepted
  <2>4. CASE EditPipelineCell(c, n, t)
    <3>1. PICK set : /\ Accept(c, "edit", set, {})
                     /\ \/ set = <<Cell(n, t)>>
                        \/ /\ n \in {Main(s) : s \in Pillars}
                           /\ set \in {<<Cell(Why(n[1]), t)>>, <<Cell(Why(n[1]), t), Cell(n, t)>>}
      BY <2>4 DEF EditPipelineCell
    <3>2. set \in Seq(CellType)
      BY <2>1, <3>1, SectionNames
    <3>3. QED  BY <3>1, <3>2, Accepted
  <2>5. QED  BY <1>1, <2>2, <2>3, <2>4
<1>2. ASSUME NEW c \in Calls, NEW s \in Sections, NEW t \in Texts, AddPipelineCell(c, s, t)
      PROVE  Accepting(c)
  <2>1. PICK set : set = <<Cell(Why(s), t), Cell(Main(s), t)>> /\ Accept(c, "add", set, {})
    BY <1>2 DEF AddPipelineCell
  <2>2. set \in Seq(CellType) /\ Accept(c, "add", set, {})
    BY <2>1, CellsTyped, SectionNames
  <2>3. QED  BY <2>2, Accepted
<1>3. ASSUME NEW c \in Calls, NEW n \in Names, DeletePipelineCell(c, n)
      PROVE  Accepting(c)
  <2>1. Accept(c, "delete", <<>>, DropTargets(n)) /\ DropTargets(n) \in SUBSET Names
    BY <1>3, DropsNames DEF DeletePipelineCell
  <2>2. <<>> \in Seq(CellType)
    OBVIOUS
  <2>3. QED  BY <2>1, <2>2, Accepted
<1>4. ASSUME NEW c \in Calls, NEW cells \in RawNotebooks, WriteDeliverable(c, cells)
      PROVE  Accepting(c)
  <2>1. cells \in Seq(CellType)
    BY RawAssumption
  <2>2. Accept(c, "raw", cells, Names)
    BY <1>4 DEF WriteDeliverable
  <2>3. QED  BY <2>1, <2>2, Accepted
<1>5. QED  BY <1>1, <1>2, <1>3, <1>4 DEF NotebookNext

\* What a write leaves is cells again.
LEMMA ResultTyped ==
  ASSUME NotebookTypeOK, NEW c \in Calls
  PROVE  Result(c) \in Seq(CellType)
<1>1. PICK f, g, D : f = call[c].cells /\ g = call[c].set /\ D = call[c].drop
  OBVIOUS
<1>2. f \in Seq(CellType) /\ g \in Seq(CellType)
  BY <1>1 DEF NotebookTypeOK, CallType
<1>3. Remaining(f, D) \in Seq(CellType)
  BY <1>2, RemainingIs
<1>4. Emit(f, g) \in Seq(CellType)
  BY <1>2, Emitted
<1>5. Result(c) \in {g, Remaining(f, D), Emit(f, g)}
  BY <1>1 DEF Result
<1>6. QED  BY <1>2, <1>3, <1>4, <1>5

LEMMA IdleTyped == Idle \in CallType /\ Consistent(Idle) /\ Idle.pc = "idle"
BY DEF Idle, CallType, Ops, Consistent

\* What the agent was told, once the call is done.
LEMMA ToldIs ==
  ASSUME NEW c, NEW f
  PROVE  /\ DOMAIN Told(c, f) = (DOMAIN f \ call[c].drop) \cup NamesIn(call[c].set)
         /\ \A n \in NamesIn(call[c].set) : Told(c, f)[n] = Text(call[c].set, n)
         /\ \A n \in (DOMAIN f \ call[c].drop) \ NamesIn(call[c].set) : Told(c, f)[n] = f[n]
BY DEF Told

LEMMA AcceptingKeepsTypes ==
  ASSUME NotebookTypeOK, NEW c \in Calls, Accepting(c)
  PROVE  NotebookTypeOK'
<1>1. PICK x \in CallType : /\ x.pc = "loaded" /\ x.op # "none" /\ x.cells = Loaded /\ Consistent(x)
                            /\ Accept(c, x.op, x.set, x.drop)
  BY DEF Accepting
<1>2. x = [pc |-> "loaded", op |-> x.op, cells |-> Loaded, set |-> x.set, drop |-> x.drop]
  BY <1>1 DEF CallType
<1>3. /\ call' = [call EXCEPT ![c] = x] /\ UNCHANGED <<notebook, kept, revs, checks, kills>>
      /\ writes' = writes + 1 /\ writes < MaxWrites
  BY <1>1, <1>2 DEF Accept
<1>4. writes' \in 0..MaxWrites
  BY <1>3, CountAssumption DEF NotebookTypeOK
<1>5. QED  BY <1>1, <1>3, <1>4 DEF NotebookTypeOK

LEMMA EndWriteKeepsTypes ==
  ASSUME NotebookTypeOK, NEW c \in Calls, EndWrite(c)
  PROVE  NotebookTypeOK'
<1>1. /\ notebook' = Saved(Result(c)) \/ notebook' = Mixed
      /\ kept' = Told(c, kept) /\ revs' = Told(c, revs)
      /\ UNCHANGED <<checks, writes, kills>>
      /\ call' = [call EXCEPT ![c] = Idle]
  BY DEF EndWrite
<1>2. notebook' \in FileType
  BY <1>1, ResultTyped, FilesTyped
<1>3. DOMAIN kept' \subseteq Names /\ DOMAIN revs' \subseteq Names
  <2>1. /\ NamesIn(call[c].set) \subseteq Names
        /\ DOMAIN kept \subseteq Names /\ DOMAIN revs \subseteq Names
    BY NamesTyped DEF NotebookTypeOK, CallType
  <2>2. /\ DOMAIN kept' = (DOMAIN kept \ call[c].drop) \cup NamesIn(call[c].set)
        /\ DOMAIN revs' = (DOMAIN revs \ call[c].drop) \cup NamesIn(call[c].set)
    BY <1>1, ToldIs
  <2>3. QED  BY <2>1, <2>2
<1>4. call' \in [Calls -> CallType] /\ \A d \in Calls : Consistent(call'[d])
  BY <1>1, IdleTyped DEF NotebookTypeOK
<1>5. QED  BY <1>1, <1>2, <1>3, <1>4 DEF NotebookTypeOK

LEMMA BeginWriteKeepsTypes ==
  ASSUME NotebookTypeOK, NEW c \in Calls, BeginWrite(c)
  PROVE  NotebookTypeOK'
<1>1. /\ notebook' = Emptied /\ call[c].pc = "loaded"
      /\ UNCHANGED <<kept, revs, checks, writes, kills>>
      /\ call' = [call EXCEPT ![c].pc = "writing"]
  BY DEF BeginWrite
<1>2. notebook' \in FileType
  BY <1>1, FilesTyped
<1>3. PICK x : x = call[c]
  OBVIOUS
<1>4. x \in CallType /\ Consistent(x) /\ x.pc = "loaded"
  BY <1>1, <1>3 DEF NotebookTypeOK
<1>5. [x EXCEPT !.pc = "writing"] \in CallType /\ Consistent([x EXCEPT !.pc = "writing"])
  BY <1>4 DEF CallType, Consistent
<1>6. call' = [call EXCEPT ![c] = [x EXCEPT !.pc = "writing"]]
  BY <1>1, <1>3
<1>7. call' \in [Calls -> CallType] /\ \A d \in Calls : Consistent(call'[d])
  BY <1>5, <1>6 DEF NotebookTypeOK
<1>8. QED  BY <1>1, <1>2, <1>7 DEF NotebookTypeOK

\* Whatever the number of calls, what is in the notebook and what a call holds
\* are cells, and a call knows what it may leave out.
THEOREM NotebookTypeCorrect == NotebookSpec => []NotebookTypeOK
<1>1. NotebookInit => NotebookTypeOK
  BY IdleTyped, FilesTyped, CountAssumption DEF NotebookInit, NotebookTypeOK
<1>2. ASSUME NotebookTypeOK, [NotebookNext]_notebookVars PROVE NotebookTypeOK'
  <2>1. CASE UNCHANGED notebookVars
    BY <1>2, <2>1 DEF NotebookTypeOK, notebookVars
  <2>2. CASE (\E names : ShowNotebook(names)) \/ CheckDeliverable
    <3>1. /\ UNCHANGED <<notebook, call, kept, writes, kills>>
          /\ checks' = checks \/ (checks' = checks + 1 /\ checks < CheckBudget)
          /\ revs' = revs \/ DOMAIN revs' \subseteq NamesIn(notebook.cells)
      BY <2>2 DEF ShowNotebook, CheckDeliverable
    <3>2. NamesIn(notebook.cells) \subseteq Names
      BY <1>2, NamesTyped DEF NotebookTypeOK, FileType
    <3>3. checks' \in 0..CheckBudget
      BY <1>2, <3>1, CountAssumption DEF NotebookTypeOK
    <3>4. QED  BY <1>2, <3>1, <3>2, <3>3 DEF NotebookTypeOK
  <2>3. CASE Kill \/ FreshRun
    <3>1. /\ notebook' = notebook \/ notebook' = Absent
          /\ call' = [c \in Calls |-> Idle] /\ (kept' = kept \/ kept' = <<>>)
          /\ revs' = <<>> /\ checks' = 0 /\ writes' = writes
          /\ kills' = kills + 1 /\ kills < MaxKills
      BY <2>3 DEF Kill, FreshRun, Archived
    <3>2. notebook' \in FileType
      BY <1>2, <3>1, FilesTyped DEF NotebookTypeOK
    <3>3. /\ DOMAIN kept' \subseteq Names /\ DOMAIN revs' \subseteq Names
          /\ checks' \in 0..CheckBudget /\ writes' \in 0..MaxWrites /\ kills' \in 0..MaxKills
      BY <1>2, <3>1, CountAssumption DEF NotebookTypeOK
    <3>4. QED  BY <3>1, <3>2, <3>3, IdleTyped DEF NotebookTypeOK
  <2>4. QED
    BY <1>2, <2>1, <2>2, <2>3, NotebookSteps, AcceptingKeepsTypes, BeginWriteKeepsTypes,
       EndWriteKeepsTypes
<1>3. QED  BY <1>1, <1>2, PTL DEF NotebookSpec

-----------------------------------------------------------------------------
(* The notebook is what the agent was told.                                *)

Says(f, m) == NamesIn(f) = DOMAIN m /\ \A n \in DOMAIN m : Text(f, n) = m[n]

LEMMA NothingSaid == Says(<<>>, <<>>)
BY DEF Says, NamesIn

\* Whatever the tool, what it writes is what it tells.
LEMMA WrittenAsTold ==
  ASSUME NotebookTypeOK, NEW c \in Calls, call[c].pc = "writing", Says(call[c].cells, kept)
  PROVE  Says(Result(c), Told(c, kept))
<1>1. PICK f, g, D, m : /\ f = call[c].cells /\ g = call[c].set /\ D = call[c].drop
                       /\ m = Told(c, kept)
  OBVIOUS
<1>2. /\ f \in Seq(CellType) /\ g \in Seq(CellType) /\ DOMAIN kept \subseteq Names
      /\ call[c].op \in {"add", "edit", "delete", "raw"}
      /\ call[c].op \in {"add", "edit"} => D = {}
      /\ call[c].op = "raw" => D = Names
      /\ call[c].op = "delete" => g = <<>>
  BY <1>1 DEF NotebookTypeOK, CallType, Ops, Consistent
<1>3. /\ DOMAIN m = (DOMAIN kept \ D) \cup NamesIn(g)
      /\ \A n \in NamesIn(g) : m[n] = Text(g, n)
      /\ \A n \in (DOMAIN kept \ D) \ NamesIn(g) : m[n] = kept[n]
  <2>1. /\ DOMAIN Told(c, kept) = (DOMAIN kept \ call[c].drop) \cup NamesIn(call[c].set)
        /\ \A n \in NamesIn(call[c].set) : Told(c, kept)[n] = Text(call[c].set, n)
        /\ \A n \in (DOMAIN kept \ call[c].drop) \ NamesIn(call[c].set) :
             Told(c, kept)[n] = kept[n]
    BY ToldIs
  <2>2. QED  BY <1>1, <2>1
<1>4. NamesIn(f) = DOMAIN kept /\ \A n \in DOMAIN kept : Text(f, n) = kept[n]
  BY <1>1 DEF Says
<1>5. CASE call[c].op = "raw"
  <2>1. Result(c) = g
    BY <1>1, <1>5 DEF Result
  <2>2. DOMAIN m = NamesIn(g)
    BY <1>2, <1>3, <1>5
  <2>3. QED  BY <1>1, <1>3, <2>1, <2>2 DEF Says
<1>6. CASE call[c].op = "delete"
  <2>1. Result(c) = Remaining(f, D)
    BY <1>1, <1>6 DEF Result
  <2>2. NamesIn(g) = {}
    BY <1>2, <1>6 DEF NamesIn
  <2>3. /\ NamesIn(Remaining(f, D)) = NamesIn(f) \ D
        /\ \A n \in NamesIn(f) \ D : Text(Remaining(f, D), n) = Text(f, n)
    BY <1>2, RemainingIs
  <2>4. QED  BY <1>1, <1>3, <1>4, <2>1, <2>2, <2>3 DEF Says
<1>7. CASE call[c].op \in {"add", "edit"}
  <2>1. Result(c) = Emit(f, g)
    BY <1>1, <1>7 DEF Result
  <2>2. /\ NamesIn(Emit(f, g)) = NamesIn(f \o g)
        /\ \A n \in NamesIn(f \o g) : Text(Emit(f, g), n) = Text(f \o g, n)
    BY <1>2, Emitted
  <2>3. /\ NamesIn(f \o g) = NamesIn(f) \cup NamesIn(g)
        /\ \A n \in NamesIn(g) : Text(f \o g, n) = Text(g, n)
        /\ \A n \in NamesIn(f) \ NamesIn(g) : Text(f \o g, n) = Text(f, n)
    BY <1>2, Replaced
  <2>4. DOMAIN m = NamesIn(Emit(f, g))
    BY <1>2, <1>3, <1>4, <1>7, <2>2, <2>3
  <2>5. ASSUME NEW n \in DOMAIN m PROVE Text(Emit(f, g), n) = m[n]
    <3>1. CASE n \in NamesIn(g)
      BY <1>3, <2>2, <2>3, <3>1
    <3>2. CASE n \notin NamesIn(g)
      <4>1. n \in NamesIn(f) \ NamesIn(g) /\ n \in DOMAIN kept \ D
        BY <1>3, <1>4, <3>2
      <4>2. m[n] = kept[n] /\ Text(f, n) = kept[n]
        BY <1>3, <1>4, <3>2, <4>1
      <4>3. QED  BY <2>2, <2>3, <4>1, <4>2
    <3>3. QED  BY <3>1, <3>2
  <2>6. QED  BY <1>1, <2>1, <2>4, <2>5 DEF Says
<1>8. QED  BY <1>2, <1>5, <1>6, <1>7

NotebookInv == NotebookTypeOK /\ HeldCells

LEMMA HeldCellsStart == NotebookInit => HeldCells
<1> SUFFICES ASSUME NotebookInit PROVE HeldCells
  OBVIOUS
<1>1. Loaded = <<>> /\ kept = <<>> /\ \A c \in Calls : call[c].pc = "idle"
  BY IdleTyped DEF NotebookInit, Loaded, Absent
<1>2. AsTold(Loaded)
  BY <1>1, NothingSaid DEF AsTold, Says
<1>3. QED  BY <1>1, <1>2 DEF HeldCells

\* One call at a time: no other can write between its load and its own write.
LEMMA HeldCellsStep ==
  ASSUME OneCall, NotebookInv, NotebookTypeOK', [NotebookNext]_notebookVars
  PROVE  HeldCells'
<1>1. ASSUME UNCHANGED <<notebook, call, kept>> PROVE HeldCells'
  BY <1>1 DEF NotebookInv, HeldCells, AsTold, Loaded
<1>2. ASSUME NEW c \in Calls, Accepting(c) PROVE HeldCells'
  <2>1. PICK x \in CallType :
          /\ x.pc = "loaded" /\ x.op # "none" /\ x.cells = Loaded /\ Consistent(x)
          /\ Accept(c, x.op, x.set, x.drop)
    BY <1>2 DEF Accepting
  <2>2. /\ call' = [call EXCEPT ![c] = [pc |-> "loaded", op |-> x.op, cells |-> Loaded,
                                        set |-> x.set, drop |-> x.drop]]
        /\ notebook' = notebook /\ kept' = kept /\ call[c].pc = "idle"
    BY <2>1 DEF Accept
  <2>3. call'[c].pc = "loaded" /\ call'[c].cells = Loaded
    BY <2>2 DEF NotebookInv, NotebookTypeOK
  <2>4. AsTold(Loaded)
    BY <2>2 DEF NotebookInv, HeldCells, OneCall
  <2>5. QED  BY <2>2, <2>3, <2>4 DEF HeldCells, AsTold, Loaded, OneCall
<1>3. ASSUME NEW c \in Calls, BeginWrite(c) PROVE HeldCells'
  <2>1. /\ notebook' = Emptied /\ kept' = kept /\ call[c].pc = "loaded"
        /\ call' = [call EXCEPT ![c].pc = "writing"]
    BY <1>3 DEF BeginWrite
  <2>2. call'[c].pc = "writing" /\ call'[c].cells = call[c].cells
    BY <2>1 DEF NotebookInv, NotebookTypeOK, CallType
  <2>3. AsTold(Loaded) /\ call[c].cells = Loaded
    BY <2>1 DEF NotebookInv, HeldCells, OneCall
  <2>4. QED  BY <2>1, <2>2, <2>3 DEF HeldCells, AsTold, OneCall
<1>4. ASSUME NEW c \in Calls, EndWrite(c) PROVE HeldCells'
  <2>1. notebook = Emptied /\ AsTold(call[c].cells) /\ call[c].pc = "writing"
    BY <1>4 DEF EndWrite, NotebookInv, HeldCells
  <2>2. Alone(c)
    BY <2>1 DEF Alone, OneCall
  <2>3. /\ notebook' = Saved(Result(c)) /\ kept' = Told(c, kept)
        /\ call' = [call EXCEPT ![c] = Idle]
    BY <1>4, <2>2 DEF EndWrite
  <2>4. Says(Result(c), Told(c, kept))
    BY <2>1, WrittenAsTold DEF NotebookInv, AsTold, Says
  <2>5. Loaded' = Result(c)
    BY <2>3 DEF Loaded, Saved
  <2>6. AsTold(Loaded)'
    BY <2>3, <2>4, <2>5 DEF AsTold, Says
  <2>7. call'[c].pc = "idle"
    BY <2>3, IdleTyped DEF NotebookInv, NotebookTypeOK
  <2>8. QED  BY <2>6, <2>7 DEF HeldCells, OneCall
<1>5. CASE Kill \/ FreshRun
  <2>1. /\ \A c \in Calls : call'[c].pc = "idle"
        /\ \/ notebook' = notebook /\ kept' = IF notebook.state = "ok" THEN kept ELSE <<>>
           \/ notebook' = Absent /\ kept' = <<>>
    BY <1>5, IdleTyped DEF Kill, FreshRun, Archived
  <2>2. Says(Loaded', kept')
    <3>1. CASE notebook' = notebook /\ notebook.state = "ok"
      <4>1. \A c \in Calls : call[c].pc # "writing"
        BY <3>1 DEF NotebookInv, HeldCells, Emptied
      <4>2. AsTold(Loaded)
        BY <4>1 DEF NotebookInv, HeldCells
      <4>3. kept' = kept \/ notebook = Absent
        BY <2>1, <3>1
      <4>4. Loaded' = Loaded /\ notebook # Absent
        BY <3>1 DEF Loaded, Absent
      <4>5. QED  BY <4>2, <4>3, <4>4 DEF AsTold, Says
    <3>2. CASE notebook' = Absent \/ notebook.state # "ok"
      <4>1. Loaded' = <<>> /\ kept' = <<>>
        BY <2>1, <3>2 DEF Loaded, Absent
      <4>2. QED  BY <4>1, NothingSaid
    <3>3. QED  BY <2>1, <3>1, <3>2
  <2>3. QED  BY <2>1, <2>2 DEF HeldCells, AsTold, Says
<1>6. CASE (\E names : ShowNotebook(names)) \/ CheckDeliverable
  BY <1>1, <1>6 DEF ShowNotebook, CheckDeliverable
<1>7. QED
  BY <1>1, <1>2, <1>3, <1>4, <1>5, <1>6, NotebookSteps DEF NotebookInv, notebookVars

\* NotebookAsTold: over any number of adds, edits, deletes, raw writes, kills and
\* fresh runs, the notebook's named cells are those the tools said they wrote,
\* with the text they said, as long as one call runs at a time: the tools load
\* the file and write it back without a lock (_emit_notebook, _by_name).
THEOREM NotebookIsAsTold ==
  ASSUME OneCall
  PROVE  NotebookSpec => []NotebookAsTold
<1>1. NotebookTypeOK /\ HeldCells /\ NotebookTypeOK' /\ [NotebookNext]_notebookVars => HeldCells'
  BY HeldCellsStep DEF NotebookInv
<1>2. NotebookTypeOK /\ HeldCells => NotebookAsTold
  <2> SUFFICES ASSUME HeldCells, Quiet PROVE NotebookAsTold
    BY DEF NotebookAsTold
  <2>1. Loaded = notebook.cells /\ \A c \in Calls : call[c].pc # "writing"
    BY DEF Quiet, Loaded
  <2>2. AsTold(Loaded)
    BY <2>1 DEF HeldCells
  <2>3. QED  BY <2>1, <2>2 DEF AsTold, NotebookAsTold
<1>3. QED  BY <1>1, <1>2, HeldCellsStart, NotebookTypeCorrect, PTL DEF NotebookSpec

\* CanonicalOrder: whatever a raw write left behind and whatever other calls do
\* in the meantime, an add or an edit that leaves a readable notebook leaves each
\* name once, in canonical order, and all the unnamed cells (_emit_notebook).
THEOREM NotebookIsInOrder == NotebookSpec => CanonicalOrder
<1>1. ASSUME NotebookTypeOK, [NotebookNext]_notebookVars, NEW c \in Calls,
             call[c].pc = "writing", call[c].op \in {"add", "edit"},
             call'[c].pc = "idle", kills' = kills, notebook'.state = "ok"
      PROVE  /\ InOrder(notebook'.cells)
             /\ Len(Extras(notebook'.cells)) = Len(Extras(call[c].cells))
  <2>1. EndWrite(c)
    <3>1. \/ UNCHANGED call
          \/ \E d \in Calls : Accepting(d) \/ BeginWrite(d) \/ EndWrite(d)
          \/ Kill \/ FreshRun
      BY <1>1, NotebookSteps DEF notebookVars, ShowNotebook, CheckDeliverable
    <3>2. call # call'
      BY <1>1
    <3>3. ~(Kill \/ FreshRun)
      BY <1>1 DEF Kill, FreshRun, NotebookTypeOK
    <3>4. ASSUME NEW d \in Calls, Accepting(d) \/ BeginWrite(d) \/ EndWrite(d)
          PROVE  EndWrite(d) /\ d = c
      BY <1>1, <3>4 DEF Accepting, Accept, BeginWrite, EndWrite, NotebookTypeOK, CallType
    <3>5. QED  BY <3>1, <3>2, <3>3, <3>4
  <2>2. notebook' = Saved(Emit(call[c].cells, call[c].set))
    BY <1>1, <2>1 DEF EndWrite, Result, Mixed
  <2>3. call[c].cells \in Seq(CellType) /\ call[c].set \in Seq(CellType)
    BY <1>1 DEF NotebookTypeOK, CallType
  <2>4. notebook'.cells = Emit(call[c].cells, call[c].set)
    BY <2>2 DEF Saved
  <2>5. QED  BY <2>3, <2>4, Emitted
<1>2. NotebookTypeOK /\ [NotebookNext]_notebookVars
      => [\A c \in Calls :
            /\ call[c].pc = "writing" /\ call[c].op \in {"add", "edit"}
            /\ call'[c].pc = "idle" /\ kills' = kills /\ notebook'.state = "ok"
            => /\ InOrder(notebook'.cells)
               /\ Len(Extras(notebook'.cells)) = Len(Extras(call[c].cells))]_notebookVars
  BY <1>1
<1>3. QED  BY <1>2, NotebookTypeCorrect, PTL DEF NotebookSpec, CanonicalOrder
=============================================================================
