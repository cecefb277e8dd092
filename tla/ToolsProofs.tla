------------------------------ MODULE ToolsProofs ------------------------------
(***************************************************************************)
(* Tools that agents share, for every number of calls: the corpus of the   *)
(* literature reviewer and the requests it sends to the providers, and the *)
(* channel to the operator, with no variable in common with the two.       *)
(*                                                                         *)
(* The corpus.  A paper is written by steps of one call that others may    *)
(* come between, so what is to be shown of an index row or an embedding    *)
(* has to hold already of the call that will write it: its passages are in *)
(* the file (Complete), and from where they are there either exactly they, *)
(* in order, or more than they (Embedded), which is enough for dense       *)
(* ranking to be refused.  Both are kept whatever is appended.  A search   *)
(* has to hold the same of what it read, of embeddings that are there, are *)
(* loaded or are about to be saved, unless it was overtaken (SearchInv).   *)
(***************************************************************************)
EXTENDS Literature, OperatorChannel, FiniteSetTheorems, WellFoundedInduction, TLAPS

\* What a search makes of a list of passages, of which chunks is one.
Passage == [paper : Papers, src : Sources, k : 1..2] \cup {Torn}

Whole(s) == \A i \in DOMAIN s : s[i] # Torn
RankIn(s, i) == Cardinality({j \in 1..i : s[j].paper = s[i].paper})

\* The passages of p are all there, and if there is none beyond them they are
\* those of src, in order.
AlignedIn(s, p, src) ==
  \E i \in DOMAIN s :
    /\ s[i].paper = p
    /\ \/ RankIn(s, i) > Passages(src)
       \/ /\ RankIn(s, i) = Passages(src)
          /\ \A j \in DOMAIN s :
               s[j].paper = p => s[j].src = src /\ s[j].k = RankIn(s, j)

PresentIn(s, p, src) ==
  \A k \in 1..Passages(src) : \E i \in DOMAIN s : s[i] = Chunk(p, src, k)

\* The passages of a source are one or two.
LEMMA Texts ==
  ASSUME NEW p \in Papers, NEW src \in Sources, NEW t, t = ChunkText(p, src)
  PROVE  /\ t \in Seq(Passage) /\ Len(t) = Passages(src) /\ Passages(src) \in {1, 2}
         /\ DOMAIN t = 1..Passages(src) /\ t # <<>>
         /\ \A k \in 1..Passages(src) :
              /\ t[k] = Chunk(p, src, k) /\ t[k] # Torn
              /\ t[k].paper = p /\ t[k].src = src /\ t[k].k = k
<1>1. Passages(src) \in {1, 2}
  BY DEF Passages
<1>2. DOMAIN t = 1..Passages(src) /\ \A k \in 1..Passages(src) : t[k] = Chunk(p, src, k)
  BY <1>1 DEF ChunkText
<1>3. \A k \in 1..Passages(src) : Chunk(p, src, k) \in Passage /\ Chunk(p, src, k) # Torn
  <2>1. \A k \in 1..Passages(src) : k \in 1..2
    BY <1>1
  <2>2. src # "torn"
    BY DEF Sources
  <2>3. QED  BY <2>1, <2>2 DEF Chunk, Passage, Torn
<1>4. t \in [1..Passages(src) -> Passage]
  BY <1>1, <1>2, <1>3 DEF ChunkText
<1>5. t \in Seq(Passage) /\ Len(t) = Passages(src)
  BY <1>1, <1>4
<1>6. t # <<>>
  BY <1>1, <1>5
<1>7. \A k \in 1..Passages(src) : Chunk(p, src, k).paper = p /\ Chunk(p, src, k).src = src
                                  /\ Chunk(p, src, k).k = k
  BY DEF Chunk
<1>8. QED  BY <1>1, <1>2, <1>3, <1>5, <1>6, <1>7

\* The passages of one paper are counted without a gap.
LEMMA Ranks ==
  ASSUME NEW s \in Seq(Passage)
  PROVE  /\ \A i \in DOMAIN s : RankIn(s, i) \in Nat /\ RankIn(s, i) >= 1
         /\ \A i, j \in DOMAIN s :
              i < j /\ s[i].paper = s[j].paper => RankIn(s, i) < RankIn(s, j)
<1> DEFINE Upto(i) == {j \in 1..i : s[j].paper = s[i].paper}
<1>1. DOMAIN s \subseteq Nat \ {0}
  OBVIOUS
<1>2. \A i \in DOMAIN s : IsFiniteSet(Upto(i)) /\ i \in Upto(i)
  <2>1. TAKE i \in DOMAIN s
  <2>2. IsFiniteSet(1..i) /\ i \in 1..i
    <3>1. i \in Int /\ 1 \in Int /\ i >= 1
      BY <1>1
    <3>2. IsFiniteSet(1..i)
      BY <3>1, FS_Interval
    <3>3. QED  BY <3>1, <3>2
  <2>3. QED  BY <2>2, FS_Subset
<1>3. \A i \in DOMAIN s : Cardinality(Upto(i)) \in Nat /\ Cardinality(Upto(i)) # 0
  BY <1>2, FS_CardinalityType, FS_EmptySet
<1>4. ASSUME NEW i \in DOMAIN s, NEW j \in DOMAIN s, i < j, s[i].paper = s[j].paper
      PROVE  Cardinality(Upto(i)) < Cardinality(Upto(j))
  <2>1. Upto(i) \subseteq Upto(j) /\ j \notin Upto(i)
    BY <1>1, <1>4
  <2>2. Upto(i) # Upto(j)
    BY <1>2, <2>1
  <2> HIDE DEF Upto
  <2>3. /\ Cardinality(Upto(i)) <= Cardinality(Upto(j))
        /\ Cardinality(Upto(i)) # Cardinality(Upto(j))
    BY <1>2, <2>1, <2>2, FS_Subset
  <2>4. QED  BY <1>3, <2>3
<1>5. \A i : RankIn(s, i) = Cardinality(Upto(i))
  BY DEF RankIn
<1> HIDE DEF Upto
<1>6. QED  BY <1>3, <1>4, <1>5

LEMMA Joined ==
  ASSUME NEW s \in Seq(Passage), NEW t \in Seq(Passage), NEW u, u = s \o t
  PROVE  /\ u \in Seq(Passage) /\ Len(u) = Len(s) + Len(t)
         /\ Len(s) \in Nat /\ Len(t) \in Nat
         /\ DOMAIN s = 1..Len(s) /\ DOMAIN t = 1..Len(t) /\ DOMAIN u = 1..(Len(s) + Len(t))
         /\ \A i \in DOMAIN s : i \in DOMAIN u /\ u[i] = s[i]
         /\ \A k \in DOMAIN t : Len(s) + k \in DOMAIN u /\ u[Len(s) + k] = t[k]
         /\ \A i \in DOMAIN u : i \in DOMAIN s \/ \E k \in DOMAIN t : i = Len(s) + k
<1>1. /\ u \in Seq(Passage) /\ Len(u) = Len(s) + Len(t)
      /\ Len(s) \in Nat /\ Len(t) \in Nat
      /\ DOMAIN s = 1..Len(s) /\ DOMAIN t = 1..Len(t) /\ DOMAIN u = 1..(Len(s) + Len(t))
  OBVIOUS
<1>2. \A i \in DOMAIN s : i \in DOMAIN u /\ u[i] = s[i]
  BY <1>1
<1>3. \A k \in DOMAIN t : Len(s) + k \in DOMAIN u /\ u[Len(s) + k] = t[k]
  BY <1>1
<1>4. ASSUME NEW i \in DOMAIN u
      PROVE  i \in DOMAIN s \/ \E k \in DOMAIN t : i = Len(s) + k
  <2>1. CASE i > Len(s)
    <3>1. i - Len(s) \in DOMAIN t /\ i = Len(s) + (i - Len(s))
      BY <1>1, <2>1
    <3>2. QED  BY <3>1
  <2>2. QED  BY <1>1, <2>1
<1>5. QED  BY <1>1, <1>2, <1>3, <1>4

\* What is appended to a list leaves its ranks alone.
LEMMA RanksStay ==
  ASSUME NEW s \in Seq(Passage), NEW t \in Seq(Passage), NEW u, u = s \o t,
         NEW i \in DOMAIN s
  PROVE  RankIn(u, i) = RankIn(s, i)
<1>1. i \in Nat /\ \A j \in 1..i : u[j] = s[j] /\ u[i] = s[i]
  OBVIOUS
<1>2. {j \in 1..i : u[j].paper = u[i].paper} = {j \in 1..i : s[j].paper = s[i].paper}
  BY <1>1
<1>3. QED  BY <1>2 DEF RankIn

\* A paper whose passages were all there is still aligned, or has some beyond
\* them, whatever is appended.
LEMMA AlignedStays ==
  ASSUME NEW s \in Seq(Passage), NEW t \in Seq(Passage), NEW p, NEW src,
         AlignedIn(s, p, src)
  PROVE  AlignedIn(s \o t, p, src)
<1>1. PICK u : u = s \o t
  OBVIOUS
<1>2. /\ u \in Seq(Passage) /\ Len(s) \in Nat /\ DOMAIN s = 1..Len(s)
      /\ \A j \in DOMAIN s : j \in DOMAIN u /\ u[j] = s[j] /\ RankIn(u, j) = RankIn(s, j)
      /\ \A j \in DOMAIN u : j \in DOMAIN s \/ \E k \in 1..Len(t) : j = Len(s) + k
  <2>1. u \in Seq(Passage) /\ Len(s) \in Nat /\ DOMAIN s = 1..Len(s) /\ DOMAIN t = 1..Len(t)
    BY <1>1
  <2>2. \A j \in DOMAIN s : j \in DOMAIN u /\ u[j] = s[j] /\ RankIn(u, j) = RankIn(s, j)
    <3>1. \A j \in DOMAIN s : j \in DOMAIN u /\ u[j] = s[j]
      BY <1>1
    <3>2. \A j \in DOMAIN s : RankIn(u, j) = RankIn(s, j)
      BY <1>1, RanksStay
    <3>3. QED  BY <3>1, <3>2
  <2>3. \A j \in DOMAIN u : j \in DOMAIN s \/ \E k \in DOMAIN t : j = Len(s) + k
    BY <1>1, Joined
  <2>4. QED  BY <2>1, <2>2, <2>3
<1>3. PICK i \in DOMAIN s :
        /\ s[i].paper = p
        /\ \/ RankIn(s, i) > Passages(src)
           \/ /\ RankIn(s, i) = Passages(src)
              /\ \A j \in DOMAIN s :
                   s[j].paper = p => s[j].src = src /\ s[j].k = RankIn(s, j)
  BY DEF AlignedIn
<1>4. CASE RankIn(s, i) > Passages(src)
  <2>1. i \in DOMAIN u /\ u[i].paper = p /\ RankIn(u, i) > Passages(src)
    BY <1>3, <1>2, <1>4
  <2>2. QED  BY <1>1, <2>1 DEF AlignedIn
<1>5. CASE /\ RankIn(s, i) = Passages(src)
           /\ \A j \in DOMAIN s : s[j].paper = p => s[j].src = src /\ s[j].k = RankIn(s, j)
  <2>1. i \in DOMAIN u /\ u[i].paper = p /\ RankIn(u, i) = Passages(src)
    BY <1>3, <1>2, <1>5
  <2>2. CASE \A j \in DOMAIN u : u[j].paper = p => j \in DOMAIN s
    <3>1. \A j \in DOMAIN u : u[j].paper = p => u[j].src = src /\ u[j].k = RankIn(u, j)
      BY <1>2, <1>5, <2>2
    <3>2. QED  BY <1>1, <2>1, <3>1 DEF AlignedIn
  <2>3. CASE \E j \in DOMAIN u : u[j].paper = p /\ j \notin DOMAIN s
    <3>1. PICK j \in DOMAIN u : u[j].paper = p /\ j \notin DOMAIN s
      BY <2>3
    <3>2. j > i
      <4>1. PICK k \in 1..Len(t) : j = Len(s) + k
        BY <1>2, <3>1
      <4>2. QED  BY <1>2, <4>1
    <3>3. RankIn(u, j) > RankIn(u, i) /\ RankIn(u, j) \in Nat /\ RankIn(u, i) \in Nat
      BY <1>2, <2>1, <3>1, <3>2, Ranks
    <3>4. RankIn(u, j) > Passages(src)
      BY <2>1, <3>3
    <3>5. QED  BY <1>1, <3>1, <3>4 DEF AlignedIn
  <2>4. QED  BY <2>2, <2>3
<1>6. QED  BY <1>3, <1>4, <1>5

\* What CorpusAdd appends is all of a paper, and aligned unless there was some
\* of it before.
LEMMA AlignedAppended ==
  ASSUME NEW s \in Seq(Passage), NEW p \in Papers, NEW src \in Sources
  PROVE  AlignedIn(s \o ChunkText(p, src), p, src)
<1>1. PICK t, u, n, m : /\ t = ChunkText(p, src) /\ u = s \o t
                        /\ n = Passages(src) /\ m = Len(s)
  OBVIOUS
<1>2. /\ t \in Seq(Passage) /\ Len(t) = n /\ n \in {1, 2} /\ DOMAIN t = 1..n
      /\ \A k \in 1..n : t[k].paper = p /\ t[k].src = src /\ t[k].k = k
  BY <1>1, Texts
<1>3. /\ u \in Seq(Passage) /\ m \in Nat /\ DOMAIN s = 1..m /\ DOMAIN u = 1..(m + n)
      /\ \A i \in DOMAIN s : i \in DOMAIN u /\ u[i] = s[i]
      /\ \A k \in 1..n : m + k \in DOMAIN u /\ u[m + k] = t[k]
      /\ \A i \in DOMAIN u : i \in DOMAIN s \/ \E k \in 1..n : i = m + k
  <2>1. t \in Seq(Passage) /\ u = s \o t
    BY <1>1, <1>2
  <2>2. /\ u \in Seq(Passage) /\ Len(s) \in Nat /\ DOMAIN s = 1..Len(s)
        /\ DOMAIN u = 1..(Len(s) + Len(t))
        /\ \A i \in DOMAIN s : i \in DOMAIN u /\ u[i] = s[i]
        /\ \A k \in DOMAIN t : Len(s) + k \in DOMAIN u /\ u[Len(s) + k] = t[k]
    BY <2>1, Joined
  <2>3. \A i \in DOMAIN u : i \in DOMAIN s \/ \E k \in DOMAIN t : i = Len(s) + k
    BY <2>1, Joined
  <2>4. m = Len(s) /\ Len(t) = n /\ DOMAIN t = 1..n
    BY <1>1, <1>2
  <2>5. QED  BY <2>2, <2>3, <2>4
<1>4. \A k \in 1..n : u[m + k].paper = p /\ u[m + k].src = src /\ u[m + k].k = k
  BY <1>2, <1>3
<1>5. /\ \A i \in DOMAIN u : RankIn(u, i) \in Nat /\ RankIn(u, i) >= 1
      /\ \A i, j \in DOMAIN u :
           i < j /\ u[i].paper = u[j].paper => RankIn(u, i) < RankIn(u, j)
  BY <1>3, Ranks
<1>6. n = 2 => RankIn(u, m + 1) < RankIn(u, m + 2)
  BY <1>2, <1>3, <1>4, <1>5
<1>7. CASE \E i \in DOMAIN s : s[i].paper = p
  <2>1. PICK i \in DOMAIN s : s[i].paper = p
    BY <1>7
  <2>2. i \in DOMAIN u /\ m + 1 \in DOMAIN u /\ i < m + 1 /\ u[i].paper = u[m + 1].paper
    BY <1>2, <1>3, <1>4, <2>1
  <2>3. RankIn(u, m + 1) > 1
    BY <1>5, <2>2
  <2>4. RankIn(u, m + n) > n
    <3>1. CASE n = 1
      BY <2>3, <3>1
    <3>2. CASE n = 2
      <4>1. m + 1 \in DOMAIN u /\ m + 2 \in DOMAIN u
        BY <1>3, <3>2
      <4>2. QED  BY <1>5, <1>6, <2>3, <3>2, <4>1
    <3>3. QED  BY <1>2, <3>1, <3>2
  <2>5. m + n \in DOMAIN u /\ u[m + n].paper = p
    BY <1>2, <1>3, <1>4
  <2>6. QED  BY <1>1, <2>4, <2>5 DEF AlignedIn
<1>8. CASE \A i \in DOMAIN s : s[i].paper # p
  <2>1. ASSUME NEW k \in 1..n
        PROVE  RankIn(u, m + k) = k
    <3>1. {j \in 1..(m + k) : u[j].paper = u[m + k].paper} = (m + 1)..(m + k)
      <4>1. \A j \in 1..(m + k) : j \in DOMAIN s \/ j \in (m + 1)..(m + k)
        BY <1>2, <1>3
      <4>2. \A j \in DOMAIN s : u[j].paper # p
        BY <1>3, <1>8
      <4>3. \A j \in (m + 1)..(m + k) : u[j].paper = p /\ j \in 1..(m + k)
        <5>1. TAKE j \in (m + 1)..(m + k)
        <5>2. j - m \in 1..n /\ j = m + (j - m)
          BY <1>2, <1>3
        <5>3. QED  BY <1>3, <1>4, <5>2
      <4>4. QED  BY <1>4, <4>1, <4>2, <4>3
    <3>2. Cardinality((m + 1)..(m + k)) = k
      <4>1. m + 1 \in Int /\ m + k \in Int /\ m + 1 <= m + k /\ (m + k) - (m + 1) + 1 = k
        BY <1>2, <1>3
      <4>2. QED  BY <4>1, FS_Interval
    <3>3. QED  BY <3>1, <3>2 DEF RankIn
  <2>2. \A j \in DOMAIN u : u[j].paper = p => u[j].src = src /\ u[j].k = RankIn(u, j)
    BY <1>3, <1>4, <1>8, <2>1
  <2>3. m + n \in DOMAIN u /\ u[m + n].paper = p /\ RankIn(u, m + n) = n
    BY <1>2, <1>3, <1>4, <2>1
  <2>4. QED  BY <1>1, <2>2, <2>3 DEF AlignedIn
<1>9. QED  BY <1>7, <1>8

LEMMA PresentStays ==
  ASSUME NEW s \in Seq(Passage), NEW t \in Seq(Passage), NEW p, NEW src,
         PresentIn(s, p, src)
  PROVE  PresentIn(s \o t, p, src)
<1>1. PICK u : u = s \o t
  OBVIOUS
<1>2. \A i \in DOMAIN s : i \in DOMAIN u /\ u[i] = s[i]
  BY <1>1, Joined
<1>3. QED  BY <1>1, <1>2 DEF PresentIn

LEMMA PresentAppended ==
  ASSUME NEW s \in Seq(Passage), NEW p \in Papers, NEW src \in Sources
  PROVE  PresentIn(s \o ChunkText(p, src), p, src)
<1>1. PICK t, u : t = ChunkText(p, src) /\ u = s \o t
  OBVIOUS
<1>2. t \in Seq(Passage) /\ DOMAIN t = 1..Passages(src)
      /\ \A k \in 1..Passages(src) : t[k] = Chunk(p, src, k)
  BY <1>1, Texts
<1>3. \A k \in DOMAIN t : Len(s) + k \in DOMAIN u /\ u[Len(s) + k] = t[k]
  <2>1. t \in Seq(Passage) /\ u = s \o t
    BY <1>1, <1>2
  <2>2. QED  BY <2>1, Joined
<1>4. \A k \in 1..Passages(src) : \E i \in DOMAIN u : u[i] = Chunk(p, src, k)
  BY <1>2, <1>3
<1>5. QED  BY <1>1, <1>4 DEF PresentIn

\* What is appended to a line cut short leaves that line in the file.
LEMMA Appending ==
  ASSUME NEW s \in Seq(Passage), NEW t \in Seq(Passage), NEW u, u = Appended(s, t)
  PROVE  u \in Seq(Passage) /\ (Whole(u) => Whole(s) /\ u = s \o t)
<1>1. CASE s # <<>> /\ Last(s) = Torn /\ t # <<>>
  <2>1. u = s \o Tail(t) /\ Tail(t) \in Seq(Passage)
    BY <1>1 DEF Appended
  <2>2. Len(s) \in DOMAIN s /\ s[Len(s)] = Torn
    BY <1>1 DEF Last
  <2>3. u \in Seq(Passage) /\ \A i \in DOMAIN s : i \in DOMAIN u /\ u[i] = s[i]
    BY <2>1, Joined
  <2>4. ~Whole(u)
    BY <2>2, <2>3 DEF Whole
  <2>5. QED  BY <2>3, <2>4
<1>2. CASE ~(s # <<>> /\ Last(s) = Torn /\ t # <<>>)
  <2>1. u = s \o t
    BY <1>2 DEF Appended
  <2>2. u \in Seq(Passage) /\ \A i \in DOMAIN s : i \in DOMAIN u /\ u[i] = s[i]
    BY <2>1, Joined
  <2>3. Whole(u) => Whole(s)
    BY <2>2 DEF Whole
  <2>4. QED  BY <2>1, <2>2, <2>3
<1>3. QED  BY <1>1, <1>2

-----------------------------------------------------------------------------
IndexRow == [paper : Papers, src : Sources]
Add == [pc : {"copy", "append", "appending", "embed", "save", "saving"},
        paper : Papers, src : Sources]

CorpusTypes ==
  /\ csv \in [state : {"ok", "writing"}, rows : Seq(IndexRow)]
  /\ chunks \in Seq(Passage)
  /\ npy \in [Papers -> Sources \cup {Nothing}]
  /\ adding \in [Adders -> Add \cup {NotAdding}]

\* Whoever writes a file of the corpus holds its lock.
OneWriter == \A c \in Adders : AddAt(c, "appending") \/ AddAt(c, "saving") => holder = c

Indexed ==
  /\ told = Listed
  /\ \A i, j \in DOMAIN csv.rows : csv.rows[i].paper = csv.rows[j].paper => i = j
  /\ \A c \in Adders : AddAt(c, "saving") => adding[c].paper \notin Listed

Complete ==
  Readable =>
    /\ \A i \in DOMAIN csv.rows : PresentIn(chunks, csv.rows[i].paper, csv.rows[i].src)
    /\ \A c \in Adders : AddAt(c, "embed") \/ AddAt(c, "save") \/ AddAt(c, "saving")
                           => PresentIn(chunks, adding[c].paper, adding[c].src)

Embedded ==
  Readable =>
    /\ \A p \in Papers : npy[p] # Nothing => AlignedIn(chunks, p, npy[p])
    /\ \A c \in Adders : AddAt(c, "embed")
                           => AlignedIn(chunks, adding[c].paper, adding[c].src)

CorpusInv == CorpusTypes /\ OneWriter /\ Indexed /\ Complete /\ Embedded

LEMMA CorpusInitEstablishes == CorpusInit => CorpusInv
<1> SUFFICES ASSUME CorpusInit PROVE CorpusInv
  OBVIOUS
<1> USE DEF CorpusInit
<1>1. CorpusTypes
  <2>1. csv.rows \in Seq(IndexRow) /\ chunks \in Seq(Passage)
    OBVIOUS
  <2>2. QED  BY <2>1 DEF CorpusTypes
<1>2. OneWriter
  BY DEF OneWriter, AddAt, NotAdding
<1>3. Indexed
  BY DEF Indexed, Listed, AddAt, NotAdding
<1>4. Complete
  BY DEF Complete, AddAt, NotAdding
<1>5. Embedded
  BY DEF Embedded, AddAt, NotAdding
<1>6. QED  BY <1>1, <1>2, <1>3, <1>4, <1>5 DEF CorpusInv

\* A call that is adding knows its paper and what it adds it from.
LEMMA AddTyped ==
  ASSUME CorpusInv, NEW c \in Adders, adding[c].pc # "idle"
  PROVE  adding[c] \in Add /\ adding[c].paper \in Papers /\ adding[c].src \in Sources
BY DEF CorpusInv, CorpusTypes, NotAdding, Add

\* One call moves on: only it may be at another step than before.
Moves(c, r) == adding' = [adding EXCEPT ![c] = r]

LEMMA Moved ==
  ASSUME CorpusInv, NEW c \in Adders, NEW r, Moves(c, r)
  PROVE  /\ r \in Add \cup {NotAdding} => adding' \in [Adders -> Add \cup {NotAdding}]
         /\ adding'[c] = r
         /\ \A d \in Adders \ {c} : adding'[d] = adding[d]
         /\ \A d \in Adders \ {c} : \A s : AddAt(d, s)' <=> AddAt(d, s)
BY DEF CorpusInv, CorpusTypes, Moves, AddAt

\* Who leaves the tool leaves nothing to keep.
LEMMA LeaveKeeps ==
  ASSUME CorpusInv, NEW c \in Adders, Moves(c, NotAdding),
         UNCHANGED <<csv, chunks, npy, holder, told>>
  PROVE  CorpusInv'
<1>1. /\ adding' \in [Adders -> Add \cup {NotAdding}]
      /\ \A d \in Adders \ {c} : adding'[d] = adding[d]
      /\ adding'[c].pc = "idle"
  BY Moved DEF NotAdding
<1>2. Listed' = Listed /\ Readable' = Readable
  BY DEF Listed, Readable
<1> USE DEF CorpusInv
<1>3. CorpusTypes'
  BY <1>1 DEF CorpusTypes
<1>4. OneWriter'
  BY <1>1 DEF OneWriter, AddAt
<1>5. Indexed'
  BY <1>1, <1>2 DEF Indexed, AddAt
<1>6. Complete'
  BY <1>1, <1>2 DEF Complete, AddAt
<1>7. Embedded'
  BY <1>1, <1>2 DEF Embedded, AddAt
<1>8. QED  BY <1>3, <1>4, <1>5, <1>6, <1>7

\* A call goes on without touching a file, to a step where nothing is asked of
\* it yet, or has nothing more to ask.
LEMMA CallMoved ==
  ASSUME CorpusInv, NEW c \in Adders, NEW r \in Add, Moves(c, r),
         UNCHANGED <<csv, chunks, npy, told>>,
         \/ r.pc \in {"copy", "append"} /\ UNCHANGED holder
         \/ r.pc = "appending" /\ holder = Nobody /\ holder' = c
         \/ /\ r.pc = "save" /\ UNCHANGED holder /\ AddAt(c, "embed")
            /\ r.paper = adding[c].paper /\ r.src = adding[c].src
  PROVE  CorpusInv'
<1>1. /\ adding' \in [Adders -> Add \cup {NotAdding}] /\ adding'[c] = r
      /\ \A d \in Adders \ {c} : adding'[d] = adding[d]
  BY Moved
<1>2. UNCHANGED <<Listed, Readable>>
  BY DEF Listed, Readable
<1>3. r.pc \in {"copy", "append", "appending", "save"}
  OBVIOUS
<1> USE DEF CorpusInv
<1>4. CorpusTypes'
  BY <1>1 DEF CorpusTypes
<1>5. OneWriter'
  BY <1>1, <1>3, AdderAssumption DEF OneWriter, AddAt
<1>6. Indexed'
  BY <1>1, <1>2, <1>3 DEF Indexed, AddAt
<1>7. Complete'
  BY <1>1, <1>2, <1>3 DEF Complete, AddAt
<1>8. Embedded'
  BY <1>1, <1>2, <1>3 DEF Embedded, AddAt
<1>9. QED  BY <1>4, <1>5, <1>6, <1>7, <1>8

LEMMA BeginAddKeeps ==
  ASSUME CorpusInv, NEW c \in Adders, NEW p \in Papers, NEW src \in Sources, BeginAdd(c, p, src)
  PROVE  CorpusInv'
<1>1. PICK r : r = [pc |-> "copy", paper |-> p, src |-> src]
  OBVIOUS
<1>2. r \in Add /\ r.pc = "copy"
  BY <1>1 DEF Add
<1>3. Moves(c, r) /\ UNCHANGED <<csv, chunks, npy, holder, told>>
  BY <1>1 DEF BeginAdd, Moves
<1>4. QED  BY <1>2, <1>3, CallMoved

\* The record of a call that goes to another step.
LEMMA Onward ==
  ASSUME CorpusInv, NEW c \in Adders, adding[c].pc # "idle",
         NEW step \in {"append", "appending", "embed", "save", "saving"}, NEW r,
         adding' = [adding EXCEPT ![c].pc = step], r = [adding[c] EXCEPT !.pc = step]
  PROVE  /\ Moves(c, r) /\ r \in Add
         /\ r.pc = step /\ r.paper = adding[c].paper /\ r.src = adding[c].src
<1>1. adding[c] \in Add
  BY AddTyped
<1>2. r \in Add /\ r.pc = step /\ r.paper = adding[c].paper /\ r.src = adding[c].src
  BY <1>1 DEF Add
<1>3. adding' = [adding EXCEPT ![c] = r]
  BY DEF CorpusInv, CorpusTypes
<1>4. QED  BY <1>2, <1>3 DEF Moves

LEMMA CopySourceKeeps ==
  ASSUME CorpusInv, NEW c \in Adders, CopySource(c)
  PROVE  CorpusInv'
<1>1. UNCHANGED <<csv, chunks, npy, holder, told>> /\ adding[c].pc # "idle"
  BY DEF CopySource, AddAt
<1>2. CASE Extracted(adding[c].src)
  <2>1. adding' = [adding EXCEPT ![c].pc = "append"]
    BY <1>2 DEF CopySource
  <2>2. PICK r : r = [adding[c] EXCEPT !.pc = "append"]
    OBVIOUS
  <2>3. Moves(c, r) /\ r \in Add /\ r.pc = "append"
    BY <1>1, <2>1, <2>2, Onward
  <2>4. QED  BY <1>1, <2>3, CallMoved
<1>3. CASE ~Extracted(adding[c].src)
  BY <1>1, <1>3, LeaveKeeps DEF CopySource, Moves
<1>4. QED  BY <1>2, <1>3

LEMMA BeginAppendKeeps ==
  ASSUME CorpusInv, NEW c \in Adders, BeginAppend(c)
  PROVE  CorpusInv'
<1>1. /\ UNCHANGED <<csv, chunks, npy, told>> /\ adding[c].pc # "idle"
      /\ holder = Nobody /\ holder' = c /\ adding' = [adding EXCEPT ![c].pc = "appending"]
  BY DEF BeginAppend, AddAt
<1>2. PICK r : r = [adding[c] EXCEPT !.pc = "appending"]
  OBVIOUS
<1>3. Moves(c, r) /\ r \in Add /\ r.pc = "appending"
  BY <1>1, <1>2, Onward
<1>4. QED  BY <1>1, <1>3, CallMoved

LEMMA NoModelKeeps ==
  ASSUME CorpusInv, NEW c \in Adders, NoModel(c)
  PROVE  CorpusInv'
<1>1. /\ UNCHANGED <<csv, chunks, npy, holder, told>> /\ adding[c].pc # "idle"
      /\ AddAt(c, "embed") /\ adding' = [adding EXCEPT ![c].pc = "save"]
  BY DEF NoModel, AddAt
<1>2. PICK r : r = [adding[c] EXCEPT !.pc = "save"]
  OBVIOUS
<1>3. /\ Moves(c, r) /\ r \in Add /\ r.pc = "save"
      /\ r.paper = adding[c].paper /\ r.src = adding[c].src
  BY <1>1, <1>2, Onward
<1>4. QED  BY <1>1, <1>3, CallMoved

LEMMA EmbedPassagesKeeps ==
  ASSUME CorpusInv, NEW c \in Adders, EmbedPassages(c)
  PROVE  CorpusInv'
<1>1. /\ UNCHANGED <<csv, chunks, holder, told>> /\ adding[c].pc # "idle"
      /\ AddAt(c, "embed") /\ adding' = [adding EXCEPT ![c].pc = "save"]
      /\ npy' = [npy EXCEPT ![adding[c].paper] = adding[c].src]
  BY DEF EmbedPassages, AddAt
<1>2. PICK r : r = [adding[c] EXCEPT !.pc = "save"]
  OBVIOUS
<1>3. /\ Moves(c, r) /\ r \in Add /\ r.pc = "save"
      /\ r.paper = adding[c].paper /\ r.src = adding[c].src
  BY <1>1, <1>2, Onward
<1>4. /\ adding' \in [Adders -> Add \cup {NotAdding}] /\ adding'[c] = r
      /\ \A d \in Adders \ {c} : adding'[d] = adding[d]
  BY <1>3, Moved
<1>5. UNCHANGED <<Listed, Readable>>
  BY <1>1 DEF Listed, Readable
<1>6. adding[c].paper \in Papers /\ adding[c].src \in Sources
  BY <1>1, AddTyped
<1>7. npy \in [Papers -> Sources \cup {Nothing}]
  BY DEF CorpusInv, CorpusTypes
<1>8. /\ npy' \in [Papers -> Sources \cup {Nothing}]
      /\ \A p \in Papers : npy'[p] = IF p = adding[c].paper THEN adding[c].src ELSE npy[p]
  BY <1>1, <1>6, <1>7
<1> USE DEF CorpusInv
<1>9. CorpusTypes'
  BY <1>1, <1>4, <1>8 DEF CorpusTypes
<1>10. OneWriter'
  BY <1>1, <1>3, <1>4 DEF OneWriter, AddAt
<1>11. Indexed'
  BY <1>1, <1>3, <1>4, <1>5 DEF Indexed, AddAt
<1>12. Complete'
  BY <1>1, <1>3, <1>4, <1>5 DEF Complete, AddAt
<1>13. Embedded'
  BY <1>1, <1>3, <1>4, <1>5, <1>8 DEF Embedded, AddAt
<1>14. QED  BY <1>9, <1>10, <1>11, <1>12, <1>13

LEMMA EmbedFailsKeeps ==
  ASSUME CorpusInv, NEW c \in Adders, EmbedFails(c)
  PROVE  CorpusInv'
BY LeaveKeeps DEF EmbedFails, Moves

\* What an append does to the two conditions on the passages: those that held
\* of some paper still do, as far as the file can be read.
LEMMA ChunksGrow ==
  ASSUME CorpusInv, NEW t \in Seq(Passage), chunks' = Appended(chunks, t),
         UNCHANGED <<csv, npy, told>>
  PROVE  /\ chunks' \in Seq(Passage)
         /\ Readable' => Readable /\ chunks' = chunks \o t
         /\ Readable' => \A i \in DOMAIN csv.rows :
                           PresentIn(chunks', csv.rows[i].paper, csv.rows[i].src)
         /\ Readable' => \A p \in Papers : npy[p] # Nothing => AlignedIn(chunks', p, npy[p])
         /\ Readable' => \A d \in Adders :
              /\ AddAt(d, "embed") \/ AddAt(d, "save") \/ AddAt(d, "saving")
                   => PresentIn(chunks', adding[d].paper, adding[d].src)
              /\ AddAt(d, "embed") => AlignedIn(chunks', adding[d].paper, adding[d].src)
<1>1. chunks \in Seq(Passage)
  BY DEF CorpusInv, CorpusTypes
<1>2. \A s : Whole(s) <=> \A i \in DOMAIN s : s[i] # Torn
  BY DEF Whole
<1>3. (Readable <=> Whole(chunks)) /\ (Readable' <=> Whole(chunks'))
  BY DEF Whole, Readable
<1>4. chunks' \in Seq(Passage) /\ (Whole(chunks') => Whole(chunks) /\ chunks' = chunks \o t)
  BY <1>1, Appending
<1>5. ASSUME NEW p, NEW src, PresentIn(chunks, p, src)
      PROVE  PresentIn(chunks \o t, p, src)
  BY <1>1, <1>5, PresentStays
<1>6. ASSUME NEW p, NEW src, AlignedIn(chunks, p, src)
      PROVE  AlignedIn(chunks \o t, p, src)
  BY <1>1, <1>6, AlignedStays
<1>7. Readable' => \A i \in DOMAIN csv.rows :
                     PresentIn(chunks', csv.rows[i].paper, csv.rows[i].src)
  BY <1>3, <1>4, <1>5 DEF CorpusInv, Complete
<1>8. Readable' => \A p \in Papers : npy[p] # Nothing => AlignedIn(chunks', p, npy[p])
  BY <1>3, <1>4, <1>6 DEF CorpusInv, Embedded
<1>9. Readable' => \A d \in Adders :
        AddAt(d, "embed") \/ AddAt(d, "save") \/ AddAt(d, "saving")
          => PresentIn(chunks', adding[d].paper, adding[d].src)
  BY <1>3, <1>4, <1>5 DEF CorpusInv, Complete
<1>10. Readable' => \A d \in Adders :
        AddAt(d, "embed") => AlignedIn(chunks', adding[d].paper, adding[d].src)
  BY <1>3, <1>4, <1>6 DEF CorpusInv, Embedded
<1>11. QED  BY <1>3, <1>4, <1>7, <1>8, <1>9, <1>10

LEMMA AppendChunksKeeps ==
  ASSUME CorpusInv, NEW c \in Adders, AppendChunks(c)
  PROVE  CorpusInv'
<1>1. /\ UNCHANGED <<csv, npy, told>> /\ adding[c].pc # "idle" /\ AddAt(c, "appending")
      /\ adding' = [adding EXCEPT ![c].pc = "embed"] /\ holder' = Nobody
      /\ chunks' = Appended(chunks, ChunkText(adding[c].paper, adding[c].src))
  BY DEF AppendChunks, AddAt
<1>2. PICK r, t, p, src : /\ r = [adding[c] EXCEPT !.pc = "embed"]
                          /\ p = adding[c].paper /\ src = adding[c].src
                          /\ t = ChunkText(p, src)
  OBVIOUS
<1>3. Moves(c, r) /\ r \in Add /\ r.pc = "embed" /\ r.paper = p /\ r.src = src
  BY <1>1, <1>2, Onward
<1>4. /\ adding' \in [Adders -> Add \cup {NotAdding}] /\ adding'[c] = r
      /\ \A d \in Adders \ {c} : adding'[d] = adding[d]
  BY <1>3, Moved
<1>5. p \in Papers /\ src \in Sources /\ t \in Seq(Passage) /\ chunks \in Seq(Passage)
  BY <1>1, <1>2, AddTyped, Texts DEF CorpusInv, CorpusTypes
<1>6. /\ chunks' \in Seq(Passage)
      /\ Readable' => chunks' = chunks \o t
      /\ Readable' => \A i \in DOMAIN csv.rows :
                        PresentIn(chunks', csv.rows[i].paper, csv.rows[i].src)
      /\ Readable' => \A q \in Papers : npy[q] # Nothing => AlignedIn(chunks', q, npy[q])
      /\ Readable' => \A d \in Adders :
           /\ AddAt(d, "embed") \/ AddAt(d, "save") \/ AddAt(d, "saving")
                => PresentIn(chunks', adding[d].paper, adding[d].src)
           /\ AddAt(d, "embed") => AlignedIn(chunks', adding[d].paper, adding[d].src)
  <2>1. chunks' = Appended(chunks, t)
    BY <1>1, <1>2
  <2>2. QED  BY <1>1, <1>5, <2>1, ChunksGrow
<1>7. Readable' => PresentIn(chunks', p, src) /\ AlignedIn(chunks', p, src)
  BY <1>2, <1>5, <1>6, PresentAppended, AlignedAppended
<1>8. Listed' = Listed
  BY <1>1 DEF Listed
<1>9. holder = c /\ \A d \in Adders : AddAt(d, "appending") \/ AddAt(d, "saving") => d = c
  BY <1>1 DEF CorpusInv, OneWriter
<1> USE DEF CorpusInv
<1>10. CorpusTypes'
  BY <1>1, <1>4, <1>6 DEF CorpusTypes
<1>11. OneWriter'
  BY <1>3, <1>4, <1>9 DEF OneWriter, AddAt
<1>12. Indexed'
  BY <1>1, <1>3, <1>4, <1>8 DEF Indexed, AddAt
<1>13. Complete'
  BY <1>1, <1>3, <1>4, <1>6, <1>7 DEF Complete, AddAt
<1>14. Embedded'
  BY <1>1, <1>3, <1>4, <1>6, <1>7 DEF Embedded, AddAt
<1>15. QED  BY <1>10, <1>11, <1>12, <1>13, <1>14

LEMMA BeginSaveKeeps ==
  ASSUME CorpusInv, NEW c \in Adders, BeginSave(c)
  PROVE  CorpusInv'
<1>1. /\ UNCHANGED <<chunks, npy, told>> /\ adding[c].pc # "idle" /\ AddAt(c, "save")
      /\ holder = Nobody
  BY DEF BeginSave, AddAt
<1>2. CASE Known(c)
  BY <1>1, <1>2, LeaveKeeps DEF BeginSave, Moves
<1>3. CASE ~Known(c)
  <2>1. /\ adding' = [adding EXCEPT ![c].pc = "saving"] /\ holder' = c
        /\ csv' = [csv EXCEPT !.state = "writing"] /\ adding[c].paper \notin Listed
    BY <1>3 DEF BeginSave, Known
  <2>2. PICK r : r = [adding[c] EXCEPT !.pc = "saving"]
    OBVIOUS
  <2>3. /\ Moves(c, r) /\ r \in Add /\ r.pc = "saving"
        /\ r.paper = adding[c].paper /\ r.src = adding[c].src
    BY <1>1, <2>1, <2>2, Onward
  <2>4. /\ adding' \in [Adders -> Add \cup {NotAdding}] /\ adding'[c] = r
        /\ \A d \in Adders \ {c} : adding'[d] = adding[d]
    BY <2>3, Moved
  <2>5. csv' \in [state : {"ok", "writing"}, rows : Seq(IndexRow)] /\ csv'.rows = csv.rows
    BY <2>1 DEF CorpusInv, CorpusTypes
  <2>6. UNCHANGED <<Listed, Readable>>
    BY <1>1, <2>5 DEF Listed, Readable
  <2> USE DEF CorpusInv
  <2>7. CorpusTypes'
    BY <1>1, <2>4, <2>5 DEF CorpusTypes
  <2>8. OneWriter'
    BY <1>1, <2>1, <2>3, <2>4, AdderAssumption DEF OneWriter, AddAt
  <2>9. Indexed'
    BY <1>1, <2>1, <2>3, <2>4, <2>5, <2>6 DEF Indexed, AddAt
  <2>10. Complete'
    BY <1>1, <2>3, <2>4, <2>5, <2>6 DEF Complete, AddAt
  <2>11. Embedded'
    BY <1>1, <2>3, <2>4, <2>6 DEF Embedded, AddAt
  <2>12. QED  BY <2>7, <2>8, <2>9, <2>10, <2>11
<1>4. QED  BY <1>2, <1>3

LEMMA EndSaveKeeps ==
  ASSUME CorpusInv, NEW c \in Adders, EndSave(c)
  PROVE  CorpusInv'
<1>1. PICK rows, new : /\ rows = csv.rows /\ new = Row(adding[c].paper, adding[c].src)
  OBVIOUS
<1>2. /\ UNCHANGED <<chunks, npy>> /\ adding[c].pc # "idle" /\ AddAt(c, "saving")
      /\ csv' = [state |-> "ok", rows |-> Append(rows, new)]
      /\ told' = told \cup {adding[c].paper} /\ holder' = Nobody /\ Moves(c, NotAdding)
  BY <1>1 DEF EndSave, SavedRows, AddAt, Moves
<1>3. /\ adding' \in [Adders -> Add \cup {NotAdding}] /\ adding'[c].pc = "idle"
      /\ \A d \in Adders \ {c} : adding'[d] = adding[d]
  BY <1>2, Moved DEF NotAdding
<1>4. adding[c].paper \in Papers /\ adding[c].src \in Sources
  BY <1>2, AddTyped
<1>5. /\ rows \in Seq(IndexRow) /\ new \in IndexRow
      /\ new.paper = adding[c].paper /\ new.src = adding[c].src
  BY <1>1, <1>4 DEF CorpusInv, CorpusTypes, Row, IndexRow
<1>6. /\ Append(rows, new) \in Seq(IndexRow) /\ Len(rows) \in Nat /\ DOMAIN rows = 1..Len(rows)
      /\ DOMAIN Append(rows, new) = 1..(Len(rows) + 1)
      /\ \A i \in 1..Len(rows) : Append(rows, new)[i] = rows[i]
      /\ Append(rows, new)[Len(rows) + 1] = new
  BY <1>5
<1>7. PICK all : all = Append(rows, new)
  OBVIOUS
<1>8. /\ csv' = [state |-> "ok", rows |-> all] /\ csv'.rows = all /\ all \in Seq(IndexRow)
      /\ \A i \in DOMAIN rows : i \in DOMAIN all /\ all[i] = rows[i]
      /\ Len(rows) + 1 \in DOMAIN all /\ all[Len(rows) + 1] = new
      /\ \A i \in DOMAIN all : i \in DOMAIN rows \/ i = Len(rows) + 1
  BY <1>2, <1>6, <1>7
<1>9. Readable' = Readable
  BY <1>2 DEF Readable
<1>10. Listed' = Listed \cup {new.paper} /\ new.paper \notin Listed
  <2>1. Listed = {rows[i].paper : i \in DOMAIN rows} /\ Listed' = {all[i].paper : i \in DOMAIN all}
    BY <1>1, <1>8 DEF Listed
  <2>2. {all[i].paper : i \in DOMAIN all} = {rows[i].paper : i \in DOMAIN rows} \cup {new.paper}
    BY <1>8
  <2>3. new.paper \notin Listed
    BY <1>2, <1>5 DEF CorpusInv, Indexed
  <2>4. QED  BY <2>1, <2>2, <2>3
<1>11. \A d \in Adders \ {c} : adding[d].pc \notin {"appending", "saving"}
  BY <1>2 DEF CorpusInv, OneWriter, AddAt
<1> USE DEF CorpusInv
<1>12. CorpusTypes'
  <2>1. csv' \in [state : {"ok", "writing"}, rows : Seq(IndexRow)]
    BY <1>8
  <2>2. QED  BY <1>2, <1>3, <2>1 DEF CorpusTypes
<1>13. OneWriter'
  BY <1>3, <1>11 DEF OneWriter, AddAt
<1>14. Indexed'
  <2>1. told' = Listed'
    BY <1>2, <1>5, <1>10 DEF Indexed
  <2>2. \A i \in DOMAIN rows : rows[i].paper # new.paper
    BY <1>1, <1>10 DEF Listed
  <2>3. \A i, j \in DOMAIN rows : rows[i].paper = rows[j].paper => i = j
    BY <1>1 DEF Indexed
  <2>4. \A i, j \in DOMAIN all : all[i].paper = all[j].paper => i = j
    BY <1>8, <2>2, <2>3
  <2>5. \A d \in Adders : adding'[d].pc # "saving"
    BY <1>3, <1>11
  <2>6. QED  BY <1>8, <2>1, <2>4, <2>5 DEF Indexed, AddAt
<1>15. Complete'
  <2>1. Readable => \A i \in DOMAIN rows : PresentIn(chunks, rows[i].paper, rows[i].src)
    BY <1>1 DEF Complete
  <2>2. Readable => PresentIn(chunks, new.paper, new.src)
    BY <1>2, <1>5 DEF Complete
  <2>3. Readable => \A i \in DOMAIN all : PresentIn(chunks, all[i].paper, all[i].src)
    BY <1>8, <2>1, <2>2
  <2>4. QED  BY <1>2, <1>3, <1>8, <1>9, <2>3 DEF Complete, AddAt
<1>16. Embedded'
  BY <1>2, <1>3, <1>9 DEF Embedded, AddAt
<1>17. QED  BY <1>12, <1>13, <1>14, <1>15, <1>16

LEMMA AddStepKeeps ==
  ASSUME CorpusInv, NEW c \in Adders, AddStep(c)
  PROVE  CorpusInv'
BY CopySourceKeeps, BeginAppendKeeps, AppendChunksKeeps, EmbedPassagesKeeps, NoModelKeeps,
   EmbedFailsKeeps, BeginSaveKeeps, EndSaveKeeps DEF AddStep

\* After a kill no call is under way; the passages may have grown, the index
\* may have lost its last rows, and the agent is told what is in it.
LEMMA CorpusKillKeeps ==
  ASSUME CorpusInv, CorpusKill
  PROVE  CorpusInv'
<1>1. /\ adding' \in [Adders -> Add \cup {NotAdding}] /\ UNCHANGED npy
      /\ \A d \in Adders : adding'[d].pc = "idle"
  BY DEF CorpusKill, NotAdding
<1>2. /\ csv \in [state : {"ok", "writing"}, rows : Seq(IndexRow)]
      /\ chunks \in Seq(Passage) /\ npy \in [Papers -> Sources \cup {Nothing}]
  BY DEF CorpusInv, CorpusTypes
<1>3. OneWriter'
  BY <1>1 DEF OneWriter, AddAt
<1>4. CASE UNCHANGED <<csv, chunks, told>>
  <2>1. UNCHANGED <<Listed, Readable>>
    BY <1>4 DEF Listed, Readable
  <2>2. QED
    BY <1>1, <1>2, <1>3, <1>4, <2>1
    DEF CorpusInv, CorpusTypes, Indexed, Complete, Embedded, AddAt
<1>5. CASE \E c \in Adders :
             /\ AddAt(c, "saving") /\ UNCHANGED chunks
             /\ \E n \in 0..Len(csv.rows) :
                  csv' = [state |-> "ok", rows |-> SubSeq(csv.rows, 1, n)]
             /\ told' = {csv'.rows[i].paper : i \in DOMAIN csv'.rows}
  <2>1. PICK rows, n, some :
          /\ rows = csv.rows /\ some = SubSeq(rows, 1, n) /\ n \in 0..Len(csv.rows)
          /\ csv' = [state |-> "ok", rows |-> some]
    <3>1. PICK n \in 0..Len(csv.rows) : csv' = [state |-> "ok", rows |-> SubSeq(csv.rows, 1, n)]
      BY <1>5
    <3>2. PICK rows, some : rows = csv.rows /\ some = SubSeq(rows, 1, n)
      OBVIOUS
    <3>3. QED  BY <3>1, <3>2
  <2>2. rows \in Seq(IndexRow) /\ Len(rows) \in Nat /\ n \in 0..Len(rows)
    BY <1>2, <2>1
  <2>3. /\ some \in Seq(IndexRow)
        /\ \A i \in DOMAIN some : i \in DOMAIN rows /\ some[i] = rows[i]
    BY <2>1, <2>2
  <2>4. csv'.rows = some /\ csv' \in [state : {"ok", "writing"}, rows : Seq(IndexRow)]
    BY <2>1, <2>3
  <2>5. UNCHANGED <<chunks, Readable>> /\ told' = Listed'
    BY <1>5 DEF Readable, Listed
  <2>6. CorpusTypes'
    BY <1>1, <1>2, <2>4, <2>5 DEF CorpusTypes
  <2>7. Indexed'
    <3>1. \A i, j \in DOMAIN rows : rows[i].paper = rows[j].paper => i = j
      BY <2>1 DEF CorpusInv, Indexed
    <3>2. \A i, j \in DOMAIN some : some[i].paper = some[j].paper => i = j
      BY <2>3, <3>1
    <3>3. QED  BY <1>1, <2>4, <2>5, <3>2 DEF Indexed, AddAt
  <2>8. Complete'
    <3>1. Readable => \A i \in DOMAIN rows : PresentIn(chunks, rows[i].paper, rows[i].src)
      BY <2>1 DEF CorpusInv, Complete
    <3>2. Readable => \A i \in DOMAIN some : PresentIn(chunks, some[i].paper, some[i].src)
      BY <2>3, <3>1
    <3>3. QED  BY <1>1, <2>4, <2>5, <3>2 DEF Complete, AddAt
  <2>9. Embedded'
    BY <1>1, <2>5 DEF CorpusInv, Embedded, AddAt
  <2>10. QED  BY <1>3, <2>6, <2>7, <2>8, <2>9 DEF CorpusInv
<1>6. CASE /\ UNCHANGED <<csv, told>>
           /\ \E c \in Adders :
                LET new == ChunkText(adding[c].paper, adding[c].src) IN
                /\ AddAt(c, "appending")
                /\ \E n \in 0..Len(new) : \E cut \in {<<>>, <<Torn>>} :
                     chunks' = Appended(chunks, SubSeq(new, 1, n) \o cut)
  <2>1. PICK c \in Adders :
          LET new == ChunkText(adding[c].paper, adding[c].src) IN
          /\ AddAt(c, "appending")
          /\ \E n \in 0..Len(new) : \E cut \in {<<>>, <<Torn>>} :
               chunks' = Appended(chunks, SubSeq(new, 1, n) \o cut)
    BY <1>6
  <2>2. PICK t : t = ChunkText(adding[c].paper, adding[c].src)
    OBVIOUS
  <2>3. PICK n \in 0..Len(t), cut \in {<<>>, <<Torn>>} :
          chunks' = Appended(chunks, SubSeq(t, 1, n) \o cut)
    BY <2>1, <2>2
  <2>4. t \in Seq(Passage)
    <3>1. adding[c].paper \in Papers /\ adding[c].src \in Sources
      BY <2>1, AddTyped DEF AddAt
    <3>2. QED  BY <2>2, <3>1, Texts
  <2>5. PICK more : more = SubSeq(t, 1, n) \o cut
    OBVIOUS
  <2>6. more \in Seq(Passage)
    <3>1. SubSeq(t, 1, n) \in Seq(Passage)
      BY <2>3, <2>4
    <3>2. Torn \in Passage
      BY DEF Torn, Passage
    <3>3. cut \in Seq(Passage)
      <4>1. CASE cut = <<>>
        BY <4>1
      <4>2. CASE cut = <<Torn>>
        BY <3>2, <4>2
      <4>3. QED  BY <2>3, <4>1, <4>2
    <3>4. QED  BY <2>5, <3>1, <3>3
  <2>7. /\ chunks' \in Seq(Passage)
        /\ Readable' => \A i \in DOMAIN csv.rows :
                          PresentIn(chunks', csv.rows[i].paper, csv.rows[i].src)
        /\ Readable' => \A q \in Papers : npy[q] # Nothing => AlignedIn(chunks', q, npy[q])
    <3>1. chunks' = Appended(chunks, more) /\ UNCHANGED <<csv, npy, told>>
      BY <1>1, <1>6, <2>3, <2>5
    <3>2. QED  BY <2>6, <3>1, ChunksGrow
  <2>8. Listed' = Listed
    BY <1>6 DEF Listed
  <2>9. CorpusTypes'
    BY <1>1, <1>2, <1>6, <2>7 DEF CorpusTypes
  <2>10. Indexed'
    BY <1>1, <1>6, <2>8 DEF CorpusInv, Indexed, AddAt
  <2>11. Complete'
    BY <1>1, <1>6, <2>7 DEF Complete, AddAt
  <2>12. Embedded'
    BY <1>1, <2>7 DEF Embedded, AddAt
  <2>13. QED  BY <1>3, <2>9, <2>10, <2>11, <2>12 DEF CorpusInv
<1>7. QED  BY <1>4, <1>5, <1>6 DEF CorpusKill

LEMMA CorpusStepKeeps == CorpusInv /\ [Next]_vars => CorpusInv'
<1> SUFFICES ASSUME CorpusInv, [Next]_vars PROVE CorpusInv'
  OBVIOUS
<1>1. ASSUME UNCHANGED <<csv, chunks, npy, text, adding, holder, told>> PROVE CorpusInv'
  BY <1>1 DEF CorpusInv, CorpusTypes, OneWriter, Indexed, Complete, Embedded,
     Listed, Readable, AddAt
<1>2. CASE UNCHANGED vars
  BY <1>1, <1>2 DEF vars, corpusVars
<1>3. CASE \E c \in Calls : \E tool \in Tools : \E q \in Subjects(tool) :
             CallTool(c, tool, q) \/ \E h \in Handles : CallAsync(c, h, tool, q)
  BY <1>1, <1>3 DEF CallTool, CallAsync, corpusVars
<1>4. CASE \E c \in Calls : \/ CollectSearches(c, reg) \/ \E h \in reg : CollectSearches(c, {h})
                            \/ CollectNext(c)
  BY <1>1, <1>4 DEF CollectSearches, CollectNext, corpusVars
<1>5. CASE \E c \in Calls : \E p \in Papers, src \in Sources : CorpusAdd(c, p, src)
  BY <1>5, CallAssumption, BeginAddKeeps DEF CorpusAdd
<1>6. CASE \E c \in Calls : UsingCorpus(c) \/ CorpusSearch(c)
  <2>1. PICK c \in Calls : UsingCorpus(c) \/ CorpusSearch(c)
    BY <1>6
  <2>2. CASE AddStep(c)
    BY <2>2, CallAssumption, AddStepKeeps
  <2>3. CASE SearchStep(c) \/ BeginSearch(c)
    <3>1. UNCHANGED <<csv, chunks, npy, text, adding, holder, told>>
      BY <2>3 DEF SearchStep, ReadPassages, LoadEmbeddings, RankPassages, BeginSearch
    <3>2. QED  BY <1>1, <3>1
  <2>4. QED  BY <2>1, <2>2, <2>3 DEF UsingCorpus, CorpusSearch
<1>7. CASE \E t \in Threads : BeginFetch(t) \/ Fetching(t) \/ Hydrate(t) \/ FinishTool(t)
  BY <1>1, <1>7 DEF BeginFetch, Fetching, Hydrate, FinishTool, corpusVars
<1>8. CASE Time
  BY <1>1, <1>8 DEF Time, corpusVars
<1>9. CASE Kill
  BY <1>9, CorpusKillKeeps DEF Kill
<1>10. QED  BY <1>2, <1>3, <1>4, <1>5, <1>6, <1>7, <1>8, <1>9 DEF Next

\* The invariant behind the two others, for every number of calls and papers.
THEOREM CorpusInductive == Spec => []CorpusInv
<1>1. Init => CorpusInv
  BY CorpusInitEstablishes DEF Init
<1>2. QED  BY <1>1, CorpusStepKeeps, PTL DEF Spec

\* As many papers as rows: no paper has two.
LEMMA IndexCounted ==
  ASSUME CorpusInv
  PROVE  Cardinality(Listed) = Len(csv.rows)
<1>1. PICK rows, n : rows = csv.rows /\ n = Len(rows)
  OBVIOUS
<1>2. /\ rows \in Seq(IndexRow) /\ n \in Nat /\ DOMAIN rows = 1..n
      /\ \A i, j \in 1..n : rows[i].paper = rows[j].paper => i = j
  BY <1>1 DEF CorpusInv, CorpusTypes, Indexed
<1>3. Listed = {rows[i].paper : i \in 1..n}
  BY <1>1, <1>2 DEF Listed
<1> DEFINE f == [i \in 1..n |-> rows[i].paper]
<1>4. f \in Bijection(1..n, Listed)
  BY <1>2, <1>3 DEF Bijection, Injection, Surjection, IsInjective
<1> HIDE DEF f
<1>5. ExistsBijection(1..n, Listed)
  BY <1>4 DEF ExistsBijection
<1>6. Cardinality(Listed) = n
  BY <1>2, <1>5, FS_CountingElements
<1>7. QED  BY <1>1, <1>6

\* For any number of calls, papers and kills, the index lists each paper once,
\* exactly those the agent was told of, with their passages where a search
\* finds them (LiteratureCorpus.add, LiteratureCorpus.search).
THEOREM CorpusIsAsTold == Spec => []CorpusAsTold
<1>1. ASSUME CorpusInv PROVE CorpusAsTold
  <2>1. Listed = told
    BY <1>1 DEF CorpusInv, Indexed
  <2>2. Cardinality(Listed) = Len(csv.rows)
    BY <1>1, IndexCounted
  <2>3. ASSUME Readable, NEW i \in DOMAIN csv.rows, Quotable(csv.rows[i].src)
        PROVE  ToSet(ChunkText(csv.rows[i].paper, csv.rows[i].src)) \subseteq Searched
    <3>1. PICK p, src, t : /\ p = csv.rows[i].paper /\ src = csv.rows[i].src
                           /\ t = ChunkText(p, src)
      OBVIOUS
    <3>2. p \in Papers /\ src \in Sources
      <4>1. csv.rows \in Seq(IndexRow)
        BY <1>1 DEF CorpusInv, CorpusTypes
      <4>2. csv.rows[i] \in IndexRow
        BY <2>3, <4>1
      <4>3. QED  BY <3>1, <4>2 DEF IndexRow
    <3>3. p \in FullTextIds
      BY <2>3, <3>1 DEF FullTextIds, FullText
    <3>4. ASSUME NEW x \in ToSet(t) PROVE x \in Searched
      <4>1. PICK k \in 1..Passages(src) : x = t[k] /\ t[k] = Chunk(p, src, k)
                                          /\ t[k].paper = p
        BY <3>1, <3>2, <3>4, Texts DEF ToSet
      <4>2. PICK j \in DOMAIN chunks : chunks[j] = Chunk(p, src, k)
        BY <1>1, <2>3, <3>1, <4>1 DEF CorpusInv, Complete, PresentIn
      <4>3. chunks[j].paper \in FullTextIds /\ x = chunks[j]
        BY <3>3, <4>1, <4>2
      <4>4. QED  BY <4>3 DEF Searched
    <3>5. QED  BY <3>1, <3>4
  <2>4. QED  BY <2>1, <2>2, <2>3 DEF CorpusAsTold
<1>2. QED  BY <1>1, CorpusInductive, PTL

-----------------------------------------------------------------------------
(* Searches.                                                                *)

Searches ==
  [pc : {"idle", "read", "load", "rank"}, full : SUBSET Papers, read : Seq(Passage),
   todo : SUBSET Papers, embs : [Papers -> Sources \cup {Nothing}],
   late : SUBSET Adders, overtaken : SUBSET Papers]

\* What a search has read matches what it will make of it, as far as it was not
\* overtaken.
Matched(s) ==
  /\ s.pc # "load" => s.todo = {}
  /\ Whole(s.read)
  /\ \A p \in Papers \ s.overtaken :
       IF p \in s.todo THEN npy[p] # Nothing => AlignedIn(s.read, p, npy[p])
       ELSE s.embs[p] # Nothing => AlignedIn(s.read, p, s.embs[p])
  /\ s.pc = "load" =>
       \A d \in Adders \ s.late :
         AddAt(d, "embed") => AlignedIn(s.read, adding[d].paper, adding[d].src)

SearchInv ==
  /\ searching \in [Adders -> Searches]
  /\ \A c \in Adders : Matched(searching[c])

\* A search that has read nothing has nothing to match.
LEMMA Unread ==
  ASSUME NEW s, NEW step \in {"idle", "read"}, NEW full \in SUBSET Papers,
         s = Search(step, full, <<>>, {})
  PROVE  s \in Searches /\ Matched(s) /\ Matched(s)'
<1>1. s \in Searches /\ s.pc # "load" /\ s.read = <<>> /\ s.todo = {}
      /\ \A p \in Papers : s.embs[p] = Nothing
  <2>1. <<>> \in Seq(Passage)
    OBVIOUS
  <2>2. QED  BY <2>1 DEF Search, Searches
<1>2. QED  BY <1>1 DEF Matched, Whole

\* Steps of others that save no embeddings and append no passages.
LEMMA SearchesStay ==
  ASSUME SearchInv, UNCHANGED <<searching, npy>>,
         \A d \in Adders : AddAt(d, "embed")' => AddAt(d, "embed") /\ adding'[d] = adding[d]
  PROVE  SearchInv'
<1>1. ASSUME NEW c \in Adders PROVE Matched(searching[c])'
  <2>1. PICK s : s = searching[c]
    OBVIOUS
  <2>2. Matched(s)
    BY <2>1 DEF SearchInv
  <2>3. Matched(s)'
    BY <2>2 DEF Matched
  <2>4. QED  BY <2>1, <2>3
<1>2. QED  BY <1>1 DEF SearchInv

\* One search moves on, and nothing else.
LEMMA OneSearches ==
  ASSUME SearchInv, NEW c \in Adders, NEW s \in Searches, Matched(s),
         searching' = [searching EXCEPT ![c] = s], UNCHANGED <<npy, adding>>
  PROVE  SearchInv'
<1>1. searching' \in [Adders -> Searches]
  BY DEF SearchInv
<1>2. ASSUME NEW d \in Adders PROVE Matched(searching[d])'
  <2>1. PICK u : u = searching'[d]
    OBVIOUS
  <2>2. Matched(u)
    BY <2>1 DEF SearchInv
  <2>3. Matched(u)'
    BY <2>2 DEF Matched, AddAt
  <2>4. QED  BY <2>1, <2>3
<1>3. QED  BY <1>1, <1>2 DEF SearchInv

LEMMA BeginSearchKeeps ==
  ASSUME CorpusInv, SearchInv, NEW c \in Adders, BeginSearch(c)
  PROVE  SearchInv'
<1>1. PICK n \in 0..Len(csv.rows) :
        searching' = [searching EXCEPT ![c] =
                        Search("read", FullText(SubSeq(csv.rows, 1, n)), <<>>, {})]
  BY DEF BeginSearch
<1>2. PICK rows : rows = SubSeq(csv.rows, 1, n)
  OBVIOUS
<1>3. rows \in Seq(IndexRow)
  <2>1. csv.rows \in Seq(IndexRow)
    BY DEF CorpusInv, CorpusTypes
  <2>2. QED  BY <1>2, <2>1
<1>4. FullText(rows) \in SUBSET Papers
  <2>1. \A i \in DOMAIN rows : rows[i] \in IndexRow
    BY <1>3
  <2>2. QED  BY <2>1 DEF FullText, IndexRow
<1>5. PICK s : s = Search("read", FullText(rows), <<>>, {})
  OBVIOUS
<1>6. s \in Searches /\ Matched(s)
  BY <1>4, <1>5, Unread
<1>7. QED  BY <1>1, <1>2, <1>5, <1>6, OneSearches DEF BeginSearch

\* What is read is the file of now, for which it holds.
LEMMA ReadPassagesKeeps ==
  ASSUME CorpusInv, SearchInv, NEW c \in Adders, ReadPassages(c)
  PROVE  SearchInv'
<1>1. chunks \in Seq(Passage) /\ searching[c] \in Searches
  BY DEF CorpusInv, CorpusTypes, SearchInv
<1>2. CASE chunks = <<>> \/ ~Readable
  <2>1. NotSearching \in Searches /\ Matched(NotSearching)
    BY Unread DEF NotSearching
  <2>2. searching' = [searching EXCEPT ![c] = NotSearching]
    BY <1>2 DEF ReadPassages
  <2>3. QED  BY <2>1, <2>2, OneSearches DEF ReadPassages
<1>3. CASE ~(chunks = <<>> \/ ~Readable)
  <2>1. PICK s : s = Search("load", searching[c].full, chunks, PapersOf(chunks))
    OBVIOUS
  <2>2. Whole(chunks)
    BY <1>3 DEF Readable, Whole
  <2>3. PapersOf(chunks) \in SUBSET Papers
    <3>1. \A i \in DOMAIN chunks : chunks[i] \in Passage /\ chunks[i] # Torn
      BY <1>1, <2>2 DEF Whole
    <3>2. QED  BY <3>1 DEF PapersOf, Passage
  <2>4. s \in Searches
    BY <1>1, <2>1, <2>3 DEF Search, Searches
  <2>5. /\ s.pc = "load" /\ s.read = chunks /\ s.todo = PapersOf(chunks)
        /\ \A p \in Papers : s.embs[p] = Nothing
    BY <2>1 DEF Search
  <2>6. Matched(s)
    <3>1. /\ \A p \in Papers : npy[p] # Nothing => AlignedIn(chunks, p, npy[p])
          /\ \A d \in Adders : AddAt(d, "embed")
                                 => AlignedIn(chunks, adding[d].paper, adding[d].src)
      BY <1>3 DEF CorpusInv, Embedded
    <3>2. QED  BY <2>2, <2>5, <3>1 DEF Matched
  <2>7. searching' = [searching EXCEPT ![c] = s]
    BY <1>3, <2>1 DEF ReadPassages
  <2>8. QED  BY <2>4, <2>6, <2>7, OneSearches DEF ReadPassages
<1>4. QED  BY <1>2, <1>3

LEMMA LoadEmbeddingsKeeps ==
  ASSUME CorpusInv, SearchInv, NEW c \in Adders, LoadEmbeddings(c)
  PROVE  SearchInv'
<1>1. PICK s : s = searching[c]
  OBVIOUS
<1>2. s \in Searches /\ Matched(s) /\ s.pc = "load"
  BY <1>1 DEF SearchInv, LoadEmbeddings, SearchAt
<1>3. PICK p : /\ p \in s.todo
               /\ searching' = [searching EXCEPT ![c] =
                                  [s EXCEPT !.embs[p] = npy[p], !.todo = @ \ {p},
                                            !.pc = IF s.todo = {p} THEN "rank" ELSE "load"]]
  BY <1>1 DEF LoadEmbeddings
<1>4. PICK u : u = [s EXCEPT !.embs[p] = npy[p], !.todo = @ \ {p},
                             !.pc = IF s.todo = {p} THEN "rank" ELSE "load"]
  OBVIOUS
<1>5. p \in Papers /\ npy[p] \in Sources \cup {Nothing}
  BY <1>2, <1>3 DEF Searches, CorpusInv, CorpusTypes
<1>6. u \in Searches
  BY <1>2, <1>4, <1>5 DEF Searches
<1>7. /\ u.read = s.read /\ u.late = s.late /\ u.overtaken = s.overtaken
      /\ u.todo = s.todo \ {p} /\ u.pc = (IF s.todo = {p} THEN "rank" ELSE "load")
      /\ u.embs[p] = npy[p] /\ \A q \in Papers \ {p} : u.embs[q] = s.embs[q]
  BY <1>2, <1>4, <1>5 DEF Searches
<1>8. Matched(u)
  <2>1. \A q \in Papers \ u.overtaken :
          IF q \in u.todo THEN npy[q] # Nothing => AlignedIn(u.read, q, npy[q])
          ELSE u.embs[q] # Nothing => AlignedIn(u.read, q, u.embs[q])
    <3>1. TAKE q \in Papers \ u.overtaken
    <3>2. CASE q = p
      BY <1>2, <1>3, <1>7, <3>1, <3>2 DEF Matched
    <3>3. CASE q # p
      BY <1>2, <1>7, <3>1, <3>3 DEF Matched
    <3>4. QED  BY <3>2, <3>3
  <2>2. QED  BY <1>2, <1>7, <2>1 DEF Matched
<1>9. QED  BY <1>3, <1>4, <1>6, <1>8, OneSearches DEF LoadEmbeddings

LEMMA RankPassagesKeeps ==
  ASSUME SearchInv, NEW c \in Adders, RankPassages(c)
  PROVE  SearchInv'
<1>1. NotSearching \in Searches /\ Matched(NotSearching)
  BY Unread DEF NotSearching
<1>2. QED  BY <1>1, OneSearches DEF RankPassages

\* An add that appends now is late for every search that has read.
LEMMA AppendChunksMatched ==
  ASSUME CorpusInv, SearchInv, NEW c \in Adders, AppendChunks(c)
  PROVE  SearchInv'
<1>1. /\ UNCHANGED npy
      /\ \A d \in Adders \ {c} : adding'[d] = adding[d]
  BY DEF AppendChunks, CorpusInv, CorpusTypes
<1>2. ASSUME NEW e \in Adders
      PROVE  searching'[e] \in Searches /\ Matched(searching[e])'
  <2>1. PICK s, u : s = searching[e] /\ u = searching'[e]
    OBVIOUS
  <2>2. s \in Searches /\ Matched(s)
    BY <2>1 DEF SearchInv
  <2>3. u = IF s.pc = "load" THEN [s EXCEPT !.late = @ \cup {c}] ELSE s
    BY <2>1 DEF AppendChunks, SearchAt
  <2>4. /\ u \in Searches /\ u.pc = s.pc /\ u.read = s.read /\ u.todo = s.todo
        /\ u.embs = s.embs /\ u.overtaken = s.overtaken
        /\ u.pc = "load" => u.late = s.late \cup {c}
    BY <2>2, <2>3 DEF Searches
  <2>5. Matched(u)'
    BY <1>1, <2>2, <2>4 DEF Matched, AddAt
  <2>6. QED  BY <2>1, <2>4, <2>5
<1>3. searching' = [e \in Adders |-> searching'[e]]
  BY DEF AppendChunks
<1>4. QED  BY <1>2, <1>3 DEF SearchInv

\* New embeddings match what was read before them, or overtake it.
LEMMA EmbedPassagesMatched ==
  ASSUME CorpusInv, SearchInv, NEW c \in Adders, EmbedPassages(c)
  PROVE  SearchInv'
<1>1. PICK p, src : p = adding[c].paper /\ src = adding[c].src
  OBVIOUS
<1>2. p \in Papers /\ src \in Sources /\ AddAt(c, "embed")
  <2>1. AddAt(c, "embed") /\ adding[c].pc # "idle"
    BY DEF EmbedPassages, AddAt
  <2>2. QED  BY <1>1, <2>1, AddTyped
<1>3. /\ npy'[p] = src /\ \A q \in Papers \ {p} : npy'[q] = npy[q]
      /\ \A d \in Adders \ {c} : adding'[d] = adding[d]
      /\ adding'[c].pc = "save"
  BY <1>1, <1>2 DEF EmbedPassages, CorpusInv, CorpusTypes, Add, NotAdding, AddAt
<1>4. ASSUME NEW e \in Adders
      PROVE  searching'[e] \in Searches /\ Matched(searching[e])'
  <2>1. PICK s, u : s = searching[e] /\ u = searching'[e]
    OBVIOUS
  <2>2. s \in Searches /\ Matched(s)
    BY <2>1 DEF SearchInv
  <2>3. u = IF p \notin s.todo THEN s
            ELSE IF c \in s.late THEN [s EXCEPT !.overtaken = @ \cup {p}]
            ELSE [s EXCEPT !.overtaken = @ \ {p}]
    BY <1>1, <2>1 DEF EmbedPassages
  <2>4. /\ u \in Searches /\ u.pc = s.pc /\ u.read = s.read /\ u.todo = s.todo
        /\ u.embs = s.embs /\ u.late = s.late
        /\ \A q \in Papers \ {p} : q \in u.overtaken <=> q \in s.overtaken
        /\ p \in s.todo => (p \in u.overtaken <=> c \in s.late)
        /\ p \notin s.todo => u = s
    BY <1>2, <2>2, <2>3 DEF Searches
  <2>5. \A q \in Papers \ u.overtaken :
          IF q \in u.todo THEN npy'[q] # Nothing => AlignedIn(u.read, q, npy'[q])
          ELSE u.embs[q] # Nothing => AlignedIn(u.read, q, u.embs[q])
    <3>1. TAKE q \in Papers \ u.overtaken
    <3>2. CASE q = p /\ p \in s.todo
      <4>1. c \notin s.late /\ s.pc = "load"
        BY <2>2, <2>4, <3>1, <3>2 DEF Matched
      <4>2. AlignedIn(s.read, p, src)
        BY <1>1, <1>2, <2>2, <4>1 DEF Matched
      <4>3. QED  BY <1>3, <2>4, <3>2, <4>2
    <3>3. CASE q = p /\ p \notin s.todo
      BY <2>2, <2>4, <3>1, <3>3 DEF Matched
    <3>4. CASE q # p
      BY <1>3, <2>2, <2>4, <3>1, <3>4 DEF Matched
    <3>5. QED  BY <3>2, <3>3, <3>4
  <2>6. u.pc = "load" =>
          \A d \in Adders \ u.late :
            AddAt(d, "embed")' => AlignedIn(u.read, adding'[d].paper, adding'[d].src)
    BY <1>3, <2>2, <2>4 DEF Matched, AddAt
  <2>7. Matched(u)'
    BY <2>2, <2>4, <2>5, <2>6 DEF Matched
  <2>8. QED  BY <2>1, <2>4, <2>7
<1>5. searching' = [e \in Adders |-> searching'[e]]
  BY DEF EmbedPassages
<1>6. QED  BY <1>4, <1>5 DEF SearchInv

LEMMA CorpusStepMatched ==
  ASSUME CorpusInv, SearchInv, NEW c \in Adders, AddStep(c) \/ SearchStep(c)
  PROVE  SearchInv'
<1>1. CASE \/ CopySource(c) \/ BeginAppend(c) \/ NoModel(c) \/ EmbedFails(c)
           \/ BeginSave(c) \/ EndSave(c)
  <2>1. UNCHANGED <<searching, npy>>
    BY <1>1 DEF CopySource, BeginAppend, NoModel, EmbedFails, BeginSave, EndSave
  <2>2. \A d \in Adders \ {c} : adding'[d] = adding[d]
    BY <1>1 DEF CopySource, BeginAppend, NoModel, EmbedFails, BeginSave, EndSave,
       CorpusInv, CorpusTypes
  <2>3. adding'[c].pc # "embed"
    BY <1>1 DEF CopySource, BeginAppend, NoModel, EmbedFails, BeginSave, EndSave,
       CorpusInv, CorpusTypes, Add, NotAdding, AddAt
  <2>4. QED  BY <2>1, <2>2, <2>3, SearchesStay DEF AddAt
<1>2. QED
  BY <1>1, AppendChunksMatched, EmbedPassagesMatched, ReadPassagesKeeps, LoadEmbeddingsKeeps,
     RankPassagesKeeps DEF AddStep, SearchStep

LEMMA SearchStepKeeps == CorpusInv /\ SearchInv /\ [Next]_vars => SearchInv'
<1> SUFFICES ASSUME CorpusInv, SearchInv, [Next]_vars PROVE SearchInv'
  OBVIOUS
<1>1. ASSUME UNCHANGED corpusVars PROVE SearchInv'
  BY <1>1, SearchesStay DEF corpusVars, AddAt
<1>2. CASE UNCHANGED vars
  BY <1>1, <1>2 DEF vars
<1>3. CASE \E c \in Calls : \E tool \in Tools : \E q \in Subjects(tool) :
             CallTool(c, tool, q) \/ \E h \in Handles : CallAsync(c, h, tool, q)
  BY <1>1, <1>3 DEF CallTool, CallAsync
<1>4. CASE \E c \in Calls : \/ CollectSearches(c, reg) \/ \E h \in reg : CollectSearches(c, {h})
                            \/ CollectNext(c)
  BY <1>1, <1>4 DEF CollectSearches, CollectNext
<1>5. CASE \E c \in Calls : \E p \in Papers, src \in Sources : CorpusAdd(c, p, src)
  <2>1. PICK c \in Calls, p \in Papers, src \in Sources : BeginAdd(c, p, src)
    BY <1>5 DEF CorpusAdd
  <2>2. UNCHANGED <<searching, npy>>
    BY <2>1 DEF BeginAdd
  <2>3. \A d \in Adders : AddAt(d, "embed")' => AddAt(d, "embed") /\ adding'[d] = adding[d]
    BY <2>1, CallAssumption DEF BeginAdd, AddAt, CorpusInv, CorpusTypes
  <2>4. QED  BY <2>2, <2>3, SearchesStay
<1>6. CASE \E c \in Calls : UsingCorpus(c) \/ CorpusSearch(c)
  BY <1>6, CallAssumption, CorpusStepMatched, BeginSearchKeeps DEF UsingCorpus, CorpusSearch
<1>7. CASE \E t \in Threads : BeginFetch(t) \/ Fetching(t) \/ Hydrate(t) \/ FinishTool(t)
  BY <1>1, <1>7 DEF BeginFetch, Fetching, Hydrate, FinishTool
<1>8. CASE Time
  BY <1>1, <1>8 DEF Time
<1>9. CASE Kill
  <2>1. searching' = [c \in Adders |-> NotSearching]
    BY <1>9 DEF Kill, CorpusKill
  <2>2. NotSearching \in Searches /\ Matched(NotSearching)'
    BY Unread DEF NotSearching
  <2>3. NotSearching' = NotSearching
    BY DEF NotSearching, Search
  <2>4. QED  BY <2>1, <2>2, <2>3 DEF SearchInv
<1>10. QED  BY <1>2, <1>3, <1>4, <1>5, <1>6, <1>7, <1>8, <1>9 DEF Next

\* What every search under way has read, for every number of calls and papers.
THEOREM SearchInductive == Spec => []SearchInv
<1>1. Init => SearchInv
  <2>1. NotSearching \in Searches /\ Matched(NotSearching)
    BY Unread DEF NotSearching
  <2>2. QED  BY <2>1 DEF Init, CorpusInit, SearchInv
<1>2. QED  BY <1>1, SearchStepKeeps, CorpusInductive, PTL DEF Spec

\* For any number of calls, papers and kills, a search that ranks by embeddings
\* pairs every passage with its own, but for the papers for which it was
\* overtaken (LiteratureCorpus._load_all_embeddings).
THEOREM DenseIsAligned == Spec => []DenseAligned
<1>1. ASSUME SearchInv PROVE DenseAligned
  <2>1. SUFFICES ASSUME NEW c \in Adders, NEW s, s = searching[c], Dense(s),
                        NEW i \in DOMAIN s.read, s.read[i].paper \notin s.overtaken
                 PROVE  s.read[i].src = s.embs[s.read[i].paper] /\ s.read[i].k = Rank(s.read, i)
    BY DEF DenseAligned
  <2>2. s \in Searches /\ Matched(s)
    BY <1>1, <2>1 DEF SearchInv
  <2>3. PICK read : read = s.read /\ read \in Seq(Passage) /\ Whole(read)
    BY <2>2 DEF Searches, Matched
  <2>4. PICK p, src : p = read[i].paper /\ src = s.embs[p]
    OBVIOUS
  <2>5. i \in DOMAIN read /\ p \notin s.overtaken /\ s.pc = "rank"
        /\ \A j \in DOMAIN read : HasEmbedding(s, j)
    BY <2>1, <2>3, <2>4 DEF Dense
  <2>6. \A j : Rank(read, j) = RankIn(read, j)
    BY DEF Rank, RankIn
  <2>7. /\ src # Nothing
        /\ \A j \in DOMAIN read : read[j].paper = p => RankIn(read, j) <= Passages(src)
    BY <2>3, <2>4, <2>5, <2>6 DEF HasEmbedding
  <2>8. p \in Papers
    <3>1. read[i] \in Passage /\ read[i] # Torn
      BY <2>3, <2>5 DEF Whole
    <3>2. QED  BY <2>4, <3>1 DEF Passage
  <2>9. AlignedIn(read, p, src)
    BY <2>2, <2>3, <2>4, <2>5, <2>7, <2>8 DEF Matched
  <2>10. PICK m \in DOMAIN read :
           /\ read[m].paper = p
           /\ \/ RankIn(read, m) > Passages(src)
              \/ /\ RankIn(read, m) = Passages(src)
                 /\ \A j \in DOMAIN read :
                      read[j].paper = p => read[j].src = src /\ read[j].k = RankIn(read, j)
    BY <2>9 DEF AlignedIn
  <2>11. RankIn(read, m) \in Nat /\ Passages(src) \in Nat
    BY <2>3, Ranks DEF Passages
  <2>12. QED  BY <2>3, <2>4, <2>5, <2>6, <2>7, <2>10, <2>11
<1>2. QED  BY <1>1, SearchInductive, PTL

-----------------------------------------------------------------------------
(* Requests.  What a request waited for is still true when it is sent only *)
(* if no serialized request of its domain came between, which is a matter  *)
(* of the provider locks: a job that fetches holds its provider's          *)
(* (HoldsLock), its request goes to that tool's domain (OfItsTool), and    *)
(* two providers share no domain, so a serialized request is alone         *)
(* (AloneOnDomain).  What the check saw of the cooldown is kept as no      *)
(* request sent since (Sparing).                                           *)

Wanted == [domain : Domains, interval : 0..MaxInterval, how : {"get", "post", "client"},
           query : [of : Queries \cup Papers, part : 1..2]]

Asking(t) == fetch[t].pc \in {"check", "pacing", "sent"}

TableTypes ==
  /\ since \in [Domains -> 0..MaxInterval] /\ gap \in [Domains -> 0..MaxInterval]
  /\ streak \in [Domains -> Nat] /\ cooldown \in [Domains -> Nat]
  /\ leaks \in [Threads -> [Domains -> Nat]]
  /\ providerLock \in [Providers -> Threads \cup {Free}]

\* What was asked and what came of it may be anything.
IsFetch(f) ==
  f \in [pc : {"idle", "check", "pacing", "sent", "done"}, req : {f.req},
         serialized : BOOLEAN, attempt : Nat, wait : Nat, result : {f.result}]

IsJob(j) ==
  j \in [pc : {j.pc}, tool : {j.tool}, query : {j.query}, todo : {j.todo}, part : {j.part}]

Shapes ==
  /\ fetch = [t \in Threads |-> fetch[t]] /\ \A t \in Threads : IsFetch(fetch[t])
  /\ job = [t \in Threads |-> job[t]] /\ \A t \in Threads : IsJob(job[t])

\* A thread is to ask something of a provider, and waits for its lock if there
\* is one.
JobKnown ==
  \A t \in Threads :
    /\ job[t].pc \in {"lock", "begin", "fetch"} =>
         job[t].tool \in Tools /\ job[t].query \in Subjects(job[t].tool)
    /\ job[t].pc = "begin" => ~Serialized(job[t].tool)
    /\ job[t].pc = "lock" => Serialized(job[t].tool)

\* A request is the one of the job's tool: its domain is that tool's.
OfItsTool ==
  \A t \in Threads :
    /\ fetch[t].pc # "idle" => job[t].pc = "fetch"
    /\ Asking(t) =>
         /\ Req(t) \in Wanted
         /\ Dom(t) = Request(job[t].tool, job[t].query).domain
         /\ fetch[t].serialized <=> Serialized(job[t].tool)

HoldsLock ==
  \A t \in Threads :
    job[t].pc = "fetch" /\ Serialized(job[t].tool) => providerLock[ProviderOf(job[t].tool)] = t

\* What is left of the wait makes up for the age of the last request, which the
\* shared table knows or is younger than.
Spaced ==
  /\ \A d \in Domains : gap[d] >= since[d]
  /\ \A t \in Threads :
       At(t, "pacing") /\ fetch[t].serialized =>
         gap[Dom(t)] + fetch[t].wait >= Req(t).interval

\* A thread that has sent a request in a cooldown is past its check, and is not
\* let through another before the cooldown ends.
Sparing ==
  \A t \in Threads, d \in Domains :
    /\ leaks[t][d] <= 1
    /\ leaks[t][d] > 0 => cooldown[d] > 0 /\ ~(At(t, "pacing") /\ Dom(t) = d)

PacingInv == TableTypes /\ Shapes /\ JobKnown /\ OfItsTool /\ HoldsLock /\ Spaced /\ Sparing

LEMMA TwoNumbers ==
  ASSUME NEW a \in Int, NEW b \in Int
  PROVE  /\ Max({a, b}) \in {a, b} /\ Max({a, b}) >= a /\ Max({a, b}) >= b
         /\ Min({a, b}) \in {a, b} /\ Min({a, b}) <= a /\ Min({a, b}) <= b
<1>1. \E x \in {a, b} : \A y \in {a, b} : x >= y
  OBVIOUS
<1>2. \E x \in {a, b} : \A y \in {a, b} : x <= y
  OBVIOUS
<1>3. Max({a, b}) \in {a, b} /\ \A y \in {a, b} : Max({a, b}) >= y
  BY <1>1 DEF Max
<1>4. Min({a, b}) \in {a, b} /\ \A y \in {a, b} : Min({a, b}) <= y
  BY <1>2 DEF Min
<1>5. QED  BY <1>3, <1>4

\* A clock grows by one to its cap, a wait shrinks by one to zero.
LEMMA Clocks ==
  ASSUME NEW n \in Nat
  PROVE  /\ Less(n) \in Nat /\ Less(n) <= n /\ n <= Less(n) + 1 /\ (Less(n) > 0 <=> n > 1)
         /\ n <= MaxInterval =>
              /\ Older(n) \in 0..MaxInterval /\ Older(n) >= n /\ Older(n) <= n + 1
              /\ Older(n) = MaxInterval \/ Older(n) = n + 1
<1>1. MaxInterval \in Nat \ {0}
  BY HttpAssumption
<1>2. /\ Max({n, 1}) \in {n, 1} /\ Max({n, 1}) >= n /\ Max({n, 1}) >= 1
  BY TwoNumbers
<1>3. /\ Min({n + 1, MaxInterval}) \in {n + 1, MaxInterval}
      /\ Min({n + 1, MaxInterval}) <= n + 1 /\ Min({n + 1, MaxInterval}) <= MaxInterval
  BY <1>1, TwoNumbers
<1>4. QED  BY <1>1, <1>2, <1>3 DEF Less, Older

\* The provider of a serialized tool tells its domain.
LEMMA Domained ==
  ASSUME NEW tool \in Tools, NEW q \in Subjects(tool)
  PROVE  /\ ProviderOf(tool) \in Providers \cup {Free}
         /\ ProviderOf(tool) = "semantic_scholar" =>
              Request(tool, q).domain = "semanticscholar.org"
         /\ ProviderOf(tool) = "openalex" => Request(tool, q).domain = "openalex.org"
         /\ ProviderOf(tool) = "http" => Request(tool, q).domain = "publisher"
<1>1. ProviderOf(tool) \in Providers \cup {Free}
  BY DEF ProviderOf, Providers, Free
<1>2. /\ ClientRequest(q).domain = "semanticscholar.org"
      /\ Recommendations(q).domain = "semanticscholar.org"
      /\ OpenalexRequest(q, 1).domain = "openalex.org"
      /\ PdfRequest(q).domain = "publisher"
  BY DEF ClientRequest, Recommendations, OpenalexRequest, PdfRequest
<1>3. ASSUME ProviderOf(tool) = "semantic_scholar"
      PROVE  Request(tool, q).domain = "semanticscholar.org"
  <2>1. tool # "DownloadPdf" /\ ProviderOf(tool) # "openalex"
    BY <1>3 DEF ProviderOf
  <2>2. QED  BY <1>2, <2>1 DEF Request
<1>4. ASSUME ProviderOf(tool) = "openalex" PROVE Request(tool, q).domain = "openalex.org"
  <2>1. tool \in {"search_openalex", "get_openalex_citations", "get_openalex_references"}
    BY <1>4 DEF ProviderOf, Free
  <2>2. tool \notin ClientTools /\ tool # "DownloadPdf"
    BY <2>1 DEF ClientTools
  <2>3. QED  BY <1>2, <1>4, <2>2 DEF Request
<1>5. ASSUME ProviderOf(tool) = "http" PROVE Request(tool, q).domain = "publisher"
  <2>1. tool = "DownloadPdf"
    BY <1>5 DEF ProviderOf, Free
  <2>2. tool \notin ClientTools /\ ProviderOf(tool) # "openalex"
    BY <1>5, <2>1 DEF ClientTools
  <2>3. QED  BY <1>2, <2>1, <2>2 DEF Request
<1>6. QED  BY <1>1, <1>3, <1>4, <1>5

LEMMA OneProvider ==
  ASSUME NEW a \in Tools, NEW b \in Tools, NEW q \in Subjects(a), NEW r \in Subjects(b),
         Serialized(a), Serialized(b), Request(a, q).domain = Request(b, r).domain
  PROVE  ProviderOf(a) = ProviderOf(b) /\ ProviderOf(a) \in Providers
BY Domained DEF Serialized, Providers

LEMMA Requested ==
  ASSUME NEW tool \in Tools, NEW q \in Subjects(tool)
  PROVE  Request(tool, q) \in Wanted
<1>1. Request(tool, q).domain \in Domains
  BY RequestAssumption
<1>2. Asked(q, 1) \in [of : Queries \cup Papers, part : 1..2]
  BY DEF Subjects, Asked
<1>3. {0, 1, MaxInterval} \subseteq 0..MaxInterval
  BY HttpAssumption
<1>4. Request(tool, q) \in
        {ClientRequest(q), Recommendations(q), OpenalexRequest(q, 1), PdfRequest(q)}
  BY DEF Request
<1>5. QED
  BY <1>1, <1>2, <1>3, <1>4
  DEF ClientRequest, Recommendations, OpenalexRequest, PdfRequest, Wanted

LEMMA PacingInitEstablishes == Init => PacingInv
<1> SUFFICES ASSUME Init PROVE PacingInv
  OBVIOUS
<1>1. MaxInterval \in 0..MaxInterval
  BY HttpAssumption
<1>2. IsFetch(NoFetch) /\ NoFetch.pc = "idle" /\ IsJob(NoJob) /\ NoJob.pc = "idle"
  BY DEF IsFetch, NoFetch, IsJob, NoJob
<1>3. /\ HttpInit
      /\ job = [t \in Threads |-> NoJob] /\ providerLock = [p \in Providers |-> Free]
  BY DEF Init
<1>4. /\ gap = [d \in Domains |-> MaxInterval] /\ since = [d \in Domains |-> MaxInterval]
      /\ cooldown = [d \in Domains |-> 0] /\ streak = [d \in Domains |-> 0]
      /\ leaks = [t \in Threads |-> [d \in Domains |-> 0]]
      /\ fetch = [t \in Threads |-> NoFetch]
  BY <1>3 DEF HttpInit
<1>5. TableTypes
  BY <1>1, <1>3, <1>4 DEF TableTypes
<1>6. Shapes
  BY <1>2, <1>3, <1>4 DEF Shapes
<1>7. JobKnown /\ OfItsTool /\ HoldsLock
  BY <1>2, <1>3, <1>4 DEF JobKnown, OfItsTool, HoldsLock, Asking
<1>8. Spaced /\ Sparing
  BY <1>1, <1>2, <1>4 DEF Spaced, Sparing, At
<1>9. QED  BY <1>5, <1>6, <1>7, <1>8 DEF PacingInv

LEMMA PacingStutters ==
  ASSUME PacingInv, UNCHANGED <<httpVars, job, providerLock>>
  PROVE  PacingInv'
BY DEF httpVars, PacingInv, TableTypes, Shapes, IsFetch, IsJob, JobKnown, OfItsTool, HoldsLock,
   Spaced, Sparing, Asking, At, Req, Dom

\* One thread's entry in a table of threads.
LEMMA EntrySet ==
  ASSUME NEW f, f = [t \in Threads |-> f[t]], NEW t \in Threads, NEW r,
         NEW g, g = [f EXCEPT ![t] = r]
  PROVE  g = [u \in Threads |-> g[u]] /\ g[t] = r /\ \A u \in Threads \ {t} : g[u] = f[u]
OBVIOUS

\* A thread that is not fetching takes a call, waits for one or is done with it.
LEMMA JobChanges ==
  ASSUME PacingInv, NEW t \in Threads, NEW j, IsJob(j),
         job[t].pc # "fetch", j.pc # "fetch", job' = [job EXCEPT ![t] = j],
         j.pc \in {"lock", "begin"} => /\ j.tool \in Tools /\ j.query \in Subjects(j.tool)
                                       /\ j.pc = "lock" <=> Serialized(j.tool),
         UNCHANGED <<httpVars, providerLock>>
  PROVE  PacingInv'
<1>1. /\ job' = [u \in Threads |-> job'[u]] /\ job'[t] = j
      /\ \A u \in Threads \ {t} : job'[u] = job[u]
  BY EntrySet DEF PacingInv, Shapes
<1>2. UNCHANGED <<since, streak, cooldown, cache, fetch, gap, leaks, providerLock>>
  BY DEF httpVars
<1>3. fetch[t].pc = "idle"
  BY DEF PacingInv, OfItsTool
<1>4. TableTypes'
  BY <1>2 DEF PacingInv, TableTypes
<1>5. Shapes'
  BY <1>1, <1>2 DEF PacingInv, Shapes, IsFetch, IsJob
<1>6. JobKnown'
  BY <1>1 DEF PacingInv, JobKnown
<1>7. OfItsTool'
  BY <1>1, <1>2, <1>3 DEF PacingInv, OfItsTool, Asking, Req, Dom
<1>8. HoldsLock'
  BY <1>1, <1>2 DEF PacingInv, HoldsLock
<1>9. Spaced' /\ Sparing'
  BY <1>2 DEF PacingInv, Spaced, Sparing, At, Req, Dom
<1>10. QED  BY <1>4, <1>5, <1>6, <1>7, <1>8, <1>9 DEF PacingInv

LEMMA CallKeepsPace ==
  ASSUME PacingInv, NEW t \in Threads, NEW tool \in Tools, NEW q \in Subjects(tool),
         job[t].pc = "idle", job' = [job EXCEPT ![t] = Launched(tool, q)],
         UNCHANGED <<httpVars, providerLock>>
  PROVE  PacingInv'
<1>1. PICK j : j = Launched(tool, q)
  OBVIOUS
<1>2. /\ IsJob(j) /\ j.tool = tool /\ j.query = q
      /\ j.pc = IF Serialized(tool) THEN "lock" ELSE "begin"
  BY <1>1 DEF Launched, NoJob, IsJob
<1>3. j.pc # "fetch" /\ (j.pc = "lock" <=> Serialized(j.tool))
  BY <1>2
<1>4. QED  BY <1>1, <1>2, <1>3, JobChanges

LEMMA CollectKeepsPace ==
  ASSUME PacingInv, NEW c \in Calls,
         (\E hs : CollectSearches(c, hs)) \/ CollectNext(c)
  PROVE  PacingInv'
<1>1. c \in Threads
  BY RequestAssumption
<1>2. IsJob(job[c])
  BY <1>1 DEF PacingInv, Shapes
<1>3. CASE \E hs : CollectSearches(c, hs)
  <2>1. PICK hs : CollectSearches(c, hs)
    BY <1>3
  <2>2. PICK j : j = [NoJob EXCEPT !.pc = "collect", !.todo = SetToSeq(hs)]
    OBVIOUS
  <2>3. IsJob(j) /\ j.pc = "collect"
    BY <2>2 DEF NoJob, IsJob
  <2>4. /\ job[c].pc = "idle" /\ job' = [job EXCEPT ![c] = j]
        /\ UNCHANGED <<httpVars, providerLock>>
    BY <2>1, <2>2 DEF CollectSearches, Idle
  <2>5. QED  BY <1>1, <2>3, <2>4, JobChanges
<1>4. CASE CollectNext(c)
  <2>1. job[c].pc = "collect" /\ UNCHANGED <<httpVars, providerLock>>
    BY <1>4 DEF CollectNext
  <2>2. CASE job' = [job EXCEPT ![c] = NoJob]
    <3>1. IsJob(NoJob) /\ NoJob.pc = "idle"
      BY DEF NoJob, IsJob
    <3>2. QED  BY <1>1, <2>1, <2>2, <3>1, JobChanges
  <2>3. CASE job' = [job EXCEPT ![c].todo = Tail(@)]
    <3>1. PICK j : j = [job[c] EXCEPT !.todo = Tail(job[c].todo)]
      OBVIOUS
    <3>2. IsJob(j) /\ j.pc = "collect"
      BY <1>2, <2>1, <3>1 DEF IsJob
    <3>3. job' = [job EXCEPT ![c] = j]
      BY <2>3, <3>1
    <3>4. QED  BY <1>1, <2>1, <3>2, <3>3, JobChanges
  <2>4. QED  BY <1>4, <2>2, <2>3 DEF CollectNext
<1>5. QED  BY <1>3, <1>4

\* A thread starts to fetch for its job: it asks nothing of the source yet.
LEMMA StartsAsking ==
  ASSUME PacingInv, NEW t \in Threads, NEW req \in Wanted, NEW serialized \in BOOLEAN, NEW f,
         f = Begun(req, serialized)
  PROVE  /\ IsFetch(f) /\ f.pc \in {"check", "done"}
         /\ f.req = req /\ f.serialized = serialized
BY DEF Begun, NoFetch, IsFetch

LEMMA BeginFetchKeeps ==
  ASSUME PacingInv, NEW t \in Threads, BeginFetch(t)
  PROVE  PacingInv'
<1>1. PICK f, j, tool, q :
        /\ tool = job[t].tool /\ q = job[t].query
        /\ f = Begun(Request(tool, q), Serialized(tool)) /\ j = [job[t] EXCEPT !.pc = "fetch"]
  OBVIOUS
<1>2. /\ job[t].pc \in {"lock", "begin"}
      /\ tool \in Tools /\ q \in Subjects(tool) /\ (job[t].pc = "lock" <=> Serialized(tool))
  BY <1>1 DEF BeginFetch, PacingInv, JobKnown
<1>3. Request(tool, q) \in Wanted /\ Serialized(tool) \in BOOLEAN
  BY <1>2, Requested DEF Serialized
<1>4. /\ IsFetch(f) /\ f.pc \in {"check", "done"}
      /\ f.req = Request(tool, q) /\ f.serialized = Serialized(tool)
  BY <1>1, <1>3, StartsAsking
<1>5. IsJob(j) /\ j.pc = "fetch" /\ j.tool = tool /\ j.query = q
  BY <1>1 DEF PacingInv, Shapes, IsJob
<1>6. /\ fetch' = [fetch EXCEPT ![t] = f] /\ job' = [job EXCEPT ![t] = j]
      /\ UNCHANGED <<since, streak, cooldown, gap, leaks>>
  BY <1>1 DEF BeginFetch
<1>7. /\ fetch' = [u \in Threads |-> fetch'[u]] /\ fetch'[t] = f
      /\ \A u \in Threads \ {t} : fetch'[u] = fetch[u]
  BY <1>6, EntrySet DEF PacingInv, Shapes
<1>8. /\ job' = [u \in Threads |-> job'[u]] /\ job'[t] = j
      /\ \A u \in Threads \ {t} : job'[u] = job[u]
  BY <1>6, EntrySet DEF PacingInv, Shapes
<1>9. /\ Serialized(tool) => /\ ProviderOf(tool) \in Providers
                             /\ providerLock[ProviderOf(tool)] = Free
                             /\ providerLock' = [providerLock EXCEPT ![ProviderOf(tool)] = t]
      /\ ~Serialized(tool) => UNCHANGED providerLock
  <2>1. ProviderOf(tool) \in Providers \cup {Free}
    BY <1>2, Domained
  <2>2. QED  BY <1>1, <1>2, <2>1 DEF BeginFetch, ProviderFree, Serialized
<1>10. /\ providerLock' \in [Providers -> Threads \cup {Free}]
       /\ Serialized(tool) => providerLock'[ProviderOf(tool)] = t
       /\ \A p \in Providers : providerLock[p] # Free => providerLock'[p] = providerLock[p]
  BY <1>9 DEF PacingInv, TableTypes
<1>11. TableTypes'
  BY <1>6, <1>10 DEF PacingInv, TableTypes
<1>12. Shapes'
  BY <1>4, <1>5, <1>7, <1>8 DEF PacingInv, Shapes, IsFetch, IsJob
<1>13. JobKnown'
  BY <1>2, <1>5, <1>8 DEF PacingInv, JobKnown
<1>14. OfItsTool'
  BY <1>3, <1>4, <1>5, <1>7, <1>8 DEF PacingInv, OfItsTool, Asking, Req, Dom
<1>15. HoldsLock'
  <2>1. SUFFICES ASSUME NEW u \in Threads \ {t}, job[u].pc = "fetch", Serialized(job[u].tool)
                 PROVE  providerLock'[ProviderOf(job[u].tool)] = u
    BY <1>5, <1>8, <1>10 DEF HoldsLock
  <2>2. /\ job[u].tool \in Tools /\ job[u].query \in Subjects(job[u].tool)
        /\ providerLock[ProviderOf(job[u].tool)] = u
    BY <2>1 DEF PacingInv, HoldsLock, JobKnown
  <2>3. ProviderOf(job[u].tool) \in Providers
    BY <2>1, <2>2, Domained DEF Serialized
  <2>4. QED  BY <1>10, <2>2, <2>3, RequestAssumption
<1>16. Spaced'
  BY <1>4, <1>6, <1>7 DEF PacingInv, Spaced, At, Req, Dom
<1>17. Sparing'
  BY <1>4, <1>6, <1>7 DEF PacingInv, Sparing, At, Req, Dom
<1>18. QED  BY <1>11, <1>12, <1>13, <1>14, <1>15, <1>16, <1>17 DEF PacingInv

LEMMA HydrateKeeps ==
  ASSUME PacingInv, NEW t \in Threads, Hydrate(t)
  PROVE  PacingInv'
<1>1. PICK f, j, tool, q :
        /\ tool = job[t].tool /\ q = job[t].query
        /\ f = Begun(OpenalexRequest(q, 2), TRUE) /\ j = [job[t] EXCEPT !.part = 2]
  OBVIOUS
<1>2. /\ job[t].pc = "fetch" /\ tool = "get_openalex_references"
      /\ tool \in Tools /\ q \in Subjects(tool)
  BY <1>1 DEF Hydrate, PacingInv, JobKnown
<1>3. ProviderOf(tool) = "openalex" /\ Serialized(tool)
  BY <1>2 DEF ProviderOf, Serialized, Free
<1>4. Request(tool, q).domain = "openalex.org" /\ Request(tool, q).domain \in Domains
  BY <1>2, <1>3, Domained, RequestAssumption
<1>5. OpenalexRequest(q, 2) \in Wanted /\ OpenalexRequest(q, 2).domain = "openalex.org"
  <2>1. 1 \in 0..MaxInterval
    BY HttpAssumption
  <2>2. Asked(q, 2) \in [of : Queries \cup Papers, part : 1..2]
    <3>1. q \in Queries \cup Papers
      BY <1>2 DEF Subjects
    <3>2. QED  BY <3>1 DEF Asked
  <2>3. QED  BY <1>4, <2>1, <2>2 DEF OpenalexRequest, Wanted
<1>6. /\ IsFetch(f) /\ f.pc \in {"check", "done"}
      /\ f.req = OpenalexRequest(q, 2) /\ f.serialized = TRUE
  <2>1. PICK req \in Wanted : req = OpenalexRequest(q, 2) /\ f = Begun(req, TRUE)
    BY <1>1, <1>5
  <2>2. QED  BY <2>1, StartsAsking
<1>7. IsJob(j) /\ j.pc = "fetch" /\ j.tool = tool /\ j.query = q
  BY <1>1, <1>2 DEF PacingInv, Shapes, IsJob
<1>8. /\ fetch' = [fetch EXCEPT ![t] = f] /\ job' = [job EXCEPT ![t] = j]
      /\ UNCHANGED <<since, streak, cooldown, gap, leaks, providerLock>>
  BY <1>1 DEF Hydrate
<1>9. /\ fetch' = [u \in Threads |-> fetch'[u]] /\ fetch'[t] = f
      /\ \A u \in Threads \ {t} : fetch'[u] = fetch[u]
  BY <1>8, EntrySet DEF PacingInv, Shapes
<1>10. /\ job' = [u \in Threads |-> job'[u]] /\ job'[t] = j
       /\ \A u \in Threads \ {t} : job'[u] = job[u]
  BY <1>8, EntrySet DEF PacingInv, Shapes
<1>11. TableTypes'
  BY <1>8 DEF PacingInv, TableTypes
<1>12. Shapes'
  BY <1>6, <1>7, <1>9, <1>10 DEF PacingInv, Shapes, IsFetch, IsJob
<1>13. JobKnown'
  BY <1>2, <1>7, <1>10 DEF PacingInv, JobKnown
<1>14. OfItsTool'
  BY <1>3, <1>4, <1>5, <1>6, <1>7, <1>9, <1>10 DEF PacingInv, OfItsTool, Asking, Req, Dom
<1>15. HoldsLock'
  BY <1>1, <1>2, <1>7, <1>8, <1>10 DEF PacingInv, HoldsLock
<1>16. Spaced' /\ Sparing'
  BY <1>6, <1>8, <1>9 DEF PacingInv, Spaced, Sparing, At, Req, Dom
<1>17. QED  BY <1>11, <1>12, <1>13, <1>14, <1>15, <1>16 DEF PacingInv

LEMMA FinishKeeps ==
  ASSUME PacingInv, NEW t \in Threads, FinishTool(t)
  PROVE  PacingInv'
<1>1. PICK j : j = IF t \in Handles THEN [NoJob EXCEPT !.pc = "over"] ELSE NoJob
  OBVIOUS
<1>2. /\ IsJob(j) /\ j.pc \in {"idle", "over"}
      /\ IsFetch(NoFetch) /\ NoFetch.pc = "idle"
  BY <1>1 DEF NoJob, IsJob, NoFetch, IsFetch
<1>3. /\ fetch' = [fetch EXCEPT ![t] = NoFetch] /\ job' = [job EXCEPT ![t] = j]
      /\ UNCHANGED <<since, streak, cooldown, gap, leaks>>
      /\ providerLock' = [p \in Providers |-> IF providerLock[p] = t THEN Free ELSE providerLock[p]]
  BY <1>1 DEF FinishTool, Released
<1>4. /\ fetch' = [u \in Threads |-> fetch'[u]] /\ fetch'[t] = NoFetch
      /\ \A u \in Threads \ {t} : fetch'[u] = fetch[u]
  BY <1>3, EntrySet DEF PacingInv, Shapes
<1>5. /\ job' = [u \in Threads |-> job'[u]] /\ job'[t] = j
      /\ \A u \in Threads \ {t} : job'[u] = job[u]
  BY <1>3, EntrySet DEF PacingInv, Shapes
<1>6. TableTypes'
  BY <1>3 DEF PacingInv, TableTypes
<1>7. Shapes'
  BY <1>2, <1>4, <1>5 DEF PacingInv, Shapes, IsFetch, IsJob
<1>8. JobKnown'
  BY <1>2, <1>5 DEF PacingInv, JobKnown
<1>9. OfItsTool'
  BY <1>2, <1>4, <1>5 DEF PacingInv, OfItsTool, Asking, Req, Dom
<1>10. HoldsLock'
  <2>1. SUFFICES ASSUME NEW u \in Threads \ {t}, job[u].pc = "fetch", Serialized(job[u].tool)
                 PROVE  providerLock'[ProviderOf(job[u].tool)] = u
    BY <1>2, <1>5 DEF HoldsLock
  <2>2. /\ job[u].tool \in Tools /\ job[u].query \in Subjects(job[u].tool)
        /\ providerLock[ProviderOf(job[u].tool)] = u
    BY <2>1 DEF PacingInv, HoldsLock, JobKnown
  <2>3. ProviderOf(job[u].tool) \in Providers
    BY <2>1, <2>2, Domained DEF Serialized
  <2>4. QED  BY <1>3, <2>2, <2>3
<1>11. Spaced' /\ Sparing'
  BY <1>2, <1>3, <1>4 DEF PacingInv, Spaced, Sparing, At, Req, Dom
<1>12. QED  BY <1>6, <1>7, <1>8, <1>9, <1>10, <1>11 DEF PacingInv

\* What a thread that asks knows of its request and of the table.
LEMMA Asks ==
  ASSUME PacingInv, NEW t \in Threads, Asking(t)
  PROVE  /\ job[t].pc = "fetch" /\ Dom(t) \in Domains
         /\ Req(t).interval \in Nat /\ Req(t).interval <= MaxInterval
         /\ fetch[t].wait \in Nat /\ fetch[t].attempt \in Nat /\ fetch[t].serialized \in BOOLEAN
         /\ since[Dom(t)] \in Nat /\ gap[Dom(t)] \in Nat /\ gap[Dom(t)] >= since[Dom(t)]
<1>1. job[t].pc = "fetch" /\ Req(t) \in Wanted
  BY DEF PacingInv, OfItsTool, Asking
<1>2. Dom(t) \in Domains /\ Req(t).interval \in 0..MaxInterval
  BY <1>1 DEF Wanted, Dom
<1>3. MaxInterval \in Nat
  BY HttpAssumption
<1>4. /\ fetch[t].wait \in Nat /\ fetch[t].attempt \in Nat /\ fetch[t].serialized \in BOOLEAN
  BY DEF PacingInv, Shapes, IsFetch
<1>5. since[Dom(t)] \in 0..MaxInterval /\ gap[Dom(t)] \in 0..MaxInterval
  BY <1>2 DEF PacingInv, TableTypes
<1>6. gap[Dom(t)] >= since[Dom(t)]
  BY <1>2 DEF PacingInv, Spaced
<1>7. QED  BY <1>1, <1>2, <1>3, <1>4, <1>5, <1>6

\* A thread that asks goes on with the same request; unless it starts to pace,
\* the table's clocks stay, and a cooldown may only get longer, so does the rest.
LEMMA AskingMoves ==
  ASSUME PacingInv, NEW t \in Threads, Asking(t), NEW f, IsFetch(f), f.pc # "idle",
         f.req = fetch[t].req, f.serialized = fetch[t].serialized,
         fetch' = [fetch EXCEPT ![t] = f],
         streak' \in [Domains -> Nat], cooldown' \in [Domains -> Nat],
         UNCHANGED <<job, providerLock>>
  PROVE  /\ Shapes' /\ JobKnown' /\ OfItsTool' /\ HoldsLock'
         /\ fetch'[t] = f /\ \A u \in Threads \ {t} : fetch'[u] = fetch[u]
<1>1. /\ fetch' = [u \in Threads |-> fetch'[u]] /\ fetch'[t] = f
      /\ \A u \in Threads \ {t} : fetch'[u] = fetch[u]
  BY EntrySet DEF PacingInv, Shapes
<1>2. Shapes'
  BY <1>1 DEF PacingInv, Shapes, IsFetch, IsJob
<1>3. JobKnown' /\ HoldsLock'
  BY DEF PacingInv, JobKnown, HoldsLock
<1>4. OfItsTool'
  BY <1>1 DEF PacingInv, OfItsTool, Asking, Req, Dom
<1>5. QED  BY <1>1, <1>2, <1>3, <1>4

LEMMA AnswerKeeps ==
  ASSUME PacingInv, NEW t \in Threads, Asking(t), NEW f, IsFetch(f), f.pc \in {"check", "done"},
         f.req = fetch[t].req, f.serialized = fetch[t].serialized,
         fetch' = [fetch EXCEPT ![t] = f],
         streak' \in [Domains -> Nat], cooldown' \in [Domains -> Nat],
         \A d \in Domains : cooldown[d] > 0 => cooldown'[d] > 0,
         UNCHANGED <<since, gap, leaks, job, providerLock>>
  PROVE  PacingInv'
<1>1. /\ Shapes' /\ JobKnown' /\ OfItsTool' /\ HoldsLock'
      /\ fetch'[t] = f /\ \A u \in Threads \ {t} : fetch'[u] = fetch[u]
  BY AskingMoves
<1>2. TableTypes'
  BY DEF PacingInv, TableTypes
<1>3. Spaced'
  BY <1>1 DEF PacingInv, Spaced, At, Req, Dom
<1>4. Sparing'
  BY <1>1 DEF PacingInv, Sparing, At, Req, Dom
<1>5. QED  BY <1>1, <1>2, <1>3, <1>4 DEF PacingInv

LEMMA CheckKeeps ==
  ASSUME PacingInv, NEW t \in Threads, RateLimitCheck(t), UNCHANGED <<job, providerLock>>
  PROVE  PacingInv'
<1>1. Asking(t) /\ UNCHANGED <<since, streak, cooldown, gap, leaks>>
  BY DEF RateLimitCheck, At, Asking
<1>2. IsFetch(fetch[t])
  BY DEF PacingInv, Shapes
<1>3. streak \in [Domains -> Nat] /\ cooldown \in [Domains -> Nat]
  BY DEF PacingInv, TableTypes
<1>4. CASE Refused(t)
  <2>1. PICK f : f = [fetch[t] EXCEPT !.pc = "done", !.result = "cooldown"]
    OBVIOUS
  <2>2. /\ IsFetch(f) /\ f.pc = "done"
        /\ f.req = fetch[t].req /\ f.serialized = fetch[t].serialized
    BY <1>2, <2>1 DEF IsFetch
  <2>3. fetch' = [fetch EXCEPT ![t] = f]
    BY <1>4, <2>1 DEF RateLimitCheck, Ended
  <2>4. QED  BY <1>1, <1>3, <2>2, <2>3, AnswerKeeps
<1>5. CASE ~Refused(t)
  <2>1. PICK f, w : /\ w = Max({0, Req(t).interval - since[Dom(t)]})
                    /\ f = [fetch[t] EXCEPT !.pc = "pacing", !.wait = w]
    OBVIOUS
  <2>2. w \in Nat /\ gap[Dom(t)] + w >= Req(t).interval
    <3>1. /\ Req(t).interval \in Nat /\ since[Dom(t)] \in Nat /\ gap[Dom(t)] \in Nat
          /\ gap[Dom(t)] >= since[Dom(t)]
      BY <1>1, Asks
    <3>2. PICK x \in Int : x = Req(t).interval - since[Dom(t)]
      BY <3>1
    <3>3. w \in {0, x} /\ w >= 0 /\ w >= x
      BY <2>1, <3>2, TwoNumbers
    <3>4. QED  BY <3>1, <3>2, <3>3
  <2>3. /\ IsFetch(f) /\ f.pc = "pacing" /\ f.wait = w
        /\ f.req = fetch[t].req /\ f.serialized = fetch[t].serialized
    BY <1>2, <2>1, <2>2 DEF IsFetch
  <2>4. fetch' = [fetch EXCEPT ![t] = f]
    BY <1>5, <2>1 DEF RateLimitCheck
  <2>5. /\ Shapes' /\ JobKnown' /\ OfItsTool' /\ HoldsLock'
        /\ fetch'[t] = f /\ \A u \in Threads \ {t} : fetch'[u] = fetch[u]
    BY <1>1, <1>3, <2>3, <2>4, AskingMoves
  <2>6. TableTypes'
    BY <1>1 DEF PacingInv, TableTypes
  <2>7. Spaced'
    BY <1>1, <2>2, <2>3, <2>5 DEF PacingInv, Spaced, At, Req, Dom
  <2>8. Sparing'
    <3>1. /\ cooldown[Dom(t)] = 0 /\ Dom(t) \in Domains
      BY <1>1, <1>3, <1>5, Asks DEF Refused
    <3>2. leaks \in [Threads -> [Domains -> Nat]]
      BY DEF PacingInv, TableTypes
    <3>3. leaks[t][Dom(t)] = 0
      BY <3>1, <3>2 DEF PacingInv, Sparing
    <3>4. QED  BY <1>1, <2>3, <2>5, <3>3 DEF PacingInv, Sparing, At, Req, Dom
  <2>9. QED  BY <2>5, <2>6, <2>7, <2>8 DEF PacingInv
<1>6. QED  BY <1>4, <1>5

\* A tool that serializes is alone on its domain with the tools that do.
LEMMA AloneOnDomain ==
  ASSUME PacingInv, NEW t \in Threads, NEW u \in Threads, Asking(t), Asking(u),
         fetch[t].serialized, fetch[u].serialized, Dom(t) = Dom(u)
  PROVE  t = u
<1>1. \A v \in {t, u} :
        /\ job[v].tool \in Tools /\ job[v].query \in Subjects(job[v].tool)
        /\ Serialized(job[v].tool) /\ Dom(v) = Request(job[v].tool, job[v].query).domain
        /\ providerLock[ProviderOf(job[v].tool)] = v
  BY DEF PacingInv, OfItsTool, JobKnown, HoldsLock, Asking
<1>2. ProviderOf(job[t].tool) = ProviderOf(job[u].tool)
  BY <1>1, OneProvider
<1>3. QED  BY <1>1, <1>2

LEMMA SendKeeps ==
  ASSUME PacingInv, NEW t \in Threads, Send(t), UNCHANGED <<job, providerLock>>
  PROVE  PacingInv' /\ leaks'[t][Dom(t)] <= 1
<1>1. /\ Asking(t) /\ At(t, "pacing") /\ UNCHANGED <<streak, cooldown>>
      /\ since' = [since EXCEPT ![Dom(t)] = 0]
      /\ gap' = IF fetch[t].serialized THEN [gap EXCEPT ![Dom(t)] = 0] ELSE gap
      /\ leaks' = IF cooldown[Dom(t)] > 0 THEN [leaks EXCEPT ![t][Dom(t)] = @ + 1] ELSE leaks
  BY DEF Send, At, Asking
<1>2. PICK f, e : f = [fetch[t] EXCEPT !.pc = "sent"] /\ e = Dom(t)
  OBVIOUS
<1>3. /\ IsFetch(f) /\ f.pc = "sent"
      /\ f.req = fetch[t].req /\ f.serialized = fetch[t].serialized
  BY <1>2 DEF PacingInv, Shapes, IsFetch
<1>4. fetch' = [fetch EXCEPT ![t] = f]
  BY <1>2 DEF Send
<1>5. /\ since \in [Domains -> 0..MaxInterval] /\ gap \in [Domains -> 0..MaxInterval]
      /\ streak \in [Domains -> Nat] /\ cooldown \in [Domains -> Nat]
      /\ leaks \in [Threads -> [Domains -> Nat]]
      /\ providerLock \in [Providers -> Threads \cup {Free}]
  BY DEF PacingInv, TableTypes
<1>6. /\ Shapes' /\ JobKnown' /\ OfItsTool' /\ HoldsLock'
      /\ fetch'[t] = f /\ \A u \in Threads \ {t} : fetch'[u] = fetch[u]
  BY <1>1, <1>3, <1>4, <1>5, AskingMoves
<1>7. e \in Domains /\ 0 \in 0..MaxInterval
  BY <1>1, <1>2, Asks, HttpAssumption
<1>8. /\ since' \in [Domains -> 0..MaxInterval] /\ since'[e] = 0
      /\ \A d \in Domains \ {e} : since'[d] = since[d]
  BY <1>1, <1>2, <1>5, <1>7
<1>9. /\ gap' \in [Domains -> 0..MaxInterval]
      /\ \A d \in Domains \ {e} : gap'[d] = gap[d]
      /\ gap'[e] = IF fetch[t].serialized THEN 0 ELSE gap[e]
  BY <1>1, <1>2, <1>5, <1>7
<1>10. leaks[t][e] = 0
  BY <1>1, <1>2, <1>5, <1>7 DEF PacingInv, Sparing
<1>11. /\ leaks' \in [Threads -> [Domains -> Nat]]
       /\ leaks'[t][e] = IF cooldown[e] > 0 THEN 1 ELSE 0
       /\ \A u \in Threads, d \in Domains : (u = t /\ d = e) \/ leaks'[u][d] = leaks[u][d]
  <2>1. CASE cooldown[e] > 0
    <3>1. leaks' = [leaks EXCEPT ![t][e] = 1]
      BY <1>1, <1>2, <1>10, <2>1
    <3>2. QED  BY <1>5, <1>7, <2>1, <3>1
  <2>2. CASE ~(cooldown[e] > 0)
    <3>1. leaks' = leaks
      BY <1>1, <1>2, <2>2
    <3>2. QED  BY <1>5, <1>10, <2>2, <3>1
  <2>3. QED  BY <2>1, <2>2
<1>12. TableTypes'
  BY <1>1, <1>5, <1>8, <1>9, <1>11 DEF TableTypes
<1>13. Spaced'
  <2>1. \A d \in Domains : gap'[d] >= since'[d]
    BY <1>5, <1>8, <1>9 DEF PacingInv, Spaced
  <2>2. SUFFICES ASSUME NEW u \in Threads \ {t}, At(u, "pacing"), fetch[u].serialized
                 PROVE  gap'[Dom(u)] + fetch[u].wait >= Req(u).interval
    BY <1>3, <1>6, <2>1 DEF Spaced, At, Req, Dom
  <2>3. gap[Dom(u)] + fetch[u].wait >= Req(u).interval
    BY <2>2 DEF PacingInv, Spaced
  <2>4. Asking(u) /\ Dom(u) \in Domains
    BY <2>2, Asks DEF At, Asking
  <2>5. Dom(u) = e => ~fetch[t].serialized
    BY <1>1, <1>2, <2>2, <2>4, AloneOnDomain
  <2>6. gap'[Dom(u)] = gap[Dom(u)]
    BY <1>9, <2>4, <2>5
  <2>7. QED  BY <2>3, <2>6
<1>14. Sparing'
  <2>1. SUFFICES ASSUME NEW u \in Threads, NEW d \in Domains
                 PROVE  /\ leaks'[u][d] <= 1
                        /\ leaks'[u][d] > 0 =>
                             cooldown[d] > 0 /\ ~(fetch'[u].pc = "pacing" /\ fetch'[u].req.domain = d)
    BY <1>1 DEF Sparing, At, Req, Dom
  <2>2. CASE u = t /\ d = e
    BY <1>3, <1>6, <1>11, <2>2
  <2>3. CASE ~(u = t /\ d = e)
    <3>1. leaks'[u][d] = leaks[u][d]
      BY <1>11, <2>3
    <3>2. fetch'[u].pc = "pacing" => fetch'[u] = fetch[u]
      BY <1>3, <1>6
    <3>3. QED  BY <3>1, <3>2 DEF PacingInv, Sparing, At, Req, Dom
  <2>4. QED  BY <2>2, <2>3
<1>15. leaks'[t][e] <= 1
  BY <1>11
<1>16. QED  BY <1>2, <1>6, <1>12, <1>13, <1>14, <1>15 DEF PacingInv

LEMMA AnswersKeep ==
  ASSUME PacingInv, NEW t \in Threads, UNCHANGED <<job, providerLock>>,
         TooMany(t) \/ Fails(t) \/ GivesUp(t) \/ Succeeds(t)
  PROVE  PacingInv'
<1>1. Asking(t) /\ UNCHANGED <<since, gap, leaks>>
  BY DEF TooMany, Fails, GivesUp, Succeeds, At, Asking
<1>2. IsFetch(fetch[t]) /\ fetch[t].attempt \in Nat
  BY DEF PacingInv, Shapes, IsFetch
<1>3. /\ streak \in [Domains -> Nat] /\ cooldown \in [Domains -> Nat]
      /\ Dom(t) \in Domains /\ {Threshold, Cooldown} \subseteq Nat \ {0} /\ Backoffs \subseteq Nat
  BY <1>1, Asks, HttpAssumption DEF PacingInv, TableTypes
<1> DEFINE Goes ==
  \E f : /\ IsFetch(f) /\ f.pc \in {"check", "done"}
         /\ f.req = fetch[t].req /\ f.serialized = fetch[t].serialized
         /\ fetch' = [fetch EXCEPT ![t] = f]
<1>4. Goes
  <2>1. ASSUME NEW result \in {"cooldown", "error", "ok"}, fetch' = Ended(t, result)
        PROVE  Goes
    <3>1. PICK f : f = [fetch[t] EXCEPT !.pc = "done", !.result = result]
      OBVIOUS
    <3>2. /\ IsFetch(f) /\ f.pc = "done"
          /\ f.req = fetch[t].req /\ f.serialized = fetch[t].serialized
      BY <1>2, <3>1 DEF IsFetch
    <3>3. fetch' = [fetch EXCEPT ![t] = f]
      BY <2>1, <3>1 DEF Ended
    <3>4. QED  BY <3>2, <3>3
  <2>2. ASSUME NEW w \in Backoffs, fetch' = Again(t, w)
        PROVE  Goes
    <3>1. CASE fetch[t].attempt + 1 < Retries
      <4> PICK n \in Nat : n = fetch[t].attempt + 1
        BY <1>2
      <4>1. PICK f : /\ f = [fetch[t] EXCEPT !.pc = "check", !.attempt = n, !.wait = w]
                     /\ w \in Nat
        BY <1>3
      <4>2. /\ IsFetch(f) /\ f.pc = "check"
            /\ f.req = fetch[t].req /\ f.serialized = fetch[t].serialized
        BY <1>2, <4>1 DEF IsFetch
      <4>3. fetch' = [fetch EXCEPT ![t] = f]
        BY <2>2, <3>1, <4>1 DEF Again
      <4>4. QED  BY <4>2, <4>3
    <3>2. CASE ~(fetch[t].attempt + 1 < Retries)
      BY <2>1, <2>2, <3>2 DEF Again
    <3>3. QED  BY <3>1, <3>2
  <2> HIDE DEF Goes
  <2>3. QED  BY <2>1, <2>2 DEF TooMany, Fails, GivesUp, Succeeds
<1>5. /\ streak' \in [Domains -> Nat] /\ cooldown' \in [Domains -> Nat]
      /\ \A d \in Domains : cooldown[d] > 0 => cooldown'[d] > 0
  <2>1. CASE TooMany(t)
    <3>1. PICK n : n = Min({streak[Dom(t)] + 1, Threshold})
      OBVIOUS
    <3>2. n \in Nat
      <4>1. PICK m \in Nat : m = streak[Dom(t)] + 1
        BY <1>3
      <4>2. PICK k \in Nat : k = Threshold
        BY <1>3
      <4>3. m \in Int /\ k \in Int /\ n = Min({m, k})
        BY <3>1, <4>1, <4>2
      <4>4. n \in {m, k}
        BY <4>3, TwoNumbers
      <4>5. QED  BY <4>4
    <3>3. streak' = [streak EXCEPT ![Dom(t)] = n]
      BY <2>1, <3>1 DEF TooMany
    <3>4. cooldown' \in {cooldown, [cooldown EXCEPT ![Dom(t)] = Cooldown]}
      BY <2>1 DEF TooMany
    <3>5. QED  BY <1>3, <3>2, <3>3, <3>4
  <2>2. CASE Fails(t) \/ GivesUp(t)
    BY <1>3, <2>2 DEF Fails, GivesUp
  <2>3. CASE Succeeds(t)
    BY <1>3, <2>3 DEF Succeeds
  <2>4. QED  BY <2>1, <2>2, <2>3
<1>6. QED  BY <1>1, <1>4, <1>5, AnswerKeeps

LEMMA TickKeeps ==
  ASSUME PacingInv, Time
  PROVE  PacingInv'
<1>1. /\ since' = [d \in Domains |-> Older(since[d])] /\ gap' = [d \in Domains |-> Older(gap[d])]
      /\ cooldown' = [d \in Domains |-> Less(cooldown[d])] /\ UNCHANGED streak
      /\ leaks' = [t \in Threads |->
                    [d \in Domains |-> IF cooldown[d] > 1 THEN leaks[t][d] ELSE 0]]
      /\ fetch' = [t \in Threads |-> [fetch[t] EXCEPT !.wait = Less(@)]]
      /\ UNCHANGED <<job, providerLock>>
  BY DEF Time, Tick
<1>2. /\ since \in [Domains -> 0..MaxInterval] /\ gap \in [Domains -> 0..MaxInterval]
      /\ streak \in [Domains -> Nat] /\ cooldown \in [Domains -> Nat]
      /\ leaks \in [Threads -> [Domains -> Nat]] /\ MaxInterval \in Nat
  BY HttpAssumption DEF PacingInv, TableTypes
<1>3. ASSUME NEW d \in Domains
      PROVE  /\ since'[d] \in 0..MaxInterval /\ gap'[d] \in 0..MaxInterval
             /\ gap'[d] = MaxInterval \/ gap'[d] = gap[d] + 1
             /\ gap'[d] >= since'[d] /\ gap[d] \in 0..MaxInterval
             /\ cooldown'[d] \in Nat /\ (cooldown'[d] > 0 <=> cooldown[d] > 1)
  <2>1. PICK a, b, c \in Nat : a = since[d] /\ b = gap[d] /\ c = cooldown[d]
    BY <1>2
  <2>2. a <= MaxInterval /\ b <= MaxInterval /\ b >= a
    BY <1>2, <2>1 DEF PacingInv, Spaced
  <2>3. /\ since'[d] = Older(a) /\ gap'[d] = Older(b) /\ cooldown'[d] = Less(c)
    BY <1>1, <2>1
  <2>4. /\ Older(a) \in 0..MaxInterval /\ Older(b) \in 0..MaxInterval
        /\ Older(a) <= a + 1
        /\ Older(b) = MaxInterval \/ Older(b) = b + 1
        /\ Less(c) \in Nat /\ (Less(c) > 0 <=> c > 1)
    BY <2>2, Clocks
  <2>5. Older(b) >= Older(a)
    BY <1>2, <2>2, <2>4
  <2>6. QED  BY <1>2, <2>1, <2>2, <2>3, <2>4, <2>5
<1>4. ASSUME NEW t \in Threads
      PROVE  /\ fetch'[t] = [fetch[t] EXCEPT !.wait = Less(fetch[t].wait)]
             /\ IsFetch(fetch'[t]) /\ fetch'[t].pc = fetch[t].pc
             /\ fetch'[t].req = fetch[t].req /\ fetch'[t].serialized = fetch[t].serialized
             /\ fetch[t].wait \in Nat /\ fetch'[t].wait \in Nat
             /\ fetch'[t].wait + 1 >= fetch[t].wait
  <2>1. IsFetch(fetch[t])
    BY DEF PacingInv, Shapes
  <2>2. PICK w \in Nat : w = fetch[t].wait
    BY <2>1 DEF IsFetch
  <2>3. Less(w) \in Nat /\ w <= Less(w) + 1
    BY Clocks
  <2>4. fetch'[t] = [fetch[t] EXCEPT !.wait = Less(w)]
    BY <1>1, <2>2
  <2>5. IsFetch(fetch'[t]) /\ fetch'[t].wait = Less(w)
    BY <2>1, <2>3, <2>4 DEF IsFetch
  <2>6. /\ fetch'[t].pc = fetch[t].pc
        /\ fetch'[t].req = fetch[t].req /\ fetch'[t].serialized = fetch[t].serialized
    BY <2>1, <2>4 DEF IsFetch
  <2>7. QED  BY <2>2, <2>3, <2>4, <2>5, <2>6
<1>5. TableTypes'
  <2>1. since' \in [Domains -> 0..MaxInterval] /\ gap' \in [Domains -> 0..MaxInterval]
        /\ cooldown' \in [Domains -> Nat]
    BY <1>1, <1>3
  <2>2. leaks' \in [Threads -> [Domains -> Nat]]
    BY <1>1, <1>2
  <2>3. QED  BY <1>1, <2>1, <2>2 DEF PacingInv, TableTypes
<1>6. Shapes'
  <2>1. fetch' = [t \in Threads |-> fetch'[t]]
    BY <1>1
  <2>2. QED  BY <1>1, <1>4, <2>1 DEF PacingInv, Shapes, IsJob
<1>7. JobKnown' /\ HoldsLock'
  BY <1>1 DEF PacingInv, JobKnown, HoldsLock
<1>8. OfItsTool'
  BY <1>1, <1>4 DEF PacingInv, OfItsTool, Asking, Req, Dom
<1>9. Spaced'
  <2>1. SUFFICES ASSUME NEW t \in Threads, fetch[t].pc = "pacing", fetch[t].serialized
                 PROVE  gap'[Dom(t)] + fetch'[t].wait >= Req(t).interval
    BY <1>3, <1>4 DEF Spaced, At, Req, Dom
  <2>2. Asking(t) /\ gap[Dom(t)] + fetch[t].wait >= Req(t).interval
    BY <2>1 DEF PacingInv, Spaced, At, Asking
  <2>3. PICK d \in Domains, i \in Nat : d = Dom(t) /\ i = Req(t).interval /\ i <= MaxInterval
    BY <2>2, Asks
  <2>4. /\ gap[d] \in Nat /\ gap'[d] \in Nat
        /\ gap'[d] = MaxInterval \/ gap'[d] = gap[d] + 1
    BY <1>2, <1>3
  <2>5. PICK w \in Nat, n \in Nat :
          w = fetch[t].wait /\ n = fetch'[t].wait /\ n + 1 >= w
    BY <1>4
  <2>6. gap[d] + w >= i
    BY <2>2, <2>3, <2>5
  <2>7. gap'[d] + n >= i
    <3>1. CASE gap'[d] = MaxInterval
      BY <1>2, <2>3, <2>5, <3>1
    <3>2. CASE gap'[d] = gap[d] + 1
      BY <2>3, <2>4, <2>5, <2>6, <3>2
    <3>3. QED  BY <2>4, <3>1, <3>2
  <2>8. QED  BY <2>3, <2>5, <2>7
<1>10. Sparing'
  <2>1. ASSUME NEW t \in Threads, NEW d \in Domains
        PROVE  /\ leaks'[t][d] <= 1
               /\ leaks'[t][d] > 0 =>
                    cooldown'[d] > 0 /\ ~(fetch[t].pc = "pacing" /\ fetch[t].req.domain = d)
    <3>1. leaks'[t][d] = IF cooldown[d] > 1 THEN leaks[t][d] ELSE 0
      BY <1>1
    <3>2. QED  BY <1>2, <1>3, <3>1 DEF PacingInv, Sparing, At, Req, Dom
  <2>2. \A t \in Threads : fetch'[t].pc = fetch[t].pc /\ fetch'[t].req = fetch[t].req
    BY <1>4
  <2>3. QED  BY <2>1, <2>2 DEF Sparing, At, Req, Dom
<1>11. QED  BY <1>5, <1>6, <1>7, <1>8, <1>9, <1>10 DEF PacingInv

LEMMA KillForgets ==
  ASSUME PacingInv, Kill
  PROVE  PacingInv'
<1>1. /\ since' = [d \in Domains |-> MaxInterval] /\ gap' = [d \in Domains |-> MaxInterval]
      /\ streak' = [d \in Domains |-> 0] /\ cooldown' = [d \in Domains |-> 0]
      /\ fetch' = [t \in Threads |-> NoFetch]
      /\ leaks' = [t \in Threads |-> [d \in Domains |-> 0]]
      /\ job' = [t \in Threads |-> NoJob] /\ providerLock' = [p \in Providers |-> Free]
  BY DEF Kill
<1>2. IsFetch(NoFetch) /\ NoFetch.pc = "idle" /\ IsJob(NoJob) /\ NoJob.pc = "idle"
  BY DEF IsFetch, NoFetch, IsJob, NoJob
<1>3. MaxInterval \in 0..MaxInterval
  BY HttpAssumption
<1>4. \A t \in Threads : fetch'[t] = NoFetch /\ job'[t] = NoJob
  BY <1>1
<1>5. TableTypes'
  BY <1>1, <1>3 DEF TableTypes
<1>6. Shapes'
  BY <1>1, <1>2, <1>4 DEF Shapes
<1>7. JobKnown' /\ OfItsTool' /\ HoldsLock'
  BY <1>2, <1>4 DEF JobKnown, OfItsTool, HoldsLock, Asking
<1>8. Spaced' /\ Sparing'
  BY <1>1, <1>2, <1>3, <1>4 DEF Spaced, Sparing, At
<1>9. QED  BY <1>5, <1>6, <1>7, <1>8 DEF PacingInv

LEMMA FetchingKeeps ==
  ASSUME PacingInv, NEW t \in Threads, Fetching(t)
  PROVE  PacingInv'
<1>1. UNCHANGED <<job, providerLock>> /\ FetchStep(t)
  BY DEF Fetching
<1>2. QED  BY <1>1, CheckKeeps, SendKeeps, AnswersKeep DEF FetchStep

LEMMA PacingStepKeeps == PacingInv /\ [Next]_vars => PacingInv'
<1> SUFFICES ASSUME PacingInv, [Next]_vars PROVE PacingInv'
  OBVIOUS
<1>1. Calls \subseteq Threads /\ Handles \subseteq Threads
  BY RequestAssumption
<1>2. CASE UNCHANGED vars
  BY <1>2, PacingStutters DEF vars
<1>3. ASSUME NEW c \in Calls, NEW tool \in Tools, NEW q \in Subjects(tool), CallTool(c, tool, q)
      PROVE  PacingInv'
  BY <1>1, <1>3, CallKeepsPace DEF CallTool, Idle
<1>4. ASSUME NEW c \in Calls, NEW tool \in Tools, NEW q \in Subjects(tool), NEW h \in Handles,
             CallAsync(c, h, tool, q)
      PROVE  PacingInv'
  <2>1. /\ job[h].pc = "idle" /\ job' = [job EXCEPT ![h] = Launched(tool, q)]
        /\ UNCHANGED <<httpVars, providerLock>>
    BY <1>4 DEF CallAsync, NoJob
  <2>2. QED  BY <1>1, <2>1, CallKeepsPace
<1>5. CASE \E c \in Calls : \/ CollectSearches(c, reg) \/ \E h \in reg : CollectSearches(c, {h})
                            \/ CollectNext(c)
  BY <1>5, CollectKeepsPace
<1>6. CASE \E c \in Calls : \/ \E p \in Papers, src \in Sources : CorpusAdd(c, p, src)
                            \/ UsingCorpus(c) \/ CorpusSearch(c)
  BY <1>6, PacingStutters DEF CorpusAdd, UsingCorpus, CorpusSearch
<1>7. CASE \E t \in Threads : BeginFetch(t) \/ Fetching(t) \/ Hydrate(t) \/ FinishTool(t)
  BY <1>7, BeginFetchKeeps, FetchingKeeps, HydrateKeeps, FinishKeeps
<1>8. CASE Time
  BY <1>8, TickKeeps
<1>9. CASE Kill
  BY <1>9, KillForgets
<1>10. QED  BY <1>2, <1>3, <1>4, <1>5, <1>6, <1>7, <1>8, <1>9 DEF Next

\* The invariant behind the pacing of requests.
THEOREM PacingInductive == Spec => []PacingInv
<1>1. QED  BY PacingInitEstablishes, PacingStepKeeps, PTL DEF Spec

\* For any number of threads, calls and domains, and any limits: requests of
\* tools that serialize are apart by the interval of the later one, and a thread
\* sends at most one request to a domain in its cooldown (_rate_limit_wait).
THEOREM SourceIsSpared == Spec => SourceSpared
<1> DEFINE Paced ==
      \A t \in Threads :
        At(t, "pacing") /\ fetch'[t].pc = "sent" =>
          /\ fetch[t].serialized => gap[Dom(t)] >= Req(t).interval
          /\ leaks'[t][Dom(t)] <= 1
<1>1. ASSUME PacingInv, [Next]_vars PROVE [Paced]_httpVars
  <2>1. SUFFICES ASSUME NEW t \in Threads, At(t, "pacing"), fetch'[t].pc = "sent"
                 PROVE  /\ fetch[t].serialized => gap[Dom(t)] >= Req(t).interval
                        /\ leaks'[t][Dom(t)] <= 1
    OBVIOUS
  <2>2. fetch[t].pc = "pacing" /\ job[t].pc = "fetch" /\ Asking(t)
    BY <1>1, <2>1 DEF At, Asking, PacingInv, OfItsTool
  <2>3. Fetching(t)
    <3>1. \E u \in Threads : BeginFetch(u) \/ Fetching(u) \/ Hydrate(u) \/ FinishTool(u)
      <4>1. fetch'[t] # fetch[t]
        BY <2>1, <2>2
      <4>2. ASSUME UNCHANGED httpVars PROVE FALSE
        BY <4>1, <4>2 DEF httpVars
      <4>3. ~Time
        <5>1. IsFetch(fetch[t])
          BY <1>1 DEF PacingInv, Shapes
        <5>2. Time => fetch'[t] = [fetch[t] EXCEPT !.wait = Less(@)]
          BY DEF Time, Tick
        <5>3. QED  BY <2>1, <2>2, <5>1, <5>2 DEF IsFetch
      <4>4. ~Kill
        BY <2>1 DEF Kill, NoFetch
      <4>5. UNCHANGED vars => FALSE
        BY <4>2 DEF vars
      <4>6. ~ \E c \in Calls :
               \/ \E tool \in Tools : \E q \in Subjects(tool) :
                    CallTool(c, tool, q) \/ \E h \in Handles : CallAsync(c, h, tool, q)
               \/ CollectSearches(c, reg) \/ \E h \in reg : CollectSearches(c, {h})
               \/ CollectNext(c)
               \/ \E p \in Papers, src \in Sources : CorpusAdd(c, p, src)
               \/ UsingCorpus(c) \/ CorpusSearch(c)
        BY <4>2 DEF CallTool, CallAsync, CollectSearches, CollectNext, CorpusAdd, UsingCorpus,
            CorpusSearch
      <4>7. QED  BY <1>1, <4>3, <4>4, <4>5, <4>6 DEF Next
    <3>2. PICK u \in Threads : BeginFetch(u) \/ Fetching(u) \/ Hydrate(u) \/ FinishTool(u)
      BY <3>1
    <3>3. \A v \in Threads \ {u} : fetch'[v] = fetch[v]
      <4>1. \E f : fetch' = [fetch EXCEPT ![u] = f]
        <5>1. CASE BeginFetch(u) \/ Hydrate(u) \/ FinishTool(u)
          BY <5>1 DEF BeginFetch, Hydrate, FinishTool
        <5>2. CASE Fetching(u)
          BY <5>2 DEF Fetching, FetchStep, RateLimitCheck, Send, TooMany, Fails, GivesUp,
             Succeeds, Ended, Again
        <5>3. QED  BY <3>2, <5>1, <5>2
      <4>2. fetch = [v \in Threads |-> fetch[v]]
        BY <1>1 DEF PacingInv, Shapes
      <4>3. QED  BY <4>1, <4>2
    <3>4. u = t
      BY <2>1, <2>2, <3>3
    <3>5. QED  BY <2>2, <3>2, <3>4 DEF BeginFetch, Hydrate, FinishTool, At
  <2>4. Send(t) /\ UNCHANGED <<job, providerLock>>
    BY <2>2, <2>3 DEF Fetching, FetchStep, RateLimitCheck, TooMany, Fails, GivesUp, Succeeds, At
  <2>5. leaks'[t][Dom(t)] <= 1
    BY <1>1, <2>4, SendKeeps
  <2>6. ASSUME fetch[t].serialized PROVE gap[Dom(t)] >= Req(t).interval
    <3>1. fetch[t].wait = 0 /\ gap[Dom(t)] + fetch[t].wait >= Req(t).interval
      BY <1>1, <2>1, <2>4, <2>6 DEF Send, PacingInv, Spaced
    <3>2. gap[Dom(t)] \in Nat
      BY <1>1, <2>2, Asks
    <3>3. QED  BY <3>1, <3>2
  <2>7. QED  BY <2>5, <2>6
<1>2. QED  BY <1>1, PacingInductive, PTL DEF Spec, SourceSpared

-----------------------------------------------------------------------------
(***************************************************************************)
(* The operator channel.                                                   *)
(* That an answer an agent acted on is the one on record depends on three  *)
(* things the properties do not say: where each call is, it is about a     *)
(* question in a certain condition (Places); no two askers share one       *)
(* (Apart); and, while no lock has lapsed, whoever is in the section holds *)
(* the lock and still sees what it read (Section), so that a question that *)
(* is resolved stays as it is and what was returned stays true (Returned). *)
(***************************************************************************)
Types ==
  /\ file \in [Questions -> Open \cup Closed]
  /\ answer \in [Questions -> Procs \cup {NoOne}]
  /\ lock \in Procs \cup {NoOne}
  /\ {lapsed, watched, terminal} \subseteq BOOLEAN
  /\ askCount \in Nat
  /\ pc \in [Procs -> Busy \cup {"idle", "done"}]
  /\ qid \in [Procs -> Nat]
  /\ verdict \in [Procs -> Closed \cup {"none"}]
  /\ saw \in [Procs -> Open \cup Closed]
  /\ got \in [Procs -> Procs \cup {"none", "ok", "refused", "unattended"}]

\* An answer is in a file exactly when its status says so.
Answers == \A q \in Questions : answer[q] # NoOne <=> file[q] = "answered"

\* An asker that publishes has just created its file; one that decides, waits
\* or resolves, like a poster, is about a question that was asked.
Places ==
  /\ \A p \in Procs : pc[p] = "publish" =>
       qid[p] \in Questions /\ file[qid[p]] = "empty"
  /\ \A p \in Procs : pc[p] \in {"decide", "poll", "read", "watch", "enter", "write"} =>
       qid[p] \in Questions /\ file[qid[p]] \notin {"none", "empty"}
  /\ \A p \in Procs : pc[p] \in {"enter", "write"} => verdict[p] \in Closed
  /\ \A p \in Procs : lock = p => pc[p] = "write"
  /\ \A v \in Posters : pc[v] \in {"idle", "enter", "write", "done"}
  /\ \A v \in Posters : pc[v] \in {"enter", "write"} => verdict[v] = "answered"

Apart ==
  \A a, b \in Askers :
    (a # b /\ {pc[a], pc[b]} \subseteq Busy \ {"count", "create"}) => qid[a] # qid[b]

Section ==
  ~lapsed => \A p \in Procs : pc[p] = "write" => lock = p /\ saw[p] = file[qid[p]]

Returned ==
  ~lapsed =>
    /\ \A a \in Askers : (pc[a] = "done" /\ got[a] \in Procs) =>
         /\ qid[a] \in Questions /\ file[qid[a]] = "answered"
         /\ answer[qid[a]] = got[a]
    /\ \A v \in Posters : got[v] = "ok" =>
         /\ pc[v] = "done"
         /\ qid[v] \in Questions /\ file[qid[v]] = "answered"
         /\ answer[qid[v]] = v

ChannelInv == Types /\ Answers /\ Places /\ Apart /\ Section /\ Returned

USE DEF files, channelVars, Procs, Open, Closed, Busy, Goto, Resolving, Return

LEMMA ChannelInitEstablishes == ChannelInit => ChannelInv
<1> SUFFICES ASSUME ChannelInit PROVE ChannelInv
  OBVIOUS
<1> USE ProcAssumption DEF ChannelInit
<1>1. Types
  BY DEF Types
<1>2. Answers /\ Places
  BY DEF Answers, Places
<1>3. Apart /\ Section /\ Returned
  BY DEF Apart, Section, Returned
<1>4. QED
  BY <1>1, <1>2, <1>3 DEF ChannelInv

\* A create takes a name nobody has, which has a smallest one.
LEMMA CreateTakes ==
  ASSUME NEW a \in Askers, Candidates(a) # {}
  PROVE  /\ Min(Candidates(a)) \in Questions
         /\ file[Min(Candidates(a))] = "none"
<1>1. Candidates(a) \in SUBSET Nat
  BY QuotaAssumption DEF Candidates, Questions
<1> DEFINE Below == {ss \in Nat \X Nat : ss[1] < ss[2]}
<1>2. IsWellFoundedOn(Below, Nat)
  BY NatLessThanWellFounded DEF OpToRel
<1>3. \E m \in Candidates(a) : \A x \in Candidates(a) : m <= x
  <2>1. \E m \in Candidates(a) : \A x \in Candidates(a) : <<x, m>> \notin Below
    <3> HIDE DEF Below
    <3>1. QED
      BY <1>1, <1>2, WFMin
  <2>2. \A x, m \in Nat : x < m => <<x, m>> \in Below
    OBVIOUS
  <2>3. QED
    <3> HIDE DEF Below
    <3>1. PICK m \in Candidates(a) :
            \A x \in Candidates(a) : <<x, m>> \notin Below
      BY <2>1
    <3>2. ASSUME NEW x \in Candidates(a) PROVE m <= x
      <4>1. x \in Nat /\ m \in Nat /\ ~(x < m)
        BY <1>1, <2>2, <3>1
      <4>2. QED
        BY <4>1
    <3>3. QED
      BY <3>2
<1>4. Min(Candidates(a)) \in Candidates(a)
  BY <1>3 DEF Min
<1>5. QED
  BY <1>4 DEF Candidates

\* The steps of a call that write no file and enter no section.
LEMMA CallKeeps ==
  ASSUME ChannelInv, NEW a \in Askers,
         \/ FollowUp(a) \/ Count(a) \/ DecideUnattended(a) \/ DecideToWait(a)
         \/ Deadline(a) \/ GiveUp(a) \/ PollSilence(a) \/ PollTyped(a)
         \/ WatchOn(a) \/ WatchGone(a)
  PROVE  ChannelInv'
<1> USE ProcAssumption DEF ChannelInv
<1>1. CASE FollowUp(a)
  BY <1>1 DEF FollowUp, Types, Answers, Places, Apart, Section, Returned
<1>2. CASE Count(a)
  BY <1>2 DEF Count, Types, Answers, Places, Apart, Section, Returned
<1>3. CASE DecideUnattended(a)
  BY <1>3 DEF DecideUnattended, Types, Answers, Places, Apart, Section, Returned
<1>4. CASE DecideToWait(a)
  BY <1>4 DEF DecideToWait, Types, Answers, Places, Apart, Section, Returned
<1>5. CASE Deadline(a)
  BY <1>5 DEF Deadline, Types, Answers, Places, Apart, Section, Returned
<1>6. CASE GiveUp(a)
  BY <1>6 DEF GiveUp, Types, Answers, Places, Apart, Section, Returned
<1>7. CASE PollSilence(a)
  BY <1>7 DEF PollSilence, Types, Answers, Places, Apart, Section, Returned
<1>8. CASE PollTyped(a)
  BY <1>8 DEF PollTyped, Types, Answers, Places, Apart, Section, Returned
<1>9. CASE WatchOn(a)
  BY <1>9 DEF WatchOn, Types, Answers, Places, Apart, Section, Returned
<1>10. CASE WatchGone(a)
  BY <1>10 DEF WatchGone, Types, Answers, Places, Apart, Section, Returned
<1>11. QED
  BY <1>1, <1>2, <1>3, <1>4, <1>5, <1>6, <1>7, <1>8, <1>9, <1>10

LEMMA ViewerKeeps ==
  ASSUME ChannelInv, Look \/ \E v \in Posters : Post(v)
  PROVE  ChannelInv'
<1> USE ProcAssumption DEF ChannelInv
<1>1. CASE Look
  BY <1>1 DEF Look, Types, Answers, Places, Apart, Section, Returned
<1>2. CASE \E v \in Posters : Post(v)
  BY <1>2 DEF Post, Types, Answers, Places, Apart, Section, Returned, Questions
<1>3. QED
  BY <1>1, <1>2

\* The steps that make a question, fail to, or find its answer.
LEMMA QuestionKeeps ==
  ASSUME ChannelInv, NEW a \in Askers,
         Create(a) \/ Publish(a) \/ AskFails(a) \/ ReadAnswer(a)
  PROVE  ChannelInv'
<1> USE ProcAssumption DEF ChannelInv
<1>1. CASE Create(a)
  <2>1. PICK q \in Questions :
          /\ file[q] = "none"
          /\ file' = [file EXCEPT ![q] = "empty"]
          /\ qid' = [qid EXCEPT ![a] = q]
    BY <1>1, CreateTakes DEF Create
  <2>2. q \in Nat
    BY QuotaAssumption DEF Questions
  <2>3. \A p \in Procs : pc[p] \in Busy \ {"count", "create"} => qid[p] # q
    BY <2>1 DEF Places
  <2>4. Types'
    BY <1>1, <2>1, <2>2 DEF Create, Types
  <2>5. Answers' /\ Places'
    BY <1>1, <2>1 DEF Create, Types, Answers, Places
  <2>6. Apart'
    BY <1>1, <2>1, <2>3 DEF Create, Types, Apart
  <2>7. Section'
    BY <1>1, <2>1, <2>3 DEF Create, Types, Section
  <2>8. Returned'
    BY <1>1, <2>1 DEF Create, Types, Returned
  <2>9. QED
    BY <2>4, <2>5, <2>6, <2>7, <2>8
<1>2. CASE Publish(a)
  BY <1>2 DEF Publish, Types, Answers, Places, Apart, Section, Returned
<1>3. CASE AskFails(a)
  BY <1>3 DEF AskFails, Types, Answers, Places, Apart, Section, Returned
<1>4. CASE ReadAnswer(a)
  BY <1>4 DEF ReadAnswer, Types, Answers, Places, Apart, Section, Returned
<1>5. QED
  BY <1>1, <1>2, <1>3, <1>4

LEMMA EnterKeeps ==
  ASSUME ChannelInv, NEW p \in Procs, Enter(p) \/ EnterWithout(p)
  PROVE  ChannelInv'
<1> USE ProcAssumption DEF ChannelInv
<1>1. CASE Enter(p)
  BY <1>1 DEF Enter, LockFree, Types, Answers, Places, Apart, Section, Returned
<1>2. CASE EnterWithout(p)
  BY <1>2 DEF EnterWithout, Types, Answers, Places, Apart, Section, Returned
<1>3. QED
  BY <1>1, <1>2

\* While no lock has lapsed, what is written was still pending.
LEMMA WritesPending ==
  ASSUME ChannelInv, NEW p \in Procs, Write(p), ~lapsed
  PROVE  \/ UNCHANGED files
         \/ file[qid[p]] = "pending" /\ WriteFile(p)
  BY DEF ChannelInv, Section, Write, Resolvable

LEMMA WriteKeeps ==
  ASSUME ChannelInv, NEW p \in Procs, Write(p)
  PROVE  ChannelInv'
<1> USE ProcAssumption DEF ChannelInv
<1>1. /\ pc[p] = "write" /\ qid[p] \in Questions /\ verdict[p] \in Closed
      /\ file[qid[p]] \notin {"none", "empty"}
      /\ p \in Posters => verdict[p] = "answered"
  BY DEF Write, Places
<1>2. CASE Resolvable(p) /\ WriteFile(p) /\ Outcome(p, TRUE)
  <2>1. /\ pc' = [pc EXCEPT ![p] = "done"]
        /\ \/ p \in Posters /\ got' = [got EXCEPT ![p] = "ok"]
           \/ p \in Askers /\ verdict[p] # "answered"
              /\ got' = [got EXCEPT ![p] = "unattended"]
           \/ p \in Askers /\ verdict[p] = "answered"
              /\ got' = [got EXCEPT ![p] = p]
    BY <1>1, <1>2 DEF Outcome
  <2>2. Types' /\ Answers'
    BY <1>1, <1>2, <2>1 DEF Write, WriteFile, Types, Answers
  <2>3. Places' /\ Apart'
    BY <1>1, <1>2, <2>1 DEF Write, WriteFile, Types, Places, Apart
  <2>4. Section'
    BY <1>1, <1>2, <2>1 DEF Write, Types, Section
  <2>5. Returned'
    BY <1>1, <1>2, <2>1, WritesPending
    DEF Write, WriteFile, Types, Returned, Section, Resolvable
  <2>6. QED
    BY <2>2, <2>3, <2>4, <2>5
<1>3. CASE UNCHANGED files /\ Outcome(p, FALSE)
  <2>1. \/ pc' = [pc EXCEPT ![p] = "done"] /\ got' = [got EXCEPT ![p] = "refused"]
        \/ pc' = [pc EXCEPT ![p] = "done"] /\ got' = [got EXCEPT ![p] = "unattended"]
        \/ pc' = [pc EXCEPT ![p] = "read"] /\ p \in Askers /\ got' = got
    BY <1>1, <1>3 DEF Outcome
  <2>2. Types' /\ Answers'
    BY <1>1, <1>3, <2>1 DEF Write, Types, Answers
  <2>3. Places' /\ Apart'
    BY <1>1, <1>3, <2>1 DEF Write, Types, Places, Apart
  <2>4. Section'
    BY <1>1, <1>3, <2>1 DEF Write, Types, Section
  <2>5. Returned'
    BY <1>1, <1>3, <2>1 DEF Write, Types, Returned
  <2>6. QED
    BY <2>2, <2>3, <2>4, <2>5
<1>4. QED
  BY <1>2, <1>3 DEF Write

LEMMA ChannelStepKeeps == ChannelInv /\ [ChannelNext]_channelVars => ChannelInv'
<1> SUFFICES ASSUME ChannelInv, [ChannelNext]_channelVars PROVE ChannelInv'
  OBVIOUS
<1>1. CASE UNCHANGED channelVars
  BY <1>1 DEF ChannelInv, Types, Answers, Places, Apart, Section, Returned
<1>2. ASSUME NEW a \in Askers, FollowUp(a) \/ AskerStep(a) \/ Deadline(a)
      PROVE  ChannelInv'
  BY <1>2, CallKeeps, QuestionKeeps DEF AskerStep
<1>3. CASE Look \/ \E v \in Posters : Post(v)
  BY <1>3, ViewerKeeps
<1>4. ASSUME NEW p \in Procs, SectionStep(p) PROVE ChannelInv'
  BY <1>4, EnterKeeps, WriteKeeps DEF SectionStep
<1>5. QED
  BY <1>1, <1>2, <1>3, <1>4 DEF ChannelNext

\* The invariant holds whatever is asked, answered, typed or lost.
THEOREM ChannelInductive == ChannelSpec => []ChannelInv
<1>1. ChannelInv /\ [ChannelNext]_channelVars => ChannelInv'
  BY ChannelStepKeeps
<1>2. QED
  BY ChannelInitEstablishes, <1>1, PTL DEF ChannelSpec

\* The type invariant: a file holds an answer exactly when its status says
\* so, and whoever is in the section is about a question that was asked.
THEOREM ChannelTypeCorrect == ChannelSpec => []ChannelTypeOK
<1>1. ChannelInv => ChannelTypeOK
  BY DEF ChannelInv, Types, Answers, Places, ChannelTypeOK
<1>2. QED
  BY ChannelInductive, <1>1, PTL

\* However many agents ask and operators answer at the same time, typed or
\* POSTed: no two askers share a question, and while no lock has lapsed the
\* answer that was acted on, and the one an operator was told "ok" for, is
\* the one on record (answer_question, _await_operator_answer).
THEOREM ActedOnIsOnRecord == ChannelSpec => []ActedOnIsRecorded
<1>1. ChannelInv => ActedOnIsRecorded
  BY DEF ChannelInv, Apart, Returned, ActedOnIsRecorded
<1>2. QED
  BY ChannelInductive, <1>1, PTL

\* While no lock has lapsed, no question is resolved a second time
\* (answer_question and close_question write only a pending one).
THEOREM ResolvesOnce == ChannelSpec => ResolvedOnce
<1> DEFINE Stays == ~lapsed' => \A q \in Questions :
                     file[q] \in Closed => file'[q] = file[q] /\ answer'[q] = answer[q]
<1>1. ASSUME ChannelInv, NEW p \in Procs, Write(p) PROVE Stays
  BY <1>1, WritesPending DEF Write, WriteFile, ChannelInv, Types
<1>2. ASSUME ChannelInv, NEW a \in Askers, Create(a) \/ Publish(a) PROVE Stays
  <2>1. CASE Create(a)
    BY <1>2, <2>1, CreateTakes DEF Create, ChannelInv, Types
  <2>2. CASE Publish(a)
    BY <1>2, <2>2 DEF Publish, ChannelInv, Types, Places
  <2>3. QED
    BY <1>2, <2>1, <2>2
<1>3. ASSUME [ChannelNext]_channelVars,
             ~ \E p \in Procs : Write(p), ~ \E a \in Askers : Create(a) \/ Publish(a)
      PROVE  UNCHANGED files
  BY <1>3 DEF ChannelNext, AskerStep, SectionStep, FollowUp, Count, AskFails,
     DecideUnattended, DecideToWait, Deadline, GiveUp, PollSilence, PollTyped,
     ReadAnswer, WatchOn, WatchGone, Look, Post, Enter, EnterWithout
<1>4. ChannelInv /\ [ChannelNext]_channelVars => [Stays]_channelVars
  BY <1>1, <1>2, <1>3
<1>5. QED
  BY ChannelInductive, <1>4, PTL DEF ChannelSpec, ResolvedOnce

===============================================================================
