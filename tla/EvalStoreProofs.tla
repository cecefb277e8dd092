--------------------------- MODULE EvalStoreProofs ---------------------------
(***************************************************************************)
(* The evaluation store for every number of campaigns, delegations,        *)
(* designs, namespaces and executions of the notebook.                     *)
(*                                                                         *)
(* The invariant says of every list of rows that may come to be a table    *)
(* (what a campaign holds merged under the lock, what an agent loaded, the *)
(* tables and their copies) that its values come from registered oracles   *)
(* and that no delegation has a design twice in it (Sound); and of a       *)
(* campaign inside the lock that what it is about to write keeps every     *)
(* evaluation that was acknowledged, or the row that supersedes it, which  *)
(* nobody else can add to before it has written.                           *)
(***************************************************************************)
EXTENDS EvalStore, FiniteSetTheorems, WellFoundedInduction, TLAPS

USE DEF ledgered

Oracles == Generators \cup {NoOracle}
Row == [by : Ids \cup {Nobody, PoolId, ReplayId}, design : Designs \cup Pool,
        oracle : Oracles]
Live == {<<"live", s>> : s \in Stores}

-----------------------------------------------------------------------------
(* The invariant.                                                          *)

Campaign ==
  [pc : {"off", "idle", "flushing", "storing"}, by : Ids \cup {Nobody}, at : Live,
   oracle : Oracles, scope : {"delegation", "all"}, buffer : Seq(Row),
   keys : SUBSET Designs, raised : SUBSET Designs, merged : Seq(Row)]
OnDisk == [state : {"ok", "absent", "empty", "torn"}, rows : Seq(Row), jobs : Nat]
Ackable == [at : Live, design : Designs \cup Pool, by : Ids \cup {Nobody}]

Typed ==
  /\ disk \in [Places -> OnDisk]
  /\ config \in [Copies -> [Stores -> Oracles]]
  /\ environ \in Copies
  /\ campaign \in [Campaigns -> Campaign]
  /\ agentCopy \in [at : Live, rows : Seq(Row)]
  /\ registrar \in [Registrars -> [pc : {"idle", "read"}, read : [Stores -> Oracles]]]
  /\ gate \in [Gates -> [pc : {"idle", "copying"} \cup Executing, saved : Copies]]
  /\ acked \subseteq Ackable

\* Rows that may be in a table of the store s: each value by an oracle that was
\* registered for s, and each design once for each delegation and the replay.
Leakless(s, rows) ==
  \A i \in DOMAIN rows :
    rows[i].by \notin {PoolId, Nobody} => <<s, rows[i].oracle>> \in registered
Once(rows) ==
  \A i, j \in DOMAIN rows :
    rows[i].by = rows[j].by /\ rows[i].design = rows[j].design
      /\ rows[i].by \in Ids \cup {ReplayId} => i = j
Sound(s, rows) == Leakless(s, rows) /\ Once(rows)

\* A table that is not whole reads as empty; jobs.csv counts the rows of a whole
\* one.
Whole(t) == IF t.state = "ok" THEN t.jobs = Len(t.rows) ELSE t.rows = <<>>

Tables == \A p \in Places : Sound(p[2], disk[p].rows) /\ Whole(disk[p])

Sandboxes ==
  \A g \in Gates, s \in Stores : gate[g].pc \notin Executing => disk[<<g, s>>] = Absent

\* What a script, a snippet or a registration finds configured is registered.
Known(oracles) ==
  \A s \in Stores : oracles[s] # NoOracle => <<s, oracles[s]>> \in registered
Configured ==
  /\ <<"base", Declared>> \in registered
  /\ \A k \in Copies : Known(config[k])
  /\ \A t \in Registrars : registrar[t].pc = "read" => Known(registrar[t].read)

Stamped ==
  \A c \in Campaigns : campaign[c].pc # "off" =>
    /\ campaign[c].by \in Ids
    /\ <<campaign[c].at[2], campaign[c].oracle>> \in registered
    /\ \A i \in DOMAIN campaign[c].buffer :
         /\ campaign[c].buffer[i].by = campaign[c].by
         /\ campaign[c].buffer[i].oracle = campaign[c].oracle
    /\ campaign[c].keys \ campaign[c].raised \subseteq DesignsOf(campaign[c].buffer)

\* One campaign at a time is inside the lock of a table.
Exclusive ==
  \A c, e \in Campaigns :
    campaign[c].pc = "storing" /\ campaign[e].pc = "storing"
      /\ campaign[c].at = campaign[e].at => c = e

\* Rows of a replay that a list for p holds are among those p has marked.
Marked(p, rows) == \A i \in DOMAIN rows : rows[i].by = ReplayId => i <= disk[p].jobs

\* A list of rows keeps an acknowledged evaluation, or what superseded it, or
\* was left without it by an oracle that raised.
Held(rows, a) ==
  \/ Covers(rows, a)
  \/ a \in superseded /\ (a.design \in DesignsOf(rows) \/ a \in unreplaced)

\* What a campaign inside the lock at p is about to write.
MergedAs(p, merged, buffer, keys) ==
  /\ Sound(p[2], merged) /\ Marked(p, merged)
  /\ \A i \in DOMAIN buffer : \E j \in DOMAIN merged : merged[j] = buffer[i]
  /\ \A a \in acked \ excused :
       a.at = p /\ a.design \notin keys => Held(merged, a)
MergedBy(c) ==
  campaign[c].pc = "storing" =>
    MergedAs(campaign[c].at, campaign[c].merged, campaign[c].buffer, campaign[c].keys)
Merging == \A c \in Campaigns : MergedBy(c)

AgentCopied ==
  /\ Sound(agentCopy.at[2], agentCopy.rows)
  /\ Marked(agentCopy.at, agentCopy.rows)

Covered == \A a \in acked \ excused : Held(disk[a.at].rows, a)

IndInv ==
  /\ Typed /\ Tables /\ Sandboxes /\ Configured /\ Stamped
  /\ Exclusive /\ Merging /\ AgentCopied /\ Covered

-----------------------------------------------------------------------------
(* What a pass over some rows keeps.                                       *)

\* The places of S, counted from below, are the places of S.
LEMMA NthIsOnto ==
  ASSUME NEW n \in Nat, NEW S \in SUBSET (1..n)
  PROVE  /\ Cardinality(S) \in Nat /\ Cardinality(S) <= n
         /\ \A k \in 1..Cardinality(S) : Nth(S, k) \in S
         /\ \A k, l \in 1..Cardinality(S) : Nth(S, k) = Nth(S, l) => k = l
         /\ \A i \in S : \E k \in 1..Cardinality(S) : Nth(S, k) = i
<1> DEFINE Below(i) == {j \in S : j <= i}
           size == Cardinality(S)
           rank == [i \in S |-> Cardinality(Below(i))]
<1>1. IsFiniteSet(1..n) /\ Cardinality(1..n) = n
  BY FS_Interval
<1>2. IsFiniteSet(S) /\ size \in Nat /\ size <= n
  BY <1>1, FS_Subset, FS_CardinalityType
<1>3. \A i \in S : i \in Int
  OBVIOUS
<1>4. ASSUME NEW i \in S PROVE rank[i] \in 1..size
  <2>1. i \in Below(i) /\ Below(i) \subseteq S
    BY <1>3
  <2> HIDE DEF Below
  <2>2. IsFiniteSet(Below(i)) /\ Cardinality(Below(i)) <= size
        /\ Cardinality(Below(i)) \in Nat
    BY <1>2, <2>1, FS_Subset, FS_CardinalityType
  <2>3. Cardinality(Below(i)) # 0
    BY <2>1, <2>2, FS_EmptySet
  <2>4. QED  BY <1>2, <2>2, <2>3
<1>5. ASSUME NEW i \in S, NEW k \in S, i < k PROVE rank[i] < rank[k]
  <2>1. Below(i) \subseteq Below(k) /\ k \in Below(k) /\ k \notin Below(i) /\ Below(k) \subseteq S
    <3>1. k \in Below(k) /\ k \notin Below(i) /\ Below(k) \subseteq S
      BY <1>3, <1>5
    <3>2. ASSUME NEW j \in Below(i) PROVE j \in Below(k)
      BY <1>3, <1>5
    <3>3. QED  BY <3>1, <3>2
  <2> HIDE DEF Below
  <2>2. IsFiniteSet(Below(k)) /\ Cardinality(Below(k)) \in Nat
        /\ Cardinality(Below(i)) \in Nat
    BY <1>2, <2>1, FS_Subset, FS_CardinalityType
  <2>3. Cardinality(Below(i)) <= Cardinality(Below(k))
        /\ Cardinality(Below(i)) # Cardinality(Below(k))
    BY <2>1, <2>2, FS_Subset
  <2>4. QED  BY <2>2, <2>3
<1>6. \A i, k \in S : rank[i] = rank[k] => i = k
  BY <1>3, <1>4, <1>5
<1> HIDE DEF rank
<1>7. ASSUME NEW k \in 1..size PROVE \E i \in S : rank[i] = k
  <2> DEFINE T == (1..size) \ {k}
  <2>1. IsFiniteSet(1..size) /\ Cardinality(1..size) = size
    <3> HIDE DEF size
    <3>1. QED  BY <1>2, FS_Interval
  <2>2. IsFiniteSet(T) /\ Cardinality(T) = size - 1
    BY <2>1, FS_RemoveElement
  <2>3. SUFFICES ASSUME \A i \in S : rank[i] # k PROVE FALSE
    OBVIOUS
  <2>4. rank \in [S -> T]
    <3>1. DOMAIN rank = S /\ rank = [i \in S |-> rank[i]]
      BY DEF rank
    <3>2. QED  BY <1>4, <2>3, <3>1
  <2>5. Cardinality(T) < Cardinality(S)
    BY <1>2, <2>2
  <2> HIDE DEF T
  <2>6. \E i, j \in S : i # j /\ rank[i] = rank[j]
    BY <1>2, <2>2, <2>4, <2>5, FS_PigeonHole
  <2>7. QED  BY <1>6, <2>6
<1>8. ASSUME NEW k \in 1..size PROVE Nth(S, k) \in S /\ rank[Nth(S, k)] = k
  <2>1. \E i \in S : Cardinality({j \in S : j <= i}) = k
    BY <1>7 DEF rank
  <2>2. QED  BY <2>1 DEF Nth, rank
<1>9. ASSUME NEW i \in S PROVE \E k \in 1..size : Nth(S, k) = i
  <2>1. rank[i] \in 1..size
    BY <1>4
  <2>2. Nth(S, rank[i]) \in S /\ rank[Nth(S, rank[i])] = rank[i]
    BY <1>8, <2>1
  <2>3. QED  BY <1>6, <2>1, <2>2
<1>10. QED  BY <1>2, <1>8, <1>9

LEMMA PickedRows ==
  ASSUME NEW f \in Seq(Row), NEW S \in SUBSET (DOMAIN f), NEW g, g = Picked(f, S)
  PROVE  /\ g \in Seq(Row) /\ Len(g) <= Len(f)
         /\ \A k \in DOMAIN g : Nth(S, k) \in S /\ g[k] = f[Nth(S, k)]
         /\ \A k, l \in DOMAIN g : Nth(S, k) = Nth(S, l) => k = l
         /\ \A i \in S : \E k \in DOMAIN g : Nth(S, k) = i
<1> DEFINE n == Cardinality(S)
<1>1. Len(f) \in Nat /\ DOMAIN f = 1..Len(f)
  OBVIOUS
<1>2. /\ n \in Nat /\ n <= Len(f)
      /\ \A k \in 1..n : Nth(S, k) \in S
      /\ \A k, l \in 1..n : Nth(S, k) = Nth(S, l) => k = l
      /\ \A i \in S : \E k \in 1..n : Nth(S, k) = i
  BY <1>1, NthIsOnto
<1>3. g = [k \in 1..n |-> f[Nth(S, k)]]
  BY DEF Picked
<1> HIDE DEF n
<1>4. g \in [1..n -> Row]
  BY <1>2, <1>3
<1>5. g \in Seq(Row) /\ Len(g) = n /\ DOMAIN g = 1..n
  BY <1>2, <1>3, <1>4
<1>6. QED  BY <1>2, <1>3, <1>5

\* supersede: the rows of other designs stay, once each.
LEMMA SupersededRows ==
  ASSUME NEW rows \in Seq(Row), NEW keys, NEW g, g = Superseded(rows, keys)
  PROVE  /\ g \in Seq(Row) /\ Len(g) <= Len(rows)
         /\ \A k \in DOMAIN g : \E i \in DOMAIN rows : g[k] = rows[i]
         /\ \A k \in DOMAIN g : g[k].design \notin keys
         /\ \A i \in DOMAIN rows :
              rows[i].design \notin keys => \E k \in DOMAIN g : g[k] = rows[i]
         /\ \A s : Sound(s, rows) => Sound(s, g)
<1> DEFINE S == {i \in DOMAIN rows : rows[i].design \notin keys}
<1>1. g = Picked(rows, S)
  BY DEF Superseded
<1>2. S \in SUBSET (DOMAIN rows) /\ \A i \in S : i \in DOMAIN rows /\ rows[i].design \notin keys
  OBVIOUS
<1>3. \A i \in DOMAIN rows : rows[i].design \notin keys => i \in S
  OBVIOUS
<1> HIDE DEF S
<1>4. /\ g \in Seq(Row) /\ Len(g) <= Len(rows)
      /\ \A k \in DOMAIN g : Nth(S, k) \in S /\ g[k] = rows[Nth(S, k)]
      /\ \A k, l \in DOMAIN g : Nth(S, k) = Nth(S, l) => k = l
      /\ \A i \in S : \E k \in DOMAIN g : Nth(S, k) = i
  BY <1>1, <1>2, PickedRows
<1>5. ASSUME NEW s, Sound(s, rows) PROVE Sound(s, g)
  <2>1. Leakless(s, g)
    BY <1>2, <1>4, <1>5 DEF Sound, Leakless
  <2>2. Once(g)
    BY <1>2, <1>4, <1>5, SMTT(30) DEF Sound, Once
  <2>3. QED  BY <2>1, <2>2 DEF Sound
<1>6. QED  BY <1>2, <1>3, <1>4, <1>5

LEMMA Earliest ==
  ASSUME NEW S \in SUBSET Nat, S # {}
  PROVE  \E m \in S : \A x \in S : ~(x < m)
<1> DEFINE Less == {ss \in Nat \X Nat : ss[1] < ss[2]}
<1>1. IsWellFoundedOn(Less, Nat)
  BY NatLessThanWellFounded DEF OpToRel
<1>2. \A x, m \in Nat : x < m => <<x, m>> \in Less
  OBVIOUS
<1> HIDE DEF Less
<1>3. PICK m \in S : \A x \in S : <<x, m>> \notin Less
  BY <1>1, WFMin
<1>4. QED  BY <1>2, <1>3

\* What is left after the duplicates are dropped: samples of the buffer, no
\* design twice and none that was seen, and nothing only if all were seen.
LEMMA FreshRows ==
  ASSUME NEW buffer \in Seq(Row), NEW seen, NEW g, g = DropDuplicates(buffer, seen)
  PROVE  /\ g \in Seq(Row)
         /\ \A k \in DOMAIN g : \E i \in DOMAIN buffer : g[k] = buffer[i]
         /\ \A k \in DOMAIN g : g[k].design \notin seen
         /\ \A k, l \in DOMAIN g : g[k].design = g[l].design => k = l
         /\ \A i \in DOMAIN buffer :
              buffer[i].design \notin seen => \E k \in DOMAIN g : g[k].design = buffer[i].design
         /\ g = <<>> => \A i \in DOMAIN buffer : buffer[i].design \in seen
<1> DEFINE S == {i \in DOMAIN buffer :
                   /\ buffer[i].design \notin seen
                   /\ \A j \in 1..i - 1 : buffer[j].design # buffer[i].design}
<1>1. g = Picked(buffer, S)
  BY DEF DropDuplicates
<1>2. S \in SUBSET (DOMAIN buffer) /\ DOMAIN buffer = 1..Len(buffer) /\ Len(buffer) \in Nat
  OBVIOUS
<1>3. \A i \in S : /\ i \in DOMAIN buffer /\ i \in Nat /\ buffer[i].design \notin seen
                   /\ \A j \in 1..i - 1 : buffer[j].design # buffer[i].design
  BY <1>2
<1>4. \A i \in DOMAIN buffer :
        buffer[i].design \notin seen
          /\ (\A j \in 1..i - 1 : buffer[j].design # buffer[i].design) => i \in S
  OBVIOUS
<1> HIDE DEF S
<1>5. /\ g \in Seq(Row)
      /\ \A k \in DOMAIN g : Nth(S, k) \in S /\ g[k] = buffer[Nth(S, k)]
      /\ \A k, l \in DOMAIN g : Nth(S, k) = Nth(S, l) => k = l
      /\ \A i \in S : \E k \in DOMAIN g : Nth(S, k) = i
  BY <1>1, <1>2, PickedRows
<1>6. ASSUME NEW i \in S, NEW j \in S, buffer[i].design = buffer[j].design PROVE i = j
  <2>1. i \in Nat /\ j \in Nat /\ i \in 1..Len(buffer) /\ j \in 1..Len(buffer)
    BY <1>2, <1>3
  <2>2. ~(i < j)
    <3>1. i < j => i \in 1..j - 1
      BY <2>1
    <3>2. QED  BY <1>3, <1>6, <3>1
  <2>3. ~(j < i)
    <3>1. j < i => j \in 1..i - 1
      BY <2>1
    <3>2. QED  BY <1>3, <1>6, <3>1
  <2>4. QED  BY <2>1, <2>2, <2>3
<1>7. ASSUME NEW i \in DOMAIN buffer, buffer[i].design \notin seen
      PROVE  \E k \in DOMAIN g : g[k].design = buffer[i].design
  <2> DEFINE T == {j \in DOMAIN buffer : buffer[j].design = buffer[i].design}
  <2>1. T \in SUBSET Nat /\ T # {}
    BY <1>2
  <2>2. PICK m \in T : \A x \in T : ~(x < m)
    <3> HIDE DEF T
    <3>1. QED  BY <2>1, Earliest
  <2>3. m \in DOMAIN buffer /\ buffer[m].design = buffer[i].design
    OBVIOUS
  <2>4. ASSUME NEW j \in 1..m - 1 PROVE buffer[j].design # buffer[m].design
    <3>1. j \in DOMAIN buffer /\ j < m
      BY <1>2, <2>3
    <3>2. QED  BY <2>2, <2>3, <3>1
  <2>5. m \in S
    BY <1>4, <1>7, <2>3, <2>4
  <2>6. QED  BY <1>5, <2>3, <2>5
<1>8. g = <<>> => DOMAIN g = {}
  OBVIOUS
<1>9. QED  BY <1>3, <1>5, <1>6, <1>7, <1>8

-----------------------------------------------------------------------------
(* Rows put behind rows.                                                   *)

\* m is rows followed by fresh.
Extended(m, rows, fresh) ==
  /\ m \in Seq(Row) /\ Len(m) = Len(rows) + Len(fresh)
  /\ DOMAIN m = 1..Len(m) /\ DOMAIN rows = 1..Len(rows) /\ Len(rows) \in Nat
  /\ DOMAIN fresh = 1..Len(fresh) /\ Len(fresh) \in Nat
  /\ \A i \in DOMAIN rows : i \in DOMAIN m /\ m[i] = rows[i]
  /\ \A k \in DOMAIN fresh : Len(rows) + k \in DOMAIN m /\ m[Len(rows) + k] = fresh[k]
  /\ \A i \in DOMAIN m : i \in DOMAIN rows \/ \E k \in DOMAIN fresh : i = Len(rows) + k

LEMMA Joined ==
  ASSUME NEW rows \in Seq(Row), NEW fresh \in Seq(Row)
  PROVE  Extended(rows \o fresh, rows, fresh)
<1> DEFINE m == rows \o fresh
<1>1. /\ m \in Seq(Row) /\ Len(m) = Len(rows) + Len(fresh)
      /\ DOMAIN m = 1..Len(m) /\ DOMAIN rows = 1..Len(rows) /\ Len(rows) \in Nat
      /\ DOMAIN fresh = 1..Len(fresh) /\ Len(fresh) \in Nat
  OBVIOUS
<1>2. \A i \in DOMAIN rows : i \in DOMAIN m /\ m[i] = rows[i]
  OBVIOUS
<1>3. \A k \in DOMAIN fresh : Len(rows) + k \in DOMAIN m /\ m[Len(rows) + k] = fresh[k]
  OBVIOUS
<1>4. ASSUME NEW i \in DOMAIN m, i \notin DOMAIN rows
      PROVE  \E k \in DOMAIN fresh : i = Len(rows) + k
  <2>1. i - Len(rows) \in DOMAIN fresh /\ i = Len(rows) + (i - Len(rows))
    BY <1>1, <1>4
  <2>2. QED  BY <2>1
<1> HIDE DEF m
<1>5. Extended(m, rows, fresh)
  BY <1>1, <1>2, <1>3, <1>4 DEF Extended
<1>6. QED  BY <1>5 DEF m

\* New rows of one author keep a list sound when it had none of his for their
\* designs; rows of the pool and of agents do so in any case.
LEMMA SoundJoined ==
  ASSUME NEW rows \in Seq(Row), NEW fresh \in Seq(Row), NEW m, Extended(m, rows, fresh),
         NEW s, NEW id, Sound(s, rows),
         \A k \in DOMAIN fresh : fresh[k].by = id,
         \/ id \in {PoolId, Nobody}
         \/ /\ \A k \in DOMAIN fresh : <<s, fresh[k].oracle>> \in registered
            /\ \A k \in DOMAIN fresh, i \in DOMAIN rows :
                 ~(rows[i].by = id /\ rows[i].design = fresh[k].design)
            /\ \A k, l \in DOMAIN fresh : fresh[k].design = fresh[l].design => k = l
  PROVE  Sound(s, m)
<1>1. /\ \A i \in DOMAIN rows : i \in DOMAIN m /\ m[i] = rows[i]
      /\ \A k \in DOMAIN fresh : Len(rows) + k \in DOMAIN m /\ m[Len(rows) + k] = fresh[k]
      /\ \A i \in DOMAIN m : i \in DOMAIN rows \/ \E k \in DOMAIN fresh : i = Len(rows) + k
  BY DEF Extended
<1>2. {PoolId, Nobody} \cap (Ids \cup {ReplayId}) = {}
  BY IdAssumption DEF PoolId, Nobody, ReplayId
<1>3. Leakless(s, m)
  <2> SUFFICES ASSUME NEW i \in DOMAIN m, m[i].by \notin {PoolId, Nobody}
               PROVE  <<s, m[i].oracle>> \in registered
    BY DEF Leakless
  <2>1. CASE i \in DOMAIN rows
    BY <1>1, <2>1 DEF Sound, Leakless
  <2>2. CASE \E k \in DOMAIN fresh : i = Len(rows) + k
    <3>1. PICK k \in DOMAIN fresh : m[i] = fresh[k]
      BY <1>1, <2>2
    <3>2. QED  BY <3>1
  <2>3. QED  BY <1>1, <2>1, <2>2
<1>4. Once(m)
  <2> SUFFICES ASSUME NEW i \in DOMAIN m, NEW j \in DOMAIN m,
                      m[i].by = m[j].by, m[i].design = m[j].design,
                      m[i].by \in Ids \cup {ReplayId}
               PROVE  i = j
    BY DEF Once
  <2>1. CASE i \in DOMAIN rows /\ j \in DOMAIN rows
    BY <1>1, <2>1 DEF Sound, Once
  <2>2. CASE i \in DOMAIN rows /\ \E k \in DOMAIN fresh : j = Len(rows) + k
    <3>1. PICK k \in DOMAIN fresh : m[j] = fresh[k]
      BY <1>1, <2>2
    <3>2. m[i] = rows[i]
      BY <1>1, <2>2
    <3>3. rows[i].by = id /\ rows[i].design = fresh[k].design /\ id \in Ids \cup {ReplayId}
      BY <3>1, <3>2
    <3>4. QED  BY <1>2, <2>2, <3>1, <3>3
  <2>3. CASE j \in DOMAIN rows /\ \E k \in DOMAIN fresh : i = Len(rows) + k
    <3>1. PICK k \in DOMAIN fresh : m[i] = fresh[k]
      BY <1>1, <2>3
    <3>2. m[j] = rows[j]
      BY <1>1, <2>3
    <3>3. QED  BY <1>2, <2>3, <3>1, <3>2
  <2>4. CASE /\ \E k \in DOMAIN fresh : i = Len(rows) + k
             /\ \E k \in DOMAIN fresh : j = Len(rows) + k
    <3>1. PICK k \in DOMAIN fresh : i = Len(rows) + k
      BY <2>4
    <3>2. PICK l \in DOMAIN fresh : j = Len(rows) + l
      BY <2>4
    <3>3. m[i] = fresh[k] /\ m[j] = fresh[l]
      BY <1>1, <3>1, <3>2
    <3>4. k = l
      BY <1>2, <3>3
    <3>5. QED  BY <3>1, <3>2, <3>4
  <2>5. QED  BY <1>1, <2>1, <2>2, <2>3, <2>4
<1>5. QED  BY <1>3, <1>4 DEF Sound

LEMMA CoversMore ==
  ASSUME NEW rows, NEW m, \A i \in DOMAIN rows : \E j \in DOMAIN m : m[j] = rows[i],
         NEW a, Covers(rows, a)
  PROVE  Covers(m, a)
BY DEF Covers, ToSet

LEMMA HeldMore ==
  ASSUME NEW rows, NEW m, \A i \in DOMAIN rows : \E j \in DOMAIN m : m[j] = rows[i],
         NEW a, Held(rows, a)
  PROVE  Held(m, a)
<1>1. DesignsOf(rows) \subseteq DesignsOf(m)
  BY DEF DesignsOf, ToSet
<1>2. Covers(rows, a) => Covers(m, a)
  BY CoversMore
<1>3. QED  BY <1>1, <1>2 DEF Held

\* The pool adds rows of its own, or leaves the table as it is.
LEMMA Ingested ==
  ASSUME NEW t \in OnDisk, Whole(t), NEW s, Sound(s, t.rows), NEW u, u = IngestPool(t)
  PROVE  /\ u \in OnDisk /\ Whole(u) /\ Sound(s, u.rows) /\ t.jobs <= u.jobs
         /\ \A i \in DOMAIN t.rows : \E j \in DOMAIN u.rows : u.rows[j] = t.rows[i]
         /\ \A i \in DOMAIN u.rows \ DOMAIN t.rows : u.rows[i].by = PoolId
<1> DEFINE P == {[by |-> PoolId, design |-> x, oracle |-> NoOracle] : x \in Pool}
           pool == PoolRows
           m == t.rows \o pool
<1>1. IsFiniteSet(P)
  <2> DEFINE f == [x \in Pool |-> [by |-> PoolId, design |-> x, oracle |-> NoOracle]]
  <2>1. f \in [Pool -> P] /\ \A y \in P : \E x \in Pool : f[x] = y
    OBVIOUS
  <2> HIDE DEF f, P
  <2>2. f \in Surjection(Pool, P)
    BY <2>1 DEF Surjection
  <2>3. QED  BY <2>2, PoolAssumption, FS_Surjection
<1>2. pool \in Seq(P)
  <2> DEFINE n == Cardinality(P)
  <2>1. n \in Nat /\ ExistsBijection(1..n, P)
    <3> HIDE DEF P
    <3>1. QED  BY <1>1, FS_CardinalityType
  <2>2. pool = CHOOSE f \in [1..n -> P] : IsInjective(f)
    BY DEF PoolRows, SetToSeq
  <2> HIDE DEF n, P
  <2>3. \E f \in [1..n -> P] : IsInjective(f)
    BY <2>1 DEF ExistsBijection, Bijection, Injection, IsInjective
  <2>4. pool \in [1..n -> P]
    BY <2>2, <2>3
  <2>5. QED  BY <2>1, <2>4
<1>3. P \subseteq Row
  BY DEF Row, Oracles
<1>4. pool \in Seq(Row) /\ \A k \in DOMAIN pool : pool[k] \in P
  BY <1>2, <1>3
<1>5. \A k \in DOMAIN pool : pool[k].by = PoolId
  BY <1>4
<1>6. t.rows \in Seq(Row) /\ t.jobs \in Nat /\ Len(t.rows) \in Nat
  BY DEF OnDisk
<1> HIDE DEF pool, P
<1>7. Extended(m, t.rows, pool)
  BY <1>4, <1>6, Joined
<1>8. Sound(s, m)
  <2> HIDE DEF m
  <2>1. QED  BY <1>4, <1>5, <1>6, <1>7, SoundJoined
<1> HIDE DEF m
<1>9. CASE u = t
  BY <1>9, <1>6
<1>10. CASE u = Table(m) /\ Len(m) >= t.jobs
  <2>1. u.rows = m /\ u.jobs = Len(m) /\ u.state = "ok" /\ u \in OnDisk
    BY <1>7, <1>10 DEF Table, OnDisk, Extended
  <2>2. \A i \in DOMAIN m \ DOMAIN t.rows : m[i].by = PoolId
    BY <1>5, <1>7 DEF Extended
  <2>3. \A i \in DOMAIN t.rows : m[i] = t.rows[i] /\ i \in DOMAIN m
    BY <1>7 DEF Extended
  <2>4. t.jobs <= u.jobs
    BY <1>6, <1>7, <1>10, <2>1 DEF Extended
  <2>5. QED  BY <1>8, <2>1, <2>2, <2>3, <2>4 DEF Whole
<1>11. QED  BY <1>9, <1>10 DEF IngestPool, m, pool

-----------------------------------------------------------------------------
(* What an operation has to show: of the tables, and of the campaigns.     *)

LEMMA PlaceFacts ==
  /\ Live \subseteq Places
  /\ \A p \in Live : p[1] = "live" /\ p[2] \in Stores
  /\ \A p \in Places : p[1] \in Copies /\ p[2] \in Stores
  /\ \A g \in Gates, s \in Stores : <<g, s>> \in Places /\ <<g, s>> \notin Live
  /\ \A k \in Copies, s \in Stores : StoreDir(k, s) \in Places /\ StoreDir(k, s)[2] = s
  /\ \A s \in Stores : StoreDir("live", s) = <<"live", s>> /\ StoreDir("live", s) \in Live
  /\ Base \in Live
BY NameAssumption DEF Live, Places, Copies, Stores, StoreDir, Base

LEMMA SoundGrows ==
  ASSUME registered \subseteq registered', NEW s, NEW rows, Sound(s, rows)
  PROVE  Sound(s, rows)'
BY DEF Sound, Leakless, Once

LEMMA MarkedGrows ==
  ASSUME NEW p, NEW rows \in Seq(Row), Marked(p, rows),
         disk[p].jobs \in Nat, disk'[p].jobs \in Nat, disk[p].jobs <= disk'[p].jobs
  PROVE  Marked(p, rows)'
<1>1. \A i \in DOMAIN rows : i \in Nat
  OBVIOUS
<1>2. \A i \in Nat : i <= disk[p].jobs => i <= disk'[p].jobs
  OBVIOUS
<1>3. QED  BY <1>1, <1>2 DEF Marked

JobsGrow == \A p \in Live : disk[p].jobs <= disk'[p].jobs

LEMMA JobsTyped ==
  ASSUME Typed
  PROVE  \A p \in Places : disk[p] \in OnDisk /\ disk[p].jobs \in Nat /\ disk[p].rows \in Seq(Row)
BY DEF Typed, OnDisk

LEMMA JobsTypedNext ==
  ASSUME Typed'
  PROVE  \A p \in Places : disk'[p] \in OnDisk /\ disk'[p].jobs \in Nat
BY DEF Typed, OnDisk

LEMMA CampaignTyped ==
  ASSUME Typed
  PROVE  \A c \in Campaigns :
           /\ campaign[c] \in Campaign /\ campaign[c].at \in Live /\ campaign[c].at \in Places
           /\ campaign[c].merged \in Seq(Row) /\ campaign[c].buffer \in Seq(Row)
           /\ campaign[c].keys \subseteq Designs /\ campaign[c].by \in Ids \cup {Nobody}
           /\ campaign[c].oracle \in Oracles /\ campaign[c].scope \in {"delegation", "all"}
BY PlaceFacts DEF Typed, Campaign

\* An acknowledged evaluation that was one before, no less superseded.
Standing(a) ==
  /\ a \in acked \ excused
  /\ a \in superseded => a \in superseded'
  /\ a \in unreplaced => a \in unreplaced'

\* A campaign that stays inside the lock keeps what it has merged, as long as
\* nobody else acknowledges anything at its table.
LEMMA MergedStays ==
  ASSUME Typed, Typed', NEW c \in Campaigns, MergedBy(c),
         campaign'[c].pc = "storing" => campaign'[c] = campaign[c],
         registered \subseteq registered', JobsGrow,
         \A a \in acked' \ excused' : a.at = campaign[c].at => Standing(a)
  PROVE  MergedBy(c)'
<1> SUFFICES ASSUME campaign'[c].pc = "storing" PROVE MergedBy(c)'
  BY DEF MergedBy
<1>1. campaign'[c] = campaign[c] /\ campaign[c].pc = "storing"
  OBVIOUS
<1>2. PICK p, m, b, keys : p = campaign[c].at /\ m = campaign[c].merged
                           /\ b = campaign[c].buffer /\ keys = campaign[c].keys
  OBVIOUS
<1>3. m \in Seq(Row) /\ p \in Live /\ p \in Places
  BY <1>2, CampaignTyped
<1>4. /\ Sound(p[2], m) /\ Marked(p, m)
      /\ \A i \in DOMAIN b : \E j \in DOMAIN m : m[j] = b[i]
      /\ \A a \in acked \ excused : a.at = p /\ a.design \notin keys => Held(m, a)
  BY <1>1, <1>2 DEF MergedBy, MergedAs
<1>5. Sound(p[2], m)'
  BY <1>4, SoundGrows
<1>6. Marked(p, m)'
  <2>1. disk[p].jobs \in Nat /\ disk'[p].jobs \in Nat /\ disk[p].jobs <= disk'[p].jobs
    BY <1>3, JobsTyped, JobsTypedNext DEF JobsGrow
  <2>2. QED  BY <1>3, <1>4, <2>1, MarkedGrows
<1>7. \A a \in acked' \ excused' : a.at = p /\ a.design \notin keys => Held(m, a)'
  BY <1>2, <1>4 DEF Standing, Held, Covers, DesignsOf
<1>8. /\ campaign'[c].at = p /\ campaign'[c].merged = m
      /\ campaign'[c].buffer = b /\ campaign'[c].keys = keys
  BY <1>1, <1>2
<1>9. QED
  BY <1>4, <1>5, <1>6, <1>7, <1>8 DEF MergedBy, MergedAs, Sound, Leakless, Once, Marked, Held, Covers, DesignsOf

\* What the buffer of a campaign is stamped with.
StampOf(r) ==
  r.pc # "off" =>
    /\ r.by \in Ids /\ <<r.at[2], r.oracle>> \in registered
    /\ \A i \in DOMAIN r.buffer : r.buffer[i].by = r.by /\ r.buffer[i].oracle = r.oracle
    /\ r.keys \ r.raised \subseteq DesignsOf(r.buffer)

\* One campaign moves and is not in the lock afterwards.
LEMMA CampaignLeaves ==
  ASSUME Typed, Typed', Stamped, Exclusive, Merging, NEW c \in Campaigns, NEW r \in Campaign,
         campaign' = [campaign EXCEPT ![c] = r], r.pc # "storing", StampOf(r),
         registered' = registered, JobsGrow,
         \A e \in Campaigns \ {c} : campaign[e].pc = "storing" =>
           \A a \in acked' \ excused' : a.at = campaign[e].at => Standing(a)
  PROVE  Stamped' /\ Exclusive' /\ Merging'
<1>1. campaign'[c] = r /\ \A e \in Campaigns \ {c} : campaign'[e] = campaign[e]
  BY DEF Typed
<1>2. Stamped'
  BY <1>1 DEF Stamped, StampOf
<1>3. Exclusive'
  BY <1>1 DEF Exclusive
<1>4. ASSUME NEW e \in Campaigns PROVE MergedBy(e)'
  <2>1. CASE e = c
    BY <1>1, <2>1 DEF MergedBy
  <2>2. CASE e # c /\ campaign[e].pc = "storing"
    <3>1. MergedBy(e) /\ campaign'[e] = campaign[e]
      BY <1>1, <2>2 DEF Merging
    <3>2. \A a \in acked' \ excused' : a.at = campaign[e].at => Standing(a)
      BY <2>2
    <3>3. registered \subseteq registered'
      OBVIOUS
    <3>4. QED  BY <3>1, <3>2, <3>3, MergedStays
  <2>3. CASE e # c /\ campaign[e].pc # "storing"
    BY <1>1, <2>3 DEF MergedBy
  <2>4. QED  BY <2>1, <2>2, <2>3
<1>5. QED  BY <1>2, <1>3, <1>4 DEF Merging

\* No campaign moves.
LEMMA CampaignsStay ==
  ASSUME Typed, Typed', Stamped, Exclusive, Merging, campaign' = campaign,
         registered \subseteq registered', JobsGrow,
         \A e \in Campaigns : campaign[e].pc = "storing" =>
           \A a \in acked' \ excused' : a.at = campaign[e].at => Standing(a)
  PROVE  Stamped' /\ Exclusive' /\ Merging'
<1>1. Stamped' /\ Exclusive'
  BY DEF Stamped, Exclusive
<1>2. ASSUME NEW e \in Campaigns PROVE MergedBy(e)'
  <2>1. CASE campaign[e].pc = "storing"
    <3>1. MergedBy(e) /\ campaign'[e] = campaign[e]
      BY DEF Merging
    <3>2. QED  BY <2>1, <3>1, MergedStays
  <2>2. CASE campaign[e].pc # "storing"
    BY <2>2 DEF MergedBy
  <2>3. QED  BY <2>1, <2>2
<1>3. QED  BY <1>1, <1>2 DEF Merging

\* What an agent loaded stays sound.
LEMMA AgentKeeps ==
  ASSUME Typed, Typed', AgentCopied, agentCopy' = agentCopy,
         registered \subseteq registered', JobsGrow
  PROVE  AgentCopied'
<1>1. PICK p, rows : p = agentCopy.at /\ rows = agentCopy.rows
  OBVIOUS
<1>2. p \in Live /\ p \in Places /\ rows \in Seq(Row)
  BY <1>1, PlaceFacts DEF Typed
<1>3. disk[p].jobs \in Nat /\ disk'[p].jobs \in Nat /\ disk[p].jobs <= disk'[p].jobs
  BY <1>2, JobsTyped, JobsTypedNext DEF JobsGrow
<1>4. Sound(p[2], rows) /\ Marked(p, rows)
  BY <1>1 DEF AgentCopied
<1>5. Sound(p[2], rows)' /\ Marked(p, rows)'
  BY <1>2, <1>3, <1>4, SoundGrows, MarkedGrows
<1>6. agentCopy'.at = p /\ agentCopy'.rows = rows
  BY <1>1
<1>7. QED  BY <1>5, <1>6 DEF AgentCopied, Sound, Leakless, Once, Marked

LEMMA NothingOnDisk ==
  ASSUME Typed, Tables, disk' = disk, registered \subseteq registered'
  PROVE  Tables' /\ JobsGrow
<1>1. JobsGrow
  BY JobsTyped, PlaceFacts DEF JobsGrow
<1>2. ASSUME NEW p \in Places PROVE (Sound(p[2], disk[p].rows) /\ Whole(disk[p]))'
  <2>1. PICK t : t = disk[p]
    OBVIOUS
  <2>2. Sound(p[2], t.rows) /\ Whole(t)
    BY <2>1 DEF Tables
  <2>3. Sound(p[2], t.rows)'
    BY <2>2, SoundGrows
  <2>4. disk'[p] = t
    BY <2>1
  <2>5. QED  BY <2>2, <2>3, <2>4 DEF Sound, Leakless, Once, Whole
<1>3. QED  BY <1>1, <1>2 DEF Tables

\* One table is written, by rows that are sound and no fewer than were marked.
LEMMA TableWritten ==
  ASSUME Typed, Tables, Sandboxes, NEW p \in Places, NEW t \in OnDisk, Whole(t),
         Sound(p[2], t.rows), disk' = [disk EXCEPT ![p] = t],
         registered' = registered, gate' = gate,
         p \in Live => disk[p].jobs <= t.jobs,
         p \notin Live => gate[p[1]].pc \in Executing
  PROVE  Tables' /\ Sandboxes' /\ JobsGrow /\ disk' \in [Places -> OnDisk]
<1>1. disk' \in [Places -> OnDisk]
  BY DEF Typed
<1>2. disk'[p] = t /\ \A q \in Places \ {p} : disk'[q] = disk[q]
  BY DEF Typed
<1>3. JobsGrow
  <2>1. ASSUME NEW q \in Live PROVE disk[q].jobs <= disk'[q].jobs
    <3>1. q \in Places /\ disk[q].jobs \in Nat
      BY JobsTyped, PlaceFacts
    <3>2. QED  BY <1>2, <3>1
  <2>2. QED  BY <2>1 DEF JobsGrow
<1>4. Sandboxes'
  <2>1. ASSUME NEW g \in Gates, NEW s \in Stores, gate'[g].pc \notin Executing
        PROVE  disk'[<<g, s>>] = Absent
    <3>1. <<g, s>> \in Places /\ <<g, s>> \notin Live /\ disk[<<g, s>>] = Absent
      BY <2>1, PlaceFacts DEF Sandboxes
    <3>2. <<g, s>> # p
      BY <2>1, <3>1
    <3>3. QED  BY <1>2, <3>1, <3>2
  <2>2. QED  BY <2>1 DEF Sandboxes
<1>5. ASSUME NEW q \in Places PROVE (Sound(q[2], disk[q].rows) /\ Whole(disk[q]))'
  <2>1. PICK u : u = disk'[q]
    OBVIOUS
  <2>2. Sound(q[2], u.rows) /\ Whole(u)
    BY <1>2, <2>1 DEF Tables
  <2>3. Sound(q[2], u.rows)'
    BY <2>2, SoundGrows
  <2>4. QED  BY <2>1, <2>2, <2>3, SMTT(30) DEF Sound, Leakless, Once, Whole
<1>6. QED  BY <1>1, <1>3, <1>4, <1>5 DEF Tables

-----------------------------------------------------------------------------
(* The invariant, one operation at a time.                                 *)

LEMMA Starts == Init => IndInv
<1> SUFFICES ASSUME Init PROVE IndInv
  OBVIOUS
<1> USE DEF Init
<1>1. PICK t : t = IngestPool(Absent)
  OBVIOUS
<1>2. Absent \in OnDisk /\ Whole(Absent) /\ \A s : Sound(s, Absent.rows)
  BY DEF Absent, OnDisk, Whole, Sound, Leakless, Once
<1>3. t \in OnDisk /\ Whole(t) /\ \A s : Sound(s, t.rows)
  BY <1>1, <1>2, Ingested
<1>4. \A p \in Places : disk[p] \in {t, Absent}
  BY <1>1
<1>5. Tables
  BY <1>2, <1>3, <1>4 DEF Tables
<1>6. Sandboxes
  BY PlaceFacts DEF Sandboxes
<1>7. Configured
  BY DEF Configured, Known, NoOracles, NoCall
<1>8. Stamped /\ Exclusive /\ Merging /\ Covered
  BY DEF Stamped, Exclusive, Merging, MergedBy, Covered, Off
<1>9. AgentCopied
  BY DEF AgentCopied, NoCopy, Sound, Leakless, Once, Marked
<1>10. Typed
  <2>1. disk \in [Places -> OnDisk]
    BY <1>2, <1>3, <1>1
  <2>2. config \in [Copies -> [Stores -> Oracles]]
    <3>1. NoOracles \in [Stores -> Oracles] /\ Declared \in Oracles
      BY OracleAssumption DEF NoOracles, Oracles
    <3>2. \A v \in Oracles : [NoOracles EXCEPT !["base"] = v] \in [Stores -> Oracles]
      BY <3>1
    <3>3. NoOracle \in Oracles
      BY DEF Oracles
    <3>4. QED  BY <3>1, <3>2, <3>3
  <2>3. environ \in Copies /\ acked \subseteq Ackable
    BY DEF Copies
  <2>4. campaign \in [Campaigns -> Campaign]
    BY PlaceFacts DEF Campaign, Off, Oracles
  <2>5. agentCopy \in [at : Live, rows : Seq(Row)]
    BY PlaceFacts DEF NoCopy
  <2>6. registrar \in [Registrars -> [pc : {"idle", "read"}, read : [Stores -> Oracles]]]
    BY DEF NoCall, NoOracles, Oracles
  <2>7. gate \in [Gates -> [pc : {"idle", "copying"} \cup Executing, saved : Copies]]
    BY DEF NoGate, Copies
  <2>8. QED  BY <2>1, <2>2, <2>3, <2>4, <2>5, <2>6, <2>7 DEF Typed
<1>11. QED  BY <1>5, <1>6, <1>7, <1>8, <1>9, <1>10 DEF IndInv

\* Operations of one campaign that neither touch a table nor acknowledge.
LEMMA CampaignAlone ==
  ASSUME IndInv, NEW c \in Campaigns, NEW r \in Campaign,
         campaign' = [campaign EXCEPT ![c] = r], r.pc # "storing", StampOf(r),
         UNCHANGED <<disk, config, environ, agentCopy, registrar, gate, ledgered,
                     registered>>
  PROVE  IndInv'
<1> USE DEF IndInv
<1>1. Typed'
  BY DEF Typed
<1>2. Tables' /\ JobsGrow
  BY NothingOnDisk
<1>3. Stamped' /\ Exclusive' /\ Merging'
  <2>1. \A a \in acked' \ excused' : Standing(a)
    BY DEF Standing
  <2>2. QED  BY <1>1, <1>2, <2>1, CampaignLeaves
<1>4. AgentCopied'
  BY <1>1, <1>2, AgentKeeps
<1>5. Sandboxes' /\ Configured' /\ Covered'
  BY DEF Sandboxes, Configured, Known, Covered, Held, Covers, DesignsOf
<1>6. QED  BY <1>1, <1>2, <1>3, <1>4, <1>5

LEMMA LaunchStep ==
  ASSUME IndInv, NEW c \in Campaigns, NEW d \in Ids, NEW s \in Stores, Launch(c, d, s)
  PROVE  IndInv'
<1> DEFINE r == [Off EXCEPT !.pc = "idle", !.by = d, !.at = StoreDir("live", s),
                   !.oracle = EffectiveOracle("live", s), !.scope = DedupScope]
<1>1. /\ campaign' = [campaign EXCEPT ![c] = r] /\ config["live"][s] # NoOracle
      /\ UNCHANGED <<disk, config, environ, agentCopy, registrar, gate, ledgered,
                     registered>>
  BY DEF Launch, HasOracle, EffectiveOracle
<1>2. r = [pc |-> "idle", by |-> d, at |-> <<"live", s>>, oracle |-> config["live"][s],
           scope |-> DedupScope, buffer |-> <<>>, keys |-> {}, raised |-> {}, merged |-> <<>>]
  <2>1. StoreDir("live", s) = <<"live", s>>
    BY PlaceFacts
  <2>2. EffectiveOracle("live", s) = config["live"][s]
    BY DEF EffectiveOracle
  <2>3. PICK off : off = Off
    OBVIOUS
  <2>4. PICK at, oracle, scope : at = StoreDir("live", s) /\ scope = DedupScope
                                 /\ oracle = EffectiveOracle("live", s)
    OBVIOUS
  <2>5. r = [off EXCEPT !.pc = "idle", !.by = d, !.at = at, !.oracle = oracle,
               !.scope = scope]
    BY <2>3, <2>4
  <2> HIDE DEF r
  <2>6. r = [pc |-> "idle", by |-> d, at |-> at, oracle |-> oracle, scope |-> scope,
             buffer |-> <<>>, keys |-> {}, raised |-> {}, merged |-> <<>>]
    BY <2>3, <2>5 DEF Off
  <2>7. QED  BY <2>1, <2>2, <2>4, <2>6
<1>3. r \in Campaign
  <2>1. config["live"][s] \in Oracles /\ <<"live", s>> \in Live
    BY PlaceFacts DEF IndInv, Typed, Copies, Live
  <2>2. DedupScope \in {"delegation", "all"}
    BY DEF DedupScope
  <2> HIDE DEF r
  <2>3. QED  BY <1>2, <2>1, <2>2 DEF Campaign
<1>4. StampOf(r)
  <2>1. <<s, config["live"][s]>> \in registered
    BY <1>1 DEF IndInv, Configured, Known, Copies
  <2> HIDE DEF r
  <2>2. QED  BY <1>2, <2>1 DEF StampOf
<1> HIDE DEF r
<1>5. r.pc # "storing"
  BY <1>2
<1>6. QED  BY <1>1, <1>3, <1>4, <1>5, CampaignAlone

LEMMA ExecuteStep ==
  ASSUME IndInv, NEW c \in Campaigns, NEW x \in Designs, Execute(c, x)
  PROVE  IndInv'
<1>1. PICK k : k = campaign[c]
  OBVIOUS
<1>2. k \in Campaign /\ k.pc = "idle" /\ StampOf(k)
  BY <1>1 DEF IndInv, Typed, Execute, Stamped, StampOf
<1>3. k.buffer \in Seq(Row) /\ k.keys \subseteq Designs /\ k.raised \subseteq Designs
  BY <1>2 DEF Campaign
<1>4. UNCHANGED <<disk, config, environ, agentCopy, registrar, gate, ledgered,
                  registered>>
  BY DEF Execute, Answers, Raises
<1>5. CASE Raises(c, x)
  <2> DEFINE keys == k.keys \cup {x}
             raised == k.raised \cup ({x} \ DesignsOf(k.buffer))
             r == [k EXCEPT !.keys = keys, !.raised = raised]
  <2>1. campaign' = [campaign EXCEPT ![c] = r]
    <3>1. campaign' = [campaign EXCEPT ![c] =
            [campaign[c] EXCEPT !.keys = campaign[c].keys \cup {x},
               !.raised = campaign[c].raised \cup ({x} \ DesignsOf(campaign[c].buffer))]]
      BY <1>5 DEF Raises
    <3>2. QED  BY <1>1, <3>1
  <2>2. keys \subseteq Designs /\ raised \subseteq Designs
    BY <1>3
  <2>3. k.keys \ k.raised \subseteq DesignsOf(k.buffer)
    BY <1>2 DEF StampOf
  <2>4. keys \ raised \subseteq DesignsOf(k.buffer)
    BY <2>3
  <2> HIDE DEF keys, raised
  <2>5. /\ r \in Campaign /\ r.pc = "idle" /\ r.by = k.by /\ r.at = k.at
        /\ r.oracle = k.oracle /\ r.buffer = k.buffer /\ r.keys = keys /\ r.raised = raised
    BY <1>2, <2>2 DEF Campaign
  <2> HIDE DEF r
  <2>6. StampOf(r)
    BY <1>2, <2>4, <2>5 DEF StampOf
  <2>7. QED  BY <1>4, <2>1, <2>5, <2>6, CampaignAlone
<1>6. ASSUME NEW more \in {{}, {x}}, Answers(c, x, more) PROVE IndInv'
  <2> DEFINE q == Sample(c, x)
             b == Append(k.buffer, q)
             keys == k.keys \cup more
             raised == k.raised \ {x}
             r == [k EXCEPT !.keys = keys, !.raised = raised, !.pc = "flushing",
                            !.buffer = b]
  <2>1. q.by = k.by /\ q.oracle = k.oracle /\ q \in Row /\ q.design = x
    BY <1>1, <1>2 DEF Sample, Row, Campaign
  <2>2. campaign' = [campaign EXCEPT ![c] = r]
    <3>1. campaign' = [campaign EXCEPT ![c] =
            [campaign[c] EXCEPT !.keys = campaign[c].keys \cup more,
               !.raised = campaign[c].raised \ {x}, !.pc = "flushing",
               !.buffer = Append(campaign[c].buffer, Sample(c, x))]]
      BY <1>6 DEF Answers
    <3>2. QED  BY <1>1, <3>1
  <2>3. keys \subseteq Designs /\ raised \subseteq Designs
    BY <1>3
  <2> HIDE DEF q
  <2>4. /\ b \in Seq(Row) /\ Len(k.buffer) + 1 \in DOMAIN b /\ b[Len(k.buffer) + 1] = q
        /\ \A i \in DOMAIN k.buffer : i \in DOMAIN b /\ b[i] = k.buffer[i]
        /\ \A i \in DOMAIN b : b[i] = q \/ (i \in DOMAIN k.buffer /\ b[i] = k.buffer[i])
    BY <1>3, <2>1
  <2> HIDE DEF b
  <2>5. \A i \in DOMAIN b : b[i].by = k.by /\ b[i].oracle = k.oracle
    BY <1>2, <2>1, <2>4 DEF StampOf
  <2>6. keys \ raised \subseteq DesignsOf(b)
    <3>1. k.keys \ k.raised \subseteq DesignsOf(k.buffer)
      BY <1>2 DEF StampOf
    <3>2. DesignsOf(k.buffer) \subseteq DesignsOf(b)
      BY <2>4 DEF DesignsOf, ToSet
    <3>3. x \in DesignsOf(b)
      BY <2>1, <2>4 DEF DesignsOf, ToSet
    <3>4. QED  BY <3>1, <3>2, <3>3
  <2> HIDE DEF keys, raised
  <2>7. /\ r \in Campaign /\ r.pc = "flushing" /\ r.by = k.by /\ r.at = k.at
        /\ r.oracle = k.oracle /\ r.buffer = b /\ r.keys = keys /\ r.raised = raised
    BY <1>2, <2>3, <2>4 DEF Campaign
  <2> HIDE DEF r
  <2>8. StampOf(r)
    BY <1>2, <2>5, <2>6, <2>7 DEF StampOf
  <2>9. QED  BY <1>4, <2>2, <2>7, <2>8, CampaignAlone
<1>7. QED  BY <1>5, <1>6 DEF Execute

LEMMA EndsStep ==
  ASSUME IndInv, NEW c \in Campaigns, Ends(c)
  PROVE  IndInv'
<1>1. /\ campaign' = [campaign EXCEPT ![c] = Off]
      /\ UNCHANGED <<disk, config, environ, agentCopy, registrar, gate, ledgered,
                     registered>>
  BY DEF Ends
<1>2. Off \in Campaign /\ Off.pc = "off"
  BY PlaceFacts DEF Campaign, Off, Oracles
<1>3. StampOf(Off)
  BY <1>2 DEF StampOf
<1>4. QED  BY <1>1, <1>2, <1>3, CampaignAlone

\* What a flush acknowledges.
LEMMA AckFacts ==
  ASSUME Typed, NEW c \in Campaigns, NEW b \in Seq(Row)
  PROVE  /\ Ack(c, b) \subseteq Ackable
         /\ \A a \in Ack(c, b) :
              /\ a.at = campaign[c].at
              /\ a.by = IF campaign[c].scope = "all" THEN Nobody ELSE campaign[c].by
              /\ \E i \in DOMAIN b : a.design = b[i].design
<1>1. PICK k : k = campaign[c]
  OBVIOUS
<1>2. k.at \in Live /\ k.by \in Ids \cup {Nobody}
  BY <1>1, CampaignTyped
<1>3. SUFFICES ASSUME NEW a \in Ack(c, b)
               PROVE  /\ a \in Ackable /\ a.at = k.at
                      /\ a.by = IF k.scope = "all" THEN Nobody ELSE k.by
                      /\ \E i \in DOMAIN b : a.design = b[i].design
  BY <1>1
<1>4. PICK r \in ToSet(b) :
        a = [at |-> k.at, design |-> r.design,
             by |-> IF k.scope = "all" THEN Nobody ELSE k.by]
  BY <1>1, <1>3 DEF Ack
<1>5. PICK i \in DOMAIN b : r = b[i]
  BY DEF ToSet
<1>6. r \in Row /\ r.design \in Designs \cup Pool
  <2>1. b[i] \in Row
    BY <1>5
  <2>2. QED  BY <1>5, <2>1 DEF Row
<1>7. a \in Ackable
  BY <1>2, <1>4, <1>6 DEF Ackable
<1>8. QED  BY <1>4, <1>5, <1>7

\* The flush of one campaign, up to where the three outcomes part.
Flushing(k, p, canon, fresh) ==
  /\ k.pc = "flushing" /\ k \in Campaign /\ StampOf(k) /\ Unlocked(p)
  /\ p = k.at /\ p \in Live /\ p \in Places
  /\ disk[p].rows \in Seq(Row) /\ disk[p].jobs \in Nat /\ Whole(disk[p])
  /\ canon \in Seq(Row) /\ Len(canon) <= Len(disk[p].rows) /\ Sound(p[2], canon)
  /\ \A i \in DOMAIN canon : \E j \in DOMAIN disk[p].rows : canon[i] = disk[p].rows[j]
  /\ \A i \in DOMAIN canon : canon[i].design \notin k.keys
  /\ \A i \in DOMAIN disk[p].rows : disk[p].rows[i].design \notin k.keys
       => \E j \in DOMAIN canon : canon[j] = disk[p].rows[i]
  /\ fresh \in Seq(Row)
  /\ \A i \in DOMAIN fresh : \E j \in DOMAIN k.buffer : fresh[i] = k.buffer[j]
  /\ \A i \in DOMAIN fresh : fresh[i].design \notin Seen(canon, k.by, k.scope)
  /\ \A i, j \in DOMAIN fresh : fresh[i].design = fresh[j].design => i = j
  /\ \A i \in DOMAIN k.buffer : k.buffer[i].design \notin Seen(canon, k.by, k.scope)
       => \E j \in DOMAIN fresh : fresh[j].design = k.buffer[i].design
  /\ fresh = <<>> => \A i \in DOMAIN k.buffer :
                       k.buffer[i].design \in Seen(canon, k.by, k.scope)

LEMMA FlushingFacts ==
  ASSUME IndInv, NEW c \in Campaigns, NEW k, NEW p, NEW canon, NEW fresh,
         k = campaign[c], p = k.at, k.pc = "flushing", Unlocked(p),
         canon = Superseded(disk[p].rows, k.keys),
         fresh = DropDuplicates(k.buffer, Seen(canon, k.by, k.scope))
  PROVE  Flushing(k, p, canon, fresh)
<1>1. k \in Campaign /\ StampOf(k) /\ p \in Live /\ p \in Places
  BY CampaignTyped DEF IndInv, Stamped, StampOf
<1>2. PICK rows : rows = disk[p].rows
  OBVIOUS
<1>3. rows \in Seq(Row) /\ disk[p].jobs \in Nat /\ Whole(disk[p]) /\ Sound(p[2], rows)
  BY <1>1, <1>2, JobsTyped DEF IndInv, Tables
<1>4. k.buffer \in Seq(Row)
  BY <1>1 DEF Campaign
<1>5. /\ canon \in Seq(Row) /\ Len(canon) <= Len(rows)
      /\ \A i \in DOMAIN canon : \E j \in DOMAIN rows : canon[i] = rows[j]
      /\ \A i \in DOMAIN canon : canon[i].design \notin k.keys
      /\ \A i \in DOMAIN rows : rows[i].design \notin k.keys
           => \E j \in DOMAIN canon : canon[j] = rows[i]
      /\ Sound(p[2], canon)
  <2>1. rows \in Seq(Row) /\ Sound(p[2], rows) /\ canon = Superseded(rows, k.keys)
    BY <1>2, <1>3
  <2>2. QED  BY <2>1, SupersededRows
<1>6. PICK seen, b : seen = Seen(canon, k.by, k.scope) /\ b = k.buffer
  OBVIOUS
<1>7. /\ fresh \in Seq(Row)
      /\ \A i \in DOMAIN fresh : \E j \in DOMAIN b : fresh[i] = b[j]
      /\ \A i \in DOMAIN fresh : fresh[i].design \notin seen
      /\ \A i, j \in DOMAIN fresh : fresh[i].design = fresh[j].design => i = j
      /\ \A i \in DOMAIN b : b[i].design \notin seen
           => \E j \in DOMAIN fresh : fresh[j].design = b[i].design
      /\ fresh = <<>> => \A i \in DOMAIN b : b[i].design \in seen
  <2>1. b \in Seq(Row) /\ fresh = DropDuplicates(b, seen)
    BY <1>4, <1>6
  <2>2. QED  BY <2>1, FreshRows
<1> DEFINE From(s, t) == \A i \in DOMAIN s : \E j \in DOMAIN t : s[i] = t[j]
           Kept(s, t) == \A i \in DOMAIN s : s[i].design \notin k.keys
                           => \E j \in DOMAIN t : t[j] = s[i]
           New(s, D) == \A i \in DOMAIN s : s[i].design \notin D
           Through(s, D) == \A i \in DOMAIN s : s[i].design \notin D
                              => \E j \in DOMAIN fresh : fresh[j].design = s[i].design
           Old(s, D) == fresh = <<>> => \A i \in DOMAIN s : s[i].design \in D
<1>8. /\ From(canon, disk[p].rows) /\ Kept(disk[p].rows, canon)
      /\ disk[p].rows \in Seq(Row) /\ Len(canon) <= Len(disk[p].rows)
  <2>1. From(canon, rows) /\ Kept(rows, canon)
    BY <1>5
  <2>2. rows \in Seq(Row) /\ Len(canon) <= Len(rows)
    BY <1>3, <1>5
  <2> HIDE DEF From, Kept
  <2>3. QED  BY <1>2, <2>1, <2>2
<1>9. /\ From(fresh, k.buffer) /\ New(fresh, Seen(canon, k.by, k.scope))
      /\ Old(k.buffer, Seen(canon, k.by, k.scope))
      /\ Through(k.buffer, Seen(canon, k.by, k.scope))
  <2>1. From(fresh, b) /\ New(fresh, seen) /\ Old(b, seen) /\ Through(b, seen)
    BY <1>7, Zenon
  <2> HIDE DEF From, New, Old, Through
  <2>2. QED  BY <1>6, <2>1
<1>10. QED  BY <1>1, <1>3, <1>5, <1>7, <1>8, <1>9, Zenon DEF Flushing

\* Everything was measured already: the flush acknowledges without writing.
LEMMA FlushedAlready ==
  ASSUME IndInv, NEW c \in Campaigns, NEW k, k = campaign[c],
         NEW p, NEW canon, NEW fresh, Flushing(k, p, canon, fresh), fresh = <<>>,
         campaign' = [campaign EXCEPT ![c].pc = "idle", ![c].buffer = <<>>,
                        ![c].keys = {}, ![c].raised = {}],
         Acknowledges(c, superseded, unreplaced),
         UNCHANGED <<disk, config, environ, agentCopy, registrar, gate, registered>>
  PROVE  IndInv'
<1> USE DEF IndInv
<1> DEFINE r == [k EXCEPT !.pc = "idle", !.buffer = <<>>, !.keys = {}, !.raised = {}]
           new == Ack(c, k.buffer)
<1>1. r \in Campaign /\ r.pc = "idle" /\ StampOf(r)
  <2>1. k \in Campaign /\ k.pc = "flushing" /\ StampOf(k)
    BY DEF Flushing
  <2>2. r \in Campaign
    <3>1. "idle" \in {"off", "idle", "flushing", "storing"} /\ <<>> \in Seq(Row)
          /\ {} \in SUBSET Designs
      OBVIOUS
    <3>2. PICK none, nothing, idle : none = <<>> /\ nothing = {} /\ idle = "idle"
      OBVIOUS
    <3>3. [k EXCEPT !.pc = idle, !.buffer = none, !.keys = nothing,
                   !.raised = nothing] \in Campaign
      BY <2>1, <3>1, <3>2 DEF Campaign
    <3>4. QED  BY <3>2, <3>3
  <2>3. r.pc = "idle" /\ r.by = k.by /\ r.at = k.at /\ r.oracle = k.oracle /\ r.buffer = <<>>
        /\ r.keys = {}
    BY <2>1 DEF Campaign
  <2> HIDE DEF r
  <2>4. QED  BY <2>1, <2>2, <2>3 DEF StampOf
<1>2. campaign' = [campaign EXCEPT ![c] = r]
  OBVIOUS
<1> HIDE DEF r
<1>3. k.buffer \in Seq(Row)
  BY DEF Flushing, Campaign
<1>4. /\ Ack(c, k.buffer) \subseteq Ackable
      /\ \A a \in Ack(c, k.buffer) :
           /\ a.at = p
           /\ a.by = IF k.scope = "all" THEN Nobody ELSE k.by
           /\ \E i \in DOMAIN k.buffer : a.design = k.buffer[i].design
  <2>1. p = k.at /\ k.buffer \in Seq(Row)
    BY <1>3 DEF Flushing
  <2>2. QED  BY <1>3, <2>1, AckFacts
<1>ledger. /\ acked' = acked \cup new /\ excused' = excused \ new
       /\ superseded' = superseded \ new /\ unreplaced' = unreplaced \ new
  BY DEF Acknowledges
<1>stand. \A a \in acked' \ excused' : a \notin new => Standing(a)
  BY <1>ledger DEF Standing
<1>5. Typed'
  <2>1. acked' \subseteq Ackable
    BY <1>4, <1>ledger DEF Typed
  <2>2. campaign' \in [Campaigns -> Campaign]
    BY <1>1, <1>2 DEF Typed
  <2>3. QED  BY <2>1, <2>2 DEF Typed
<1>6. Tables' /\ JobsGrow
  BY NothingOnDisk
<1>7. \A e \in Campaigns \ {c} : campaign[e].pc = "storing" =>
        \A a \in acked' \ excused' : a.at = campaign[e].at => Standing(a)
  BY <1>4, <1>stand DEF Flushing, Unlocked
<1>8. Stamped' /\ Exclusive' /\ Merging'
  BY <1>1, <1>2, <1>5, <1>6, <1>7, CampaignLeaves
<1>9. AgentCopied'
  BY <1>5, <1>6, AgentKeeps
<1>10. ASSUME NEW a \in acked' \ excused' PROVE Held(disk[a.at].rows, a)'
  <2>1. CASE a \notin Ack(c, k.buffer)
    BY <1>stand, <2>1 DEF Standing, Covered, Held, Covers, DesignsOf
  <2>2. CASE a \in Ack(c, k.buffer)
    <3>1. PICK i \in DOMAIN k.buffer : a.design = k.buffer[i].design
      BY <1>4, <2>2
    <3>2. a.design \in Seen(canon, k.by, k.scope)
      BY <3>1 DEF Flushing
    <3>3. PICK q \in ToSet(canon) : q.design = a.design /\ (k.scope = "all" \/ q.by = k.by)
      BY <3>2 DEF Seen
    <3>4. a.by \in {q.by, Nobody}
      BY <1>4, <2>2, <3>3
    <3>5. PICK j \in DOMAIN canon : q = canon[j]
      BY DEF ToSet
    <3>6. PICK l \in DOMAIN disk[p].rows : q = disk[p].rows[l]
      BY <3>5 DEF Flushing
    <3>7. q \in ToSet(disk[p].rows)
      BY <3>6 DEF ToSet
    <3>8. QED  BY <1>4, <2>2, <3>3, <3>4, <3>7 DEF Held, Covers
  <2>3. QED  BY <2>1, <2>2
<1>11. Sandboxes' /\ Configured' /\ Covered'
  BY <1>10 DEF Sandboxes, Configured, Known, Covered
<1>12. QED  BY <1>5, <1>6, <1>8, <1>9, <1>11

LEMMA MergedNow ==
  ASSUME NEW c, NEW r, campaign'[c] = r, MergedAs(r.at, r.merged, r.buffer, r.keys)'
  PROVE  MergedBy(c)'
BY DEF MergedBy, MergedAs, Sound, Leakless, Once, Marked, Held, Covers, DesignsOf

\* The campaign enters the lock with what it has merged.
LEMMA FlushMerges ==
  ASSUME IndInv, NEW c \in Campaigns, NEW k, k = campaign[c],
         NEW p, NEW canon, NEW fresh, Flushing(k, p, canon, fresh),
         campaign' = [campaign EXCEPT ![c].pc = "storing", ![c].buffer = fresh,
                        ![c].merged = canon \o fresh],
         UNCHANGED <<disk, config, environ, agentCopy, registrar, gate, ledgered,
                     registered>>
  PROVE  IndInv'
<1> USE DEF IndInv
<1>1. PICK m : m = canon \o fresh
  OBVIOUS
<1>2. Extended(m, canon, fresh)
  BY <1>1, Joined DEF Flushing
<1> DEFINE r == [k EXCEPT !.pc = "storing", !.buffer = fresh, !.merged = m]
<1>3. campaign' = [campaign EXCEPT ![c] = r]
  BY <1>1
<1>4. /\ r.pc = "storing" /\ r.by = k.by /\ r.at = p /\ r.oracle = k.oracle
      /\ r.buffer = fresh /\ r.keys = k.keys /\ r.raised = k.raised /\ r.merged = m
      /\ r \in Campaign
  <2>1. k \in Campaign /\ p = k.at /\ fresh \in Seq(Row) /\ m \in Seq(Row)
    BY <1>2 DEF Flushing, Extended
  <2>2. QED  BY <2>1 DEF Campaign
<1> HIDE DEF r
<1>5. /\ k.by \in Ids /\ <<p[2], k.oracle>> \in registered
      /\ \A i \in DOMAIN fresh : fresh[i].by = k.by /\ fresh[i].oracle = k.oracle
  <2>1. /\ k.pc = "flushing" /\ StampOf(k) /\ p = k.at
        /\ \A i \in DOMAIN fresh : \E j \in DOMAIN k.buffer : fresh[i] = k.buffer[j]
    BY DEF Flushing
  <2>2. QED  BY <2>1 DEF StampOf
<1>6. campaign'[c] = r /\ \A e \in Campaigns \ {c} : campaign'[e] = campaign[e]
  BY <1>3 DEF Typed
<1>7. Typed'
  <2>1. campaign' \in [Campaigns -> Campaign]
    BY <1>3, <1>4 DEF Typed
  <2>2. QED  BY <2>1 DEF Typed
<1>8. Tables' /\ JobsGrow
  BY NothingOnDisk
<1>9. Stamped'
  <2>1. Stamped
    OBVIOUS
  <2>2. StampOf(r)
    <3>1. k.keys \ k.raised \subseteq DesignsOf(k.buffer)
      BY DEF Flushing, StampOf
    <3>2. ASSUME NEW x \in k.keys \ k.raised PROVE x \in DesignsOf(fresh)
      <4>1. PICK i \in DOMAIN k.buffer : k.buffer[i].design = x
        BY <3>1 DEF DesignsOf, ToSet
      <4>2. \A j \in DOMAIN canon : canon[j].design # x
        BY DEF Flushing
      <4>3. x \notin Seen(canon, k.by, k.scope)
        BY <4>2 DEF Seen, ToSet
      <4>4. \E j \in DOMAIN fresh : fresh[j].design = x
        BY <4>1, <4>3 DEF Flushing
      <4>5. QED  BY <4>4 DEF DesignsOf, ToSet
    <3>3. QED  BY <1>4, <1>5, <3>2 DEF StampOf
  <2>3. ASSUME NEW e \in Campaigns PROVE StampOf(campaign'[e])
    <3>1. CASE e = c
      BY <1>6, <2>2, <3>1
    <3>2. CASE e # c
      BY <1>6, <2>1, <3>2, ZenonT(30) DEF Stamped, StampOf
    <3>3. QED  BY <3>1, <3>2
  <2>4. registered' = registered
    OBVIOUS
  <2>5. QED  BY <2>3, <2>4 DEF Stamped, StampOf
<1>10. Exclusive'
  <2>1. \A e \in Campaigns : ~(campaign[e].pc = "storing" /\ campaign[e].at = p)
    BY DEF Flushing, Unlocked
  <2>2. Exclusive
    OBVIOUS
  <2>3. QED  BY <1>4, <1>6, <2>1, <2>2, ZenonT(30) DEF Exclusive
<1>11. Sound(p[2], m)
  <2>1. canon \in Seq(Row) /\ fresh \in Seq(Row) /\ Sound(p[2], canon)
    BY DEF Flushing
  <2>2. \A i \in DOMAIN fresh, j \in DOMAIN canon :
          ~(canon[j].by = k.by /\ canon[j].design = fresh[i].design)
    <3>1. ASSUME NEW i \in DOMAIN fresh, NEW j \in DOMAIN canon,
                 canon[j].by = k.by, canon[j].design = fresh[i].design
          PROVE  FALSE
      <4>1. canon[j] \in ToSet(canon)
        BY DEF ToSet
      <4>2. fresh[i].design \in Seen(canon, k.by, k.scope)
        BY <3>1, <4>1 DEF Seen
      <4>3. QED  BY <4>2 DEF Flushing
    <3>2. QED  BY <3>1
  <2>3. /\ \A i \in DOMAIN fresh : <<p[2], fresh[i].oracle>> \in registered
        /\ \A i, j \in DOMAIN fresh : fresh[i].design = fresh[j].design => i = j
    BY <1>5 DEF Flushing
  <2>4. \A i \in DOMAIN fresh : fresh[i].by = k.by
    BY <1>5
  <2>5. PICK id, s : id = k.by /\ s = p[2]
    OBVIOUS
  <2>6. Sound(s, canon)
    BY <2>1, <2>5
  <2>7. Sound(s, m)
    BY <1>2, <2>1, <2>2, <2>3, <2>4, <2>5, <2>6, SoundJoined, ZenonT(30)
  <2>8. QED  BY <2>5, <2>7
<1>12. Marked(p, m)
  <2>1. ASSUME NEW i \in DOMAIN m, m[i].by = ReplayId PROVE i <= disk[p].jobs
    <3>1. i \in DOMAIN canon
      <4>1. ASSUME NEW l \in DOMAIN fresh, i = Len(canon) + l PROVE FALSE
        <5>1. m[i] = fresh[l]
          BY <1>2, <4>1 DEF Extended
        <5>2. QED  BY <1>5, <2>1, <5>1, IdAssumption
      <4>2. QED  BY <1>2, <4>1 DEF Extended
    <3>2. PICK rows : rows = disk[p].rows
      OBVIOUS
    <3>3. i \in 1..Len(canon) /\ Len(canon) \in Nat /\ Len(canon) <= Len(rows)
          /\ Len(rows) \in Nat
      BY <1>2, <3>1, <3>2 DEF Extended, Flushing
    <3>4. rows # <<>>
      BY <3>3
    <3>5. disk[p].jobs = Len(rows)
      BY <3>2, <3>4 DEF Flushing, Whole
    <3>6. QED  BY <3>3, <3>5
  <2>2. QED  BY <2>1 DEF Marked
<1>13. \A i \in DOMAIN fresh : \E j \in DOMAIN m : m[j] = fresh[i]
  BY <1>2 DEF Extended
<1>14. ASSUME NEW a \in acked \ excused, a.at = p, a.design \notin k.keys
       PROVE  Held(m, a)
  <2>1. ASSUME NEW q \in ToSet(disk[p].rows), q.design = a.design PROVE q \in ToSet(m)
    <3>1. PICK i \in DOMAIN disk[p].rows : q = disk[p].rows[i]
      BY DEF ToSet
    <3>2. PICK j \in DOMAIN canon : canon[j] = q
      BY <1>14, <2>1, <3>1 DEF Flushing
    <3>3. j \in DOMAIN m /\ m[j] = q
      BY <1>2, <3>2 DEF Extended
    <3>4. QED  BY <3>3 DEF ToSet
  <2>2. Held(disk[p].rows, a)
    BY <1>14 DEF Covered
  <2>3. Covers(disk[p].rows, a) => Covers(m, a)
    BY <2>1 DEF Covers
  <2>4. a.design \in DesignsOf(disk[p].rows) => a.design \in DesignsOf(m)
    BY <2>1 DEF DesignsOf
  <2>5. QED  BY <2>2, <2>3, <2>4 DEF Held
<1>15. MergedBy(c)'
  <2>1. PICK keys : keys = k.keys
    OBVIOUS
  <2>2. MergedAs(p, m, fresh, keys)
    BY <1>11, <1>12, <1>13, <1>14, <2>1 DEF MergedAs
  <2>3. /\ registered' = registered /\ disk' = disk /\ acked' = acked /\ excused' = excused
        /\ superseded' = superseded /\ unreplaced' = unreplaced
    OBVIOUS
  <2>4. MergedAs(p, m, fresh, keys)'
    BY <2>2, <2>3 DEF MergedAs, Sound, Leakless, Once, Marked, Held, Covers, DesignsOf
  <2>5. r.at = p /\ r.merged = m /\ r.buffer = fresh /\ r.keys = keys
    BY <1>4, <2>1
  <2>6. MergedAs(r.at, r.merged, r.buffer, r.keys)'
    BY <2>4, <2>5
  <2>7. QED  BY <1>6, <2>6, MergedNow
<1>16. ASSUME NEW e \in Campaigns, e # c PROVE MergedBy(e)'
  <2>1. MergedBy(e) /\ campaign'[e] = campaign[e]
    BY <1>6, <1>16 DEF Merging
  <2>2. \A a \in acked' \ excused' : a.at = campaign[e].at => Standing(a)
    BY DEF Standing
  <2>3. registered \subseteq registered'
    OBVIOUS
  <2>4. QED  BY <1>7, <1>8, <2>1, <2>2, <2>3, MergedStays
<1>17. Merging'
  BY <1>15, <1>16 DEF Merging
<1>18. AgentCopied'
  BY <1>7, <1>8, AgentKeeps
<1>19. Sandboxes' /\ Configured' /\ Covered'
  BY DEF Sandboxes, Configured, Known, Covered, Held, Covers, DesignsOf
<1>20. QED  BY <1>7, <1>8, <1>9, <1>10, <1>17, <1>18, <1>19

LEMMA BeginFlushStep ==
  ASSUME IndInv, NEW c \in Campaigns, BeginFlush(c)
  PROVE  IndInv'
<1>1. PICK k : k = campaign[c]
  OBVIOUS
<1>2. PICK p : p = k.at
  OBVIOUS
<1>3. PICK canon : canon = Superseded(disk[p].rows, k.keys)
  OBVIOUS
<1>4. PICK fresh : fresh = DropDuplicates(k.buffer, Seen(canon, k.by, k.scope))
  OBVIOUS
<1>5. /\ k.pc = "flushing" /\ Unlocked(p)
      /\ UNCHANGED <<disk, config, environ, agentCopy, registrar, gate, registered>>
      /\ \/ campaign' = [campaign EXCEPT ![c].pc = "idle"] /\ UNCHANGED ledgered
         \/ /\ fresh = <<>> /\ Acknowledges(c, superseded, unreplaced)
            /\ campaign' = [campaign EXCEPT ![c].pc = "idle", ![c].buffer = <<>>,
                              ![c].keys = {}, ![c].raised = {}]
         \/ /\ UNCHANGED ledgered
            /\ campaign' = [campaign EXCEPT ![c].pc = "storing", ![c].buffer = fresh,
                              ![c].merged = canon \o fresh]
  BY <1>1, <1>2, <1>3, <1>4 DEF BeginFlush
<1>6. Flushing(k, p, canon, fresh)
  BY <1>1, <1>2, <1>3, <1>4, <1>5, FlushingFacts
<1>7. CASE campaign' = [campaign EXCEPT ![c].pc = "idle"] /\ UNCHANGED ledgered
  <2> DEFINE r == [k EXCEPT !.pc = "idle"]
  <2>1. r \in Campaign /\ r.pc = "idle" /\ StampOf(r)
    BY <1>6 DEF Flushing, Campaign, StampOf
  <2>2. campaign' = [campaign EXCEPT ![c] = r]
    BY <1>1, <1>7
  <2> HIDE DEF r
  <2>3. QED  BY <1>5, <1>7, <2>1, <2>2, CampaignAlone
<1>8. CASE /\ fresh = <<>> /\ Acknowledges(c, superseded, unreplaced)
           /\ campaign' = [campaign EXCEPT ![c].pc = "idle", ![c].buffer = <<>>,
                             ![c].keys = {}, ![c].raised = {}]
  BY <1>1, <1>5, <1>6, <1>8, FlushedAlready
<1>9. CASE /\ UNCHANGED ledgered
           /\ campaign' = [campaign EXCEPT ![c].pc = "storing", ![c].buffer = fresh,
                             ![c].merged = canon \o fresh]
  BY <1>1, <1>5, <1>6, <1>9, FlushMerges
<1>10. QED  BY <1>5, <1>7, <1>8, <1>9

\* A campaign leaves the lock and leaves t in its table.
LEMMA CampaignWrites ==
  ASSUME IndInv, NEW c \in Campaigns, NEW p, p = campaign[c].at, campaign[c].pc = "storing",
         NEW t \in OnDisk, Whole(t), Sound(p[2], t.rows), disk[p].jobs <= t.jobs,
         disk' = [disk EXCEPT ![p] = t],
         NEW r \in Campaign, r.pc # "storing", StampOf(r),
         campaign' = [campaign EXCEPT ![c] = r],
         acked' \subseteq Ackable,
         \A a \in acked' \ excused' : a.at # p => Standing(a),
         \A a \in acked' \ excused' : a.at = p => Held(t.rows, a)',
         UNCHANGED <<config, environ, agentCopy, registrar, gate, registered>>
  PROVE  IndInv'
<1> USE DEF IndInv
<1>1. p \in Live /\ p \in Places
  BY CampaignTyped
<1>2. Tables' /\ Sandboxes' /\ JobsGrow /\ disk' \in [Places -> OnDisk]
  BY <1>1, TableWritten
<1>3. Typed'
  <2>1. campaign' \in [Campaigns -> Campaign]
    BY DEF Typed
  <2>2. QED  BY <1>2, <2>1 DEF Typed
<1>4. \A e \in Campaigns \ {c} : campaign[e].pc = "storing" =>
        \A a \in acked' \ excused' : a.at = campaign[e].at => Standing(a)
  BY DEF Exclusive
<1>5. Stamped' /\ Exclusive' /\ Merging'
  BY <1>2, <1>3, <1>4, CampaignLeaves
<1>6. AgentCopied'
  BY <1>2, <1>3, AgentKeeps
<1>7. Configured'
  BY DEF Configured, Known
<1>8. ASSUME NEW a \in acked' \ excused' PROVE Held(disk[a.at].rows, a)'
  <2>1. a.at \in Places
    BY PlaceFacts DEF Ackable
  <2>2. CASE a.at = p
    <3>1. disk'[a.at] = t
      BY <1>1, <2>2 DEF Typed
    <3>2. Held(t.rows, a)'
      BY <2>2
    <3>3. QED  BY <3>1, <3>2 DEF Held, Covers, DesignsOf
  <2>3. CASE a.at # p
    <3>1. disk'[a.at] = disk[a.at] /\ Standing(a)
      BY <2>1, <2>3 DEF Typed
    <3>2. Held(disk[a.at].rows, a)
      BY <3>1 DEF Standing, Covered
    <3>3. QED  BY <3>1, <3>2 DEF Standing, Held, Covers, DesignsOf
  <2>4. QED  BY <2>2, <2>3
<1>9. Covered'
  BY <1>8 DEF Covered
<1>10. QED  BY <1>2, <1>3, <1>5, <1>6, <1>7, <1>9

\* The merged rows as a table.
LEMMA MergedTable ==
  ASSUME IndInv, NEW c \in Campaigns, campaign[c].pc = "storing",
         Guarded(campaign[c].at, campaign[c].merged),
         NEW t, t = Table(campaign[c].merged)
  PROVE  /\ t \in OnDisk /\ Whole(t) /\ Sound(campaign[c].at[2], t.rows)
         /\ disk[campaign[c].at].jobs <= t.jobs
         /\ t.rows = campaign[c].merged /\ t.jobs = Len(t.rows)
         /\ \A a \in acked \ excused :
              a.at = campaign[c].at /\ a.design \notin campaign[c].keys => Held(t.rows, a)
         /\ campaign[c].keys \ campaign[c].raised \subseteq DesignsOf(t.rows)
         /\ \A a \in Ack(c, campaign[c].buffer) : Covers(t.rows, a)
<1>1. PICK k, p, m : k = campaign[c] /\ p = k.at /\ m = k.merged
  OBVIOUS
<1>2. m \in Seq(Row) /\ Len(m) \in Nat /\ k.buffer \in Seq(Row) /\ p \in Places
  BY <1>1, CampaignTyped DEF IndInv
<1>3. t.rows = m /\ t.jobs = Len(m) /\ t.state = "ok" /\ t \in OnDisk /\ Whole(t)
  BY <1>1, <1>2 DEF Table, OnDisk, Whole
<1>4. MergedAs(p, m, k.buffer, k.keys)
  BY <1>1 DEF IndInv, Merging, MergedBy
<1>5. disk[p].jobs <= Len(m)
  BY <1>1, <1>2, JobsTyped DEF Guarded, IndInv
<1>6. ASSUME NEW a \in Ack(c, k.buffer) PROVE Covers(m, a)
  <2>1. /\ a.by = IF k.scope = "all" THEN Nobody ELSE k.by
        /\ \E i \in DOMAIN k.buffer : a.design = k.buffer[i].design
    BY <1>1, <1>2, AckFacts DEF IndInv
  <2>2. PICK i \in DOMAIN k.buffer : a.design = k.buffer[i].design
    BY <2>1
  <2>3. k.buffer[i].by = k.by
    BY <1>1 DEF IndInv, Stamped
  <2>4. PICK j \in DOMAIN m : m[j] = k.buffer[i]
    BY <1>4 DEF MergedAs
  <2>5. m[j] \in ToSet(m) /\ a.by \in {m[j].by, Nobody} /\ m[j].design = a.design
    BY <2>1, <2>2, <2>3, <2>4 DEF ToSet
  <2>6. QED  BY <2>5 DEF Covers
<1>7. k.keys \ k.raised \subseteq DesignsOf(m)
  <2>1. k.keys \ k.raised \subseteq DesignsOf(k.buffer)
    BY <1>1 DEF IndInv, Stamped
  <2>2. \A i \in DOMAIN k.buffer : \E j \in DOMAIN m : m[j] = k.buffer[i]
    BY <1>4 DEF MergedAs
  <2>3. DesignsOf(k.buffer) \subseteq DesignsOf(m)
    BY <2>2 DEF DesignsOf, ToSet
  <2>4. QED  BY <2>1, <2>3
<1>8. QED  BY <1>1, <1>3, <1>4, <1>5, <1>6, <1>7 DEF MergedAs

\* How a campaign leaves the lock.
LEMMA Unlocking ==
  ASSUME IndInv, NEW c \in Campaigns, campaign[c].pc = "storing",
         \/ campaign' = [campaign EXCEPT ![c] = Off]
         \/ campaign' = [campaign EXCEPT ![c].pc = "idle", ![c].merged = <<>>]
         \/ campaign' = [campaign EXCEPT ![c].pc = "idle", ![c].buffer = <<>>,
                           ![c].keys = {}, ![c].raised = {}, ![c].merged = <<>>]
  PROVE  \E r \in Campaign : /\ r.pc # "storing" /\ StampOf(r)
                             /\ campaign' = [campaign EXCEPT ![c] = r]
<1>1. PICK k : k = campaign[c]
  OBVIOUS
<1>2. k \in Campaign /\ StampOf(k) /\ k.pc = "storing"
  BY <1>1, CampaignTyped DEF IndInv, Stamped, StampOf
<1>3. "idle" \in {"off", "idle", "flushing", "storing"} /\ <<>> \in Seq(Row)
      /\ {} \in SUBSET Designs
  OBVIOUS
<1>4. PICK none, nothing, idle : none = <<>> /\ nothing = {} /\ idle = "idle"
  OBVIOUS
<1>5. CASE campaign' = [campaign EXCEPT ![c] = Off]
  <2>1. Off \in Campaign /\ Off.pc = "off"
    BY PlaceFacts DEF Campaign, Off, Oracles
  <2>2. StampOf(Off)
    BY <2>1 DEF StampOf
  <2>3. QED  BY <1>5, <2>1, <2>2
<1>6. CASE campaign' = [campaign EXCEPT ![c].pc = "idle", ![c].merged = <<>>]
  <2> DEFINE r == [k EXCEPT !.pc = idle, !.merged = none]
  <2>1. campaign' = [campaign EXCEPT ![c] = r]
    BY <1>1, <1>4, <1>6
  <2>2. r \in Campaign
    BY <1>2, <1>3, <1>4 DEF Campaign
  <2>3. r.pc = "idle" /\ r.by = k.by /\ r.at = k.at /\ r.oracle = k.oracle
        /\ r.buffer = k.buffer /\ r.keys = k.keys /\ r.raised = k.raised
    BY <1>2, <1>4 DEF Campaign
  <2> HIDE DEF r
  <2>4. StampOf(r)
    BY <1>2, <2>3 DEF StampOf
  <2>5. QED  BY <2>1, <2>2, <2>3, <2>4
<1>7. CASE campaign' = [campaign EXCEPT ![c].pc = "idle", ![c].buffer = <<>>,
                          ![c].keys = {}, ![c].raised = {}, ![c].merged = <<>>]
  <2> DEFINE r == [k EXCEPT !.pc = idle, !.buffer = none, !.keys = nothing,
                            !.raised = nothing, !.merged = none]
  <2>1. campaign' = [campaign EXCEPT ![c] = r]
    BY <1>1, <1>4, <1>7
  <2>2. r \in Campaign
    BY <1>2, <1>3, <1>4 DEF Campaign
  <2>3. r.pc = "idle" /\ r.by = k.by /\ r.at = k.at /\ r.oracle = k.oracle
        /\ r.buffer = <<>> /\ r.keys = {}
    BY <1>2, <1>4 DEF Campaign
  <2> HIDE DEF r
  <2>4. StampOf(r)
    BY <1>2, <2>3 DEF StampOf
  <2>5. QED  BY <2>1, <2>2, <2>3, <2>4
<1>8. QED  BY <1>5, <1>6, <1>7

\* What is in the table once the merged rows are written: what was dropped is
\* superseded, and there is a row of its design unless the oracle raised.
LEMMA DroppedIsHeld ==
  ASSUME IndInv, NEW c \in Campaigns, NEW rows, NEW new,
         \A a \in acked \ excused :
           a.at = campaign[c].at /\ a.design \notin campaign[c].keys => Held(rows, a),
         campaign[c].keys \ campaign[c].raised \subseteq DesignsOf(rows),
         \A a \in new : Covers(rows, a) /\ a.at = campaign[c].at,
         acked' = acked \cup new, excused' = excused \ new,
         superseded' = Dropped(c) \ new, unreplaced' = Deleted(c) \ new
  PROVE  /\ \A a \in acked' \ excused' : a.at # campaign[c].at => Standing(a)
         /\ \A a \in acked' \ excused' : a.at = campaign[c].at => Held(rows, a)'
<1>1. \A a : a \notin new => /\ a \in superseded => a \in superseded'
                             /\ a \in unreplaced => a \in unreplaced'
  BY DEF Dropped, Deleted
<1>2. ASSUME NEW a \in acked' \ excused', a.at # campaign[c].at PROVE Standing(a)
  BY <1>1, <1>2 DEF Standing
<1>3. ASSUME NEW a \in acked' \ excused', a.at = campaign[c].at PROVE Held(rows, a)'
  <2>1. CASE a \in new
    BY <2>1 DEF Held, Covers
  <2>2. CASE a \notin new /\ a.design \notin campaign[c].keys
    <3>1. Held(rows, a)
      BY <1>3, <2>2
    <3>2. QED  BY <1>1, <2>2, <3>1 DEF Held, Covers, DesignsOf
  <2>3. CASE a \notin new /\ a.design \in campaign[c].keys
    <3>1. a \in acked /\ a \in superseded'
      BY <1>3, <2>3 DEF Dropped, AckedAt
    <3>2. CASE a.design \in campaign[c].raised
      <4>1. a \in unreplaced'
        BY <1>3, <2>3, <3>1, <3>2 DEF Deleted, AckedAt
      <4>2. QED  BY <3>1, <4>1 DEF Held
    <3>3. CASE a.design \notin campaign[c].raised
      <4>1. a.design \in DesignsOf(rows)
        BY <2>3, <3>3
      <4>2. QED  BY <3>1, <4>1 DEF Held, DesignsOf
    <3>4. QED  BY <3>2, <3>3
  <2>4. QED  BY <2>1, <2>2, <2>3
<1>4. QED  BY <1>2, <1>3

LEMMA StoreMergedStep ==
  ASSUME IndInv, NEW c \in Campaigns, StoreMerged(c)
  PROVE  IndInv'
<1>1. PICK p, m, b, keys : /\ p = campaign[c].at /\ m = campaign[c].merged
                           /\ b = campaign[c].buffer /\ keys = campaign[c].keys
  OBVIOUS
<1>2. /\ campaign[c].pc = "storing"
      /\ UNCHANGED <<config, environ, agentCopy, registrar, gate, registered>>
  BY DEF StoreMerged
<1>3. CASE Guarded(p, m)
  <2>1. /\ disk' = [disk EXCEPT ![p] = Table(m)]
        /\ campaign' = [campaign EXCEPT ![c].pc = "idle", ![c].buffer = <<>>,
                          ![c].keys = {}, ![c].raised = {}, ![c].merged = <<>>]
        /\ acked' = acked \cup Ack(c, b) /\ excused' = excused \ Ack(c, b)
        /\ superseded' = Dropped(c) \ Ack(c, b) /\ unreplaced' = Deleted(c) \ Ack(c, b)
    BY <1>1, <1>3 DEF StoreMerged, Acknowledges
  <2>2. PICK r \in Campaign : /\ r.pc # "storing" /\ StampOf(r)
                              /\ campaign' = [campaign EXCEPT ![c] = r]
    BY <1>2, <2>1, Unlocking
  <2>3. PICK t : t = Table(m)
    OBVIOUS
  <2>4. /\ t \in OnDisk /\ Whole(t) /\ Sound(p[2], t.rows) /\ disk[p].jobs <= t.jobs
        /\ \A a \in acked \ excused : a.at = p /\ a.design \notin keys => Held(t.rows, a)
        /\ keys \ campaign[c].raised \subseteq DesignsOf(t.rows)
        /\ \A a \in Ack(c, b) : Covers(t.rows, a)
    BY <1>1, <1>2, <1>3, <2>3, MergedTable
  <2>5. b \in Seq(Row)
    BY <1>1, CampaignTyped DEF IndInv
  <2>6. Ack(c, b) \subseteq Ackable /\ \A a \in Ack(c, b) : a.at = p
    BY <1>1, <2>5, AckFacts DEF IndInv
  <2>7. acked' \subseteq Ackable
    BY <2>1, <2>6 DEF IndInv, Typed
  <2>8. PICK rows, new : rows = t.rows /\ new = Ack(c, b)
    OBVIOUS
  <2>9. /\ \A a \in acked' \ excused' : a.at # p => Standing(a)
        /\ \A a \in acked' \ excused' : a.at = p => Held(rows, a)'
    BY <1>1, <2>1, <2>4, <2>6, <2>8, DroppedIsHeld
  <2>10. disk' = [disk EXCEPT ![p] = t]
    BY <2>1, <2>3
  <2>11. QED  BY <1>1, <1>2, <2>2, <2>4, <2>7, <2>8, <2>9, <2>10, CampaignWrites
<1>4. CASE ~Guarded(p, m)
  <2>1. /\ campaign' = [campaign EXCEPT ![c].pc = "idle", ![c].merged = <<>>]
        /\ UNCHANGED <<disk, ledgered>>
    BY <1>1, <1>4 DEF StoreMerged
  <2>2. PICK r \in Campaign : /\ r.pc # "storing" /\ StampOf(r)
                              /\ campaign' = [campaign EXCEPT ![c] = r]
    BY <1>2, <2>1, Unlocking
  <2>3. QED  BY <1>2, <2>1, <2>2, CampaignAlone
<1>5. QED  BY <1>3, <1>4

LEMMA CutShortStep ==
  ASSUME IndInv, NEW c \in Campaigns, CutShort(c)
  PROVE  IndInv'
<1>1. PICK p, m, keys : /\ p = campaign[c].at /\ m = campaign[c].merged
                        /\ keys = campaign[c].keys
  OBVIOUS
<1>2. /\ campaign[c].pc = "storing" /\ acked' = acked
      /\ UNCHANGED <<config, environ, agentCopy, registrar, gate, registered>>
      /\ campaign' \in {[campaign EXCEPT ![c] = Off],
                        [campaign EXCEPT ![c].pc = "idle", ![c].merged = <<>>]}
  BY DEF CutShort
<1>3. PICK r \in Campaign : /\ r.pc # "storing" /\ StampOf(r)
                            /\ campaign' = [campaign EXCEPT ![c] = r]
  BY <1>2, Unlocking
<1>4. acked' \subseteq Ackable
  BY <1>2 DEF IndInv, Typed
<1>5. PICK written : written = Table(m)
  OBVIOUS
<1>6. written.rows = m /\ written.jobs = Len(m)
  BY <1>5 DEF Table
<1>7. \/ UNCHANGED <<disk, excused, superseded, unreplaced>>
      \/ /\ Guarded(p, m) /\ disk' = [disk EXCEPT ![p] = written]
         /\ superseded' = Dropped(c) /\ unreplaced' = Deleted(c) /\ excused' = excused
      \/ /\ Guarded(p, m)
         /\ \E state \in {"empty", "torn"}, jobs \in {disk[p].jobs, Len(m)} :
              disk' = [disk EXCEPT ![p] = Damaged(state, jobs)]
         /\ excused' = excused \cup AckedAt(p)
         /\ UNCHANGED <<superseded, unreplaced>>
  BY <1>1, <1>5, <1>6 DEF CutShort
<1>8. CASE UNCHANGED <<disk, excused, superseded, unreplaced>>
  BY <1>2, <1>3, <1>8, CampaignAlone
<1>9. CASE /\ Guarded(p, m) /\ disk' = [disk EXCEPT ![p] = written]
           /\ superseded' = Dropped(c) /\ unreplaced' = Deleted(c) /\ excused' = excused
  <2>1. /\ written \in OnDisk /\ Whole(written) /\ Sound(p[2], written.rows)
        /\ disk[p].jobs <= written.jobs
        /\ \A a \in acked \ excused : a.at = p /\ a.design \notin keys => Held(written.rows, a)
        /\ keys \ campaign[c].raised \subseteq DesignsOf(written.rows)
    BY <1>1, <1>2, <1>5, <1>9, MergedTable
  <2>2. PICK rows, new : rows = written.rows /\ new = {}
    OBVIOUS
  <2>3. /\ acked' = acked \cup new /\ excused' = excused \ new
        /\ superseded' = Dropped(c) \ new /\ unreplaced' = Deleted(c) \ new
    BY <1>2, <1>9, <2>2
  <2>4. /\ \A a \in acked' \ excused' : a.at # p => Standing(a)
        /\ \A a \in acked' \ excused' : a.at = p => Held(rows, a)'
    BY <1>1, <2>1, <2>2, <2>3, DroppedIsHeld
  <2>5. QED  BY <1>1, <1>2, <1>3, <1>4, <1>9, <2>1, <2>2, <2>4, CampaignWrites
<1>10. CASE /\ Guarded(p, m)
            /\ \E state \in {"empty", "torn"}, jobs \in {disk[p].jobs, Len(m)} :
                 disk' = [disk EXCEPT ![p] = Damaged(state, jobs)]
            /\ excused' = excused \cup AckedAt(p)
            /\ UNCHANGED <<superseded, unreplaced>>
  <2>1. PICK state \in {"empty", "torn"}, jobs \in {disk[p].jobs, Len(m)} :
          disk' = [disk EXCEPT ![p] = Damaged(state, jobs)]
    BY <1>10
  <2>2. PICK t : t = Damaged(state, jobs)
    OBVIOUS
  <2>3. p \in Places /\ m \in Seq(Row) /\ Len(m) \in Nat /\ disk[p].jobs \in Nat
    BY <1>1, CampaignTyped, JobsTyped DEF IndInv
  <2>4. disk[p].jobs <= Len(m)
    BY <1>10, <2>3 DEF Guarded
  <2>5. t.rows = <<>> /\ t.jobs = jobs /\ t.state = state
    BY <2>2 DEF Damaged
  <2>6. t \in OnDisk /\ Whole(t) /\ disk[p].jobs <= t.jobs
    BY <2>1, <2>2, <2>3, <2>4, <2>5 DEF Damaged, OnDisk, Whole
  <2>7. Sound(p[2], t.rows)
    BY <2>5 DEF Sound, Leakless, Once
  <2>8. \A a \in acked' \ excused' : a.at # p
    BY <1>2, <1>10 DEF AckedAt
  <2>9. \A a \in acked' \ excused' : Standing(a)
    BY <1>2, <1>10 DEF Standing
  <2>10. disk' = [disk EXCEPT ![p] = t]
    BY <2>1, <2>2
  <2>11. QED
    BY <1>1, <1>2, <1>3, <1>4, <2>6, <2>7, <2>8, <2>9, <2>10, CampaignWrites
<1>11. QED  BY <1>7, <1>8, <1>9, <1>10

\* Operations of others than campaigns.
LEMMA CampaignsAside ==
  ASSUME IndInv, Typed', Tables', JobsGrow, Sandboxes', Configured', AgentCopied',
         campaign' = campaign, registered \subseteq registered',
         acked' = acked, excused \subseteq excused', UNCHANGED <<superseded, unreplaced>>,
         \A a \in acked \ excused' : Held(disk'[a.at].rows, a)
  PROVE  IndInv'
<1> USE DEF IndInv
<1>1. \A e \in Campaigns : campaign[e].pc = "storing" =>
        \A a \in acked' \ excused' : a.at = campaign[e].at => Standing(a)
  BY DEF Standing
<1>2. Stamped' /\ Exclusive' /\ Merging'
  BY <1>1, CampaignsStay
<1>3. Covered'
  BY DEF Covered, Held, Covers, DesignsOf
<1>4. QED  BY <1>2, <1>3

LEMMA NothingCopied ==
  ASSUME agentCopy' = NoCopy
  PROVE  AgentCopied'
<1>1. agentCopy'.rows = <<>>
  BY DEF NoCopy
<1>2. QED  BY <1>1 DEF AgentCopied, Sound, Leakless, Once, Marked

\* The agent's store() and the replay leave t in the table at p.
LEMMA OthersWrite ==
  ASSUME IndInv, NEW p \in Places, NEW t \in OnDisk, Whole(t), Sound(p[2], t.rows),
         disk' = [disk EXCEPT ![p] = t],
         p \in Live => disk[p].jobs <= t.jobs,
         p \notin Live => gate[p[1]].pc \in Executing,
         acked' = acked, excused \subseteq excused', UNCHANGED <<superseded, unreplaced>>,
         \A a \in acked \ excused' : a.at = p => Held(t.rows, a),
         agentCopy' \in {agentCopy, NoCopy},
         UNCHANGED <<config, environ, campaign, registrar, gate, registered>>
  PROVE  IndInv'
<1> USE DEF IndInv
<1>1. Tables' /\ Sandboxes' /\ JobsGrow /\ disk' \in [Places -> OnDisk]
  BY TableWritten
<1>2. Typed'
  <2>1. agentCopy' \in [at : Live, rows : Seq(Row)]
    <3>1. agentCopy \in [at : Live, rows : Seq(Row)]
      BY DEF Typed
    <3>2. NoCopy \in [at : Live, rows : Seq(Row)]
      BY PlaceFacts DEF NoCopy
    <3>3. QED  BY <3>1, <3>2
  <2>2. QED  BY <1>1, <2>1 DEF Typed
<1>3. Configured'
  BY DEF Configured, Known
<1>4. AgentCopied'
  <2>1. CASE agentCopy' = agentCopy
    BY <1>1, <1>2, <2>1, AgentKeeps
  <2>2. CASE agentCopy' = NoCopy
    BY <2>2, NothingCopied
  <2>3. QED  BY <2>1, <2>2
<1>5. ASSUME NEW a \in acked \ excused' PROVE Held(disk'[a.at].rows, a)
  <2>1. a.at \in Places /\ a \in acked \ excused
    BY PlaceFacts DEF Typed, Ackable
  <2>2. CASE a.at = p
    <3>1. disk'[a.at] = t
      BY <2>2 DEF Typed
    <3>2. QED  BY <2>2, <3>1
  <2>3. CASE a.at # p
    <3>1. disk'[a.at] = disk[a.at]
      BY <2>1, <2>3 DEF Typed
    <3>2. QED  BY <2>1, <3>1 DEF Covered
  <2>4. QED  BY <2>2, <2>3
<1>6. QED  BY <1>1, <1>2, <1>3, <1>4, <1>5, CampaignsAside

LEMMA AgentLoadStep ==
  ASSUME IndInv, NEW s \in Stores, AgentLoad(<<"live", s>>)
  PROVE  IndInv'
<1>1. PICK p, rows : p = <<"live", s>> /\ rows = disk[p].rows
  OBVIOUS
<1>2. p \in Live /\ p \in Places /\ p[2] = s
  BY <1>1, PlaceFacts DEF Live
<1>3. /\ rows # <<>> /\ agentCopy' = [at |-> p, rows |-> rows]
      /\ UNCHANGED <<disk, config, environ, campaign, registrar, gate, ledgered,
                     registered>>
  BY <1>1 DEF AgentLoad
<1>4. rows \in Seq(Row) /\ Sound(p[2], rows) /\ Whole(disk[p]) /\ Len(rows) \in Nat
  BY <1>1, <1>2, JobsTyped DEF IndInv, Tables
<1>5. Marked(p, rows)
  <2>1. disk[p].jobs = Len(rows)
    BY <1>1, <1>3, <1>4 DEF Whole
  <2>2. \A i \in DOMAIN rows : i <= Len(rows)
    BY <1>4
  <2>3. QED  BY <2>1, <2>2 DEF Marked
<1>6. AgentCopied'
  <2>1. agentCopy'.at = p /\ agentCopy'.rows = rows /\ disk' = disk /\ registered' = registered
    BY <1>3
  <2>2. Sound(p[2], rows)' /\ Marked(p, rows)'
    BY <1>4, <1>5, <2>1 DEF Sound, Leakless, Once, Marked
  <2>3. QED  BY <2>1, <2>2 DEF AgentCopied, Sound, Leakless, Once, Marked
<1>7. Typed'
  BY <1>2, <1>3, <1>4 DEF IndInv, Typed
<1>8. Tables' /\ JobsGrow
  BY <1>3, NothingOnDisk DEF IndInv
<1>9. Sandboxes' /\ Configured'
  BY <1>3 DEF IndInv, Sandboxes, Configured, Known
<1>10. \A a \in acked \ excused' : Held(disk'[a.at].rows, a)
  BY <1>3 DEF IndInv, Covered
<1>11. QED  BY <1>3, <1>6, <1>7, <1>8, <1>9, <1>10, CampaignsAside

LEMMA AgentStoreStep ==
  ASSUME IndInv, NEW own \in Seq(Row), \A i \in DOMAIN own : own[i].by = Nobody,
         AgentStore(own)
  PROVE  IndInv'
<1>1. PICK p, loaded : p = agentCopy.at /\ loaded = agentCopy.rows
  OBVIOUS
<1>2. PICK rows : rows = loaded \o own
  OBVIOUS
<1>3. /\ Guarded(p, rows) /\ disk' = [disk EXCEPT ![p] = Table(rows)]
      /\ excused' = excused \cup {a \in AckedAt(p) : ~Covers(rows, a)}
      /\ agentCopy' = NoCopy
      /\ UNCHANGED <<acked, superseded, unreplaced>>
      /\ UNCHANGED <<config, environ, campaign, registrar, gate, registered>>
  BY <1>1, <1>2 DEF AgentStore
<1>4. p \in Live /\ p \in Places /\ loaded \in Seq(Row)
  BY <1>1, PlaceFacts DEF IndInv, Typed
<1>5. Sound(p[2], loaded)
  BY <1>1 DEF IndInv, AgentCopied
<1>6. Extended(rows, loaded, own)
  BY <1>2, <1>4, Joined
<1>7. Sound(p[2], rows)
  BY <1>4, <1>5, <1>6, SoundJoined
<1>8. PICK t : t = Table(rows)
  OBVIOUS
<1>9. t.rows = rows /\ t.jobs = Len(rows) /\ t \in OnDisk /\ Whole(t)
  BY <1>6, <1>8 DEF Table, OnDisk, Whole, Extended
<1>10. disk[p].jobs <= t.jobs
  BY <1>3, <1>4, <1>6, <1>9, JobsTyped DEF IndInv, Guarded, Extended
<1>11. \A a \in acked \ excused' : a.at = p => Held(t.rows, a)
  BY <1>3, <1>9 DEF AckedAt, Held
<1>12. disk' = [disk EXCEPT ![p] = t] /\ excused \subseteq excused'
  BY <1>3, <1>8
<1>13. Sound(p[2], t.rows)
  BY <1>7, <1>9
<1>14. QED  BY <1>3, <1>4, <1>9, <1>10, <1>11, <1>12, <1>13, OthersWrite

-----------------------------------------------------------------------------
(* Registrations.                                                          *)

LEMMA RegisterReadStep ==
  ASSUME IndInv, NEW t \in Registrars, RegisterRead(t)
  PROVE  IndInv'
<1>1. /\ registrar' = [registrar EXCEPT ![t] = [pc |-> "read", read |-> config["live"]]]
      /\ UNCHANGED <<disk, config, environ, campaign, agentCopy, gate, ledgered,
                     registered>>
  BY DEF RegisterRead
<1>2. config["live"] \in [Stores -> Oracles] /\ Known(config["live"])
  BY DEF IndInv, Typed, Copies, Configured
<1>3. Typed'
  BY <1>1, <1>2 DEF IndInv, Typed
<1>4. Tables' /\ JobsGrow
  BY <1>1, NothingOnDisk DEF IndInv
<1>5. Configured'
  <2>1. ASSUME NEW u \in Registrars, registrar'[u].pc = "read"
        PROVE  Known(registrar'[u].read)
    <3>1. CASE u = t
      <4>1. registrar'[u].read = config["live"]
        BY <1>1, <3>1 DEF IndInv, Typed
      <4>2. QED  BY <1>2, <4>1
    <3>2. CASE u # t
      BY <1>1, <2>1, <3>2 DEF IndInv, Typed, Configured
    <3>3. QED  BY <3>1, <3>2
  <2>2. QED  BY <1>1, <2>1 DEF IndInv, Configured, Known
<1>6. AgentCopied'
  BY <1>1, <1>3, <1>4, AgentKeeps DEF IndInv
<1>7. Sandboxes'
  BY <1>1 DEF IndInv, Sandboxes
<1>8. \A a \in acked \ excused' : Held(disk'[a.at].rows, a)
  BY <1>1 DEF IndInv, Covered
<1>9. QED  BY <1>1, <1>3, <1>4, <1>5, <1>6, <1>7, <1>8, CampaignsAside

LEMMA RegisterWriteStep ==
  ASSUME IndInv, NEW t \in Registrars, NEW s \in Stores, NEW o \in Generators,
         RegisterWrite(t, s, o)
  PROVE  IndInv'
<1>1. /\ registrar[t].pc = "read"
      /\ registrar' = [registrar EXCEPT ![t] = NoCall]
      /\ registered' = registered \cup {<<s, o>>}
      /\ UNCHANGED <<disk, environ, campaign, agentCopy, gate, ledgered>>
  BY DEF RegisterWrite
<1>2. PICK read : read = registrar[t].read
  OBVIOUS
<1>3. PICK oracles : oracles = [read EXCEPT ![s] = o]
  OBVIOUS
<1>4. config' = [config EXCEPT !["live"] = oracles]
  BY <1>2, <1>3 DEF RegisterWrite
<1>5. read \in [Stores -> Oracles] /\ Known(read)
  BY <1>1, <1>2 DEF IndInv, Typed, Configured
<1>6. oracles \in [Stores -> Oracles]
  BY <1>3, <1>5 DEF Oracles
<1>7. registered \subseteq registered' /\ <<s, o>> \in registered'
  BY <1>1
<1>8. Known(oracles)'
  <2>1. ASSUME NEW q \in Stores, oracles[q] # NoOracle PROVE <<q, oracles[q]>> \in registered'
    <3>1. CASE q = s
      BY <1>3, <1>5, <1>7, <3>1
    <3>2. CASE q # s
      BY <1>3, <1>5, <1>7, <2>1, <3>2 DEF Known
    <3>3. QED  BY <3>1, <3>2
  <2>2. QED  BY <2>1 DEF Known
<1>9. Typed'
  <2>1. config' \in [Copies -> [Stores -> Oracles]]
    BY <1>4, <1>6 DEF IndInv, Typed
  <2>2. registrar' \in [Registrars -> [pc : {"idle", "read"}, read : [Stores -> Oracles]]]
    BY <1>1 DEF IndInv, Typed, NoCall, NoOracles, Oracles
  <2>3. QED  BY <1>1, <2>1, <2>2 DEF IndInv, Typed
<1>10. Tables' /\ JobsGrow
  BY <1>1, <1>7, NothingOnDisk DEF IndInv
<1>11. Configured'
  <2>1. ASSUME NEW k \in Copies PROVE Known(config[k])'
    <3>1. CASE k = "live"
      <4>1. config'[k] = oracles
        BY <1>4, <3>1 DEF IndInv, Typed
      <4>2. QED  BY <1>8, <4>1 DEF Known
    <3>2. CASE k # "live"
      <4>1. config'[k] = config[k]
        BY <1>4, <3>2 DEF IndInv, Typed
      <4>2. QED  BY <1>7, <4>1 DEF IndInv, Configured, Known
    <3>3. QED  BY <3>1, <3>2
  <2>2. ASSUME NEW u \in Registrars, registrar'[u].pc = "read"
        PROVE  Known(registrar[u].read)'
    <3>1. u # t
      BY <1>1, <2>2 DEF IndInv, Typed, NoCall
    <3>2. registrar'[u] = registrar[u]
      BY <1>1, <3>1 DEF IndInv, Typed
    <3>3. QED  BY <1>7, <2>2, <3>2 DEF IndInv, Configured, Known
  <2>3. <<"base", Declared>> \in registered'
    BY <1>7 DEF IndInv, Configured
  <2>4. QED  BY <2>1, <2>2, <2>3 DEF Configured
<1>12. AgentCopied'
  BY <1>1, <1>7, <1>9, <1>10, AgentKeeps DEF IndInv
<1>13. Sandboxes'
  BY <1>1 DEF IndInv, Sandboxes
<1>14. \A a \in acked \ excused' : Held(disk'[a.at].rows, a)
  BY <1>1 DEF IndInv, Covered
<1>15. QED
  BY <1>1, <1>7, <1>9, <1>10, <1>11, <1>12, <1>13, <1>14, CampaignsAside

-----------------------------------------------------------------------------
(* The notebook and the sandboxes.                                         *)

LEMMA GateStartStep ==
  ASSUME IndInv, NEW g \in Gates, GateStart(g)
  PROVE  IndInv'
<1>1. /\ gate[g].pc = "idle"
      /\ gate' = [gate EXCEPT ![g] = [NoGate EXCEPT !.pc = "copying"]]
      /\ UNCHANGED <<disk, config, environ, campaign, agentCopy, registrar, ledgered, registered>>
  BY DEF GateStart
<1>2. PICK v : v = [NoGate EXCEPT !.pc = "copying"]
  OBVIOUS
<1>3. v = [pc |-> "copying", saved |-> "live"]
  BY <1>2 DEF NoGate
<1>4. gate' = [gate EXCEPT ![g] = v]
  BY <1>1, <1>2
<1>5. Typed'
  <2>1. gate' \in [Gates -> [pc : {"idle", "copying"} \cup Executing, saved : Copies]]
    BY <1>3, <1>4 DEF IndInv, Typed, Copies
  <2>2. QED  BY <1>1, <2>1 DEF IndInv, Typed
<1>6. Tables' /\ JobsGrow
  BY <1>1, NothingOnDisk DEF IndInv
<1>7. Sandboxes'
  <2>1. ASSUME NEW h \in Gates, gate'[h].pc \notin Executing
        PROVE  gate[h].pc \notin Executing
    <3>1. CASE h = g
      BY <1>1, <3>1 DEF Executing
    <3>2. CASE h # g
      BY <1>4, <2>1, <3>2 DEF IndInv, Typed
    <3>3. QED  BY <3>1, <3>2
  <2>2. QED  BY <1>1, <2>1 DEF IndInv, Sandboxes
<1>8. Configured'
  BY <1>1 DEF IndInv, Configured, Known
<1>9. AgentCopied'
  BY <1>1, <1>5, <1>6, AgentKeeps DEF IndInv
<1>10. \A a \in acked \ excused' : Held(disk'[a.at].rows, a)
  BY <1>1 DEF IndInv, Covered
<1>11. QED  BY <1>1, <1>5, <1>6, <1>7, <1>8, <1>9, <1>10, CampaignsAside

\* A sandbox is filled, whichever of the three callers fills it.
LEMMA CopyStep ==
  ASSUME IndInv, NEW g \in Gates, Copied(g),
         NEW v \in [pc : Executing, saved : Copies], gate' = [gate EXCEPT ![g] = v],
         environ' \in Copies,
         UNCHANGED <<campaign, agentCopy, registrar, ledgered, registered>>
  PROVE  IndInv'
<1>1. /\ disk' = [p \in Places |-> IF p[1] = g THEN disk[<<"live", p[2]>>] ELSE disk[p]]
      /\ config' = [config EXCEPT ![g] = config["live"]]
  BY DEF Copied
<1>2. \A p \in Places : <<"live", p[2]>> \in Places
  BY PlaceFacts DEF Places, Copies
<1>3. \A p \in Places : disk'[p] = IF p[1] = g THEN disk[<<"live", p[2]>>] ELSE disk[p]
  BY <1>1
<1>4. \A p \in Live : p \in Places /\ disk'[p] = disk[p]
  BY <1>3, PlaceFacts, NameAssumption
<1>5. Typed'
  <2>1. disk' \in [Places -> OnDisk]
    <3>1. \A p \in Places : disk'[p] \in OnDisk
      BY <1>2, <1>3 DEF IndInv, Typed
    <3>2. QED  BY <1>1, <3>1
  <2>2. config' \in [Copies -> [Stores -> Oracles]]
    BY <1>1 DEF IndInv, Typed, Copies
  <2>3. gate' \in [Gates -> [pc : {"idle", "copying"} \cup Executing, saved : Copies]]
    BY DEF IndInv, Typed
  <2>4. QED  BY <2>1, <2>2, <2>3 DEF IndInv, Typed
<1>6. Tables'
  <2>1. ASSUME NEW p \in Places PROVE (Sound(p[2], disk[p].rows) /\ Whole(disk[p]))'
    <3>1. PICK q \in Places : q[2] = p[2] /\ disk'[p] = disk[q]
      <4>1. CASE p[1] = g
        BY <1>2, <1>3, <4>1
      <4>2. CASE p[1] # g
        BY <1>3, <4>2
      <4>3. QED  BY <4>1, <4>2
    <3>2. PICK t : t = disk[q]
      OBVIOUS
    <3>3. Sound(p[2], t.rows) /\ Whole(t)
      BY <3>1, <3>2 DEF IndInv, Tables
    <3>4. Sound(p[2], t.rows)'
      BY <3>3 DEF Sound, Leakless, Once
    <3>5. disk'[p] = t
      BY <3>1, <3>2
    <3>6. QED  BY <3>3, <3>4, <3>5 DEF Sound, Leakless, Once, Whole
  <2>2. QED  BY <2>1 DEF Tables
<1>7. JobsGrow
  BY <1>4, JobsTyped DEF JobsGrow, IndInv
<1>8. Sandboxes'
  <2>1. ASSUME NEW h \in Gates, NEW s \in Stores, gate'[h].pc \notin Executing
        PROVE  disk'[<<h, s>>] = Absent
    <3>1. h # g
      BY <2>1 DEF IndInv, Typed
    <3>2. gate'[h] = gate[h]
      BY <3>1 DEF IndInv, Typed
    <3>3. disk'[<<h, s>>] = disk[<<h, s>>]
      BY <1>3, <3>1, PlaceFacts
    <3>4. QED  BY <2>1, <3>2, <3>3 DEF IndInv, Sandboxes
  <2>2. QED  BY <2>1 DEF Sandboxes
<1>9. Configured'
  <2>1. ASSUME NEW k \in Copies PROVE Known(config[k])'
    <3>1. PICK l \in Copies : config'[k] = config[l]
      <4>1. "live" \in Copies
        BY DEF Copies
      <4>2. CASE k = g
        BY <1>1, <4>1, <4>2 DEF IndInv, Typed
      <4>3. CASE k # g
        BY <1>1, <4>3 DEF IndInv, Typed
      <4>4. QED  BY <4>2, <4>3
    <3>2. Known(config[l])
      BY DEF IndInv, Configured
    <3>3. QED  BY <3>1, <3>2 DEF Known
  <2>2. QED  BY <2>1 DEF IndInv, Configured, Known
<1>10. AgentCopied'
  BY <1>5, <1>7, AgentKeeps DEF IndInv
<1>11. \A a \in acked \ excused' : Held(disk'[a.at].rows, a)
  BY <1>4 DEF IndInv, Covered, Typed, Ackable
<1>12. QED  BY <1>5, <1>6, <1>7, <1>8, <1>9, <1>10, <1>11, CampaignsAside

LEMMA GateCopyStep ==
  ASSUME IndInv, NEW g \in Gates, GateCopy(g)
  PROVE  IndInv'
<1>1. PICK v : v = [pc |-> "running", saved |-> environ]
  OBVIOUS
<1>2. v \in [pc : Executing, saved : Copies]
  BY <1>1 DEF IndInv, Typed, Executing
<1>3. /\ Copied(g) /\ gate' = [gate EXCEPT ![g] = v] /\ environ' = g
      /\ UNCHANGED <<campaign, agentCopy, registrar, ledgered, registered>>
  BY <1>1 DEF GateCopy, Patched
<1>4. g \in Copies
  BY DEF Copies
<1>5. QED  BY <1>2, <1>3, <1>4, CopyStep

LEMMA RunScratchStep ==
  ASSUME IndInv, NEW g \in Gates, RunScratch(g)
  PROVE  IndInv'
<1>1. PICK v : v = [NoGate EXCEPT !.pc = "scratch"]
  OBVIOUS
<1>2. v = [pc |-> "scratch", saved |-> "live"]
  BY <1>1 DEF NoGate
<1>3. v \in [pc : Executing, saved : Copies]
  BY <1>2 DEF Executing, Copies
<1>4. /\ Copied(g) /\ gate' = [gate EXCEPT ![g] = v] /\ environ' = environ
      /\ UNCHANGED <<campaign, agentCopy, registrar, ledgered, registered>>
  BY <1>1 DEF RunScratch
<1>5. environ' \in Copies
  BY <1>4 DEF IndInv, Typed
<1>6. QED  BY <1>3, <1>4, <1>5, CopyStep

LEMMA RunPipelineCellStep ==
  ASSUME IndInv, NEW g \in Gates, RunPipelineCell(g)
  PROVE  IndInv'
<1>1. PICK v : v = [pc |-> "cell", saved |-> environ]
  OBVIOUS
<1>2. v \in [pc : Executing, saved : Copies]
  BY <1>1 DEF IndInv, Typed, Executing
<1>3. /\ Copied(g) /\ gate' = [gate EXCEPT ![g] = v] /\ environ' = g
      /\ UNCHANGED <<campaign, agentCopy, registrar, ledgered, registered>>
  BY <1>1 DEF RunPipelineCell, Patched
<1>4. g \in Copies
  BY DEF Copies
<1>5. QED  BY <1>2, <1>3, <1>4, CopyStep

\* What the notebook evaluates for the table at p of the store s is new to it.
Replayed(p, s, fresh) ==
  /\ p \in Places /\ p[2] = s /\ fresh \in Seq(Row)
  /\ \A i \in DOMAIN fresh : /\ fresh[i].by = ReplayId
                             /\ <<s, fresh[i].oracle>> \in registered
                             /\ fresh[i].design \notin DesignsOf(disk[p].rows)
  /\ \A i, j \in DOMAIN fresh : fresh[i].design = fresh[j].design => i = j

LEMMA ReplayedRows ==
  ASSUME IndInv, NEW g \in Gates, NEW s \in Stores, NEW x \in Designs, HasOracle(g, s),
         NEW p, p = StoreDir(g, s), NEW fresh,
         fresh = DropDuplicates(
                   <<[by |-> ReplayId, design |-> x, oracle |-> EffectiveOracle(g, s)]>>,
                   Seen(disk[p].rows, ReplayId, "all"))
  PROVE  Replayed(p, s, fresh)
<1>1. PICK row : row = [by |-> ReplayId, design |-> x, oracle |-> EffectiveOracle(g, s)]
  OBVIOUS
<1>2. g \in Copies /\ config[g][s] \in Oracles /\ <<s, config[g][s]>> \in registered
  <2>1. g \in Copies /\ config[g][s] # NoOracle
    BY DEF Copies, HasOracle, EffectiveOracle
  <2>2. config[g] \in [Stores -> Oracles] /\ Known(config[g])
    BY <2>1 DEF IndInv, Typed, Configured
  <2>3. QED  BY <2>1, <2>2 DEF Known
<1>3. row \in Row /\ row.by = ReplayId /\ row.oracle = config[g][s]
  BY <1>1, <1>2 DEF Row, EffectiveOracle
<1>4. PICK buffer : buffer = <<row>>
  OBVIOUS
<1>5. buffer \in Seq(Row) /\ \A j \in DOMAIN buffer : buffer[j] = row
  BY <1>3, <1>4
<1>6. PICK seen : seen = Seen(disk[p].rows, ReplayId, "all")
  OBVIOUS
<1>7. fresh = DropDuplicates(buffer, seen)
  BY <1>1, <1>4, <1>6
<1>8. /\ fresh \in Seq(Row)
      /\ \A k \in DOMAIN fresh : \E i \in DOMAIN buffer : fresh[k] = buffer[i]
      /\ \A k \in DOMAIN fresh : fresh[k].design \notin seen
      /\ \A k, l \in DOMAIN fresh : fresh[k].design = fresh[l].design => k = l
  BY <1>5, <1>7, FreshRows
<1>9. \A k \in DOMAIN fresh : fresh[k] = row
  BY <1>5, <1>8
<1>10. seen = DesignsOf(disk[p].rows)
  BY <1>6 DEF Seen, DesignsOf
<1>11. p \in Places /\ p[2] = s
  BY <1>2, PlaceFacts
<1>12. QED  BY <1>2, <1>3, <1>8, <1>9, <1>10, <1>11 DEF Replayed

LEMMA GateEvaluateStep ==
  ASSUME IndInv, NEW g \in Gates, NEW s \in Stores, NEW x \in Designs,
         GateEvaluate(g, s, x)
  PROVE  IndInv'
<1>1. PICK p : p = StoreDir(g, s)
  OBVIOUS
<1>2. PICK fresh : fresh =
        DropDuplicates(
          <<[by |-> ReplayId, design |-> x, oracle |-> EffectiveOracle(g, s)]>>,
          Seen(disk[p].rows, ReplayId, "all"))
  OBVIOUS
<1>3. PICK old, rows : old = disk[p].rows /\ rows = old \o fresh
  OBVIOUS
<1>4. /\ gate[g].pc \in Executing /\ HasOracle(g, s) /\ Guarded(p, rows)
      /\ disk' = [disk EXCEPT ![p] = Table(rows)]
      /\ UNCHANGED <<config, environ, campaign, agentCopy, registrar, gate, ledgered,
                     registered>>
  BY <1>1, <1>2, <1>3 DEF GateEvaluate
<1>5. /\ p \in Places /\ p[2] = s /\ fresh \in Seq(Row)
      /\ \A i \in DOMAIN fresh : /\ fresh[i].by = ReplayId
                                 /\ <<s, fresh[i].oracle>> \in registered
                                 /\ fresh[i].design \notin DesignsOf(old)
      /\ \A i, j \in DOMAIN fresh : fresh[i].design = fresh[j].design => i = j
  <2>1. Replayed(p, s, fresh)
    BY <1>1, <1>2, <1>4, ReplayedRows
  <2>2. QED  BY <1>3, <2>1 DEF Replayed
<1>6. old \in Seq(Row) /\ Sound(s, old)
  BY <1>3, <1>5, JobsTyped DEF IndInv, Tables
<1>7. Extended(rows, old, fresh)
  BY <1>3, <1>5, <1>6, Joined
<1>8. \A k \in DOMAIN fresh, i \in DOMAIN old :
        ~(old[i].by = ReplayId /\ old[i].design = fresh[k].design)
  BY <1>5 DEF DesignsOf, ToSet
<1>9. Sound(s, rows)
  <2>1. PICK id : id = ReplayId
    OBVIOUS
  <2>2. /\ \A i \in DOMAIN fresh : fresh[i].by = id
        /\ \A i \in DOMAIN fresh : <<s, fresh[i].oracle>> \in registered
        /\ \A k \in DOMAIN fresh, i \in DOMAIN old :
             ~(old[i].by = id /\ old[i].design = fresh[k].design)
    BY <1>5, <1>8, <2>1
  <2>3. fresh \in Seq(Row) /\ \A i, j \in DOMAIN fresh : fresh[i].design = fresh[j].design => i = j
    BY <1>5
  <2>4. QED  BY <1>6, <1>7, <2>2, <2>3, SoundJoined
<1>10. PICK t : t = Table(rows)
  OBVIOUS
<1>11. t.rows = rows /\ t.jobs = Len(rows) /\ t \in OnDisk /\ Whole(t)
  BY <1>7, <1>10 DEF Table, OnDisk, Whole, Extended
<1>12. disk[p].jobs <= t.jobs
  BY <1>4, <1>5, <1>7, <1>11, JobsTyped DEF IndInv, Guarded, Extended
<1>13. p \notin Live => gate[p[1]].pc \in Executing
  BY <1>1, <1>4, PlaceFacts DEF StoreDir, Live
<1>14. \A a \in acked \ excused' : a.at = p => Held(t.rows, a)
  <2>1. \A i \in DOMAIN old : \E j \in DOMAIN rows : rows[j] = old[i]
    BY <1>7 DEF Extended
  <2>2. ASSUME NEW a \in acked \ excused, a.at = p PROVE Held(rows, a)
    <3>1. Held(old, a)
      BY <1>3, <2>2 DEF IndInv, Covered
    <3>2. QED  BY <2>1, <3>1, HeldMore
  <2>3. QED  BY <1>4, <1>11, <2>2
<1>15. disk' = [disk EXCEPT ![p] = t] /\ Sound(p[2], t.rows) /\ excused \subseteq excused'
  BY <1>4, <1>5, <1>9, <1>10, <1>11
<1>16. QED  BY <1>4, <1>5, <1>11, <1>12, <1>13, <1>14, <1>15, OthersWrite

LEMMA GateEndStep ==
  ASSUME IndInv, NEW g \in Gates, GateEnd(g)
  PROVE  IndInv'
<1>1. /\ environ' \in {environ, gate[g].saved}
      /\ gate' = [gate EXCEPT ![g] = NoGate]
      /\ disk' = [p \in Places |-> IF p[1] = g THEN Absent ELSE disk[p]]
      /\ config' = [config EXCEPT ![g] = NoOracles]
      /\ UNCHANGED <<campaign, agentCopy, registrar, ledgered, registered>>
  BY DEF GateEnd
<1>2. Absent \in OnDisk /\ Whole(Absent) /\ \A s : Sound(s, Absent.rows)
  BY DEF Absent, OnDisk, Whole, Sound, Leakless, Once
<1>3. \A p \in Places : disk'[p] = IF p[1] = g THEN Absent ELSE disk[p]
  BY <1>1
<1>4. \A p \in Live : p \in Places /\ disk'[p] = disk[p]
  BY <1>3, PlaceFacts, NameAssumption
<1>5. Typed'
  <2>1. disk' \in [Places -> OnDisk]
    BY <1>1, <1>2 DEF IndInv, Typed
  <2>2. NoOracles \in [Stores -> Oracles]
    BY DEF NoOracles, Oracles
  <2>3. config' \in [Copies -> [Stores -> Oracles]]
    BY <1>1, <2>2 DEF IndInv, Typed
  <2>4. gate' \in [Gates -> [pc : {"idle", "copying"} \cup Executing, saved : Copies]]
        /\ environ' \in Copies
    BY <1>1 DEF IndInv, Typed, NoGate, Copies
  <2>5. QED  BY <1>1, <2>1, <2>3, <2>4 DEF IndInv, Typed
<1>6. Tables'
  <2>1. ASSUME NEW p \in Places PROVE (Sound(p[2], disk[p].rows) /\ Whole(disk[p]))'
    <3>1. PICK t : t = disk'[p]
      OBVIOUS
    <3>2. Sound(p[2], t.rows) /\ Whole(t)
      BY <1>2, <1>3, <3>1 DEF IndInv, Tables
    <3>3. Sound(p[2], t.rows)'
      BY <1>1, <3>2 DEF Sound, Leakless, Once
    <3>4. QED  BY <3>1, <3>2, <3>3 DEF Sound, Leakless, Once, Whole
  <2>2. QED  BY <2>1 DEF Tables
<1>7. JobsGrow
  BY <1>4, JobsTyped DEF JobsGrow, IndInv
<1>8. Sandboxes'
  <2>1. ASSUME NEW h \in Gates, NEW s \in Stores, gate'[h].pc \notin Executing
        PROVE  disk'[<<h, s>>] = Absent
    <3>1. CASE h = g
      BY <1>3, <3>1, PlaceFacts
    <3>2. CASE h # g
      <4>1. gate'[h] = gate[h]
        BY <1>1, <3>2 DEF IndInv, Typed
      <4>2. disk'[<<h, s>>] = disk[<<h, s>>]
        BY <1>3, <3>2, PlaceFacts
      <4>3. QED  BY <2>1, <4>1, <4>2 DEF IndInv, Sandboxes
    <3>3. QED  BY <3>1, <3>2
  <2>2. QED  BY <2>1 DEF Sandboxes
<1>9. Configured'
  <2>1. ASSUME NEW k \in Copies PROVE Known(config[k])'
    <3>1. CASE k = g
      <4>1. config'[k] = NoOracles
        BY <1>1, <3>1 DEF IndInv, Typed
      <4>2. QED  BY <4>1 DEF Known, NoOracles
    <3>2. CASE k # g
      <4>1. config'[k] = config[k]
        BY <1>1, <3>2 DEF IndInv, Typed
      <4>2. QED  BY <1>1, <4>1 DEF IndInv, Configured, Known
    <3>3. QED  BY <3>1, <3>2
  <2>2. QED  BY <1>1, <2>1 DEF IndInv, Configured, Known
<1>10. AgentCopied'
  BY <1>1, <1>5, <1>7, AgentKeeps DEF IndInv
<1>11. \A a \in acked \ excused' : Held(disk'[a.at].rows, a)
  BY <1>1, <1>4 DEF IndInv, Covered, Typed, Ackable
<1>12. QED  BY <1>1, <1>5, <1>6, <1>7, <1>8, <1>9, <1>10, <1>11, CampaignsAside

LEMMA ResumeStep ==
  ASSUME IndInv, Resume
  PROVE  IndInv'
<1>1. PICK oracles \in {config["live"], [NoOracles EXCEPT !["base"] = Declared]} :
        config' = [k \in Copies |-> IF k = "live" THEN oracles ELSE NoOracles]
  BY DEF Resume
<1>2. PICK pooled : pooled = IngestPool(disk[Base])
  OBVIOUS
<1>3. /\ disk' = [p \in Places |->
            IF p = Base THEN pooled ELSE IF p[1] = "live" THEN disk[p] ELSE Absent]
      /\ environ' = "live" /\ agentCopy' = NoCopy
      /\ registrar' = [t \in Registrars |-> NoCall]
      /\ gate' = [h \in Gates |-> NoGate]
      /\ UNCHANGED <<campaign, ledgered, registered>>
  <2>1. disk' = [p \in Places |->
           IF p = Base THEN IngestPool(disk[p]) ELSE IF p[1] = "live" THEN disk[p] ELSE Absent]
    BY DEF Resume
  <2>2. \A p \in Places :
          (IF p = Base THEN IngestPool(disk[p]) ELSE IF p[1] = "live" THEN disk[p] ELSE Absent)
          = (IF p = Base THEN pooled ELSE IF p[1] = "live" THEN disk[p] ELSE Absent)
    BY <1>2
  <2>3. QED  BY <2>1, <2>2 DEF Resume
<1>4. Base \in Places /\ Base[2] = "base" /\ disk[Base] \in OnDisk /\ Whole(disk[Base])
      /\ Sound("base", disk[Base].rows)
  <2>1. Base \in Places
    BY PlaceFacts
  <2>2. Base[2] = "base"
    BY DEF Base
  <2>3. QED  BY <2>1, <2>2 DEF IndInv, Typed, Tables
<1>5. PICK old : old = disk[Base]
  OBVIOUS
<1>6. /\ pooled \in OnDisk /\ Whole(pooled) /\ Sound("base", pooled.rows)
      /\ old.jobs <= pooled.jobs
      /\ \A i \in DOMAIN old.rows : \E j \in DOMAIN pooled.rows : pooled.rows[j] = old.rows[i]
  <2>1. old \in OnDisk /\ Whole(old) /\ Sound("base", old.rows) /\ pooled = IngestPool(old)
    BY <1>2, <1>4, <1>5
  <2>2. QED  BY <2>1, Ingested
<1>7. Absent \in OnDisk /\ Whole(Absent) /\ \A s : Sound(s, Absent.rows)
  BY DEF Absent, OnDisk, Whole, Sound, Leakless, Once
<1>8. \A p \in Places :
        disk'[p] = IF p = Base THEN pooled ELSE IF p[1] = "live" THEN disk[p] ELSE Absent
  BY <1>3
<1>9. \A p \in Live : p \in Places /\ disk'[p] = IF p = Base THEN pooled ELSE disk[p]
  BY <1>8, PlaceFacts
<1>10. NoOracles \in [Stores -> Oracles] /\ "base" \in Stores /\ Declared \in Oracles
  BY OracleAssumption DEF NoOracles, Oracles, Stores
<1>11. oracles \in [Stores -> Oracles] /\ Known(oracles)
  <2>1. CASE oracles = config["live"]
    BY <2>1 DEF IndInv, Typed, Configured, Copies
  <2>2. CASE oracles = [NoOracles EXCEPT !["base"] = Declared]
    <3>1. oracles["base"] = Declared /\ \A s \in Stores \ {"base"} : oracles[s] = NoOracle
      BY <1>10, <2>2 DEF NoOracles
    <3>2. <<"base", Declared>> \in registered
      BY DEF IndInv, Configured
    <3>3. QED  BY <1>10, <2>2, <3>1, <3>2 DEF Known
  <2>3. QED  BY <2>1, <2>2
<1>12. Typed'
  <2>1. disk' \in [Places -> OnDisk]
    BY <1>3, <1>6, <1>7 DEF IndInv, Typed
  <2>2. config' \in [Copies -> [Stores -> Oracles]]
    BY <1>1, <1>10, <1>11
  <2>3. agentCopy' \in [at : Live, rows : Seq(Row)]
    BY <1>3, PlaceFacts DEF NoCopy
  <2>4. registrar' \in [Registrars -> [pc : {"idle", "read"}, read : [Stores -> Oracles]]]
    BY <1>3, <1>10 DEF NoCall
  <2>5. gate' \in [Gates -> [pc : {"idle", "copying"} \cup Executing, saved : Copies]]
        /\ environ' \in Copies
    BY <1>3 DEF NoGate, Copies
  <2>6. QED  BY <1>3, <2>1, <2>2, <2>3, <2>4, <2>5 DEF IndInv, Typed
<1>13. Tables'
  <2>1. ASSUME NEW p \in Places PROVE (Sound(p[2], disk[p].rows) /\ Whole(disk[p]))'
    <3>1. PICK t : t = disk'[p]
      OBVIOUS
    <3>2. Sound(p[2], t.rows) /\ Whole(t)
      BY <1>4, <1>6, <1>7, <1>8, <3>1 DEF IndInv, Tables
    <3>3. Sound(p[2], t.rows)'
      BY <1>3, <3>2 DEF Sound, Leakless, Once
    <3>4. QED  BY <3>1, <3>2, <3>3 DEF Sound, Leakless, Once, Whole
  <2>2. QED  BY <2>1 DEF Tables
<1>14. JobsGrow
  <2>1. ASSUME NEW p \in Live PROVE disk[p].jobs <= disk'[p].jobs
    <3>1. p \in Places /\ disk[p].jobs \in Nat
      BY JobsTyped, PlaceFacts DEF IndInv
    <3>2. QED  BY <1>5, <1>6, <1>9, <3>1
  <2>2. QED  BY <2>1 DEF JobsGrow
<1>15. Sandboxes'
  <2>1. ASSUME NEW h \in Gates, NEW s \in Stores PROVE disk'[<<h, s>>] = Absent
    <3>1. <<h, s>> \in Places /\ <<h, s>> # Base /\ h # "live"
      BY PlaceFacts, NameAssumption
    <3>2. QED  BY <1>8, <3>1
  <2>2. QED  BY <2>1 DEF Sandboxes
<1>16. Configured'
  <2>1. ASSUME NEW k \in Copies PROVE Known(config[k])'
    <3>1. CASE k = "live"
      <4>1. config'[k] = oracles
        BY <1>1, <3>1
      <4>2. QED  BY <1>3, <1>11, <4>1 DEF Known
    <3>2. CASE k # "live"
      <4>1. config'[k] = NoOracles
        BY <1>1, <3>2
      <4>2. QED  BY <4>1 DEF Known, NoOracles
    <3>3. QED  BY <3>1, <3>2
  <2>2. \A t \in Registrars : registrar'[t].pc # "read"
    BY <1>3 DEF NoCall
  <2>3. QED  BY <1>3, <2>1, <2>2 DEF IndInv, Configured
<1>17. AgentCopied'
  BY <1>3, NothingCopied
<1>18. ASSUME NEW a \in acked \ excused' PROVE Held(disk'[a.at].rows, a)
  <2>1. a.at \in Live /\ Held(disk[a.at].rows, a)
    BY <1>3 DEF IndInv, Covered, Typed, Ackable
  <2>2. CASE a.at = Base
    <3>1. Held(old.rows, a) /\ disk'[a.at] = pooled
      BY <1>5, <1>9, <2>1, <2>2
    <3>2. Held(pooled.rows, a)
      BY <1>6, <3>1, HeldMore
    <3>3. QED  BY <3>1, <3>2
  <2>3. CASE a.at # Base
    BY <1>9, <2>1, <2>3
  <2>4. QED  BY <2>2, <2>3
<1>19. QED
  BY <1>3, <1>12, <1>13, <1>14, <1>15, <1>16, <1>17, <1>18, CampaignsAside

-----------------------------------------------------------------------------
LEMMA NextStep ==
  ASSUME IndInv, [Next]_vars
  PROVE  IndInv'
<1>1. CASE \E c \in Campaigns : \E d \in Ids, s \in Stores : Launch(c, d, s)
  BY <1>1, LaunchStep
<1>2. CASE \E c \in Campaigns : \E x \in Designs : Execute(c, x)
  BY <1>2, ExecuteStep
<1>3. CASE \E c \in Campaigns : BeginFlush(c)
  BY <1>3, BeginFlushStep
<1>4. CASE \E c \in Campaigns : StoreMerged(c)
  BY <1>4, StoreMergedStep
<1>5. CASE \E c \in Campaigns : CutShort(c)
  BY <1>5, CutShortStep
<1>6. CASE \E c \in Campaigns : Ends(c)
  BY <1>6, EndsStep
<1>7. CASE \E s \in Stores : AgentLoad(<<"live", s>>)
  BY <1>7, AgentLoadStep
<1>8. CASE AgentStore(<<>>)
  <2>1. PICK own : own = <<>>
    OBVIOUS
  <2>2. own \in Seq(Row) /\ \A i \in DOMAIN own : own[i].by = Nobody
    BY <2>1
  <2>3. QED  BY <1>8, <2>1, <2>2, AgentStoreStep
<1>9. CASE \E x \in Designs :
             AgentStore(<<[by |-> Nobody, design |-> x, oracle |-> NoOracle]>>)
  <2>1. PICK x \in Designs :
          AgentStore(<<[by |-> Nobody, design |-> x, oracle |-> NoOracle]>>)
    BY <1>9
  <2>2. PICK row : row = [by |-> Nobody, design |-> x, oracle |-> NoOracle]
    OBVIOUS
  <2>3. row \in Row /\ row.by = Nobody
    BY <2>2 DEF Row, Oracles
  <2>4. PICK own : own = <<row>>
    OBVIOUS
  <2>5. own \in Seq(Row) /\ \A i \in DOMAIN own : own[i].by = Nobody
    BY <2>3, <2>4
  <2>6. AgentStore(own)
    BY <2>1, <2>2, <2>4
  <2>7. QED  BY <2>5, <2>6, AgentStoreStep
<1>10. CASE \E t \in Registrars : RegisterRead(t)
  BY <1>10, RegisterReadStep
<1>11. CASE \E t \in Registrars : \E m \in Manifests : RegisterWrite(t, m[1], m[2])
  <2>1. PICK t \in Registrars, m \in Manifests : RegisterWrite(t, m[1], m[2])
    BY <1>11
  <2>2. PICK s, o : s = m[1] /\ o = m[2]
    OBVIOUS
  <2>3. s \in Stores /\ o \in Generators
    BY <2>2 DEF Manifests
  <2>4. RegisterWrite(t, s, o)
    BY <2>1, <2>2
  <2>5. QED  BY <2>3, <2>4, RegisterWriteStep
<1>12. CASE \E g \in Gates : GateStart(g)
  BY <1>12, GateStartStep
<1>13. CASE \E g \in Gates : GateCopy(g)
  BY <1>13, GateCopyStep
<1>14. CASE \E g \in Gates : RunScratch(g)
  BY <1>14, RunScratchStep
<1>15. CASE \E g \in Gates : RunPipelineCell(g)
  BY <1>15, RunPipelineCellStep
<1>16. CASE \E g \in Gates : \E s \in Stores, x \in Designs : GateEvaluate(g, s, x)
  BY <1>16, GateEvaluateStep
<1>17. CASE \E g \in Gates : GateEnd(g)
  BY <1>17, GateEndStep
<1>18. CASE Resume
  BY <1>18, ResumeStep
<1>19. CASE UNCHANGED vars
  <2>1. UNCHANGED <<disk, config, environ, campaign, agentCopy, registrar, gate, ledgered,
                    registered>>
    BY <1>19 DEF vars
  <2>2. Typed'
    BY <2>1 DEF IndInv, Typed
  <2>3. Tables' /\ JobsGrow
    BY <2>1, NothingOnDisk DEF IndInv
  <2>4. Sandboxes' /\ Configured'
    BY <2>1 DEF IndInv, Sandboxes, Configured, Known
  <2>5. AgentCopied'
    BY <2>1, <2>2, <2>3, AgentKeeps DEF IndInv
  <2>6. \A a \in acked \ excused' : Held(disk'[a.at].rows, a)
    BY <2>1 DEF IndInv, Covered
  <2>7. QED  BY <2>1, <2>2, <2>3, <2>4, <2>5, <2>6, CampaignsAside
<1>20. QED
  BY <1>1, <1>2, <1>3, <1>4, <1>5, <1>6, <1>7, <1>8, <1>9, <1>10, <1>11, <1>12, <1>13,
     <1>14, <1>15, <1>16, <1>17, <1>18, <1>19 DEF Next

\* The inductive invariant of the store (oracle_resolution.py, instrumented.py,
\* _f3dasm_compat.py, run_setup.py and the replay of the notebook).
THEOREM Inductive == Spec => []IndInv
<1>1. IndInv /\ [Next]_vars => IndInv'
  BY NextStep
<1>2. QED  BY Starts, <1>1, PTL DEF Spec

\* Tables, campaigns, sandboxes and registrations stay in their types.
THEOREM StoreTypes == Spec => []Typed
<1>1. IndInv => Typed
  BY DEF IndInv
<1>2. QED  BY Inductive, <1>1, PTL

\* However many campaigns a delegation runs, and however often the run resumes,
\* no table gets a design of it twice (_flush).
THEOREM NothingPaidTwice == Spec => []AtMostOnce
<1>1. IndInv => AtMostOnce
  BY DEF IndInv, Tables, Sound, Once, AtMostOnce
<1>2. QED  BY Inductive, <1>1, PTL

\* A value in a table comes from an oracle that was registered for it
\* (_effective_oracle_config).
THEOREM NoForeignOracle == Spec => []NoOracleLeak
<1>1. IndInv => NoOracleLeak
  BY DEF IndInv, Tables, Sound, Leakless, NoOracleLeak, ToSet
<1>2. QED  BY Inductive, <1>1, PTL

\* What a flush acknowledged stays, and its delegation is not off the ledger,
\* until it is superseded: then there is a row of its design, unless the oracle
\* that was asked for its new value raised (_flush, store(), supersede,
\* _reconcile_delegation_evals).
THEOREM AcknowledgedRowsStay == Spec => []AckedKept
<1>1. ASSUME IndInv, NEW a \in acked \ excused
      PROVE  Stays(a) \/ Replaced(a)
  <2>1. Held(disk[a.at].rows, a) /\ a.at \in Live
    BY <1>1 DEF IndInv, Covered, Typed, Ackable
  <2>2. PICK s \in Stores : a.at = <<"live", s>>
    BY <2>1 DEF Live
  <2>3. CASE Covers(disk[a.at].rows, a)
    <3>1. PICK r \in ToSet(disk[a.at].rows) : a.by \in {r.by, Nobody}
      BY <2>3 DEF Covers
    <3>2. ASSUME a.by \in Ids PROVE ~OffLedger(a.by)
      <4>1. r.by = a.by
        BY <3>1, <3>2, IdAssumption
      <4>2. r \in {q \in ToSet(disk[<<"live", s>>].rows) : q.by = a.by}
        BY <2>2, <4>1
      <4>3. r \in StampedRows(a.by)
        BY <4>2 DEF StampedRows
      <4>4. QED  BY <4>3 DEF OffLedger
    <3>3. QED  BY <2>3, <3>2 DEF Stays
  <2>4. QED  BY <2>1, <2>3 DEF Held, Replaced
<1>2. IndInv => AckedKept
  BY <1>1 DEF AckedKept
<1>3. QED  BY Inductive, <1>2, PTL

-----------------------------------------------------------------------------
(* A replay adds rows only for designs that were not there.                *)

NothingReplayed ==
  \A p \in Places : \A i \in DOMAIN disk'[p].rows \ DOMAIN disk[p].rows :
    disk'[p].rows[i].by = ReplayId /\ disk[p].state = "ok"
      => disk'[p].rows[i].design \notin DesignsOf(disk[p].rows)

LEMMA OneTable ==
  ASSUME IndInv, NEW p \in Places, NEW t, disk' = [disk EXCEPT ![p] = t],
         \A i \in DOMAIN t.rows \ DOMAIN disk[p].rows :
           t.rows[i].by = ReplayId /\ disk[p].state = "ok"
             => t.rows[i].design \notin DesignsOf(disk[p].rows)
  PROVE  NothingReplayed
<1>1. disk'[p] = t /\ \A q \in Places \ {p} : disk'[q] = disk[q]
  BY DEF IndInv, Typed
<1>2. QED  BY <1>1 DEF NothingReplayed

\* Rows that are marked at p are there already.
LEMMA MarkedAreThere ==
  ASSUME IndInv, NEW p \in Places, NEW rows \in Seq(Row), Marked(p, rows),
         NEW i \in DOMAIN rows, rows[i].by = ReplayId, disk[p].state = "ok"
  PROVE  i \in DOMAIN disk[p].rows
<1>1. disk[p].rows \in Seq(Row) /\ disk[p].jobs = Len(disk[p].rows)
  BY JobsTyped DEF IndInv, Tables, Whole
<1>2. i \in Nat \ {0} /\ i <= disk[p].jobs
  BY DEF Marked
<1>3. QED  BY <1>1, <1>2

LEMMA MergedAddNone ==
  ASSUME IndInv, NEW c \in Campaigns, campaign[c].pc = "storing",
         disk' = [disk EXCEPT ![campaign[c].at] = Table(campaign[c].merged)]
  PROVE  NothingReplayed
<1>1. PICK p, m : p = campaign[c].at /\ m = campaign[c].merged
  OBVIOUS
<1>2. p \in Places /\ m \in Seq(Row) /\ Marked(p, m)
  BY <1>1, CampaignTyped DEF IndInv, Merging, MergedBy, MergedAs
<1>3. PICK t : t = Table(m)
  OBVIOUS
<1>4. t.rows = m /\ disk' = [disk EXCEPT ![p] = t]
  BY <1>1, <1>3 DEF Table
<1>5. \A i \in DOMAIN m \ DOMAIN disk[p].rows : ~(m[i].by = ReplayId /\ disk[p].state = "ok")
  BY <1>2, MarkedAreThere
<1>6. QED  BY <1>2, <1>4, <1>5, OneTable

LEMMA AgentAddsNone ==
  ASSUME IndInv, NEW own \in Seq(Row), \A i \in DOMAIN own : own[i].by = Nobody,
         AgentStore(own)
  PROVE  NothingReplayed
<1>1. PICK p, loaded : p = agentCopy.at /\ loaded = agentCopy.rows
  OBVIOUS
<1>2. PICK rows : rows = loaded \o own
  OBVIOUS
<1>3. PICK t : t = Table(rows)
  OBVIOUS
<1>4. t.rows = rows /\ disk' = [disk EXCEPT ![p] = t]
  BY <1>1, <1>2, <1>3 DEF AgentStore, Table
<1>5. p \in Places /\ loaded \in Seq(Row) /\ Marked(p, loaded)
  BY <1>1, PlaceFacts DEF IndInv, Typed, AgentCopied
<1>6. Extended(rows, loaded, own)
  BY <1>2, <1>5, Joined
<1>7. ASSUME NEW i \in DOMAIN rows \ DOMAIN disk[p].rows,
             rows[i].by = ReplayId, disk[p].state = "ok"
      PROVE  FALSE
  <2>1. CASE i \in DOMAIN loaded
    <3>1. loaded[i].by = ReplayId
      BY <1>6, <1>7, <2>1 DEF Extended
    <3>2. i \in DOMAIN disk[p].rows
      BY <1>5, <1>7, <2>1, <3>1, MarkedAreThere
    <3>3. QED  BY <1>7, <3>2
  <2>2. CASE \E k \in DOMAIN own : i = Len(loaded) + k
    <3>1. PICK k \in DOMAIN own : rows[i] = own[k]
      BY <1>6, <2>2 DEF Extended
    <3>2. QED  BY <1>7, <3>1 DEF ReplayId, Nobody
  <2>3. QED  BY <1>6, <2>1, <2>2 DEF Extended
<1>8. QED  BY <1>4, <1>5, <1>7, OneTable

LEMMA GateAddsNew ==
  ASSUME IndInv, NEW g \in Gates, NEW s \in Stores, NEW x \in Designs,
         GateEvaluate(g, s, x)
  PROVE  NothingReplayed
<1>1. PICK p : p = StoreDir(g, s)
  OBVIOUS
<1>2. PICK fresh : fresh =
        DropDuplicates(
          <<[by |-> ReplayId, design |-> x, oracle |-> EffectiveOracle(g, s)]>>,
          Seen(disk[p].rows, ReplayId, "all"))
  OBVIOUS
<1>3. PICK old, rows : old = disk[p].rows /\ rows = old \o fresh
  OBVIOUS
<1>4. PICK t : t = Table(rows)
  OBVIOUS
<1>5. HasOracle(g, s) /\ t.rows = rows /\ disk' = [disk EXCEPT ![p] = t]
  BY <1>1, <1>2, <1>3, <1>4 DEF GateEvaluate, Table
<1>6. Replayed(p, s, fresh)
  BY <1>1, <1>2, <1>5, ReplayedRows
<1>7. p \in Places /\ fresh \in Seq(Row)
      /\ \A i \in DOMAIN fresh : fresh[i].design \notin DesignsOf(old)
  BY <1>3, <1>6 DEF Replayed
<1>8. old \in Seq(Row)
  BY <1>3, <1>7, JobsTyped DEF IndInv
<1>9. Extended(rows, old, fresh)
  BY <1>3, <1>7, <1>8, Joined
<1>10. \A i \in DOMAIN rows \ DOMAIN old : rows[i].design \notin DesignsOf(old)
  BY <1>7, <1>9 DEF Extended
<1>11. QED  BY <1>3, <1>5, <1>7, <1>10, OneTable

\* A sandbox that is filled was not there before.
LEMMA CopyAddsNone ==
  ASSUME IndInv, NEW g \in Gates, Copied(g), gate[g].pc \notin Executing
  PROVE  NothingReplayed
<1>1. \A p \in Places : disk'[p] = IF p[1] = g THEN disk[<<"live", p[2]>>] ELSE disk[p]
  BY DEF Copied
<1>2. ASSUME NEW p \in Places, p[1] = g PROVE disk[p] = Absent
  <2>1. PICK s \in Stores : p = <<g, s>>
    BY <1>2 DEF Places
  <2>2. QED  BY <2>1 DEF IndInv, Sandboxes
<1>3. \A p \in Places : disk'[p] = disk[p] \/ disk[p].state # "ok"
  <2>1. Absent.state = "absent"
    BY DEF Absent
  <2>2. ASSUME NEW p \in Places, disk'[p] # disk[p] PROVE disk[p].state # "ok"
    <3>1. p[1] = g
      BY <1>1, <2>2
    <3>2. disk[p] = Absent
      BY <1>2, <3>1
    <3>3. QED  BY <2>1, <3>2
  <2>3. QED  BY <2>2
<1>4. QED  BY <1>3 DEF NothingReplayed

LEMMA EndAddsNone ==
  ASSUME NEW g \in Gates, GateEnd(g)
  PROVE  NothingReplayed
<1>1. \A p \in Places : disk'[p] \in {Absent, disk[p]}
  BY DEF GateEnd
<1>2. DOMAIN Absent.rows = {}
  BY DEF Absent
<1>3. QED  BY <1>1, <1>2 DEF NothingReplayed

LEMMA ResumeAddsNone ==
  ASSUME IndInv, Resume
  PROVE  NothingReplayed
<1>1. PICK old, pooled : old = disk[Base] /\ pooled = IngestPool(old)
  OBVIOUS
<1>2. \A p \in Places : disk'[p] = IF p = Base THEN IngestPool(disk[p])
                                   ELSE IF p[1] = "live" THEN disk[p] ELSE Absent
  BY DEF Resume
<1>3. old \in OnDisk /\ Whole(old) /\ Sound(Base[2], old.rows)
  BY <1>1, PlaceFacts DEF IndInv, Typed, Tables
<1>4. \A i \in DOMAIN pooled.rows \ DOMAIN old.rows : pooled.rows[i].by = PoolId
  BY <1>1, <1>3, Ingested
<1>5. DOMAIN Absent.rows = {}
  BY DEF Absent
<1>6. ASSUME NEW p \in Places, NEW i \in DOMAIN disk'[p].rows \ DOMAIN disk[p].rows,
             disk'[p].rows[i].by = ReplayId
      PROVE  FALSE
  <2>1. CASE p = Base
    <3>1. disk'[p] = pooled /\ disk[p] = old
      BY <1>1, <1>2, <2>1
    <3>2. QED  BY <1>4, <1>6, <3>1 DEF PoolId, ReplayId
  <2>2. CASE p # Base
    BY <1>2, <1>5, <1>6, <2>2
  <2>3. QED  BY <2>1, <2>2
<1>7. QED  BY <1>6 DEF NothingReplayed

LEMMA CutShortAddsNone ==
  ASSUME IndInv, NEW c \in Campaigns, CutShort(c)
  PROVE  NothingReplayed
<1>1. PICK p, m : p = campaign[c].at /\ m = campaign[c].merged
  OBVIOUS
<1>2. campaign[c].pc = "storing" /\ p \in Places
  BY <1>1, CampaignTyped DEF CutShort, IndInv
<1>3. \/ disk' = disk
      \/ disk' = [disk EXCEPT ![p] = Table(m)]
      \/ \E state, jobs : disk' = [disk EXCEPT ![p] = Damaged(state, jobs)]
  BY <1>1 DEF CutShort
<1>4. CASE disk' = disk
  BY <1>4 DEF NothingReplayed
<1>5. CASE disk' = [disk EXCEPT ![p] = Table(m)]
  BY <1>1, <1>2, <1>5, MergedAddNone
<1>6. CASE \E state, jobs : disk' = [disk EXCEPT ![p] = Damaged(state, jobs)]
  <2>1. PICK state, jobs : disk' = [disk EXCEPT ![p] = Damaged(state, jobs)]
    BY <1>6
  <2>2. PICK t : t = Damaged(state, jobs)
    OBVIOUS
  <2>3. DOMAIN t.rows = {} /\ disk' = [disk EXCEPT ![p] = t]
    BY <2>1, <2>2 DEF Damaged
  <2>4. QED  BY <1>2, <2>3, OneTable
<1>7. QED  BY <1>3, <1>4, <1>5, <1>6

LEMMA StepAddsNone ==
  ASSUME IndInv, [Next]_vars
  PROVE  disk' = disk \/ NothingReplayed
<1>1. CASE disk' = disk
  BY <1>1
<1>2. CASE \E c \in Campaigns : StoreMerged(c) \/ CutShort(c)
  <2>1. PICK c \in Campaigns : StoreMerged(c) \/ CutShort(c)
    BY <1>2
  <2>2. CASE StoreMerged(c)
    <3>1. campaign[c].pc = "storing"
          /\ disk' \in {disk, [disk EXCEPT ![campaign[c].at] = Table(campaign[c].merged)]}
      BY <2>2 DEF StoreMerged
    <3>2. QED  BY <3>1, MergedAddNone
  <2>3. CASE CutShort(c)
    BY <2>3, CutShortAddsNone
  <2>4. QED  BY <2>1, <2>2, <2>3
<1>3. CASE AgentStore(<<>>)
  <2>1. PICK own : own = <<>>
    OBVIOUS
  <2>2. own \in Seq(Row) /\ \A i \in DOMAIN own : own[i].by = Nobody
    BY <2>1
  <2>3. QED  BY <1>3, <2>1, <2>2, AgentAddsNone
<1>4. CASE \E x \in Designs :
             AgentStore(<<[by |-> Nobody, design |-> x, oracle |-> NoOracle]>>)
  <2>1. PICK x \in Designs :
          AgentStore(<<[by |-> Nobody, design |-> x, oracle |-> NoOracle]>>)
    BY <1>4
  <2>2. PICK row : row = [by |-> Nobody, design |-> x, oracle |-> NoOracle]
    OBVIOUS
  <2>3. row \in Row /\ row.by = Nobody
    BY <2>2 DEF Row, Oracles
  <2>4. PICK own : own = <<row>>
    OBVIOUS
  <2>5. own \in Seq(Row) /\ \A i \in DOMAIN own : own[i].by = Nobody
    BY <2>3, <2>4
  <2>6. AgentStore(own)
    BY <2>1, <2>2, <2>4
  <2>7. QED  BY <2>5, <2>6, AgentAddsNone
<1>5. CASE \E g \in Gates : GateCopy(g) \/ RunScratch(g) \/ RunPipelineCell(g)
  <2>1. PICK g \in Gates : GateCopy(g) \/ RunScratch(g) \/ RunPipelineCell(g)
    BY <1>5
  <2>2. Copied(g) /\ gate[g].pc \in {"idle", "copying"}
    BY <2>1 DEF GateCopy, RunScratch, RunPipelineCell
  <2>3. gate[g].pc \notin Executing
    BY <2>2 DEF Executing
  <2>4. QED  BY <2>2, <2>3, CopyAddsNone
<1>6. CASE \E g \in Gates : \E s \in Stores, x \in Designs : GateEvaluate(g, s, x)
  BY <1>6, GateAddsNew
<1>7. CASE \E g \in Gates : GateEnd(g)
  BY <1>7, EndAddsNone
<1>8. CASE Resume
  BY <1>8, ResumeAddsNone
<1>9. CASE UNCHANGED vars
  BY <1>9 DEF vars
<1>10. CASE \/ \E c \in Campaigns : \/ \E d \in Ids, s \in Stores : Launch(c, d, s)
                                    \/ \E x \in Designs : Execute(c, x)
                                    \/ BeginFlush(c) \/ Ends(c)
            \/ \E s \in Stores : AgentLoad(<<"live", s>>)
            \/ \E t \in Registrars : \/ RegisterRead(t)
                                     \/ \E m \in Manifests : RegisterWrite(t, m[1], m[2])
            \/ \E g \in Gates : GateStart(g)
  BY <1>10 DEF Launch, Execute, BeginFlush, Ends, AgentLoad, RegisterRead, RegisterWrite,
              GateStart
<1>11. QED
  BY <1>1, <1>2, <1>3, <1>4, <1>5, <1>6, <1>7, <1>8, <1>9, <1>10 DEF Next

\* A replay adds a row only for a design that its table did not have
\* (F3DASM_DEDUP_SCOPE=all in reproduction_gate.py and notebook_exec.py).
THEOREM ReplaysAddNothing == Spec => ReplayAddsNothing
<1>1. IndInv /\ [Next]_vars => [NothingReplayed]_disk
  BY StepAddsNone
<1>2. Spec => [][NothingReplayed]_disk
  BY Inductive, <1>1, PTL DEF Spec
<1>3. QED  BY <1>2 DEF ReplayAddsNothing, NothingReplayed
=============================================================================
