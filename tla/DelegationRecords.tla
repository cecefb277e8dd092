-------------------------- MODULE DelegationRecords --------------------------
(***************************************************************************)
(* What the readers of the delegation log rely on (HypothesisUpdate,       *)
(* Done's pending check, the budget snapshot, RecallHistory): one record   *)
(* per delegation, the last one written; the delegations in the order of   *)
(* that write; and ids that continue past every recorded one.              *)
(***************************************************************************)
EXTENDS Naturals

CONSTANTS Ids, Statuses

VARIABLES
  record,   \* the record of each delegation, or None
  before,   \* the pairs of recorded delegations, the earlier write first
  next,     \* the last id handed out
  damaged   \* a write was cut short

records == <<record, before, next, damaged>>

None == [status |-> "none", attempt |-> FALSE]

Recorded == {d \in Ids : record[d] # None}

Highest == IF Recorded = {} THEN 0 ELSE CHOOSE d \in Recorded : \A e \in Recorded : e <= d

Start ==
  /\ record = [d \in Ids |-> None]
  /\ before = {}
  /\ next = 0
  /\ damaged = FALSE

\* The order of the delegations other than d.
Without(order, d) == {p \in order : d \notin {p[1], p[2]}}

\* A strict total order of S.
Orders(order, S) ==
  /\ order \subseteq S \X S
  /\ \A d, e \in S : <<d, e>> \in order <=> d # e /\ <<e, d>> \notin order
  /\ \A c, d, e \in S : <<c, d>> \in order /\ <<d, e>> \in order => <<c, e>> \in order

HandOut ==
  /\ next + 1 \in Ids
  /\ next' = next + 1
  /\ UNCHANGED <<record, before>>

\* A record replaces the one before it and moves its delegation to the end.
Put(d, s) ==
  /\ d <= next
  /\ record' = [record EXCEPT ![d] = [status |-> s, attempt |-> FALSE]]
  /\ before' = Without(before, d) \cup ((Recorded \ {d}) \X {d})
  /\ UNCHANGED next

\* Linking a falsification attempt changes one field of one record.
Link(d) ==
  /\ record[d] # None
  /\ record' = [record EXCEPT ![d].attempt = TRUE]
  /\ UNCHANGED <<before, next>>

\* A new session continues after the highest recorded id.
Resume ==
  /\ next' = Highest
  /\ UNCHANGED <<record, before>>

\* A write that is cut short costs one delegation its last record: it has the
\* one before, at its old place in the order, or none.  The others stay as they
\* are.
Damage(d) ==
  /\ damaged'
  /\ record' \in {[record EXCEPT ![d] = r] :
                    r \in {None} \cup [status : Statuses, attempt : {FALSE}]}
  /\ Without(before', d) = Without(before, d)
  /\ Orders(before', Recorded')
  /\ UNCHANGED next

\* A session that ends while the records are written back leaves the first of
\* them.
Truncate ==
  /\ damaged'
  /\ \E kept \in SUBSET Recorded :
       /\ kept # Recorded
       /\ \A p \in before : p[2] \in kept => p[1] \in kept
       /\ before' = before \cap (kept \X kept)
       /\ record' = [d \in Ids |-> IF d \in kept THEN record[d] ELSE None]
  /\ next' = Highest'

Step ==
  /\ damaged => damaged'
  /\ \/ HandOut
     \/ \E d \in Ids, s \in Statuses : Put(d, s)
     \/ \E d \in Ids : Link(d)
     \/ \E d \in Ids : Damage(d)
     \/ Resume
     \/ Truncate

Records == Start /\ [][Step]_records
=============================================================================
