--------------------------- MODULE ScienceMonitor ---------------------------
(***************************************************************************)
(* ScienceMonitor, as far as it keeps state: the count of the rows that    *)
(* repeat an evaluation.  It is consulted whenever the strategizer calls a *)
(* tool or sits in Wait, and whenever a worker ends, and these overlap: a  *)
(* check reads the stores without a lock and counts what it saw under one. *)
(* The counts are the memory of a process; the rows are files of a run.    *)
(*                                                                         *)
(* The other two checks of evaluate() only read, and an escalation takes   *)
(* three rules against one delegation, or an error, where there are two    *)
(* and none: it never fires.                                               *)
(***************************************************************************)
EXTENDS Integers, FiniteSets

CONSTANTS
  Runs,          \* run directories of the study
  Delegations,   \* delegations that evaluate
  Lookers,       \* tool calls and worker threads that check at the same time
  Threshold,     \* DUP_NUDGE_THRESHOLD
  MaxNudges,     \* DUP_MAX_NUDGES
  MaxRows        \* bound on the duplicate rows of a delegation

ASSUME MonitorAssumption ==
  {Threshold, MaxNudges, MaxRows} \subseteq Nat \ {0}

VARIABLES
  rows,       \* in the stores: the duplicate rows stamped with a delegation
  baseline,   \* _dup_baseline
  counter,    \* _dup_counter
  nudges,     \* _dup_nudge_count
  cooling,    \* nudged less than DUP_COOLDOWN_S ago
  looking     \* each looker's evaluate(): where it is, and what it has seen

monitor == <<rows, baseline, counter, nudges, cooling, looking>>

NoRows == [d \in Delegations |-> 0]
Idle == [at |-> "idle", seen |-> NoRows]

(* A monitor of a new process.                                             *)
Forgotten(b, c, n, cool, look) ==
  /\ b = NoRows /\ c = NoRows /\ n = NoRows /\ cool = {}
  /\ look = [l \in Lookers |-> Idle]

MonitorInit ==
  /\ rows = [r \in Runs |-> NoRows]
  /\ Forgotten(baseline, counter, nudges, cooling, looking)

MonitorForgets ==
  /\ Forgotten(baseline', counter', nudges', cooling', looking')
  /\ UNCHANGED rows

(* A worker's script evaluates a point the store already has.              *)
Repeats(r, d) ==
  /\ rows[r][d] < MaxRows
  /\ rows' = [rows EXCEPT ![r][d] = @ + 1]
  /\ UNCHANGED <<baseline, counter, nudges, cooling, looking>>

CoolsDown(d) ==
  /\ d \in cooling
  /\ cooling' = cooling \ {d}
  /\ UNCHANGED <<rows, baseline, counter, nudges, looking>>

(* duplicate_eval_stats: a table that is being rewritten cannot be parsed, *)
(* and counts as empty.                                                    *)
Look(r, l) ==
  /\ looking[l].at = "idle"
  /\ \E seen \in {rows[r], NoRows} :
       looking' = [looking EXCEPT ![l] = [at |-> "looked", seen |-> seen]]
  /\ UNCHANGED <<rows, baseline, counter, nudges, cooling>>

(* Duplicates nobody has counted yet.                                      *)
NewDuplicates(l, d) == looking[l].seen[d] - baseline[d]

(* What counts as known from now on; the first form, not used, takes an    *)
(* older look, or a table it could not read, at its word.                  *)
KnownAsSeen(l, d) == looking[l].seen[d]
Known(l, d) ==
  IF NewDuplicates(l, d) > 0 THEN looking[l].seen[d] ELSE baseline[d]

(* _check_duplicate_evaluations, under the lock.  The text goes to the     *)
(* strategizer, or nowhere when it is a worker that looked.                *)
Count(l) ==
  LET news == {d \in Delegations : NewDuplicates(l, d) > 0}
      counted == {d \in news : nudges[d] < MaxNudges}
      total(d) == counter[d] + NewDuplicates(l, d)
      nudged == {d \in counted : total(d) >= Threshold /\ d \notin cooling}
  IN /\ looking[l].at = "looked"
     /\ baseline' = [d \in Delegations |-> Known(l, d)]
     /\ counter' = [d \in Delegations |->
          IF d \in nudged THEN 0
          ELSE IF d \in counted THEN total(d) ELSE counter[d]]
     /\ nudges' = [d \in Delegations |->
          IF d \in nudged THEN nudges[d] + 1 ELSE nudges[d]]
     /\ cooling' = cooling \cup nudged
     /\ looking' = [looking EXCEPT ![l] = Idle]
     /\ UNCHANGED rows

MonitorStep(r) ==
  \/ \E d \in Delegations : Repeats(r, d) \/ CoolsDown(d)
  \/ \E l \in Lookers : Look(r, l) \/ Count(l)

(***************************************************************************)
(* A duplicate is held against a delegation once in a process: its nudges, *)
(* Threshold duplicates each, and what is counted towards the next never   *)
(* add up to more rows than the store has, however the checks of the       *)
(* strategizer and of ending workers overlap ("fires once                  *)
(* DUP_NUDGE_THRESHOLD NEW duplicate rows have landed since the last       *)
(* check").                                                                *)
(***************************************************************************)
PaidFor(r) ==
  \A d \in Delegations : Threshold * nudges[d] + counter[d] <= rows[r][d]
=============================================================================
