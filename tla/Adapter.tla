------------------------------- MODULE Adapter -------------------------------
(***************************************************************************)
(* The model adapter of one worker role.  copy() returns self, so every    *)
(* delegation to the role uses this one object: its closure_tools are      *)
(* replaced by the next Delegate whoever is in a turn, and a lock makes    *)
(* the turns take turns.  A turn is retried as a whole on a transient      *)
(* error, and repeated once when its report is malformed.                  *)
(***************************************************************************)
EXTENDS Crew, FiniteSets

CONSTANTS
  MaxAttempts,   \* llm_retry_max
  MaxCalls       \* bound on the closure calls of one delegation

ASSUME AdapterAssumption == MaxAttempts \in Nat \ {0} /\ MaxCalls \in Nat

Kinds == {"claude", "openai"}
Over == {"done", "failed"}

VARIABLES
  kind,        \* the backend
  slot,        \* the delegation whose closures closure_tools holds; 0: none
  bound,       \* the one whose closures the running session was built from
  lock,        \* the delegation inside invoke(); 0: none
  stage,       \* where each delegation's thread is
  attempt,     \* of retry_on_transient
  round,       \* 2: the corrective invoke after a malformed report
  calls,
  usage,       \* last_usage: the delegation it was counted for
  nudge,       \* _oracle_nudge.events: the delegations that set it off
  overlapped,  \* history: delegations that were not alone on the adapter
  ran,         \* history: whose closures ran in each delegation's turns
  recorded     \* history: whose usage and nudges each one was charged with

adapter == <<kind, slot, bound, lock, stage, attempt, round, calls, usage,
             nudge, overlapped, ran, recorded>>
turns == <<kind, slot, bound, attempt, calls, overlapped, ran>>

AdapterInit ==
  /\ kind \in Kinds
  /\ slot = 0 /\ bound = 0 /\ lock = 0
  /\ stage = [d \in Delegations |-> "none"]
  /\ attempt = 0
  /\ round = [d \in Delegations |-> 1]
  /\ calls = [d \in Delegations |-> 0]
  /\ usage = 0 /\ nudge = {}
  /\ overlapped = {}
  /\ ran = [d \in Delegations |-> {}]
  /\ recorded = [d \in Delegations |-> {}]

(* The process is gone, and the adapter with it.                           *)
AdapterGone ==
  /\ kind' = kind
  /\ slot' = 0 /\ bound' = 0 /\ lock' = 0
  /\ stage' = [d \in Delegations |-> "none"]
  /\ attempt' = 0
  /\ round' = [d \in Delegations |-> 1]
  /\ calls' = [d \in Delegations |-> 0]
  /\ usage' = 0 /\ nudge' = {}
  /\ overlapped' = {}
  /\ ran' = [d \in Delegations |-> {}]
  /\ recorded' = [d \in Delegations |-> {}]

AdapterTypeOK ==
  /\ kind \in Kinds
  /\ {slot, bound, lock, usage} \subseteq Delegations \cup {0}
  /\ stage \in [Delegations -> {"none", "waiting", "turn", "backoff", "nudges",
                            "usage"} \cup Over]
  /\ attempt \in 0..MaxAttempts
  /\ round \in [Delegations -> 1..2]
  /\ calls \in [Delegations -> 0..MaxCalls]
  /\ nudge \subseteq Delegations /\ overlapped \subseteq Delegations
  /\ {ran, recorded} \subseteq [Delegations -> SUBSET (Delegations \cup {0})]
  /\ \A d \in Delegations : stage[d] \in {"turn", "backoff"} <=> lock = d

Live == {d \in Delegations : stage[d] \notin {"none"} \cup Over}
Woken == {d \in Delegations : stage[d] # "none"}

(***************************************************************************)
(* Delegate hands the adapter the delegation's own closures (ReportEvals,  *)
(* FollowUp, Write, ...) and starts its thread; nobody takes the lock.     *)
(***************************************************************************)
Delegate(d) ==
  /\ stage[d] = "none" /\ \A e \in 1..(d - 1) : stage[e] # "none"
  /\ stage' = [stage EXCEPT ![d] = "waiting"]
  /\ slot' = d
  /\ overlapped' = IF Live = {} THEN overlapped
                   ELSE overlapped \cup Live \cup {d}
  /\ UNCHANGED <<kind, bound, lock, attempt, round, calls, usage, nudge, ran,
                 recorded>>

(***************************************************************************)
(* One attempt, under the lock.  ClaudeAdapter builds its tool server from *)
(* closure_tools every time; the other keeps the agent it built first, and *)
(* resets the nudge budget.                                                *)
(***************************************************************************)
Begins(d) ==
  /\ stage' = [stage EXCEPT ![d] = "turn"]
  /\ attempt' = attempt + 1
  /\ bound' = IF kind = "claude" \/ bound = 0 THEN slot ELSE bound
  /\ nudge' = {}
  /\ UNCHANGED <<kind, slot, round, calls, usage, overlapped, ran, recorded>>

Invoke(d) ==
  /\ stage[d] = "waiting" /\ lock = 0
  /\ lock' = d
  /\ Begins(d)

Retry(d) ==
  /\ stage[d] = "backoff"
  /\ UNCHANGED lock
  /\ Begins(d)

(* The tools of the first agent, as they were: what _build_tools did       *)
(* before its closures looked the callable up on each call.                *)
UsesBuilt == bound

(* Whose closures a call runs.                                             *)
Uses == IF kind = "claude" THEN bound ELSE slot

(* A call of one of the delegation's closures.                             *)
Calls(d) ==
  /\ stage[d] = "turn" /\ calls[d] < MaxCalls
  /\ calls' = [calls EXCEPT ![d] = @ + 1]
  /\ ran' = [ran EXCEPT ![d] = @ \cup {Uses}]
  /\ UNCHANGED <<kind, slot, bound, lock, stage, attempt, round, usage, nudge,
                 overlapped, recorded>>

(* A Bash or Write that reaches the raw oracle.                            *)
RawOracle(d) ==
  /\ stage[d] = "turn" /\ calls[d] < MaxCalls
  /\ calls' = [calls EXCEPT ![d] = @ + 1]
  /\ nudge' = nudge \cup {d}
  /\ UNCHANGED <<kind, slot, bound, lock, stage, attempt, round, usage,
                 overlapped, ran, recorded>>

(***************************************************************************)
(* The end of an attempt.  A stalled stream is a timeout, which like any   *)
(* transient error is retried while attempts are left; another error, or   *)
(* the last one, is the delegation's: _finish_error charges it with        *)
(* whatever last_usage says.                                               *)
(***************************************************************************)
Backoff(d) ==
  /\ stage[d] = "turn" /\ attempt < MaxAttempts
  /\ stage' = [stage EXCEPT ![d] = "backoff"]
  /\ UNCHANGED <<turns, lock, round, usage, nudge, recorded>>

Fails(d) ==
  /\ stage[d] = "turn"
  /\ stage' = [stage EXCEPT ![d] = "failed"]
  /\ recorded' = [recorded EXCEPT ![d] = @ \cup {usage}]
  /\ lock' = 0 /\ attempt' = 0
  /\ UNCHANGED <<kind, slot, bound, calls, overlapped, ran, round, usage,
                 nudge>>

Returns(d) ==
  /\ stage[d] = "turn"
  /\ usage' = d
  /\ lock' = 0 /\ attempt' = 0
  /\ \/ /\ round[d] = 1
        /\ round' = [round EXCEPT ![d] = 2]
        /\ stage' = [stage EXCEPT ![d] = "waiting"]
     \/ /\ stage' = [stage EXCEPT ![d] = "nudges"]
        /\ UNCHANGED round
  /\ UNCHANGED <<kind, slot, bound, calls, overlapped, ran, nudge, recorded>>

(***************************************************************************)
(* What the thread collects once it no longer holds the lock: the nudges,  *)
(* which it clears, and the usage.                                         *)
(***************************************************************************)
RecordNudges(d) ==
  /\ stage[d] = "nudges"
  /\ stage' = [stage EXCEPT ![d] = "usage"]
  /\ recorded' = [recorded EXCEPT ![d] = @ \cup nudge]
  /\ nudge' = {}
  /\ UNCHANGED <<turns, lock, round, usage>>

RecordUsage(d) ==
  /\ stage[d] = "usage"
  /\ stage' = [stage EXCEPT ![d] = "done"]
  /\ recorded' = [recorded EXCEPT ![d] = @ \cup {usage}]
  /\ UNCHANGED <<turns, lock, round, usage, nudge>>

(***************************************************************************)
(* A delegation that was alone on the adapter from its dispatch to its end *)
(* and was reported done ran its own closures only, and was charged with   *)
(* its own usage and its own raw-oracle nudges, whatever the delegations   *)
(* before it left behind in the shared object, its cached agent, its       *)
(* last_usage and its nudge budget.                                        *)
(***************************************************************************)
OwnWhenAlone ==
  \A d \in Delegations \ overlapped :
    stage[d] = "done" => ran[d] \cup recorded[d] \subseteq {d}
=============================================================================
