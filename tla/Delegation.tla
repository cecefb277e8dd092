----------------------------- MODULE Delegation -----------------------------
(***************************************************************************)
(* The delegation machinery of one orchestrating node                      *)
(* (nodes/tools/routing/delegation.py and nodes/orchestration.py).         *)
(*                                                                         *)
(* The agent's tool calls (Delegate, GetStatus, CancelDelegation, Wait,    *)
(* Reply, Done) run in the node's turn.  Every delegation runs on a daemon *)
(* thread of its own, WorkerSession.run.  The two sides share the          *)
(* registry, which is in memory and guarded by _registry_lock, and the     *)
(* delegation log, which is on disk and whose reader keeps the last row of *)
(* every id.  Each action below is one critical section, or one row of the *)
(* log, of one of those threads: everything between two of them can        *)
(* interleave.                                                             *)
(*                                                                         *)
(* Delegations are numbered by _allocate_delegation_id, D001 is 1.  What   *)
(* the messages say, the prompt, the usage counts and the notification     *)
(* queue are left out: they steer no branch taken here.  The other gates   *)
(* of Done are abstracted to "the call may be refused".                    *)
(***************************************************************************)
EXTENDS Naturals, FiniteSets

CONSTANTS
  MaxDelegations,  \* bound on the ids one run hands out
  Targets,         \* the connected worker nodes
  Callers,         \* tool-call threads of the agent: the Claude backend
                   \* runs one call at a time, ToolNode runs several
  Granted,         \* the opt-in tools the agent declares: the default
                   \* strategizer has GetStatus and no CancelDelegation
  FinishMax,       \* _reprompt_unfinished: 3 attempts
  MaxErrors,       \* max_consecutive_errors; 0 switches the halt off
  Hazards          \* what the workers and the disk of this run may do:
                   \* "ask" a FollowUp, "raise" in the worker, a row of
                   \* the log that cannot be written ("fault"), a dispatch
                   \* that fails half way ("dispatch")

ASSUME BoundAssumption == MaxDelegations \in Nat
ASSUME LimitAssumption == FinishMax \in Nat /\ MaxErrors \in Nat
ASSUME GrantAssumption == Granted \subseteq {"GetStatus", "CancelDelegation"}
ASSUME TargetAssumption == Targets # {}
ASSUME HazardAssumption == Hazards \subseteq {"ask", "raise", "fault", "dispatch"}

VARIABLES
  seq,             \* DelegationLog._seq: ids handed out so far
  status,          \* _registry[d]["status"], "None" when there is no entry
  target,          \* _registry[d]["target"]
  asked,           \* followup_count = 1
  answered,        \* followup_event is set
  cancelPending,   \* first shot of the two-shot cancel
  waited,          \* the report was handed out by Wait
  errs,            \* _consecutive_errors
  stamped,         \* the delegation has rows in an experiment store
  thread,          \* where WorkerSession.run is
  detached,        \* the local _detached of _finish_ok
  log,             \* last row of d in delegation_log.jsonl
  call,            \* the blocking tool call of each caller
  phase,           \* the node: between turns, in a turn, closing
  routeDone,       \* _route["kind"] = "done"
  finishAttempts,  \* _finish_attempts
  toFlush,         \* the ids _flush_ghost_delegations collected
  read,            \* history: the report was shown to the agent
  cancelled        \* history: the agent was told "cancelled (detached)"

registry == <<status, target, asked, answered, cancelPending, waited, errs>>
workers  == <<stamped, thread, detached>>
node     == <<phase, routeDone, finishAttempts, toFlush>>
vars == <<seq, registry, workers, log, call, node, read, cancelled>>

Ids == 1..MaxDelegations
Dispatched == 1..seq

Statuses == {"None", "Working", "FollowUp", "Done", "Errored", "Cancelled"}
Stages   == {"none", "run", "parked", "okLog", "okPublish",
             "errLog", "errPublish", "ended"}
Rows     == {"none", "RUNNING", "DONE", "FAILED", "INTERRUPTED"}
Phases   == {"between", "turn", "flushing", "closed", "exited",
             "halted", "stopped"}
NoCall   == [op |-> "idle", id |-> 0]
Calls    == [op : {"idle", "log", "start", "join", "waitAny", "waitOne"},
             id : 0..MaxDelegations]

(***************************************************************************)
(* The type invariant: every variable keeps the shape the code gives it,   *)
(* statuses and rows are the literals the readers of the registry and of   *)
(* the log compare with.                                                   *)
(***************************************************************************)
TypeOK ==
  /\ seq \in 0..MaxDelegations
  /\ status \in [Ids -> Statuses]
  /\ target \in [Ids -> Targets]
  /\ asked \in [Ids -> BOOLEAN]
  /\ answered \in [Ids -> BOOLEAN]
  /\ cancelPending \in [Ids -> BOOLEAN]
  /\ waited \in [Ids -> BOOLEAN]
  /\ errs \in [Targets -> Nat]
  /\ stamped \in [Ids -> BOOLEAN]
  /\ thread \in [Ids -> Stages]
  /\ detached \in [Ids -> BOOLEAN]
  /\ log \in [Ids -> Rows]
  /\ call \in [Callers -> Calls]
  /\ phase \in Phases
  /\ routeDone \in BOOLEAN
  /\ finishAttempts \in 0..FinishMax
  /\ toFlush \subseteq Ids
  /\ read \in [Ids -> BOOLEAN]
  /\ cancelled \in [Ids -> BOOLEAN]

Init ==
  /\ seq = 0
  /\ status = [d \in Ids |-> "None"]
  /\ target = [d \in Ids |-> CHOOSE t \in Targets : TRUE]  \* not yet used
  /\ asked = [d \in Ids |-> FALSE]
  /\ answered = [d \in Ids |-> FALSE]
  /\ cancelPending = [d \in Ids |-> FALSE]
  /\ waited = [d \in Ids |-> FALSE]
  /\ errs = [t \in Targets |-> 0]
  /\ stamped = [d \in Ids |-> FALSE]
  /\ thread = [d \in Ids |-> "none"]
  /\ detached = [d \in Ids |-> FALSE]
  /\ log = [d \in Ids |-> "none"]
  /\ call = [c \in Callers |-> NoCall]
  /\ phase = "between"
  /\ routeDone = FALSE
  /\ finishAttempts = 0
  /\ toFlush = {}
  /\ read = [d \in Ids |-> FALSE]
  /\ cancelled = [d \in Ids |-> FALSE]

-----------------------------------------------------------------------------
(* What the code computes from the registry.                               *)

Live(d) == status[d] \in {"Working", "FollowUp"}
Settled(d) == status[d] \in {"Done", "Errored"}

\* Reports a bare Wait may hand out: Done or Errored and not yet waited for.
Ready == {d \in Ids : Settled(d) /\ ~waited[d]}

\* Delegations a bare Wait keeps waiting for: not parked on a question, and
\* not on a thread that is known to be gone.  No thread at all counts as
\* "still coming".
WaitableParked == {d \in Ids : Live(d) /\ thread[d] # "ended"}
Waitable == {d \in Ids : status[d] = "Working" /\ thread[d] # "ended"}

\* What Done refuses to close over: Working, unless the log says terminal.
Pending == {d \in Ids : status[d] = "Working" /\ log[d] \notin {"DONE", "FAILED"}}

\* What the turn router and the ghost flush call live.
WorkingDelegations == {d \in Ids : Live(d)}
GhostsNotParked == {d \in Ids : status[d] = "Working"}
Ghosts == {d \in Ids : Live(d)}

\* The entries _reset_for_turn keeps.
KeptNotParked(s) == s \in {"Working", "Done"}
Kept(s) == s \in {"Working", "FollowUp", "Done"}

-----------------------------------------------------------------------------
(* The agent's tool calls.                                                 *)

Idle(c) == phase = "turn" /\ call[c] = NoCall

Dispatching(c, d) == call[c].op \in {"log", "start"} /\ call[c].id = d

\* The agent names an id in a call only once no Delegate is busy with it: the
\* id is in the result of the Delegate.
Given(d) == d \in Dispatched /\ ~\E c \in Callers : Dispatching(c, d)

\* The RUNNING row of the dispatch.
RecordStarted(d) == [log EXCEPT ![d] = "RUNNING"]

\* Delegate allocates the id and opens the entry, ...
Delegate(c, t) ==
  /\ Idle(c)
  /\ seq < MaxDelegations
  /\ seq' = seq + 1
  /\ status' = [status EXCEPT ![seq + 1] = "Working"]
  /\ target' = [target EXCEPT ![seq + 1] = t]
  /\ call' = [call EXCEPT ![c] = [op |-> "log", id |-> seq + 1]]
  /\ UNCHANGED <<asked, answered, cancelPending, waited, errs, workers, log,
                 node, read, cancelled>>

\* ... logs that it is running, ...
DelegateLogs(c) ==
  /\ call[c].op = "log"
  /\ log' = RecordStarted(call[c].id)
  /\ call' = [call EXCEPT ![c].op = "start"]
  /\ UNCHANGED <<seq, registry, workers, node, read, cancelled>>

\* ... and starts the thread; with wait=True it stays until the thread ends.
DelegateStarts(c, wait) ==
  /\ call[c].op = "start"
  /\ thread' = [thread EXCEPT ![call[c].id] = "run"]
  /\ call' = IF wait THEN [call EXCEPT ![c].op = "join"]
                     ELSE [call EXCEPT ![c] = NoCall]
  /\ UNCHANGED <<seq, registry, stamped, detached, log, node, read, cancelled>>

\* Delegate raising after the entry was opened (the log cannot be written,
\* or a later step of the dispatch fails): no thread, and nobody takes the
\* entry back.
DelegateFails(c) ==
  /\ "dispatch" \in Hazards
  /\ call[c].op \in {"log", "start"}
  /\ call' = [call EXCEPT ![c] = NoCall]
  /\ UNCHANGED <<seq, registry, workers, log, node, read, cancelled>>

\* The synchronous Delegate comes back: the report is in its result.
DelegateReturns(c) ==
  /\ call[c].op = "join"
  /\ thread[call[c].id] = "ended"
  /\ read' = IF Settled(call[c].id) THEN [read EXCEPT ![call[c].id] = TRUE]
                                    ELSE read
  /\ call' = [call EXCEPT ![c] = NoCall]
  /\ UNCHANGED <<seq, registry, workers, log, node, cancelled>>

\* GetStatus when it shows a report: from the entry, or from the log when
\* the entry is gone.  Polling a live delegation changes nothing here.
GetStatus(c, d) ==
  /\ "GetStatus" \in Granted
  /\ Idle(c)
  /\ Given(d)
  /\ \/ Settled(d)
     \/ status[d] = "None" /\ log[d] \in {"DONE", "FAILED"}
  /\ read' = [read EXCEPT ![d] = TRUE]
  /\ UNCHANGED <<seq, registry, workers, log, call, node, cancelled>>

\* CancelDelegation: two-shot when the delegation has stamped evaluations.
Cancel(c, d) ==
  /\ "CancelDelegation" \in Granted
  /\ Idle(c)
  /\ Given(d)
  /\ Live(d)
  /\ IF stamped[d] /\ ~cancelPending[d]
       THEN /\ cancelPending' = [cancelPending EXCEPT ![d] = TRUE]
            /\ UNCHANGED <<status, cancelled>>
       ELSE /\ status' = [status EXCEPT ![d] = "Cancelled"]
            /\ cancelled' = [cancelled EXCEPT ![d] = TRUE]
            /\ UNCHANGED cancelPending
  /\ UNCHANGED <<seq, target, asked, answered, waited, errs, workers, log,
                 call, node, read>>

Reply(c, d) ==
  /\ Idle(c)
  /\ Given(d)
  /\ status[d] = "FollowUp"
  /\ answered' = [answered EXCEPT ![d] = TRUE]
  /\ UNCHANGED <<seq, status, target, asked, cancelPending, waited, errs,
                 workers, log, call, node, read, cancelled>>

WaitAny(c) ==
  /\ Idle(c)
  /\ call' = [call EXCEPT ![c] = [op |-> "waitAny", id |-> 0]]
  /\ UNCHANGED <<seq, registry, workers, log, node, read, cancelled>>

\* One tick of _wait_for_any that finds a report: the oldest entry wins.
WaitAnyHands(c, d) ==
  /\ call[c].op = "waitAny"
  /\ d \in Ready
  /\ \A e \in Ready : d <= e
  /\ waited' = [waited EXCEPT ![d] = TRUE]
  /\ read' = [read EXCEPT ![d] = TRUE]
  /\ call' = [call EXCEPT ![c] = NoCall]
  /\ UNCHANGED <<seq, status, target, asked, answered, cancelPending, errs,
                 workers, log, node, cancelled>>

\* One tick that gives up: nothing open, or nothing that can still finish.
WaitAnyRefuses(c) ==
  /\ call[c].op = "waitAny"
  /\ Ready = {}
  /\ Waitable = {}
  /\ call' = [call EXCEPT ![c] = NoCall]
  /\ UNCHANGED <<seq, registry, workers, log, node, read, cancelled>>

\* Wait(id) that needs no waiting: the entry is settled, or it has no thread.
WaitOneAtOnce(c, d) ==
  /\ Idle(c)
  /\ Given(d)
  /\ status[d] # "None"
  /\ Settled(d) \/ thread[d] = "none"
  /\ waited' = [waited EXCEPT ![d] = TRUE]
  /\ read' = IF Settled(d) THEN [read EXCEPT ![d] = TRUE] ELSE read
  /\ UNCHANGED <<seq, status, target, asked, answered, cancelPending, errs,
                 workers, log, call, node, cancelled>>

\* Wait(id) that joins the thread of d, whatever d is doing.
WaitOneMarksFirst(c, d) ==
  /\ Idle(c)
  /\ Given(d)
  /\ status[d] \in {"Working", "FollowUp", "Cancelled"}
  /\ thread[d] # "none"
  /\ call' = [call EXCEPT ![c] = [op |-> "waitOne", id |-> d]]
  /\ waited' = [waited EXCEPT ![d] = TRUE]
  /\ UNCHANGED <<seq, status, target, asked, answered, cancelPending, errs,
                 workers, log, node, read, cancelled>>

WaitOne(c, d) ==
  /\ Idle(c)
  /\ Given(d)
  /\ status[d] \in {"Working", "FollowUp", "Cancelled"}
  /\ thread[d] # "none"
  /\ call' = [call EXCEPT ![c] = [op |-> "waitOne", id |-> d]]
  /\ UNCHANGED <<seq, registry, workers, log, node, read, cancelled>>

WaitOneReturns(c) ==
  /\ call[c].op = "waitOne"
  /\ LET d == call[c].id IN
       /\ thread[d] = "ended"
       /\ waited' = [waited EXCEPT ![d] = TRUE]
       /\ read' = IF Settled(d) THEN [read EXCEPT ![d] = TRUE] ELSE read
  /\ call' = [call EXCEPT ![c] = NoCall]
  /\ UNCHANGED <<seq, status, target, asked, answered, cancelPending, errs,
                 workers, log, node, cancelled>>

\* Done, accepted: its first gate is the only one this module knows.
Done(c) ==
  /\ Idle(c)
  /\ Pending = {}
  /\ routeDone' = TRUE
  /\ UNCHANGED <<seq, registry, workers, log, call, phase, finishAttempts,
                 toFlush, read, cancelled>>

-----------------------------------------------------------------------------
(* WorkerSession, one daemon thread per delegation.                        *)

\* The worker flushes provenance-stamped rows while it runs.
StampEvals(d) ==
  /\ thread[d] = "run"
  /\ stamped' = [stamped EXCEPT ![d] = TRUE]
  /\ UNCHANGED <<seq, registry, thread, detached, log, call, node,
                 read, cancelled>>

\* The worker's own FollowUp parks it; without an entry the call only
\* raises inside the tool, which the worker's model sees as a tool error.
FollowUp(d) ==
  /\ "ask" \in Hazards
  /\ thread[d] = "run"
  /\ ~asked[d]
  /\ status[d] # "None"
  /\ asked' = [asked EXCEPT ![d] = TRUE]
  /\ status' = [status EXCEPT ![d] = "FollowUp"]
  /\ thread' = [thread EXCEPT ![d] = "parked"]
  /\ UNCHANGED <<seq, target, answered, cancelPending, waited, errs, stamped,
                 detached, log, call, node, read, cancelled>>

\* Leaving evt.wait: the status goes back to Working whatever it has become.
Resume(d) ==
  /\ thread[d] = "parked"
  /\ thread' = [thread EXCEPT ![d] = "run"]
  /\ status' = [status EXCEPT ![d] = IF @ = "None" THEN @ ELSE "Working"]
  /\ UNCHANGED <<seq, target, asked, answered, cancelPending, waited, errs,
                 stamped, detached, log, call, node, read, cancelled>>

ResumeAnswered(d) == answered[d] /\ Resume(d)
ResumeNever(d) == answered[d] /\ Resume(d)         \* no timeout
ResumeTimeout(d) == ~answered[d] /\ Resume(d)      \* 300 seconds

\* _finish_ok, first critical section.  A pruned entry is a KeyError, which
\* run() turns into _finish_error.
FinishOk(d) ==
  /\ thread[d] = "run"
  /\ IF status[d] = "None"
       THEN /\ thread' = [thread EXCEPT ![d] = "errLog"]
            /\ UNCHANGED detached
       ELSE /\ thread' = [thread EXCEPT ![d] = "okLog"]
            /\ detached' = [detached EXCEPT ![d] = status[d] = "Cancelled"]
  /\ UNCHANGED <<seq, registry, stamped, log, call, node, read, cancelled>>

\* Any exception of the invocation lands in _finish_error.
RaiseEscapes(d) ==
  /\ "raise" \in Hazards
  /\ thread[d] = "run"
  /\ thread' = [thread EXCEPT ![d] = "ended"]
  /\ UNCHANGED <<seq, registry, stamped, detached, log, call, node, read, cancelled>>

Raise(d) ==
  /\ "raise" \in Hazards
  /\ thread[d] = "run"
  /\ thread' = [thread EXCEPT ![d] = "errLog"]
  /\ UNCHANGED <<seq, registry, stamped, detached, log, call, node, read, cancelled>>

\* The terminal row of a completed delegation.
RecordDoneLate(d) == log
RecordDone(d) == [log EXCEPT ![d] = "DONE"]

LogDone(d) ==
  /\ thread[d] = "okLog"
  /\ log' = RecordDone(d)
  /\ thread' = [thread EXCEPT ![d] = "okPublish"]
  /\ UNCHANGED <<seq, registry, stamped, detached, call, node, read, cancelled>>

\* _finish_ok, second critical section, with the _detached it read before.
PublishDone(d) ==
  /\ thread[d] = "okPublish"
  /\ \/ /\ status[d] = "None"                    \* KeyError
        /\ thread' = [thread EXCEPT ![d] = "errLog"]
        /\ UNCHANGED <<status, errs>>
     \/ /\ status[d] # "None"
        /\ detached[d]
        /\ thread' = [thread EXCEPT ![d] = "ended"]
        /\ UNCHANGED <<status, errs>>
     \/ /\ status[d] # "None"
        /\ ~detached[d]
        /\ thread' = [thread EXCEPT ![d] = "ended"]
        /\ status' = [status EXCEPT ![d] = "Done"]
        /\ errs' = [errs EXCEPT ![target[d]] = 0]
  /\ UNCHANGED <<seq, target, asked, answered, cancelPending, waited, stamped,
                 detached, log, call, node, read, cancelled>>

LogFailed(d) ==
  /\ thread[d] = "errLog"
  /\ log' = [log EXCEPT ![d] = "FAILED"]
  /\ thread' = [thread EXCEPT ![d] = "errPublish"]
  /\ UNCHANGED <<seq, registry, stamped, detached, call, node, read, cancelled>>

\* _finish_error, its critical section: no look at the status it replaces.
PublishErrored(d) ==
  /\ thread[d] = "errPublish"
  /\ thread' = [thread EXCEPT ![d] = "ended"]
  /\ IF status[d] = "None"
       THEN UNCHANGED <<status, errs>>
       ELSE /\ status' = [status EXCEPT ![d] = "Errored"]
            /\ errs' = [errs EXCEPT ![target[d]] = @ + 1]
  /\ UNCHANGED <<seq, target, asked, answered, cancelPending, waited, stamped,
                 detached, log, call, node, read, cancelled>>

\* The log cannot be written: inside run() this is one more exception,
\* inside _finish_error it ends the thread.
LogFault(d) ==
  /\ "fault" \in Hazards
  /\ \/ /\ thread[d] = "okLog"
        /\ thread' = [thread EXCEPT ![d] = "errLog"]
     \/ /\ thread[d] = "errLog"
        /\ thread' = [thread EXCEPT ![d] = "ended"]
  /\ UNCHANGED <<seq, registry, stamped, detached, log, call, node,
                 read, cancelled>>

-----------------------------------------------------------------------------
(* The node's turn.                                                        *)

TurnOver == phase = "turn" /\ \A c \in Callers : call[c] = NoCall

\* Every turn starts by pruning the registry and clearing the route.
ResetForTurn ==
  /\ phase = "between"
  /\ ~\E t \in Targets : MaxErrors > 0 /\ errs[t] >= MaxErrors
  /\ phase' = "turn"
  /\ routeDone' = FALSE
  /\ status' = [d \in Ids |-> IF Kept(status[d]) THEN status[d] ELSE "None"]
  /\ UNCHANGED <<seq, target, asked, answered, cancelPending, waited, errs,
                 workers, log, call, finishAttempts, toFlush, read, cancelled>>

\* _check_unrecoverable: a target that keeps failing ends the run ...
HaltRepeatedErrors ==
  /\ phase = "between"
  /\ \E t \in Targets : MaxErrors > 0 /\ errs[t] >= MaxErrors
  /\ phase' = "halted"
  /\ UNCHANGED <<seq, registry, workers, log, call, routeDone,
                 finishAttempts, toFlush, read, cancelled>>

\* ... and so do the cost ceiling and the time backstop.
HaltBudget ==
  /\ phase = "between"
  /\ phase' = "halted"
  /\ UNCHANGED <<seq, registry, workers, log, call, routeDone,
                 finishAttempts, toFlush, read, cancelled>>

RepromptWhileWorking ==
  /\ TurnOver
  /\ ~routeDone
  /\ WorkingDelegations # {}
  /\ phase' = "between"
  /\ UNCHANGED <<seq, registry, workers, log, call, routeDone,
                 finishAttempts, toFlush, read, cancelled>>

RepromptUnfinished(missing) ==
  /\ TurnOver
  /\ routeDone \/ WorkingDelegations = {}
  /\ ~routeDone \/ missing
  /\ finishAttempts < FinishMax
  /\ finishAttempts' = finishAttempts + 1
  /\ phase' = "between"
  /\ UNCHANGED <<seq, registry, workers, log, call, routeDone, toFlush,
                 read, cancelled>>

\* _terminate_run: collect the live delegations, then write their rows.
TerminateRun(missing) ==
  /\ TurnOver
  /\ routeDone \/ WorkingDelegations = {}
  /\ (routeDone /\ ~missing) \/ finishAttempts = FinishMax
  /\ phase' = "flushing"
  /\ toFlush' = Ghosts
  /\ UNCHANGED <<seq, registry, workers, log, call, routeDone,
                 finishAttempts, read, cancelled>>

FlushGhost(d) ==
  /\ phase = "flushing"
  /\ d \in toFlush
  /\ \A e \in toFlush : d <= e
  /\ log' = [log EXCEPT ![d] = "INTERRUPTED"]
  /\ toFlush' = toFlush \ {d}
  /\ UNCHANGED <<seq, registry, workers, call, phase, routeDone,
                 finishAttempts, read, cancelled>>

FlushDone ==
  /\ phase = "flushing"
  /\ toFlush = {}
  /\ phase' = "closed"
  /\ UNCHANGED <<seq, registry, workers, log, call, routeDone,
                 finishAttempts, toFlush, read, cancelled>>

\* The interpreter exits and takes the daemon threads with it.
Exit ==
  /\ phase \in {"closed", "halted"}
  /\ phase' = IF phase = "closed" THEN "exited" ELSE "stopped"
  /\ thread' = [d \in Ids |-> IF thread[d] = "none" THEN "none" ELSE "ended"]
  /\ UNCHANGED <<seq, registry, stamped, detached, log, call,
                 routeDone, finishAttempts, toFlush, read, cancelled>>

Exited == phase \in {"exited", "stopped"} /\ UNCHANGED vars

-----------------------------------------------------------------------------
Tool(c) ==
  \/ \E t \in Targets : Delegate(c, t)
  \/ DelegateLogs(c)
  \/ \E wait \in BOOLEAN : DelegateStarts(c, wait)
  \/ DelegateFails(c)
  \/ DelegateReturns(c)
  \/ \E d \in Ids : GetStatus(c, d)
  \/ \E d \in Ids : Cancel(c, d)
  \/ \E d \in Ids : Reply(c, d)
  \/ WaitAny(c)
  \/ \E d \in Ids : WaitAnyHands(c, d)
  \/ WaitAnyRefuses(c)
  \/ \E d \in Ids : WaitOneAtOnce(c, d)
  \/ \E d \in Ids : WaitOne(c, d)
  \/ WaitOneReturns(c)
  \/ Done(c)

Worker(d) ==
  \/ StampEvals(d)
  \/ FollowUp(d)
  \/ ResumeAnswered(d)
  \/ ResumeTimeout(d)
  \/ FinishOk(d)
  \/ Raise(d)
  \/ LogDone(d)
  \/ PublishDone(d)
  \/ LogFailed(d)
  \/ PublishErrored(d)
  \/ LogFault(d)

Turn ==
  \/ ResetForTurn
  \/ HaltRepeatedErrors
  \/ HaltBudget
  \/ RepromptWhileWorking
  \/ \E missing \in BOOLEAN : RepromptUnfinished(missing)
  \/ \E missing \in BOOLEAN : TerminateRun(missing)
  \/ \E d \in Ids : FlushGhost(d)
  \/ FlushDone
  \/ Exit

Next ==
  \/ \E c \in Callers : Tool(c)
  \/ \E d \in Ids : Worker(d)
  \/ Turn
  \/ Exited

Spec == Init /\ [][Next]_vars

-----------------------------------------------------------------------------
(* Fairness.  A worker thread that can take its next step takes it, and a  *)
(* tool call that can return returns: threads are scheduled, the disk      *)
(* answers, and a worker's model invocation ends because both backends     *)
(* bound it (idle timeout and retries).  Nothing makes the agent call a    *)
(* tool, a worker ask, stamp or raise, or an operator answer.              *)

WorkerFairness(d) ==
  /\ WF_vars(FinishOk(d))
  /\ WF_vars(ResumeAnswered(d))
  /\ WF_vars(LogDone(d))
  /\ WF_vars(PublishDone(d))
  /\ WF_vars(LogFailed(d))
  /\ WF_vars(PublishErrored(d))

CallFairness(c) ==
  /\ WF_vars(DelegateLogs(c))
  /\ WF_vars(\E wait \in BOOLEAN : DelegateStarts(c, wait))
  /\ WF_vars(DelegateReturns(c))
  /\ WF_vars(\E d \in Ids : WaitAnyHands(c, d))
  /\ WF_vars(WaitAnyRefuses(c))
  /\ WF_vars(WaitOneReturns(c))

\* Nobody's patience runs out: a parked worker may wait for good.
FairSpec ==
  /\ Spec
  /\ \A d \in Ids : WorkerFairness(d)
  /\ \A c \in Callers : CallFairness(c)

\* The 300 seconds of a parked worker run out (evt.wait has that timeout).
PatienceEnds == \A d \in Ids : WF_vars(ResumeTimeout(d))

-----------------------------------------------------------------------------
(* Safety.                                                                 *)

\* While the agent can look, what the registry shows as finished is already
\* in the log: a poller never acts on a completion that is not yet durable
\* (the order _finish_ok and _finish_error take their two writes in).
DurableBeforeObservable ==
  phase \in {"between", "turn"} =>
    \A d \in Ids : /\ status[d] = "Done" => log[d] = "DONE"
                   /\ status[d] = "Errored" => log[d] = "FAILED"

\* No evaluation is an orphan: a delegation that stamped rows in a store has
\* a row in the log, even if it never finishes (record_started).
TraceableEvals == \A d \in Ids : stamped[d] => log[d] # "none"

\* The prune at the start of a turn never loses a delegation whose worker is
\* still running, unless the agent cancelled it (_reset_for_turn).
LiveNeverPruned ==
  \A d \in Ids :
    (thread[d] \notin {"none", "ended"} /\ status[d] = "None") => cancelled[d]

\* A worker that ended left a terminal row, whatever happened to it: a lost
\* thread is impossible while the log can be written (WorkerSession.run).
EndedIsLogged ==
  ("fault" \notin Hazards /\ phase \in {"between", "turn"}) =>
    \A d \in Ids : thread[d] = "ended" => log[d] \in {"DONE", "FAILED"}

\* A report that no bare Wait will hand out again has been shown to the
\* agent: "waited" is only ever set together with the report
\* (_wait_for_any, _wait_for_one).
WaitedIsRead == \A d \in Ids : (waited[d] /\ Settled(d)) => read[d]

\* Once a run closed through _terminate_run, no delegation is left RUNNING
\* in the log unless the agent cancelled it (_flush_ghost_delegations).
NoGhostRow ==
  phase \in {"closed", "exited"} =>
    \A d \in Ids : log[d] = "RUNNING" => cancelled[d]

\* Without CancelDelegation nothing is excepted: after the close the log
\* "collapses to a closed state instead of RUNNING" (_flush_ghost_delegations).
NoRunningRow ==
  ("CancelDelegation" \notin Granted /\ phase = "exited") =>
    \A d \in Ids : log[d] # "RUNNING"

-----------------------------------------------------------------------------
(* What makes the invariants above inductive.                              *)

\* An id that was not handed out yet has left no trace.
Fresh ==
  \A d \in Ids : d > seq =>
    status[d] = "None" /\ thread[d] = "none" /\ ~waited[d]

\* Only a thread at its end has settled its entry or can have been waited for.
SettledIsEnded ==
  \A d \in Ids : /\ Settled(d) => thread[d] = "ended"
                 /\ waited[d] => thread[d] \in {"none", "ended"}

\* One caller dispatches a delegation, and before its thread exists.
OneDispatcher ==
  \A c \in Callers : call[c].op \in {"log", "start"} =>
    LET d == call[c].id IN
      /\ d \in Dispatched
      /\ thread[d] = "none"
      /\ status[d] = "Working"
      /\ ~waited[d]
      /\ call[c].op = "start" => log[d] # "none"
      /\ \A b \in Callers \ {c} : ~Dispatching(b, d)

\* The calls that join a thread name one, and calls only run inside a turn.
CallsInTurn ==
  \A c \in Callers :
    /\ call[c] # NoCall => phase = "turn"
    /\ call[c].op \in {"join", "waitOne"} =>
         call[c].id \in Ids /\ thread[call[c].id] # "none"

\* A thread starts after its RUNNING row and stamps after it starts.
RowBeforeThread ==
  \A d \in Ids : /\ thread[d] # "none" => log[d] # "none"
                 /\ stamped[d] => thread[d] # "none"

\* Between its two writes a finishing thread has its row in the log.
RowBeforePublish ==
  phase \in {"between", "turn"} =>
    \A d \in Ids : /\ thread[d] = "okPublish" => log[d] = "DONE"
                   /\ thread[d] = "errPublish" => log[d] = "FAILED"

\* A RUNNING row belongs to a delegation that is live, that the agent
\* cancelled, or that the closing run is about to flush.
RunningIsAccountedFor ==
  /\ phase \in {"between", "turn"} =>
       \A d \in Ids : log[d] = "RUNNING" => Live(d) \/ cancelled[d]
  /\ phase = "flushing" =>
       \A d \in Ids : log[d] = "RUNNING" => d \in toFlush \/ cancelled[d]

\* A Cancelled entry is one the agent cancelled, which takes the tool for it.
CancelledIsKnown ==
  /\ \A d \in Ids : status[d] = "Cancelled" => cancelled[d]
  /\ "CancelDelegation" \notin Granted => \A d \in Ids : ~cancelled[d]

IndInv ==
  /\ TypeOK
  /\ Fresh
  /\ SettledIsEnded
  /\ OneDispatcher
  /\ CallsInTurn
  /\ RowBeforeThread
  /\ RowBeforePublish
  /\ RunningIsAccountedFor
  /\ CancelledIsKnown
  /\ DurableBeforeObservable
  /\ LiveNeverPruned
  /\ EndedIsLogged
  /\ WaitedIsRead
  /\ NoGhostRow

-----------------------------------------------------------------------------
(* Liveness.                                                               *)

\* A bare Wait comes back even if no parked worker ever gets its answer: it
\* only waits for what can still finish without the caller (_wait_for_any).
WaitAnyReturns ==
  \A c \in Callers : call[c].op = "waitAny" ~> call[c].op # "waitAny"

\* Wait(id) and Delegate(wait=True), which join the thread, come back once the
\* patience of parked workers is bounded.
JoinReturns ==
  PatienceEnds =>
    \A c \in Callers : call[c].op \in {"waitOne", "join"} ~> call[c] = NoCall

=============================================================================
