-------------------------- MODULE DelegationProofs --------------------------
(***************************************************************************)
(* The safety of Delegation for every number of delegations, targets and   *)
(* parallel callers and every set of hazards.  IndInv is the inductive     *)
(* invariant: it ties the place of a worker thread to the status of its    *)
(* registry entry and to the last row of its log, which is what keeps the  *)
(* invariants of the two ends of a finish (log, then registry) and of the  *)
(* close (registry, then log) true at every interleaving.                  *)
(***************************************************************************)
EXTENDS Delegation, TLAPS

USE DEF Ids, Dispatched, Live, Settled, NoCall, Idle, Given, Dispatching,
        TurnOver, registry, workers, node, vars

\* The node starts with an empty registry and an empty log.
LEMMA InitEstablishes == Init => IndInv
<1> SUFFICES ASSUME Init PROVE IndInv
  OBVIOUS
<1> USE BoundAssumption, LimitAssumption DEF Init
<1>1. target \in [Ids -> Targets]
  <2>1. (CHOOSE t \in Targets : TRUE) \in Targets
    BY TargetAssumption
  <2>2. QED
    BY <2>1
<1>2. errs \in [Targets -> Nat] /\ call \in [Callers -> Calls]
  BY DEF Calls
<1>3. phase \in Phases /\ status \in [Ids -> Statuses]
  BY DEF Phases, Statuses
<1>4. thread \in [Ids -> Stages] /\ log \in [Ids -> Rows]
  BY DEF Stages, Rows
<1>5. finishAttempts \in 0..FinishMax /\ seq \in 0..MaxDelegations
  OBVIOUS
<1>6. routeDone \in BOOLEAN /\ toFlush \subseteq Ids
  OBVIOUS
<1>7. TypeOK
  BY <1>1, <1>2, <1>3, <1>4, <1>5, <1>6 DEF TypeOK
<1>8. QED
  BY <1>7 DEF IndInv, Fresh, SettledIsEnded, OneDispatcher, CallsInTurn, RowBeforeThread,
          RowBeforePublish, RunningIsAccountedFor, CancelledIsKnown,
          DurableBeforeObservable, LiveNeverPruned, EndedIsLogged, WaitedIsRead,
          NoGhostRow

\* The agent's tool calls keep it.
LEMMA ToolPreserves ==
  ASSUME IndInv, NEW c \in Callers, Tool(c)
  PROVE  IndInv'
<1> USE BoundAssumption, LimitAssumption DEF Statuses, Stages, Rows, Phases,
   Calls
<1>1. ASSUME NEW t \in Targets, Delegate(c, t) PROVE IndInv'
  <2> USE <1>1 DEF Delegate
  <2>1. TypeOK'
    BY DEF IndInv, TypeOK
  <2>2. QED
    BY <2>1 DEF IndInv, TypeOK, Fresh, SettledIsEnded, OneDispatcher,
       CallsInTurn, RowBeforeThread, RowBeforePublish, RunningIsAccountedFor,
       CancelledIsKnown, DurableBeforeObservable, LiveNeverPruned,
       EndedIsLogged, WaitedIsRead, NoGhostRow
<1>2. CASE DelegateLogs(c)
  <2> USE <1>2 DEF DelegateLogs, RecordStarted
  <2>1. TypeOK'
    BY DEF IndInv, TypeOK
  <2>2. QED
    BY <2>1 DEF IndInv, TypeOK, Fresh, SettledIsEnded, OneDispatcher,
       CallsInTurn, RowBeforeThread, RowBeforePublish, RunningIsAccountedFor,
       CancelledIsKnown, DurableBeforeObservable, LiveNeverPruned,
       EndedIsLogged, WaitedIsRead, NoGhostRow
<1>3. ASSUME NEW wait \in BOOLEAN, DelegateStarts(c, wait) PROVE IndInv'
  <2> USE <1>3 DEF DelegateStarts
  <2>1. call[c].id \in Ids
    BY DEF IndInv, TypeOK, OneDispatcher
  <2>2. call' \in [Callers -> Calls]
    BY DEF IndInv, TypeOK
  <2>3. thread' \in [Ids -> Stages]
    BY <2>1 DEF IndInv, TypeOK
  <2>4. TypeOK'
    BY <2>2, <2>3 DEF IndInv, TypeOK
  <2>5. QED
    BY <2>4 DEF IndInv, TypeOK, Fresh, SettledIsEnded, OneDispatcher,
       CallsInTurn, RowBeforeThread, RowBeforePublish, RunningIsAccountedFor,
       CancelledIsKnown, DurableBeforeObservable, LiveNeverPruned,
       EndedIsLogged, WaitedIsRead, NoGhostRow
<1>4. CASE DelegateFails(c)
  <2> USE <1>4 DEF DelegateFails
  <2>1. TypeOK'
    BY DEF IndInv, TypeOK
  <2>2. QED
    BY <2>1 DEF IndInv, TypeOK, Fresh, SettledIsEnded, OneDispatcher,
       CallsInTurn, RowBeforeThread, RowBeforePublish, RunningIsAccountedFor,
       CancelledIsKnown, DurableBeforeObservable, LiveNeverPruned,
       EndedIsLogged, WaitedIsRead, NoGhostRow
<1>5. CASE DelegateReturns(c)
  <2> USE <1>5 DEF DelegateReturns
  <2>1. call' \in [Callers -> Calls]
    BY DEF IndInv, TypeOK
  <2>2. read' \in [Ids -> BOOLEAN]
    BY DEF IndInv, TypeOK
  <2>3. TypeOK'
    BY <2>1, <2>2 DEF IndInv, TypeOK
  <2>4. QED
    BY <2>3 DEF IndInv, TypeOK, Fresh, SettledIsEnded, OneDispatcher,
       CallsInTurn, RowBeforeThread, RowBeforePublish, RunningIsAccountedFor,
       CancelledIsKnown, DurableBeforeObservable, LiveNeverPruned,
       EndedIsLogged, WaitedIsRead, NoGhostRow
<1>6. ASSUME NEW d \in Ids, GetStatus(c, d) PROVE IndInv'
  <2> USE <1>6 DEF GetStatus
  <2>1. TypeOK'
    BY DEF IndInv, TypeOK
  <2>2. QED
    BY <2>1 DEF IndInv, TypeOK, Fresh, SettledIsEnded, OneDispatcher,
       CallsInTurn, RowBeforeThread, RowBeforePublish, RunningIsAccountedFor,
       CancelledIsKnown, DurableBeforeObservable, LiveNeverPruned,
       EndedIsLogged, WaitedIsRead, NoGhostRow
<1>7. ASSUME NEW d \in Ids, Cancel(c, d) PROVE IndInv'
  <2> USE <1>7 DEF Cancel
  <2>1. TypeOK'
    BY DEF IndInv, TypeOK
  <2>2. CASE stamped[d] /\ ~cancelPending[d]
    BY <2>1, <2>2 DEF IndInv, TypeOK, Fresh, SettledIsEnded, OneDispatcher,
       CallsInTurn, RowBeforeThread, RowBeforePublish, RunningIsAccountedFor,
       CancelledIsKnown, DurableBeforeObservable, LiveNeverPruned,
       EndedIsLogged, WaitedIsRead, NoGhostRow
  <2>3. CASE ~(stamped[d] /\ ~cancelPending[d])
    <3>1. /\ status' = [status EXCEPT ![d] = "Cancelled"]
          /\ cancelled' = [cancelled EXCEPT ![d] = TRUE]
      BY <2>3
    <3>2. OneDispatcher'
      BY <3>1 DEF IndInv, TypeOK, OneDispatcher
    <3>3. QED
      BY <2>1, <3>1, <3>2 DEF IndInv, TypeOK, Fresh, SettledIsEnded,
         OneDispatcher, CallsInTurn, RowBeforeThread, RowBeforePublish,
         RunningIsAccountedFor, CancelledIsKnown, DurableBeforeObservable,
         LiveNeverPruned, EndedIsLogged, WaitedIsRead, NoGhostRow
  <2>4. QED
    BY <2>2, <2>3
<1>8. ASSUME NEW d \in Ids, Reply(c, d) PROVE IndInv'
  <2> USE <1>8 DEF Reply
  <2>1. TypeOK'
    BY DEF IndInv, TypeOK
  <2>2. QED
    BY <2>1 DEF IndInv, TypeOK, Fresh, SettledIsEnded, OneDispatcher,
       CallsInTurn, RowBeforeThread, RowBeforePublish, RunningIsAccountedFor,
       CancelledIsKnown, DurableBeforeObservable, LiveNeverPruned,
       EndedIsLogged, WaitedIsRead, NoGhostRow
<1>9. CASE WaitAny(c)
  <2> USE <1>9 DEF WaitAny
  <2>1. TypeOK'
    BY DEF IndInv, TypeOK
  <2>2. QED
    BY <2>1 DEF IndInv, TypeOK, Fresh, SettledIsEnded, OneDispatcher,
       CallsInTurn, RowBeforeThread, RowBeforePublish, RunningIsAccountedFor,
       CancelledIsKnown, DurableBeforeObservable, LiveNeverPruned,
       EndedIsLogged, WaitedIsRead, NoGhostRow
<1>10. ASSUME NEW d \in Ids, WaitAnyHands(c, d) PROVE IndInv'
  <2> USE <1>10 DEF WaitAnyHands, Ready
  <2>1. TypeOK'
    BY DEF IndInv, TypeOK
  <2>2. QED
    BY <2>1, SMTT(30) DEF IndInv, TypeOK, Fresh, SettledIsEnded, OneDispatcher,
       CallsInTurn, RowBeforeThread, RowBeforePublish, RunningIsAccountedFor,
       CancelledIsKnown, DurableBeforeObservable, LiveNeverPruned,
       EndedIsLogged, WaitedIsRead, NoGhostRow
<1>11. CASE WaitAnyRefuses(c)
  <2> USE <1>11 DEF WaitAnyRefuses
  <2>1. TypeOK'
    BY DEF IndInv, TypeOK
  <2>2. QED
    BY <2>1 DEF IndInv, TypeOK, Fresh, SettledIsEnded, OneDispatcher,
       CallsInTurn, RowBeforeThread, RowBeforePublish, RunningIsAccountedFor,
       CancelledIsKnown, DurableBeforeObservable, LiveNeverPruned,
       EndedIsLogged, WaitedIsRead, NoGhostRow
<1>12. ASSUME NEW d \in Ids, WaitOneAtOnce(c, d) PROVE IndInv'
  <2> USE <1>12 DEF WaitOneAtOnce
  <2>1. TypeOK'
    BY DEF IndInv, TypeOK
  <2>2. QED
    BY <2>1 DEF IndInv, TypeOK, Fresh, SettledIsEnded, OneDispatcher,
       CallsInTurn, RowBeforeThread, RowBeforePublish, RunningIsAccountedFor,
       CancelledIsKnown, DurableBeforeObservable, LiveNeverPruned,
       EndedIsLogged, WaitedIsRead, NoGhostRow
<1>13. ASSUME NEW d \in Ids, WaitOne(c, d) PROVE IndInv'
  <2> USE <1>13 DEF WaitOne
  <2>1. TypeOK'
    BY DEF IndInv, TypeOK
  <2>2. QED
    BY <2>1 DEF IndInv, TypeOK, Fresh, SettledIsEnded, OneDispatcher,
       CallsInTurn, RowBeforeThread, RowBeforePublish, RunningIsAccountedFor,
       CancelledIsKnown, DurableBeforeObservable, LiveNeverPruned,
       EndedIsLogged, WaitedIsRead, NoGhostRow
<1>14. CASE WaitOneReturns(c)
  <2> USE <1>14 DEF WaitOneReturns
  <2>1. call' \in [Callers -> Calls]
    BY DEF IndInv, TypeOK
  <2>2. read' \in [Ids -> BOOLEAN] /\ waited' \in [Ids -> BOOLEAN]
    BY DEF IndInv, TypeOK
  <2>3. TypeOK'
    BY <2>1, <2>2 DEF IndInv, TypeOK
  <2>4. QED
    BY <2>3 DEF IndInv, TypeOK, Fresh, SettledIsEnded, OneDispatcher,
       CallsInTurn, RowBeforeThread, RowBeforePublish, RunningIsAccountedFor,
       CancelledIsKnown, DurableBeforeObservable, LiveNeverPruned,
       EndedIsLogged, WaitedIsRead, NoGhostRow
<1>15. CASE Done(c)
  <2> USE <1>15 DEF Done, Pending
  <2>1. TypeOK'
    BY DEF IndInv, TypeOK
  <2>2. QED
    BY <2>1 DEF IndInv, TypeOK, Fresh, SettledIsEnded, OneDispatcher,
       CallsInTurn, RowBeforeThread, RowBeforePublish, RunningIsAccountedFor,
       CancelledIsKnown, DurableBeforeObservable, LiveNeverPruned,
       EndedIsLogged, WaitedIsRead, NoGhostRow
<1>16. QED
  BY <1>1, <1>2, <1>3, <1>4, <1>5, <1>6, <1>7, <1>8, <1>9, <1>10, <1>11,
     <1>12, <1>13, <1>14, <1>15 DEF Tool

\* So do the worker threads.
LEMMA WorkerPreserves ==
  ASSUME IndInv, NEW d \in Ids, Worker(d)
  PROVE  IndInv'
<1> USE BoundAssumption, LimitAssumption DEF Statuses, Stages, Rows, Phases,
   Calls
<1>1. CASE StampEvals(d)
  <2> USE <1>1 DEF StampEvals
  <2>1. TypeOK'
    BY DEF IndInv, TypeOK
  <2>2. QED
    BY <2>1 DEF IndInv, TypeOK, Fresh, SettledIsEnded, OneDispatcher,
       CallsInTurn, RowBeforeThread, RowBeforePublish, RunningIsAccountedFor,
       CancelledIsKnown, DurableBeforeObservable, LiveNeverPruned,
       EndedIsLogged, WaitedIsRead, NoGhostRow
<1>2. CASE FollowUp(d)
  <2> USE <1>2 DEF FollowUp
  <2>1. TypeOK'
    BY DEF IndInv, TypeOK
  <2>2. SettledIsEnded'
    BY DEF IndInv, TypeOK, SettledIsEnded
  <2>3. OneDispatcher' /\ CallsInTurn'
    BY DEF IndInv, TypeOK, OneDispatcher, CallsInTurn
  <2>4. QED
    BY <2>1, <2>2, <2>3 DEF IndInv, TypeOK, Fresh, SettledIsEnded,
       OneDispatcher, CallsInTurn, RowBeforeThread, RowBeforePublish,
       RunningIsAccountedFor, CancelledIsKnown, DurableBeforeObservable,
       LiveNeverPruned, EndedIsLogged, WaitedIsRead, NoGhostRow
<1>3. CASE Resume(d)
  <2> USE <1>3 DEF Resume
  <2>1. TypeOK'
    BY DEF IndInv, TypeOK
  <2>2. QED
    BY <2>1, SMTT(30) DEF IndInv, TypeOK, Fresh, SettledIsEnded, OneDispatcher,
       CallsInTurn, RowBeforeThread, RowBeforePublish, RunningIsAccountedFor,
       CancelledIsKnown, DurableBeforeObservable, LiveNeverPruned,
       EndedIsLogged, WaitedIsRead, NoGhostRow
<1>4. CASE FinishOk(d)
  <2> USE <1>4 DEF FinishOk
  <2>1. TypeOK'
    BY DEF IndInv, TypeOK
  <2>2. thread' = [thread EXCEPT ![d] = IF status[d] = "None" THEN "errLog"
     ELSE "okLog"]
    OBVIOUS
  <2>3. SettledIsEnded' /\ LiveNeverPruned'
    BY <2>2 DEF IndInv, TypeOK, SettledIsEnded, LiveNeverPruned
  <2>4. QED
    BY <2>1, <2>2, <2>3 DEF IndInv, TypeOK, Fresh, SettledIsEnded,
       OneDispatcher, CallsInTurn, RowBeforeThread, RowBeforePublish,
       RunningIsAccountedFor, CancelledIsKnown, DurableBeforeObservable,
       LiveNeverPruned, EndedIsLogged, WaitedIsRead, NoGhostRow
<1>5. CASE Raise(d)
  <2> USE <1>5 DEF Raise
  <2>1. TypeOK'
    BY DEF IndInv, TypeOK
  <2>2. QED
    BY <2>1, SMTT(30) DEF IndInv, TypeOK, Fresh, SettledIsEnded, OneDispatcher,
       CallsInTurn, RowBeforeThread, RowBeforePublish, RunningIsAccountedFor,
       CancelledIsKnown, DurableBeforeObservable, LiveNeverPruned,
       EndedIsLogged, WaitedIsRead, NoGhostRow
<1>6. CASE LogDone(d)
  <2> USE <1>6 DEF LogDone, RecordDone
  <2>1. TypeOK'
    BY DEF IndInv, TypeOK
  <2>2. QED
    BY <2>1, SMTT(30) DEF IndInv, TypeOK, Fresh, SettledIsEnded, OneDispatcher,
       CallsInTurn, RowBeforeThread, RowBeforePublish, RunningIsAccountedFor,
       CancelledIsKnown, DurableBeforeObservable, LiveNeverPruned,
       EndedIsLogged, WaitedIsRead, NoGhostRow
<1>7. CASE PublishDone(d)
  <2> USE <1>7 DEF PublishDone
  <2>1. thread' \in [Ids -> Stages] /\ status' \in [Ids -> Statuses]
    BY DEF IndInv, TypeOK
  <2>2. errs' \in [Targets -> Nat]
    <3>1. errs' = errs \/ errs' = [errs EXCEPT ![target[d]] = 0]
      OBVIOUS
    <3>2. errs \in [Targets -> Nat] /\ target[d] \in Targets
      BY DEF IndInv, TypeOK
    <3>3. QED
      BY <3>1, <3>2
  <2>3. TypeOK'
    BY <2>1, <2>2 DEF IndInv, TypeOK
  <2>4. SettledIsEnded' /\ WaitedIsRead'
    BY ZenonT(30) DEF IndInv, TypeOK, SettledIsEnded, WaitedIsRead
  <2>5. OneDispatcher' /\ CallsInTurn'
    BY DEF IndInv, TypeOK, OneDispatcher, CallsInTurn
  <2>6. DurableBeforeObservable' /\ RowBeforePublish'
    BY DEF IndInv, TypeOK, RowBeforePublish, DurableBeforeObservable
  <2>7. EndedIsLogged' /\ RunningIsAccountedFor'
    BY DEF IndInv, TypeOK, RowBeforePublish, EndedIsLogged,
       RunningIsAccountedFor
  <2>8. LiveNeverPruned' /\ CancelledIsKnown'
    BY DEF IndInv, TypeOK, LiveNeverPruned, CancelledIsKnown
  <2>9. Fresh' /\ RowBeforeThread' /\ NoGhostRow'
    BY DEF IndInv, TypeOK, Fresh, RowBeforeThread, NoGhostRow
  <2>10. QED
    BY <2>3, <2>4, <2>5, <2>6, <2>7, <2>8, <2>9 DEF IndInv
<1>8. CASE LogFailed(d)
  <2> USE <1>8 DEF LogFailed
  <2>1. TypeOK'
    BY DEF IndInv, TypeOK
  <2>2. SettledIsEnded'
    BY DEF IndInv, TypeOK, SettledIsEnded
  <2>3. OneDispatcher' /\ CallsInTurn'
    BY DEF IndInv, TypeOK, OneDispatcher, CallsInTurn
  <2>4. DurableBeforeObservable'
    BY DEF IndInv, TypeOK, SettledIsEnded, DurableBeforeObservable
  <2>5. QED
    BY <2>1, <2>2, <2>3, <2>4 DEF IndInv, TypeOK, Fresh, SettledIsEnded,
       OneDispatcher, CallsInTurn, RowBeforeThread, RowBeforePublish,
       RunningIsAccountedFor, CancelledIsKnown, DurableBeforeObservable,
       LiveNeverPruned, EndedIsLogged, WaitedIsRead, NoGhostRow
<1>9. CASE PublishErrored(d)
  <2> USE <1>9 DEF PublishErrored
  <2>1. thread' \in [Ids -> Stages] /\ status' \in [Ids -> Statuses]
    BY DEF IndInv, TypeOK
  <2>2. errs' \in [Targets -> Nat]
    <3>1. errs' = errs \/ errs' = [errs EXCEPT ![target[d]] = @ + 1]
      OBVIOUS
    <3>2. errs \in [Targets -> Nat] /\ target[d] \in Targets
      BY DEF IndInv, TypeOK
    <3>3. QED
      BY <3>1, <3>2
  <2>3. TypeOK'
    BY <2>1, <2>2 DEF IndInv, TypeOK
  <2>4. SettledIsEnded' /\ WaitedIsRead'
    BY DEF IndInv, TypeOK, SettledIsEnded, WaitedIsRead
  <2>5. OneDispatcher' /\ CallsInTurn'
    BY DEF IndInv, TypeOK, OneDispatcher, CallsInTurn
  <2>6. DurableBeforeObservable' /\ RowBeforePublish'
    BY DEF IndInv, TypeOK, RowBeforePublish, DurableBeforeObservable
  <2>7. EndedIsLogged' /\ RunningIsAccountedFor'
    BY DEF IndInv, TypeOK, RowBeforePublish, EndedIsLogged,
       RunningIsAccountedFor
  <2>8. LiveNeverPruned' /\ CancelledIsKnown'
    BY DEF IndInv, TypeOK, LiveNeverPruned, CancelledIsKnown
  <2>9. Fresh' /\ RowBeforeThread' /\ NoGhostRow'
    BY DEF IndInv, TypeOK, Fresh, RowBeforeThread, NoGhostRow
  <2>10. QED
    BY <2>3, <2>4, <2>5, <2>6, <2>7, <2>8, <2>9 DEF IndInv
<1>10. CASE LogFault(d)
  <2> USE <1>10 DEF LogFault
  <2>1. TypeOK'
    BY DEF IndInv, TypeOK
  <2>2. SettledIsEnded'
    BY DEF IndInv, TypeOK, SettledIsEnded
  <2>3. OneDispatcher' /\ CallsInTurn'
    BY DEF IndInv, TypeOK, OneDispatcher, CallsInTurn
  <2>4. EndedIsLogged' /\ CancelledIsKnown'
    BY DEF IndInv, TypeOK, EndedIsLogged, CancelledIsKnown
  <2>5. RowBeforeThread' /\ LiveNeverPruned'
    BY DEF IndInv, TypeOK, RowBeforeThread, LiveNeverPruned
  <2>6. RowBeforePublish' /\ DurableBeforeObservable' /\ RunningIsAccountedFor'
    BY DEF IndInv, TypeOK, RowBeforePublish, DurableBeforeObservable,
       RunningIsAccountedFor
  <2>7. Fresh' /\ WaitedIsRead' /\ NoGhostRow'
    BY DEF IndInv, TypeOK, Fresh, WaitedIsRead, NoGhostRow
  <2>8. QED
    BY <2>1, <2>2, <2>3, <2>4, <2>5, <2>6, <2>7 DEF IndInv
<1>11. QED
  BY <1>1, <1>2, <1>3, <1>4, <1>5, <1>6, <1>7, <1>8, <1>9, <1>10 DEF Worker,
     ResumeAnswered, ResumeTimeout

\* And so do the node's turns, its close and the exit of the process.
LEMMA TurnPreserves ==
  ASSUME IndInv, Turn
  PROVE  IndInv'
<1> USE BoundAssumption, LimitAssumption DEF Statuses, Stages, Rows, Phases,
   Calls
<1>1. CASE ResetForTurn
  <2> USE <1>1 DEF ResetForTurn, Kept
  <2>1. TypeOK'
    BY DEF IndInv, TypeOK
  <2>2. QED
    BY <2>1 DEF IndInv, TypeOK, Fresh, SettledIsEnded, OneDispatcher,
       CallsInTurn, RowBeforeThread, RowBeforePublish, RunningIsAccountedFor,
       CancelledIsKnown, DurableBeforeObservable, LiveNeverPruned,
       EndedIsLogged, WaitedIsRead, NoGhostRow
<1>2. CASE HaltRepeatedErrors
  <2> USE <1>2 DEF HaltRepeatedErrors
  <2>1. TypeOK'
    BY DEF IndInv, TypeOK
  <2>2. QED
    BY <2>1 DEF IndInv, TypeOK, Fresh, SettledIsEnded, OneDispatcher,
       CallsInTurn, RowBeforeThread, RowBeforePublish, RunningIsAccountedFor,
       CancelledIsKnown, DurableBeforeObservable, LiveNeverPruned,
       EndedIsLogged, WaitedIsRead, NoGhostRow
<1>3. CASE HaltBudget
  <2> USE <1>3 DEF HaltBudget
  <2>1. TypeOK'
    BY DEF IndInv, TypeOK
  <2>2. QED
    BY <2>1 DEF IndInv, TypeOK, Fresh, SettledIsEnded, OneDispatcher,
       CallsInTurn, RowBeforeThread, RowBeforePublish, RunningIsAccountedFor,
       CancelledIsKnown, DurableBeforeObservable, LiveNeverPruned,
       EndedIsLogged, WaitedIsRead, NoGhostRow
<1>4. CASE RepromptWhileWorking
  <2> USE <1>4 DEF RepromptWhileWorking
  <2>1. TypeOK'
    BY DEF IndInv, TypeOK
  <2>2. QED
    BY <2>1 DEF IndInv, TypeOK, Fresh, SettledIsEnded, OneDispatcher,
       CallsInTurn, RowBeforeThread, RowBeforePublish, RunningIsAccountedFor,
       CancelledIsKnown, DurableBeforeObservable, LiveNeverPruned,
       EndedIsLogged, WaitedIsRead, NoGhostRow
<1>5. ASSUME NEW missing \in BOOLEAN, RepromptUnfinished(missing) PROVE IndInv'
  <2> USE <1>5 DEF RepromptUnfinished
  <2>1. TypeOK'
    BY DEF IndInv, TypeOK
  <2>2. QED
    BY <2>1 DEF IndInv, TypeOK, Fresh, SettledIsEnded, OneDispatcher,
       CallsInTurn, RowBeforeThread, RowBeforePublish, RunningIsAccountedFor,
       CancelledIsKnown, DurableBeforeObservable, LiveNeverPruned,
       EndedIsLogged, WaitedIsRead, NoGhostRow
<1>6. ASSUME NEW missing \in BOOLEAN, TerminateRun(missing) PROVE IndInv'
  <2> USE <1>6 DEF TerminateRun, Ghosts, WorkingDelegations
  <2>1. TypeOK'
    BY DEF IndInv, TypeOK
  <2>2. QED
    BY <2>1 DEF IndInv, TypeOK, Fresh, SettledIsEnded, OneDispatcher,
       CallsInTurn, RowBeforeThread, RowBeforePublish, RunningIsAccountedFor,
       CancelledIsKnown, DurableBeforeObservable, LiveNeverPruned,
       EndedIsLogged, WaitedIsRead, NoGhostRow
<1>7. ASSUME NEW d \in Ids, FlushGhost(d) PROVE IndInv'
  <2> USE <1>7 DEF FlushGhost
  <2>1. TypeOK'
    BY DEF IndInv, TypeOK
  <2>2. QED
    BY <2>1 DEF IndInv, TypeOK, Fresh, SettledIsEnded, OneDispatcher,
       CallsInTurn, RowBeforeThread, RowBeforePublish, RunningIsAccountedFor,
       CancelledIsKnown, DurableBeforeObservable, LiveNeverPruned,
       EndedIsLogged, WaitedIsRead, NoGhostRow
<1>8. CASE FlushDone
  <2> USE <1>8 DEF FlushDone
  <2>1. TypeOK'
    BY DEF IndInv, TypeOK
  <2>2. QED
    BY <2>1 DEF IndInv, TypeOK, Fresh, SettledIsEnded, OneDispatcher,
       CallsInTurn, RowBeforeThread, RowBeforePublish, RunningIsAccountedFor,
       CancelledIsKnown, DurableBeforeObservable, LiveNeverPruned,
       EndedIsLogged, WaitedIsRead, NoGhostRow
<1>9. CASE Exit
  <2> USE <1>9 DEF Exit
  <2>1. TypeOK'
    BY DEF IndInv, TypeOK
  <2>2. QED
    BY <2>1 DEF IndInv, TypeOK, Fresh, SettledIsEnded, OneDispatcher,
       CallsInTurn, RowBeforeThread, RowBeforePublish, RunningIsAccountedFor,
       CancelledIsKnown, DurableBeforeObservable, LiveNeverPruned,
       EndedIsLogged, WaitedIsRead, NoGhostRow
<1>10. QED
  BY <1>1, <1>2, <1>3, <1>4, <1>5, <1>6, <1>7, <1>8, <1>9 DEF Turn

\* Every step of every thread, and a stutter, keeps the inductive invariant.
LEMMA StepPreserves == IndInv /\ [Next]_vars => IndInv'
<1> SUFFICES ASSUME IndInv, [Next]_vars PROVE IndInv'
  OBVIOUS
<1>1. ASSUME NEW c \in Callers, Tool(c) PROVE IndInv'
  BY <1>1, ToolPreserves
<1>2. ASSUME NEW d \in Ids, Worker(d) PROVE IndInv'
  BY <1>2, WorkerPreserves
<1>3. CASE Turn
  BY <1>3, TurnPreserves
<1>4. CASE UNCHANGED vars
  BY <1>4 DEF IndInv, TypeOK, Statuses, Stages, Rows, Phases, Calls, Fresh, SettledIsEnded, OneDispatcher, CallsInTurn, RowBeforeThread,
          RowBeforePublish, RunningIsAccountedFor, CancelledIsKnown,
          DurableBeforeObservable, LiveNeverPruned, EndedIsLogged, WaitedIsRead,
          NoGhostRow
<1>5. QED
  BY <1>1, <1>2, <1>3, <1>4 DEF Next, Exited

\* The inductive invariant holds of every state the node can reach.
THEOREM Inductive == Spec => []IndInv
<1>1. QED
  BY InitEstablishes, StepPreserves, PTL DEF Spec

\* Every variable keeps the shape its readers rely on.
THEOREM TypeCorrect == Spec => []TypeOK
<1>1. IndInv => TypeOK
  BY DEF IndInv
<1>2. QED
  BY <1>1, Inductive, PTL

\* A poller never sees a finished delegation whose terminal row is not yet on
\* disk, in whatever order workers, tool calls and turns interleave.
THEOREM DurableFirst == Spec => []DurableBeforeObservable
<1>1. IndInv => DurableBeforeObservable
  BY DEF IndInv
<1>2. QED
  BY <1>1, Inductive, PTL

\* A delegation that stamped rows in an experiment store is in the log.
THEOREM EvalsTraceable == Spec => []TraceableEvals
<1>1. IndInv => TraceableEvals
  BY DEF IndInv, RowBeforeThread, TraceableEvals
<1>2. QED
  BY <1>1, Inductive, PTL

\* The prune at the start of a turn drops no running delegation but one the
\* agent cancelled.
THEOREM PruneSpares == Spec => []LiveNeverPruned
<1>1. IndInv => LiveNeverPruned
  BY DEF IndInv
<1>2. QED
  BY <1>1, Inductive, PTL

\* While the log can be written, a worker thread never ends without a row.
THEOREM EndIsRecorded == Spec => []EndedIsLogged
<1>1. IndInv => EndedIsLogged
  BY DEF IndInv
<1>2. QED
  BY <1>1, Inductive, PTL

\* No report is marked as handed out without having been shown.
THEOREM HandedOutIsShown == Spec => []WaitedIsRead
<1>1. IndInv => WaitedIsRead
  BY DEF IndInv
<1>2. QED
  BY <1>1, Inductive, PTL

\* A closed run leaves no RUNNING row but those of cancelled delegations.
THEOREM CloseLeavesNoGhost == Spec => []NoGhostRow
<1>1. IndInv => NoGhostRow
  BY DEF IndInv
<1>2. QED
  BY <1>1, Inductive, PTL

\* Without CancelDelegation, which the default strategizer does not have, a
\* run that ends through its close leaves no RUNNING row at all.
THEOREM ProductionCloses == Spec => []NoRunningRow
<1>1. IndInv => NoRunningRow
  BY DEF IndInv, NoGhostRow, NoRunningRow, CancelledIsKnown
<1>2. QED
  BY <1>1, Inductive, PTL
=============================================================================
