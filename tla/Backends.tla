------------------------------- MODULE Backends -------------------------------
(***************************************************************************)
(* A run's strategizer and the delegations it hands to one worker role,    *)
(* seen from the model's side: the adapter they share (Adapter), the mail  *)
(* that reaches them between their tool calls (Mailbox), the shells they   *)
(* start (Shells) and the server that may answer them (ServeJob).  What    *)
(* the delegation machinery makes of a delegation is module Delegation's.  *)
(***************************************************************************)
EXTENDS Adapter, Mailbox, Shells, ServeJob

CONSTANT MaxSide   \* bound on messages and commands, taken together

vars == <<adapter, mail, shells, serve>>

Room == sent + Cardinality({s \in ShellIds : proc[s] # "none"}) < MaxSide

(* A served endpoint is ignored by a backend that is not vLLM.             *)
Init ==
  /\ AdapterInit /\ MailInit /\ ShellsInit /\ ServeInit
  /\ kind = "claude" => phase = "graph"

TypeOK == AdapterTypeOK /\ MailTypeOK /\ ShellsTypeOK /\ ServeTypeOK

(* The workers' threads are daemons: they last as long as the process.     *)
Running == phase \in {"graph", "closing"}

(* A server the run owns answers as long as its job runs.                  *)
ModelAnswers == url => Answers

(* A turn goes on once the tools of its step have returned.                *)
ToolsDone(d) == Waited = {} /\ polling = 0 /\ Posts(d) = {}

(***************************************************************************)
(* The strategizer, and the operator at the viewer.                        *)
(***************************************************************************)
Dispatch(d) ==
  /\ phase = "graph"
  /\ Delegate(d)
  /\ UNCHANGED <<mail, shells, serve>>

Strategize ==
  /\ phase = "graph"
  /\ \/ Room /\ \E to \in Names \cup Delegations :
                  Confer(Strategizer, to, Live, Woken)
     \/ Drain
     \/ \E d \in Woken : StatusDrains(d)
     \/ Room /\ \E to \in {Strategizer} \cup Woken : QueueNote(to)
  /\ UNCHANGED <<adapter, shells, serve>>

(* What a call under way does next, the strategizer's, a worker's or the   *)
(* viewer's.                                                               *)
Deliver ==
  /\ Running
  /\ \/ \E p \in posting : \/ ConferDelivers(p) \/ ConferQueues(p)
                           \/ LookUp(p, Live) \/ RouteNote(p)
     \/ \E c \in claims : ReadClaim(c)
     \/ \E m \in writing : WriteNote(m)
  /\ UNCHANGED <<adapter, shells, serve>>

(***************************************************************************)
(* A worker's thread.                                                      *)
(***************************************************************************)
Thread(d) ==
  /\ Running
  /\ \/ Invoke(d) \/ Retry(d)
     \/ ToolsDone(d) /\ (Backoff(d) \/ Fails(d))
     \/ ToolsDone(d) /\ ModelAnswers /\ Returns(d)
     \/ RecordNudges(d) \/ RecordUsage(d)
  /\ UNCHANGED <<mail, shells, serve>>

(* Its tools.  ReportEvals empties the queue of the delegation whose       *)
(* closure it is.                                                          *)
ReportEvals(d) ==
  /\ Running /\ ModelAnswers
  /\ Calls(d)
  /\ WorkerDrains(d, Uses)
  /\ UNCHANGED <<shells, serve>>

WorkerConfers(d) ==
  /\ Running /\ ModelAnswers
  /\ Calls(d)
  /\ Room /\ \E to \in Names \cup Delegations : Confer(d, to, Live, Woken)
  /\ UNCHANGED <<shells, serve>>

RunsRaw(d) ==
  /\ Running /\ ModelAnswers
  /\ RawOracle(d)
  /\ UNCHANGED <<mail, shells, serve>>

(* The SDK has shells of its own; these are the other backend's.           *)
UsesShell(s) ==
  /\ Running /\ kind = "openai" /\ lock # 0 /\ stage[lock] = "turn"
  /\ \/ /\ ModelAnswers
        /\ \/ Room /\ (BashWaits(s) \/ BashBackgrounds(s))
           \/ BashOutputReads(s) \/ KillShell(s)
     \/ BashReturns(s) \/ BashTimesOut(s) \/ BashOutputPolls
  /\ UNCHANGED <<adapter, mail, serve>>

CommandGoesOn(s) ==
  /\ Running
  /\ ShellWrites(s) \/ ShellExits(s)
  /\ UNCHANGED <<adapter, mail, serve>>

Hosting == ServeStep /\ UNCHANGED <<adapter, mail, shells>>

(* The process ends, and its memory with it: what its threads and its      *)
(* commands left half done is not followed any further.                    *)
ProcessEnds ==
  /\ Teardown \/ HardKill
  /\ AdapterGone /\ MailGone /\ ShellsGone

Next ==
  \/ \E d \in Delegations :
       \/ Dispatch(d) \/ Thread(d)
       \/ ReportEvals(d) \/ WorkerConfers(d) \/ RunsRaw(d)
  \/ Strategize \/ Deliver
  \/ \E s \in ShellIds : UsesShell(s) \/ CommandGoesOn(s)
  \/ Hosting \/ ProcessEnds

Spec == Init /\ [][Next]_vars

(***************************************************************************)
(* Mail sent to a name waits for it: until it has been shown to someone,   *)
(* a message addressed to the strategizer or to the role is in the inbox   *)
(* of that name, or its sender is still at it.  (A worker's copy may be    *)
(* stranded in the queue of a delegation that ended; the name's is what    *)
(* makes up for it.)  A note of the operator that nobody has seen is in    *)
(* the file, in a claim, being handed on or in the queue of its            *)
(* delegation, unless it was lost in one of two ways that drain_note_rows  *)
(* leaves open, though its docstring says that "a note either makes it     *)
(* into this batch or stays in a fresh file for the next one": written     *)
(* through a handle opened before the rename, after the read; or in a      *)
(* claim whose read failed and which was unlinked all the same.            *)
(***************************************************************************)
Underway(m) == \E p \in posting : p.msg = m
Filed(m) == m \in writing \/ m \in notes \/ m \in UNION claims
Queued(m) == \E d \in Delegations : addr[m] = d /\ m \in pending[d]

NeverStranded ==
  \A m \in 1..sent : shown[m] # {} \/ Underway(m) \/
    IF m \in noted THEN Filed(m) \/ Queued(m) \/ m \in lost
    ELSE addr[m] \in Names => m \in inbox[addr[m]]

(***************************************************************************)
(* A note is never handed over twice, as drain_note_rows promises, however *)
(* many drains and posts overlap: it is in one place at a time, from the   *)
(* file through a claim, a call's hands and perhaps a queue to one reader, *)
(* and a note that is lost does not come back.                             *)
(***************************************************************************)
AtMostOne(S) == \A x, y \in S : x = y

Claimed(m) == {c \in claims : m \in c}
Handling(m) == {p \in posting : p.msg = m}
Queues(m) == {d \in Delegations : m \in pending[d]}
Stages == {"file", "claim", "call", "queue", "shown", "lost"}
At(m, w) ==
  \/ w = "file" /\ m \in notes
  \/ w = "claim" /\ Claimed(m) # {}
  \/ w = "call" /\ Handling(m) # {}
  \/ w = "queue" /\ Queues(m) # {}
  \/ w = "shown" /\ shown[m] # {}
  \/ w = "lost" /\ m \in lost

InOnePlace(m) ==
  /\ AtMostOne({w \in Stages : At(m, w)})
  /\ AtMostOne(Claimed(m)) /\ AtMostOne(Handling(m))
  /\ AtMostOne(Queues(m)) /\ AtMostOne(shown[m])

HandedOnce == \A m \in noted : InOnePlace(m)
=============================================================================
