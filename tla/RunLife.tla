------------------------------ MODULE RunLife ------------------------------
(***************************************************************************)
(* The life of the runs of a study across the processes that drive them:   *)
(* AgenticRun.execute starts a fresh run or resumes an old one from its    *)
(* directory, establishes it (_prepare_run), drives the graph against a    *)
(* checkpoint (_invoke_graph) and records what happened (_finalize_run).   *)
(* One process at a time; it may be killed between any two steps, a turn   *)
(* may raise, and the statement may be edited whenever.                    *)
(*                                                                         *)
(* What a turn does is in Delegation and RunClosure; here it takes time,   *)
(* writes the notebook and is watched by ScienceMonitor.  The stores are   *)
(* EvalStore's, the hosted model ServeJob's.                               *)
(***************************************************************************)
EXTENDS ScienceMonitor

CONSTANTS
  Statements,    \* contents PROBLEM_STATEMENT.md may have
  Budgets,       \* time budgets a process may be given, in ticks
  Multiple,      \* run_backstop_multiple
  Closes,        \* how a run may close itself
  MaxClock,      \* bound on the clock
  MaxProcesses,  \* bound on the processes
  Faulty,        \* bound: runs one of whose best-effort writes may fail
  Watched        \* bound: the processes whose workers repeat evaluations

NoTime == -1
NoStatement == "none"
(* The run of a notebook that carries no stamp, or none of this study.     *)
Unknown == 0

ASSUME LifeAssumption ==
  /\ Runs = 1..Cardinality(Runs)
  /\ NoStatement \notin Statements
  /\ Budgets \subseteq Nat \ {0} /\ Multiple \in Nat \ {0}
  /\ Closes \subseteq {"GATED", "UNGATED", "FAILED"}

VARIABLES
  clock,
  live,        \* PROBLEM_STATEMENT.md
  notebook,    \* pipeline.ipynb: the runs that wrote cells, and the stamp
  archive,     \* pipeline_*.ipynb
  made,        \* runs that have a directory
  snapshot,    \* per run: PROBLEM_STATEMENT_snapshot.md
  anchor,      \* per run: run_started_at
  thread,      \* runs that have a thread_id
  status,      \* per run: the status of run_status.json
  checkpoint,  \* per run: what checkpoints.sqlite holds of the graph's state
  process,     \* the process that drives a run
  processes,   \* how many there have been
  born,        \* per run: when it was first established (history)
  spoiled      \* runs with a best-effort write that failed (history)

files == <<notebook, archive, made, snapshot, anchor, thread, status,
           checkpoint>>
history == <<processes, born, spoiled>>
vars == <<clock, live, files, process, history, monitor>>

NoNotebook == [by |-> {}, stamp |-> Unknown]
Down == [at |-> "down"]

(* Before a run's first turn: nothing to go on with, nothing told.         *)
NoCheckpoint == [next |-> FALSE, whole |-> FALSE, told |-> {}, budget |-> 0,
                 start |-> NoTime, report |-> "none"]

run == process.run
At(steps) == process.at \in steps
Goes(step) == process' = [process EXCEPT !.at = step]
Outcomes == IF run \in Faulty \ spoiled THEN BOOLEAN ELSE {TRUE}
Spoils(ok) == spoiled' = IF ok THEN spoiled ELSE spoiled \cup {run}

Init ==
  /\ clock = 0
  /\ live \in Statements
  /\ notebook = [by |-> {Unknown}, stamp |-> Unknown]
  /\ archive = {} /\ made = {} /\ thread = {}
  /\ snapshot = [s \in Runs |-> NoStatement]
  /\ anchor = [s \in Runs |-> NoTime]
  /\ status = [s \in Runs |-> "none"]
  /\ checkpoint = [s \in Runs |-> NoCheckpoint]
  /\ process = Down /\ processes = 0
  /\ born = [s \in Runs |-> NoTime]
  /\ spoiled = {}
  /\ MonitorInit

(***************************************************************************)
(* The world.                                                              *)
(***************************************************************************)
(* Time is read when a run is anchored and before a turn; what passes with *)
(* no process passes, as far as a run can tell, while it waits to enter.   *)
Tick ==
  /\ At({"enter", "turn"})
  /\ clock < MaxClock
  /\ clock' = clock + 1
  /\ UNCHANGED <<live, files, process, history, monitor>>

(* The statement is read when a process begins, and not again.             *)
Edit ==
  /\ At({"down"})
  /\ live' \in Statements \ {live}
  /\ UNCHANGED <<clock, files, process, history, monitor>>

(* A process that dies while it finalizes leaves the status it found.      *)
Kill ==
  /\ ~ At({"down"})
  /\ process' = Down
  /\ Spoils(~ At({"stamp", "record"}))
  /\ UNCHANGED <<clock, live, files, processes, born, monitor>>

(***************************************************************************)
(* _resolve_run_dir: a fresh run sets the study's notebook aside, under    *)
(* the name of the run it is stamped with, and never over another one.     *)
(***************************************************************************)
(* The first form, not used, renames it whatever there is.                 *)
Renamed == {n \in archive : n.stamp # notebook.stamp} \cup {notebook}
Archived == archive \cup {notebook}

Begins(s, resuming, budget) ==
  /\ At({"down"})
  /\ processes < MaxProcesses
  /\ processes' = processes + 1
  /\ process' = [at |-> "snapshot", run |-> s, resuming |-> resuming,
                 problem |-> live, budget |-> budget, start |-> NoTime,
                 replay |-> FALSE, report |-> "none"]
  /\ MonitorForgets
  /\ UNCHANGED <<clock, live, snapshot, anchor, thread, status, checkpoint,
                 born, spoiled>>

StartFresh(s) ==
  /\ s = Cardinality(made) + 1
  /\ made' = made \cup {s}
  /\ \E budget \in Budgets : Begins(s, FALSE, budget)
  /\ notebook' = NoNotebook
  /\ IF notebook = NoNotebook
     THEN UNCHANGED archive
     ELSE archive' = Archived

Resume(s) ==
  /\ s \in thread
  /\ \E budget \in Budgets : Begins(s, TRUE, budget)
  /\ UNCHANGED <<made, notebook, archive>>

(***************************************************************************)
(* _prepare_run: the snapshot, the clock's anchor, the thread, the review. *)
(***************************************************************************)
(* The first form, not used, freezes the statement anew.                   *)
FrozenAnew == process.problem
Frozen == IF snapshot[run] = NoStatement THEN process.problem ELSE snapshot[run]

SnapshotsStatement ==
  /\ At({"snapshot"})
  /\ snapshot' = [snapshot EXCEPT ![run] = Frozen]
  /\ Goes("anchor")
  /\ UNCHANGED <<clock, live, notebook, archive, made, anchor, thread, status,
                 checkpoint, history, monitor>>

(* The first form, not used, anchors every process anew.                   *)
Reanchored == NoTime
Anchored == IF process.resuming THEN anchor[run] ELSE NoTime

AnchorsStart ==
  /\ At({"anchor"})
  /\ \E ok \in Outcomes :
       LET start == IF Anchored = NoTime THEN clock ELSE Anchored
       IN /\ anchor' = [anchor EXCEPT ![run] = IF ok \/ Anchored # NoTime
                                             THEN start ELSE NoTime]
          /\ Spoils(anchor'[run] # NoTime)
          /\ process' = [process EXCEPT !.at = "thread", !.start = start]
  /\ born' = [born EXCEPT ![run] = IF process.resuming THEN @ ELSE clock]
  /\ UNCHANGED <<clock, live, notebook, archive, made, snapshot, thread,
                 status, checkpoint, processes, monitor>>

ResolvesThread ==
  /\ At({"thread"})
  /\ thread' = thread \cup {run}
  /\ Goes(IF process.resuming THEN "enter" ELSE "review")
  /\ UNCHANGED <<clock, live, notebook, archive, made, snapshot, anchor,
                 status, checkpoint, history, monitor>>

(* It may add to what the agent is told, never to the statement.           *)
ReviewsStatement ==
  /\ At({"review"})
  /\ Goes("enter")
  /\ UNCHANGED <<clock, live, files, history, monitor>>

(***************************************************************************)
(* _invoke_graph.  A hosted model that cannot be started ends the process  *)
(* and leaves no word of it.                                               *)
(***************************************************************************)
ServingFails ==
  /\ At({"enter"})
  /\ process' = Down
  /\ UNCHANGED <<clock, live, files, history, monitor>>

Enters(state, replay) ==
  /\ checkpoint' = [checkpoint EXCEPT ![run] = state]
  /\ process' = [process EXCEPT !.at = "absorb", !.replay = replay]
  /\ UNCHANGED <<clock, live, notebook, archive, made, snapshot, anchor,
                 thread, status, processes, born, monitor>>

EnterFresh ==
  /\ At({"enter"}) /\ ~ process.resuming
  /\ Enters([next |-> TRUE, whole |-> TRUE, told |-> {process.problem},
             budget |-> process.budget, start |-> process.start,
             report |-> "none"], FALSE)
  /\ UNCHANGED spoiled

(* _refresh_resumed_budgets, which may fail.                               *)
Refreshed(state) ==
  [state EXCEPT !.budget = process.budget, !.start = process.start]
EntersRefreshed(state, replay) ==
  \E ok \in Outcomes :
    /\ Enters(IF ok THEN Refreshed(state) ELSE state, replay)
    /\ Spoils(ok)

(* Cut short in flight: the checkpoint is played on from.                  *)
EnterReplay ==
  /\ At({"enter"}) /\ process.resuming
  /\ checkpoint[run].next
  /\ EntersRefreshed(checkpoint[run], TRUE)

(* Closed for good, and asked nothing new.  The first form, not used, goes *)
(* by the status alone.                                                    *)
OverByStatus == status[run] = "GATED" /\ process.problem = snapshot[run]
Over ==
  /\ ~ checkpoint[run].next
  /\ status[run] = "GATED"
  /\ process.problem = snapshot[run]

Refuse ==
  /\ At({"enter"}) /\ process.resuming
  /\ Over
  /\ Goes("refused")
  /\ UNCHANGED <<clock, live, files, history, monitor>>

Leaves ==
  /\ At({"refused"})
  /\ process' = Down
  /\ UNCHANGED <<clock, live, files, history, monitor>>

(* Closed before its time, or asked something else: a turn on top of the   *)
(* conversation there is, with the statement if it has changed.  The old   *)
(* report is not read again before there is a new one.                     *)
EnterAgain ==
  /\ At({"enter"}) /\ process.resuming
  /\ ~ checkpoint[run].next /\ ~ Over
  /\ EntersRefreshed(
       [checkpoint[run] EXCEPT !.next = TRUE, !.report = "none",
          !.told = @ \cup ({process.problem} \ {snapshot[run]})], FALSE)

(***************************************************************************)
(* Turns.  Counting what it leaves undone, or closes with, needs the       *)
(* initial state: a conversation begun by a resume raises instead.         *)
(***************************************************************************)
Spent == clock - checkpoint[run].start > checkpoint[run].budget * Multiple

WritesStatus(s) ==
  \E ok \in Outcomes :
    /\ status' = IF ok THEN [status EXCEPT ![run] = s] ELSE status
    /\ Spoils(ok)

(* _check_unrecoverable and _halt_resumable.                               *)
Halt ==
  /\ At({"absorb"})
  /\ Spent /\ checkpoint[run].whole
  /\ WritesStatus("halted")
  /\ process' = [process EXCEPT !.at = "commit", !.report = "halted"]
  /\ UNCHANGED <<clock, live, notebook, archive, made, snapshot, anchor,
                 thread, checkpoint, processes, born, monitor>>

BeginTurn ==
  /\ At({"absorb"})
  /\ ~ Spent
  /\ Goes("turn")
  /\ UNCHANGED <<clock, live, files, history, monitor>>

(* The notebook is the study's: whichever run is going writes to it.       *)
WriteNotebook ==
  /\ At({"turn"})
  /\ notebook' = [notebook EXCEPT !.by = @ \cup {run}]
  /\ UNCHANGED <<clock, live, archive, made, snapshot, anchor, thread, status,
                 checkpoint, process, history, monitor>>

Monitors ==
  /\ At({"turn"}) /\ processes \in Watched
  /\ MonitorStep(run)
  /\ UNCHANGED <<clock, live, files, process, history>>

LoopBack ==
  /\ At({"turn"})
  /\ Goes("absorb")
  /\ UNCHANGED <<clock, live, files, history, monitor>>

Close ==
  /\ At({"turn"}) /\ checkpoint[run].whole
  /\ \E report \in Closes :
       process' = [process EXCEPT !.at = "commit", !.report = report]
  /\ UNCHANGED <<clock, live, files, history, monitor>>

(* The checkpointer takes the terminal Command.                            *)
Commit ==
  /\ At({"commit"})
  /\ checkpoint' = [checkpoint EXCEPT ![run].next = FALSE,
                                      ![run].report = process.report]
  /\ Goes("stamp")
  /\ UNCHANGED <<clock, live, notebook, archive, made, snapshot, anchor,
                 thread, status, history, monitor>>

(* An exception of a turn is recorded and goes on its way; the checkpoint  *)
(* is the last one there was.                                              *)
Crash ==
  /\ At({"absorb", "turn"})
  /\ WritesStatus("crashed")
  /\ process' = Down
  /\ UNCHANGED <<clock, live, notebook, archive, made, snapshot, anchor,
                 thread, checkpoint, processes, born, monitor>>

(***************************************************************************)
(* _finalize_run.                                                          *)
(***************************************************************************)
StampNotebook ==
  /\ At({"stamp"})
  /\ \E ok \in Outcomes :
       notebook' = IF ok /\ notebook # NoNotebook
                   THEN [notebook EXCEPT !.stamp = run] ELSE notebook
  /\ Goes("record")
  /\ UNCHANGED <<clock, live, archive, made, snapshot, anchor, thread, status,
                 checkpoint, history, monitor>>

(* _gate_outcome_from: what bears no banner of its own passed the gate, the *)
(* report of a halt among it.                                              *)
Outcome(report) == IF report \in {"FAILED", "UNGATED"} THEN report ELSE "GATED"

RecordStatus ==
  /\ At({"record"})
  /\ WritesStatus(Outcome(checkpoint[run].report))
  /\ process' = Down
  /\ UNCHANGED <<clock, live, notebook, archive, made, snapshot, anchor,
                 thread, checkpoint, processes, born, monitor>>

-----------------------------------------------------------------------------
World == Tick \/ Edit \/ Kill
Establish == \/ \E s \in Runs : StartFresh(s) \/ Resume(s)
             \/ SnapshotsStatement \/ AnchorsStart \/ ResolvesThread
             \/ ReviewsStatement
Enter == \/ ServingFails \/ EnterFresh \/ EnterReplay \/ EnterAgain
         \/ Refuse \/ Leaves
Drive == \/ Halt \/ BeginTurn \/ WriteNotebook \/ Monitors \/ LoopBack
         \/ Close \/ Commit \/ Crash
Finalize == StampNotebook \/ RecordStatus

Next == World \/ Establish \/ Enter \/ Drive \/ Finalize
Spec == Init /\ [][Next]_vars

-----------------------------------------------------------------------------
Starts(from, to) == process.at = from /\ process'.at = to

WithinBackstop == clock - born[run] <= process.budget * Multiple

(* The hard backstop is the run's, not the process's: no turn begins once  *)
(* the run is older than what it is given now allows, however often it was *)
(* killed and resumed ("a resume MUST charge the wall time the run has     *)
(* already spent"); and a budget that was raised lets the run go on: it is *)
(* halted for time only when this process's own budget is spent.           *)
BackstopHolds ==
  [][/\ Starts("absorb", "turn") /\ run \notin spoiled => WithinBackstop
     /\ Starts("absorb", "commit") /\ run \notin spoiled => ~ WithinBackstop]_vars

(* A resume is refused only to a run that closed itself through the gate   *)
(* ("GATED, an accepted Done()") and would be asked nothing else: never to *)
(* one cut short in flight, nor to one that closed unverified, whatever an *)
(* earlier close left in run_status.json.  A run halted for time is left   *)
(* out: it is meant to be "resumable (raise budget + resume)", but its     *)
(* report bears no banner, Outcome makes it GATED, and it is refused.      *)
RefusedIsOver ==
  At({"refused"}) /\ run \notin spoiled /\ checkpoint[run].report # "halted" =>
    /\ ~ checkpoint[run].next
    /\ checkpoint[run].report = "GATED"
    /\ snapshot[run] \in checkpoint[run].told

(* The agent of a turn has been told the statement the run's snapshot and  *)
(* its stamp say it answers; and when a closed run was reopened, the one   *)
(* that was live when it was.                                              *)
StatementIsTold ==
  At({"turn"}) /\ checkpoint[run].whole =>
    /\ snapshot[run] \in checkpoint[run].told
    /\ ~ process.replay => process.problem \in checkpoint[run].told

(* Nobody's notebook is lost: fresh runs, each of which sets the study's   *)
(* notebook aside, never write over what an earlier run left, stamped or   *)
(* not ("Archive (never delete)").                                         *)
NotebooksKept ==
  [][\A n \in archive \cup {notebook} :
       \A s \in n.by : \E m \in archive' \cup {notebook'} : s \in m.by]_vars

NudgesPaidFor == \A s \in Runs : process.at = "turn" /\ run = s => PaidFor(s)
=============================================================================
