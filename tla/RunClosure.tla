----------------------------- MODULE RunClosure -----------------------------
(***************************************************************************)
(* How a run closes: the ladder of gates behind Done() (feedback.py), the  *)
(* turn router that decides what follows a turn (orchestration.py), the    *)
(* halts (lifecycle.py), and the outcome that is read off the final report *)
(* and decides whether the run may be resumed (agent_runtime.py).          *)
(*                                                                         *)
(* The agent is free: between two steps of the runtime it may write the    *)
(* notebook, open and close milestones, delegate, call Done with any       *)
(* conclusion, or end its turn.  A Done call that gets past the warning    *)
(* takes three steps, because executing the notebook and asking the critic *)
(* take minutes in which workers go on and, under ToolNode, so do other    *)
(* tool calls.                                                             *)
(*                                                                         *)
(* What a conclusion says is left out; a report is the conclusion and the  *)
(* banners put above it.  One delegation is in flight at a time: the gates *)
(* only ask whether any is.  oracle_gold_state is left out: a milestone of *)
(* the same kind as craft_pipeline.                                        *)
(***************************************************************************)
EXTENDS Naturals, FiniteSets

CONSTANTS
  Conclusions,     \* the summaries the agent may close with
  Backends,        \* "claude": one tool call at a time, and the stream is
                   \* cut once the close is accepted; "toolnode": neither
  Callers,         \* tool-call threads of a "toolnode" turn
  ReproMax,        \* _REPRO_MAX: 6
  ReviseMax,       \* _REVISE_MAX: 3
  BlockMax,        \* _milestone_gate: 3 blocked closes
  FinishMax,       \* _reprompt_unfinished: 3 attempts
  MaxResumes,      \* bound on the resumes of one run
  Hazards          \* what may stop this run: "halt" (a ceiling is reached),
                   \* "crash" (the graph raises)

ASSUME ConclusionAssumption == "reply" \notin Conclusions
ASSUME BackendAssumption == Backends \subseteq {"claude", "toolnode"}
ASSUME RetryAssumption ==
  /\ {ReproMax, BlockMax, FinishMax, MaxResumes} \subseteq Nat
  /\ ReviseMax \in Nat \ {0}
ASSUME HazardAssumption == Hazards \subseteq {"halt", "crash"}

VARIABLES
  study,           \* [backend, critic]: what the run was built with
  phase,           \* where the process is in _orchestrate and execute
  call,            \* the Done call each caller is in
  route,           \* _route: the accepted report, NoReport when empty
  doneWarned, awaitingRetro, finalSummary,
  reviseCount, reproAttempts, milestoneBlocks, finishAttempts,
  notebook,        \* pipeline.ipynb: "absent", "broken" or "good"
  aux,             \* the required auxiliary deliverables are all there
  pending,         \* milestones.json: the PENDING ones
  worker,          \* registry status of the delegation in flight
  report,          \* last_report
  runStatus,       \* run_status.json
  resumes,
  consults,        \* ghost: GATE consults of this process
  passed,          \* ghost: conclusions the critic ever passed
  refused          \* ghost: conclusions whose latest verdict is not PASS

node == <<route, doneWarned, awaitingRetro, finalSummary, reviseCount,
          reproAttempts, milestoneBlocks, finishAttempts>>
world == <<notebook, aux, pending, worker>>
outcome == <<report, runStatus, resumes>>
verdicts == <<consults, passed, refused>>
vars == <<study, phase, call, node, world, outcome, verdicts>>

Milestones == {"craft_pipeline", "assess_literature_need", "proposed"}
Banners == {"UNGATED", "FAILED", "HALTED"}
\* "reply" stands for the agent's own last message.
Reports == [text : Conclusions \cup {"reply"}, banners : SUBSET Banners]
NoReport == [text |-> "reply", banners |-> {}]
Report(c, banners) == [text |-> c, banners |-> banners]

NoCall == [step |-> "none", text |-> "reply"]
Calls == {NoCall} \cup [step : {"reproduce", "critic"}, text : Conclusions]
Idle(c) == call[c] = NoCall

\* Counters that nothing bounds stop one above the limit they are compared to.
OneMore(n, max) == IF n > max THEN n ELSE n + 1

ConsultMax == ReviseMax * (FinishMax + 1)

-----------------------------------------------------------------------------
Init ==
  /\ study \in [backend : Backends, critic : BOOLEAN]
  /\ phase = "start"
  /\ call = [c \in Callers |-> NoCall]
  /\ route = NoReport /\ finalSummary = NoReport
  /\ doneWarned = FALSE /\ awaitingRetro = FALSE
  /\ reviseCount = 0 /\ reproAttempts = 0
  /\ milestoneBlocks = 0 /\ finishAttempts = 0
  /\ notebook = "absent"
  /\ aux \in BOOLEAN
  /\ pending = {"craft_pipeline", "assess_literature_need"}
  /\ worker = "none"
  /\ report = NoReport /\ runStatus = "none" /\ resumes = 0
  /\ consults = 0 /\ passed = {} /\ refused = {}

Accepted == route # NoReport
Missing == notebook = "absent" \/ ~aux

\* A tool call of the agent can start.
Acting(c) ==
  /\ phase = "turn" /\ Idle(c)
  /\ study.backend = "claude" => ~Accepted /\ \A d \in Callers : Idle(d)

-----------------------------------------------------------------------------
(* Done.                                                                   *)

\* auto_satisfy, then pending.
Unresolved ==
  pending \ (IF notebook # "absent" THEN {"craft_pipeline"} ELSE {})

PendingRefusal == worker = "Working" /\ UNCHANGED <<call, node, pending>>

CaptureRetrospective ==
  /\ worker # "Working" /\ awaitingRetro
  /\ awaitingRetro' = FALSE /\ doneWarned' = FALSE
  /\ route' = finalSummary
  /\ UNCHANGED <<call, finalSummary, reviseCount, reproAttempts,
                 milestoneBlocks, finishAttempts, pending>>

\* The gates before this one let the call through.
Concluding == worker # "Working" /\ ~awaitingRetro

MilestoneBlock ==
  /\ Concluding /\ Unresolved # {} /\ milestoneBlocks < BlockMax
  /\ milestoneBlocks' = milestoneBlocks + 1
  /\ pending' = Unresolved
  /\ UNCHANGED <<call, route, doneWarned, awaitingRetro, finalSummary,
                 reviseCount, reproAttempts, finishAttempts>>

\* _first_call_warning, or on to the notebook: with no milestone open, or
\* after the bounded escape skipped the rest.
PastMilestones(c, s) ==
  /\ Concluding /\ (Unresolved = {} \/ milestoneBlocks >= BlockMax)
  /\ milestoneBlocks' = IF Unresolved = {} THEN milestoneBlocks
                        ELSE OneMore(milestoneBlocks, BlockMax)
  /\ pending' = {}
  /\ doneWarned' = TRUE
  /\ call' = IF doneWarned
             THEN [call EXCEPT ![c] = [step |-> "reproduce", text |-> s]]
             ELSE call
  /\ UNCHANGED <<route, awaitingRetro, finalSummary, reviseCount,
                 reproAttempts, finishAttempts>>

Done(c, s) ==
  /\ Acting(c)
  /\ \/ PendingRefusal
     \/ CaptureRetrospective
     \/ MilestoneBlock
     \/ PastMilestones(c, s)
  /\ UNCHANGED <<study, phase, notebook, aux, worker, outcome,
                 verdicts>>

Return(c) == call' = [call EXCEPT ![c] = NoCall]

EnterRetrospectiveRound(r) ==
  awaitingRetro' = TRUE /\ finalSummary' = r /\ doneWarned' = FALSE

\* _reproduction_gate: an absent notebook is left to _missing_deliverables.
Reproduces == notebook # "broken"

Bounce(c) ==
  /\ ~Reproduces /\ reproAttempts < ReproMax
  /\ reproAttempts' = reproAttempts + 1
  /\ Return(c)
  /\ UNCHANGED <<route, doneWarned, awaitingRetro, finalSummary>>

NeverReproducedBounces(c, s) ==
  /\ ~Reproduces /\ reproAttempts >= ReproMax
  /\ reproAttempts' = OneMore(reproAttempts, ReproMax)
  /\ Return(c)
  /\ UNCHANGED <<route, doneWarned, awaitingRetro, finalSummary>>

NeverReproduced(c, s) ==
  /\ ~Reproduces /\ reproAttempts >= ReproMax
  /\ reproAttempts' = OneMore(reproAttempts, ReproMax)
  /\ EnterRetrospectiveRound(Report(s, {"FAILED"}))
  /\ Return(c)
  /\ UNCHANGED route

\* _close: consult the critic, or close directly when none is connected.
GateOrClose(c, s) ==
  /\ Reproduces
  /\ IF study.critic
     THEN /\ call' = [call EXCEPT ![c] = [step |-> "critic", text |-> s]]
          /\ UNCHANGED <<route, doneWarned>>
     ELSE /\ Return(c)
          /\ doneWarned' = FALSE /\ route' = Report(s, {})
  /\ UNCHANGED <<awaitingRetro, finalSummary, reproAttempts>>

MustReproduce(c) ==
  /\ call[c].step = "reproduce"
  /\ \/ Bounce(c)
     \/ NeverReproduced(c, call[c].text)
     \/ GateOrClose(c, call[c].text)
  /\ UNCHANGED <<study, phase, reviseCount, milestoneBlocks, finishAttempts,
                 world, outcome, verdicts>>

CriticPasses(s) ==
  /\ reviseCount' = 0
  /\ EnterRetrospectiveRound(Report(s, {}))
  /\ passed' = passed \cup {s} /\ refused' = refused \ {s}

CriticRefusesBare(s) ==
  /\ IF reviseCount + 1 >= ReviseMax
     THEN /\ reviseCount' = 0
          /\ EnterRetrospectiveRound(Report(s, {}))
     ELSE /\ reviseCount' = reviseCount + 1
          /\ doneWarned' = FALSE
          /\ UNCHANGED <<awaitingRetro, finalSummary>>
  /\ refused' = refused \cup {s} /\ UNCHANGED passed

\* Any other verdict, an unparsed review and a critic that could not be
\* invoked included.
CriticRefuses(s) ==
  /\ IF reviseCount + 1 >= ReviseMax
     THEN /\ reviseCount' = 0
          /\ EnterRetrospectiveRound(Report(s, {"UNGATED"}))
     ELSE /\ reviseCount' = reviseCount + 1
          /\ doneWarned' = FALSE
          /\ UNCHANGED <<awaitingRetro, finalSummary>>
  /\ refused' = refused \cup {s} /\ UNCHANGED passed

CriticGate(c) ==
  /\ call[c].step = "critic"
  /\ CriticPasses(call[c].text) \/ CriticRefuses(call[c].text)
  /\ consults' = OneMore(consults, ConsultMax)
  /\ Return(c)
  /\ UNCHANGED <<study, phase, route, reproAttempts, milestoneBlocks,
                 finishAttempts, world, outcome>>

-----------------------------------------------------------------------------
(* What else the agent and its workers do.                                 *)

\* WriteDeliverable and the cell tools; nothing checks what they write.
WriteNotebook(c) ==
  /\ Acting(c)
  /\ notebook' \in {"broken", "good"}
  /\ UNCHANGED <<study, phase, call, node, aux, pending, worker,
                 outcome, verdicts>>

WriteAux(c) ==
  /\ Acting(c)
  /\ aux' = TRUE
  /\ UNCHANGED <<study, phase, call, node, notebook, pending, worker,
                 outcome, verdicts>>

\* MilestonePropose, and MilestoneComplete or MilestoneSkip.
Milestone(c) ==
  /\ Acting(c)
  /\ \/ pending' = pending \cup {"proposed"}
     \/ \E m \in pending : pending' = pending \ {m}
  /\ UNCHANGED <<study, phase, call, node, notebook, aux, worker,
                 outcome, verdicts>>

\* A dispatch makes the next Done warn again.
Delegate(c) ==
  /\ Acting(c) /\ worker = "none"
  /\ worker' = "Working"
  /\ doneWarned' = FALSE
  /\ UNCHANGED <<study, phase, call, route, awaitingRetro, finalSummary,
                 reviseCount, reproAttempts, milestoneBlocks, finishAttempts,
                 notebook, aux, pending, outcome, verdicts>>

\* A worker parks on a FollowUp, and resumes when it is answered or its
\* patience is over.
WorkerParks ==
  /\ worker = "Working"
  /\ worker' = "FollowUp"
  /\ UNCHANGED <<study, phase, call, node, notebook, aux, pending,
                 outcome, verdicts>>

WorkerResumes ==
  /\ worker = "FollowUp"
  /\ worker' = "Working"
  /\ UNCHANGED <<study, phase, call, node, notebook, aux, pending,
                 outcome, verdicts>>

\* It reports; the rows it added may break or complete the notebook.
WorkerReports ==
  /\ worker = "Working"
  /\ worker' = "none"
  /\ notebook' \in IF notebook = "absent" THEN {"absent"}
                   ELSE {"broken", "good"}
  /\ UNCHANGED <<study, phase, call, node, aux, pending, outcome,
                 verdicts>>

-----------------------------------------------------------------------------
(* The turn.                                                               *)

StartTurnForgiving ==
  /\ phase = "start"
  /\ phase' = "turn"
  /\ route' = NoReport /\ doneWarned' = FALSE /\ reviseCount' = 0
  /\ UNCHANGED <<study, call, awaitingRetro, finalSummary, reproAttempts,
                 milestoneBlocks, finishAttempts, world, outcome, verdicts>>

\* _reset_for_turn.
StartTurn ==
  /\ phase = "start"
  /\ phase' = "turn"
  /\ route' = NoReport /\ doneWarned' = FALSE
  /\ UNCHANGED <<study, call, awaitingRetro, finalSummary, reviseCount,
                 reproAttempts, milestoneBlocks, finishAttempts, world,
                 outcome, verdicts>>

TurnOver == phase = "turn" /\ \A c \in Callers : Idle(c)

StillWorking == ~Accepted /\ worker # "none"
Unfinished == ~StillWorking /\ (~Accepted \/ Missing) /\ finishAttempts < FinishMax

Reprompt ==
  /\ TurnOver
  /\ \/ StillWorking /\ UNCHANGED finishAttempts
     \/ Unfinished /\ finishAttempts' = finishAttempts + 1
  /\ phase' = "start"
  /\ UNCHANGED <<study, call, route, doneWarned, awaitingRetro, finalSummary,
                 reviseCount, reproAttempts, milestoneBlocks, world, outcome,
                 verdicts>>

BanneredUnaccepted(r) ==
  IF Accepted THEN r ELSE [r EXCEPT !.banners = @ \cup {"UNGATED"}]

\* _banner: above a close that was not accepted, or that lacks a deliverable.
Bannered(r) ==
  IF Accepted /\ ~Missing THEN r
  ELSE [r EXCEPT !.banners = @ \cup {"UNGATED"}]

\* Threads still alive die with the interpreter.
TerminateRun ==
  /\ TurnOver /\ ~StillWorking /\ ~Unfinished
  /\ phase' = "over"
  /\ report' = Bannered(route)
  /\ worker' = "none"
  /\ UNCHANGED <<study, call, node, notebook, aux, pending,
                 runStatus, resumes, verdicts>>

\* _halt_resumable, before a turn: the money, error or time ceiling.
Halt ==
  /\ "halt" \in Hazards /\ phase = "start"
  /\ phase' = "over"
  /\ report' = Report("reply", {"HALTED"})
  /\ runStatus' = "halted"
  /\ worker' = "none"
  /\ UNCHANGED <<study, call, node, notebook, aux, pending,
                 resumes, verdicts>>

\* The graph raises: an adapter, the recursion limit, ^C.
Crash ==
  /\ "crash" \in Hazards /\ phase = "turn"
  /\ phase' = "recorded"
  /\ runStatus' = "crashed"
  /\ call' = [c \in Callers |-> NoCall]
  /\ worker' = "none"
  /\ UNCHANGED <<study, node, notebook, aux, pending, report,
                 resumes, verdicts>>

GateOutcomeFrom(r) ==
  CASE "FAILED" \in r.banners -> "FAILED"
    [] "UNGATED" \in r.banners -> "UNGATED"
    [] OTHER -> "GATED"

Finalize ==
  /\ phase = "over"
  /\ phase' = "recorded"
  /\ runStatus' = GateOutcomeFrom(report)
  /\ UNCHANGED <<study, call, node, world, report, resumes, verdicts>>

\* A new process and a new node over the same run directory.  A run that
\* ended GATED is refused, one that crashed replays its last turn.
Resume ==
  /\ phase = "recorded" /\ runStatus # "GATED" /\ resumes < MaxResumes
  /\ phase' = "start"
  /\ resumes' = resumes + 1
  /\ route' = NoReport /\ finalSummary' = NoReport
  /\ doneWarned' = FALSE /\ awaitingRetro' = FALSE
  /\ reviseCount' = 0 /\ reproAttempts' = 0
  /\ milestoneBlocks' = 0 /\ finishAttempts' = 0
  /\ consults' = 0
  /\ UNCHANGED <<study, call, notebook, aux, pending, worker, report,
                 runStatus, passed, refused>>

-----------------------------------------------------------------------------

Agent(c) ==
  \/ \E s \in Conclusions : Done(c, s)
  \/ WriteNotebook(c) \/ WriteAux(c) \/ Milestone(c) \/ Delegate(c)

Next ==
  \/ \E c \in Callers : Agent(c) \/ MustReproduce(c) \/ CriticGate(c)
  \/ WorkerParks \/ WorkerResumes \/ WorkerReports
  \/ StartTurn \/ Reprompt \/ TerminateRun
  \/ Halt \/ Crash \/ Finalize \/ Resume

Spec == Init /\ [][Next]_vars

\* A gate that started finishes: the notebook runs under a timeout, the
\* critic under its backend's.  A worker reports.  The runtime's own steps
\* are taken; a turn whose close was accepted is cut by route_watcher.
Fairness ==
  /\ \A c \in Callers : WF_vars(MustReproduce(c)) /\ WF_vars(CriticGate(c))
  /\ WF_vars(WorkerResumes) /\ SF_vars(WorkerReports)
  /\ WF_vars(StartTurn) /\ WF_vars(Finalize)
  /\ WF_vars(Accepted /\ (Reprompt \/ TerminateRun))

FairSpec == Spec /\ Fairness

-----------------------------------------------------------------------------
(* Type.                                                                   *)

TypeOK ==
  /\ study \in [backend : Backends, critic : BOOLEAN]
  /\ phase \in {"start", "turn", "over", "recorded"}
  /\ call \in [Callers -> Calls]
  /\ route \in Reports /\ finalSummary \in Reports /\ report \in Reports
  /\ doneWarned \in BOOLEAN /\ awaitingRetro \in BOOLEAN /\ aux \in BOOLEAN
  /\ reviseCount \in 0..(ReviseMax - 1)
  /\ reproAttempts \in 0..(ReproMax + 1)
  /\ milestoneBlocks \in 0..(BlockMax + 1)
  /\ finishAttempts \in 0..FinishMax
  /\ notebook \in {"absent", "broken", "good"}
  /\ pending \subseteq Milestones
  /\ worker \in {"none", "Working", "FollowUp"}
  /\ runStatus \in {"none", "halted", "crashed", "GATED", "UNGATED", "FAILED"}
  /\ resumes \in 0..MaxResumes
  /\ consults \in 0..(ConsultMax + 1)
  /\ passed \subseteq Conclusions /\ refused \subseteq Conclusions

-----------------------------------------------------------------------------
(* Safety.                                                                 *)

Recorded(s) == phase = "recorded" /\ runStatus = s

\* A run that was not halted is recorded GATED only when the deliverables
\* are there and, in a study with a critic, the critic passed the very
\* conclusion reported: not the exit interview, nor another summary.  Where
\* tool calls run one at a time that PASS is also its latest word on it.
GatedIsEarned ==
  Recorded("GATED") /\ "HALTED" \notin report.banners =>
    /\ ~Missing
    /\ study.critic => /\ report.text \in passed
                       /\ study.backend = "claude" => report.text \notin refused

\* The critic cannot be worn down: however often the agent calls Done, one
\* process consults the critic at most ReviseMax times per accepted close,
\* and closes are reopened at most FinishMax times (_critic_gate's comment on
\* the limit "un-gameable").
ConsultsBounded ==
  study.backend = "claude" => consults <= ConsultMax

\* What a report that would be recorded GATED owes to the critic.
Earned(r) ==
  GateOutcomeFrom(r) = "GATED" /\ study.critic =>
    /\ r.text \in passed
    /\ study.backend = "claude" => r.text \notin refused

\* The inductive invariant.  A Done call lives in a turn; where calls run one
\* at a time it finds the close still open.
CallsInTurn == \A c \in Callers : ~Idle(c) => phase = "turn"
OneCall ==
  study.backend = "claude" =>
    /\ \A c, d \in Callers : ~Idle(c) /\ ~Idle(d) => c = d
    /\ \A c \in Callers : ~Idle(c) => ~Accepted /\ ~awaitingRetro

\* The parked conclusion, the accepted one and the reported one are earned.
EarnedThroughout ==
  /\ awaitingRetro => finalSummary # NoReport /\ Earned(finalSummary)
  /\ Accepted => Earned(route)
  /\ phase = "over" /\ GateOutcomeFrom(report) = "GATED"
     /\ "HALTED" \notin report.banners => ~Missing /\ Earned(report)

\* Each reopened close has paid for ReviseMax consults, a decided one too; a
\* close about to be reopened is paid for already.
Decided == awaitingRetro \/ (Accepted /\ phase # "start")
ConsultsArePaid ==
  study.backend = "claude" =>
    consults <= ReviseMax * finishAttempts
                + (IF Decided THEN ReviseMax ELSE reviseCount)

IndInv ==
  /\ TypeOK /\ CallsInTurn /\ OneCall
  /\ EarnedThroughout /\ GatedIsEarned
  /\ ConsultsArePaid

-----------------------------------------------------------------------------
(* Liveness.                                                               *)

\* The gates give way ("so the run can never deadlock", "still lets the run
\* end"): an agent that keeps calling Done, whatever it writes, opens or skips
\* in between, gets its run closed once it stops delegating.  The warning of a
\* first call is the one refusal nothing bounds: each dispatch clears
\* _done_warned (Delegate), so an agent that delegates between any two calls
\* is only ever warned.
KeepsCallingDone ==
  SF_vars(\E c \in Callers, s \in Conclusions : Done(c, s))

StopsDelegating == <>[][~ \E c \in Callers : Delegate(c)]_vars

DoneCloses ==
  study.backend = "claude" /\ KeepsCallingDone /\ StopsDelegating
    => <>(phase = "recorded")

=============================================================================
