-------------------------- MODULE RunClosureProofs --------------------------
(***************************************************************************)
(* The closing of a run for every set of conclusions, every number of      *)
(* callers and every limit.  IndInv carries two arguments.  What would be  *)
(* recorded GATED is earned from the moment the critic passes it, through  *)
(* the retrospective round and the router, to the status file.  And every  *)
(* consult is paid for: by a refusal still counted in reviseCount, or by a *)
(* finish attempt, of which there are FinishMax.                           *)
(***************************************************************************)
EXTENDS RunClosure, TLAPS

USE DEF node, world, outcome, verdicts, vars, Idle

\* Multiplication, for the budget of consults: one more reopened close is
\* worth ReviseMax more, and attempts within the limit cost at most theirs.
LEMMA OneMoreClose ==
  ASSUME NEW n \in Nat, NEW f \in Nat
  PROVE  /\ n * f \in Nat
         /\ n * (f + 1) = n * f + n
  BY SMT

LEMMA WithinLimit ==
  ASSUME NEW n \in Nat, NEW f \in Nat, NEW m \in Nat, f <= m
  PROVE  n * f <= n * m
  BY SMT

\* A capped counter stays below its cap and grows by one at most.
LEMMA OneMoreFacts ==
  ASSUME NEW m \in Nat, NEW n \in 0..(m + 1)
  PROVE  OneMore(n, m) \in 0..(m + 1) /\ OneMore(n, m) <= n + 1
  BY DEF OneMore

LEMMA ConsultMaxNat == ConsultMax \in Nat
<1>1. FinishMax \in Nat /\ ReviseMax \in Nat
  BY RetryAssumption
<1>2. FinishMax + 1 \in Nat
  BY <1>1
<1>3. QED
  BY <1>1, <1>2, OneMoreClose DEF ConsultMax

\* The values the steps build have their types.
LEMMA ReportType ==
  /\ NoReport \in Reports
  /\ NoCall \in Calls
  /\ \A s \in Conclusions :
       /\ [step |-> "reproduce", text |-> s] \in Calls
       /\ [step |-> "critic", text |-> s] \in Calls
       /\ [step |-> "reproduce", text |-> s] # NoCall
       /\ [step |-> "critic", text |-> s] # NoCall
       /\ \A b \in SUBSET Banners :
            Report(s, b) \in Reports /\ Report(s, b) # NoReport
  BY ConclusionAssumption DEF Reports, NoReport, NoCall, Calls, Report

LEMMA InitEstablishes == Init => IndInv
<1> SUFFICES ASSUME Init PROVE IndInv
  OBVIOUS
<1> USE RetryAssumption, ReportType, ConsultMaxNat DEF Init
<1>1. /\ study \in [backend : Backends, critic : BOOLEAN]
      /\ phase \in {"start", "turn", "over", "recorded"}
      /\ call \in [Callers -> Calls]
  OBVIOUS
<1>2. /\ reviseCount \in 0..(ReviseMax - 1)
      /\ reproAttempts \in 0..(ReproMax + 1)
      /\ milestoneBlocks \in 0..(BlockMax + 1)
      /\ finishAttempts \in 0..FinishMax
      /\ resumes \in 0..MaxResumes
      /\ consults \in 0..(ConsultMax + 1)
  OBVIOUS
<1>3. TypeOK
  BY <1>1, <1>2 DEF TypeOK, Milestones
<1>4. CallsInTurn /\ OneCall
  BY DEF CallsInTurn, OneCall
<1>5. EarnedThroughout /\ GatedIsEarned
  BY DEF EarnedThroughout, GatedIsEarned, Recorded, Accepted
<1>6. ConsultsArePaid
  <2>1. finishAttempts \in Nat /\ ReviseMax \in Nat
    OBVIOUS
  <2>2. ReviseMax * finishAttempts \in Nat
    BY <2>1, OneMoreClose
  <2>3. QED
    BY <2>1, <2>2 DEF ConsultsArePaid, Decided, Accepted
<1>7. QED
  BY <1>3, <1>4, <1>5, <1>6 DEF IndInv

\* A report under FAILED or UNGATED is not recorded GATED.
LEMMA BannerFacts ==
  ASSUME NEW s \in Conclusions
  PROVE  /\ GateOutcomeFrom(Report(s, {"FAILED"})) # "GATED"
         /\ GateOutcomeFrom(Report(s, {"UNGATED"})) # "GATED"
         /\ Report(s, {}).text = s
  BY DEF GateOutcomeFrom, Report

\* A conclusion under call belongs to the alphabet.
LEMMA CallText ==
  ASSUME TypeOK, NEW c \in Callers, call[c].step \in {"reproduce", "critic"}
  PROVE  call[c].text \in Conclusions /\ call[c] # NoCall
  BY DEF TypeOK, Calls, NoCall

\* Done keeps it.
LEMMA DonePreserves ==
  ASSUME IndInv, NEW c \in Callers, NEW s \in Conclusions, Done(c, s)
  PROVE  IndInv'
<1> USE RetryAssumption, ReportType DEF Done, Acting
<1>1. CASE PendingRefusal
  BY <1>1 DEF IndInv, PendingRefusal, TypeOK, CallsInTurn, OneCall,
     EarnedThroughout, Accepted, Earned, GatedIsEarned, Recorded, Missing,
     ConsultsArePaid, Decided
<1>2. CASE CaptureRetrospective
  <2> USE <1>2 DEF CaptureRetrospective
  <2>1. TypeOK'
    BY DEF IndInv, TypeOK
  <2>2. CallsInTurn' /\ OneCall'
    BY DEF IndInv, TypeOK, CallsInTurn, OneCall
  <2>3. EarnedThroughout' /\ GatedIsEarned'
    BY DEF IndInv, EarnedThroughout, Accepted, Earned, GatedIsEarned, Recorded
  <2>4. ConsultsArePaid'
    BY DEF IndInv, EarnedThroughout, ConsultsArePaid, Decided, Accepted
  <2>5. QED
    BY <2>1, <2>2, <2>3, <2>4 DEF IndInv
<1>3. CASE MilestoneBlock
  <2> USE <1>3 DEF MilestoneBlock, Unresolved
  <2>1. TypeOK'
    BY DEF IndInv, TypeOK
  <2>2. QED
    BY <2>1 DEF IndInv, CallsInTurn, OneCall, EarnedThroughout, Accepted,
       Earned, GatedIsEarned, Recorded, Missing, ConsultsArePaid, Decided
<1>4. CASE PastMilestones(c, s)
  <2> USE <1>4 DEF PastMilestones, Concluding
  <2>1. milestoneBlocks' \in 0..(BlockMax + 1)
    BY OneMoreFacts DEF IndInv, TypeOK
  <2>2. call' \in [Callers -> Calls]
    BY DEF IndInv, TypeOK
  <2>3. TypeOK'
    BY <2>1, <2>2 DEF IndInv, TypeOK
  <2>4. CallsInTurn' /\ OneCall'
    BY DEF IndInv, TypeOK, CallsInTurn, OneCall, Accepted
  <2>5. EarnedThroughout' /\ GatedIsEarned' /\ ConsultsArePaid'
    BY DEF IndInv, EarnedThroughout, Accepted, Earned, GatedIsEarned,
       Recorded, Missing, ConsultsArePaid, Decided
  <2>6. QED
    BY <2>3, <2>4, <2>5 DEF IndInv
<1>5. QED
  BY <1>1, <1>2, <1>3, <1>4

\* The notebook's run keeps it.
LEMMA MustReproducePreserves ==
  ASSUME IndInv, NEW c \in Callers, MustReproduce(c)
  PROVE  IndInv'
<1> USE RetryAssumption, ReportType DEF MustReproduce, Return
<1>1. TypeOK /\ call[c].text \in Conclusions /\ call[c] # NoCall
  BY CallText DEF IndInv
<1>2. phase = "turn" /\ phase' = "turn"
  BY <1>1 DEF IndInv, CallsInTurn
<1>3. reproAttempts' \in 0..(ReproMax + 1)
  BY <1>1, OneMoreFacts DEF TypeOK, Bounce, NeverReproduced, GateOrClose
<1>4. call' \in [Callers -> Calls] /\ CallsInTurn'
  BY <1>1, <1>2 DEF TypeOK, Bounce, NeverReproduced, GateOrClose, CallsInTurn
<1>5. GatedIsEarned'
  BY <1>2 DEF GatedIsEarned, Recorded
<1>6. CASE Bounce(c)
  <2> USE <1>6 DEF Bounce
  <2>1. TypeOK'
    BY <1>1, <1>3, <1>4 DEF TypeOK
  <2>2. OneCall'
    BY <1>1 DEF IndInv, TypeOK, OneCall, Accepted
  <2>3. EarnedThroughout' /\ ConsultsArePaid'
    BY DEF IndInv, EarnedThroughout, Accepted, Earned, Missing,
       ConsultsArePaid, Decided
  <2>4. QED
    BY <1>4, <1>5, <2>1, <2>2, <2>3 DEF IndInv
<1>7. CASE NeverReproduced(c, call[c].text)
  <2> USE <1>7 DEF NeverReproduced, EnterRetrospectiveRound
  <2>1. TypeOK'
    BY <1>1, <1>3, <1>4 DEF TypeOK, Banners
  <2>2. OneCall'
    BY <1>1 DEF IndInv, TypeOK, OneCall, Accepted
  <2>3. EarnedThroughout'
    BY <1>1, <1>2, BannerFacts DEF IndInv, EarnedThroughout, Accepted, Earned,
       Banners
  <2>4. ConsultsArePaid'
    BY <1>1 DEF IndInv, TypeOK, ConsultsArePaid, Decided, OneCall, Accepted
  <2>5. QED
    BY <1>4, <1>5, <2>1, <2>2, <2>3, <2>4 DEF IndInv
<1>8. CASE GateOrClose(c, call[c].text)
  <2> USE <1>8 DEF GateOrClose
  <2>1. TypeOK'
    BY <1>1, <1>3, <1>4, ZenonT(30) DEF TypeOK, Banners
  <2>2. OneCall'
    BY <1>1 DEF IndInv, TypeOK, OneCall, Accepted
  <2>3. EarnedThroughout'
    BY <1>1, <1>2, BannerFacts DEF IndInv, EarnedThroughout, Accepted, Earned,
       Banners
  <2>4. ConsultsArePaid'
    BY <1>1 DEF IndInv, TypeOK, ConsultsArePaid, Decided, OneCall, Accepted
  <2>5. QED
    BY <1>4, <1>5, <2>1, <2>2, <2>3, <2>4 DEF IndInv
<1>9. QED
  BY <1>6, <1>7, <1>8

\* The critic's verdict keeps it.
LEMMA CriticGatePreserves ==
  ASSUME IndInv, NEW c \in Callers, CriticGate(c)
  PROVE  IndInv'
<1> USE RetryAssumption, ReportType, ConsultMaxNat DEF CriticGate, Return
<1>1. TypeOK /\ call[c].text \in Conclusions /\ call[c] # NoCall
  BY CallText DEF IndInv
<1>2. phase = "turn" /\ phase' = "turn"
  BY <1>1 DEF IndInv, CallsInTurn
<1>3. /\ consults' \in 0..(ConsultMax + 1)
      /\ consults' <= consults + 1
  BY <1>1, OneMoreFacts DEF TypeOK
<1>4. call' \in [Callers -> Calls] /\ CallsInTurn' /\ OneCall'
  BY <1>1, <1>2 DEF IndInv, TypeOK, CallsInTurn, OneCall, Accepted
<1>5. GatedIsEarned'
  BY <1>2 DEF GatedIsEarned, Recorded
<1>6. study.backend = "claude" => ~Accepted /\ ~awaitingRetro
  BY <1>1 DEF IndInv, OneCall
<1>7. reviseCount' \in 0..(ReviseMax - 1)
  BY <1>1 DEF TypeOK, CriticPasses, CriticRefuses
<1>8. TypeOK'
  <2>1. /\ Report(call[c].text, {}) \in Reports
        /\ Report(call[c].text, {"UNGATED"}) \in Reports
    BY <1>1 DEF Banners
  <2>2. /\ finalSummary' \in Reports
        /\ awaitingRetro' \in BOOLEAN /\ doneWarned' \in BOOLEAN
    BY <1>1, <2>1 DEF TypeOK, CriticPasses, CriticRefuses,
       EnterRetrospectiveRound
  <2>3. passed' \subseteq Conclusions /\ refused' \subseteq Conclusions
    BY <1>1 DEF TypeOK, CriticPasses, CriticRefuses
  <2>4. QED
    BY <1>1, <1>3, <1>4, <1>7, <2>2, <2>3 DEF TypeOK
<1>9. ConsultsArePaid'
  <2>1. study.backend = "claude" =>
          consults <= ReviseMax * finishAttempts + reviseCount
    BY <1>6 DEF IndInv, ConsultsArePaid, Decided
  <2>2. ReviseMax * finishAttempts \in Nat
    BY <1>1, OneMoreClose DEF TypeOK
  <2>3. \/ awaitingRetro'
        \/ reviseCount' = reviseCount + 1 /\ awaitingRetro' = awaitingRetro
    BY <1>1 DEF CriticPasses, CriticRefuses, EnterRetrospectiveRound
  <2>4. reviseCount \in Nat /\ reviseCount + 1 <= ReviseMax /\ consults \in Nat
        /\ consults' \in Nat
    BY <1>1, <1>3 DEF TypeOK
  <2>5. CASE awaitingRetro'
    BY <1>3, <2>1, <2>2, <2>4, <2>5 DEF ConsultsArePaid, Decided
  <2>6. CASE reviseCount' = reviseCount + 1 /\ awaitingRetro' = awaitingRetro
    BY <1>3, <1>6, <2>1, <2>2, <2>4, <2>6 DEF ConsultsArePaid, Decided, Accepted
  <2>7. QED
    BY <2>3, <2>5, <2>6
<1>10. CASE CriticPasses(call[c].text)
  <2>1. EarnedThroughout'
    BY <1>1, <1>2, <1>10, BannerFacts DEF IndInv, CriticPasses,
       EnterRetrospectiveRound, EarnedThroughout, Accepted, Earned, Banners
  <2>2. QED
    BY <1>4, <1>5, <1>8, <1>9, <2>1 DEF IndInv
<1>11. CASE CriticRefuses(call[c].text)
  <2>1. EarnedThroughout'
    BY <1>1, <1>2, <1>6, <1>11, BannerFacts DEF IndInv, CriticRefuses,
       EnterRetrospectiveRound, EarnedThroughout, Accepted, Earned, Banners
  <2>2. QED
    BY <1>4, <1>5, <1>8, <1>9, <2>1 DEF IndInv
<1>12. QED
  BY <1>10, <1>11

\* The agent's other tool calls keep it.
LEMMA AgentPreserves ==
  ASSUME IndInv, NEW c \in Callers,
         WriteNotebook(c) \/ WriteAux(c) \/ Milestone(c) \/ Delegate(c)
  PROVE  IndInv'
<1> USE RetryAssumption DEF WriteNotebook, WriteAux, Milestone, Delegate,
        Acting
<1>1. phase = "turn" /\ phase' = "turn"
  OBVIOUS
<1>2. UNCHANGED <<study, call, route, awaitingRetro, finalSummary, reviseCount,
                  finishAttempts, outcome, verdicts>>
  OBVIOUS
<1>3. UNCHANGED <<reproAttempts, milestoneBlocks>>
  OBVIOUS
<1>4. TypeOK'
  <2>1. pending' \subseteq Milestones
    BY DEF IndInv, TypeOK, Milestones
  <2>2. notebook' \in {"absent", "broken", "good"} /\ aux' \in BOOLEAN
    BY DEF IndInv, TypeOK
  <2>3. worker' \in {"none", "Working", "FollowUp"} /\ doneWarned' \in BOOLEAN
    BY DEF IndInv, TypeOK
  <2>4. UNCHANGED <<runStatus, resumes, consults, passed, refused, report>>
    BY <1>2
  <2>5. QED
    BY ONLY IndInv, <1>1, <1>2, <1>3, <2>1, <2>2, <2>3, <2>4
       DEF IndInv, TypeOK
<1>5. QED
  BY <1>1, <1>2, <1>4 DEF IndInv, CallsInTurn, OneCall, EarnedThroughout,
     Accepted, Earned, GatedIsEarned, Recorded, ConsultsArePaid, Decided

\* The workers keep it: a row may break the notebook but never removes it.
LEMMA WorkerPreserves ==
  ASSUME IndInv, WorkerParks \/ WorkerResumes \/ WorkerReports
  PROVE  IndInv'
<1> USE RetryAssumption DEF WorkerParks, WorkerResumes, WorkerReports
<1>1. Missing' = Missing
  BY DEF IndInv, TypeOK, Missing
<1>2. TypeOK'
  BY DEF IndInv, TypeOK
<1>3. UNCHANGED <<study, phase, call, node, outcome, verdicts>>
  OBVIOUS
<1>4. QED
  BY <1>1, <1>2, <1>3 DEF IndInv, CallsInTurn, OneCall, EarnedThroughout,
     Accepted, Earned, GatedIsEarned, Recorded, ConsultsArePaid,
     Decided

\* The router keeps it: an accepted close is reported as it was parked, and
\* the consults of a reopened one are paid by the attempt it costs.
LEMMA RouterPreserves ==
  ASSUME IndInv, StartTurn \/ Reprompt \/ TerminateRun
  PROVE  IndInv'
<1> USE RetryAssumption, ReportType DEF TurnOver
<1>1. CASE StartTurn
  <2> USE <1>1 DEF StartTurn
  <2>1. TypeOK'
    BY DEF IndInv, TypeOK
  <2>2. CallsInTurn' /\ OneCall'
    BY DEF IndInv, CallsInTurn, OneCall, Accepted
  <2>3. EarnedThroughout' /\ GatedIsEarned'
    BY DEF IndInv, EarnedThroughout, Accepted, Earned, GatedIsEarned, Recorded
  <2>4. QED
    BY <2>1, <2>2, <2>3 DEF IndInv, ConsultsArePaid, Decided, Accepted
<1>2. CASE Reprompt
  <2> USE <1>2 DEF Reprompt
  <2>1. finishAttempts' \in {finishAttempts, finishAttempts + 1}
        /\ finishAttempts' \in 0..FinishMax
    BY DEF IndInv, TypeOK, Unfinished
  <2>2. TypeOK'
    BY <2>1 DEF IndInv, TypeOK
  <2>3. CallsInTurn' /\ OneCall' /\ EarnedThroughout' /\ GatedIsEarned'
    BY DEF IndInv, CallsInTurn, OneCall, EarnedThroughout, Accepted, Earned,
       GatedIsEarned, Recorded
  <2>4. ConsultsArePaid'
    <3> DEFINE paid == ReviseMax * finishAttempts
    <3>1. /\ finishAttempts \in Nat /\ ReviseMax \in Nat
          /\ reviseCount \in Nat /\ reviseCount <= ReviseMax
          /\ consults \in Nat
      BY ConsultMaxNat DEF IndInv, TypeOK
    <3>2. paid \in Nat /\ ReviseMax * (finishAttempts + 1) = paid + ReviseMax
      BY <3>1, OneMoreClose
    <3>3. CASE StillWorking /\ UNCHANGED finishAttempts
      BY <3>1, <3>2, <3>3 DEF IndInv, ConsultsArePaid, Decided, Accepted,
         StillWorking
    <3>4. CASE finishAttempts' = finishAttempts + 1
      <4>1. ReviseMax * finishAttempts' = paid + ReviseMax
        BY <3>2, <3>4
      <4>2. study.backend = "claude" => consults <= paid + ReviseMax
        BY <3>1, <3>2 DEF IndInv, ConsultsArePaid
      <4>3. QED
        BY <3>1, <3>2, <4>1, <4>2 DEF ConsultsArePaid, Decided
    <3>5. QED
      BY <3>3, <3>4
  <2>5. QED
    BY <2>2, <2>3, <2>4 DEF IndInv
<1>3. CASE TerminateRun
  <2> USE <1>3 DEF TerminateRun
  <2>1. Bannered(route) \in Reports
    BY DEF IndInv, TypeOK, Bannered, Reports, Banners
  <2>2. TypeOK'
    BY <2>1 DEF IndInv, TypeOK
  <2>3. GateOutcomeFrom(Bannered(route)) = "GATED" =>
          Accepted /\ ~Missing /\ Bannered(route) = route
    BY DEF IndInv, TypeOK, Bannered, Reports, GateOutcomeFrom
  <2>4. EarnedThroughout'
    BY <2>3 DEF IndInv, EarnedThroughout, Accepted, Earned, Missing
  <2>5. CallsInTurn' /\ OneCall' /\ GatedIsEarned'
    BY DEF IndInv, CallsInTurn, OneCall, Accepted, GatedIsEarned, Recorded
  <2>6. ConsultsArePaid'
    BY DEF IndInv, ConsultsArePaid, Decided, Accepted
  <2>7. QED
    BY <2>2, <2>4, <2>5, <2>6 DEF IndInv
<1>4. QED
  BY <1>1, <1>2, <1>3

\* A run that stops keeps it: what a halt reports is not an earned close but
\* is bannered HALTED, and a crash reports nothing.
LEMMA StopPreserves ==
  ASSUME IndInv, Halt \/ Crash \/ Finalize
  PROVE  IndInv'
<1> USE RetryAssumption, ReportType
<1>1. CASE Halt
  <2> USE <1>1 DEF Halt
  <2>1. report' \in Reports /\ "HALTED" \in report'.banners
    BY DEF Report, Reports, Banners
  <2>2. TypeOK'
    BY <2>1 DEF IndInv, TypeOK
  <2>3. EarnedThroughout'
    BY <2>1 DEF IndInv, EarnedThroughout, Accepted, Earned
  <2>4. CallsInTurn' /\ OneCall' /\ GatedIsEarned'
    BY DEF IndInv, CallsInTurn, OneCall, Accepted, GatedIsEarned, Recorded
  <2>5. ConsultsArePaid'
    BY OneMoreClose, ConsultMaxNat
       DEF IndInv, TypeOK, ConsultsArePaid, Decided, Accepted
  <2>6. QED
    BY <2>2, <2>3, <2>4, <2>5 DEF IndInv
<1>2. CASE Crash
  <2> USE <1>2 DEF Crash
  <2>1. TypeOK'
    BY DEF IndInv, TypeOK
  <2>2. QED
    BY <2>1 DEF IndInv, TypeOK, CallsInTurn, OneCall, EarnedThroughout,
       Accepted, Earned, GatedIsEarned, Recorded, ConsultsArePaid, Decided
<1>3. CASE Finalize
  <2> USE <1>3 DEF Finalize
  <2>1. TypeOK'
    BY DEF IndInv, TypeOK, GateOutcomeFrom
  <2>2. CallsInTurn' /\ OneCall'
    BY DEF IndInv, CallsInTurn, OneCall, Accepted
  <2>3. EarnedThroughout'
    BY DEF IndInv, EarnedThroughout, Accepted, Earned
  <2>4. GatedIsEarned'
    BY DEF IndInv, EarnedThroughout, Earned, Missing, GatedIsEarned, Recorded
  <2>5. ConsultsArePaid'
    BY DEF IndInv, ConsultsArePaid, Decided, Accepted
  <2>6. QED
    BY <2>1, <2>2, <2>3, <2>4, <2>5 DEF IndInv
<1>4. QED
  BY <1>1, <1>2, <1>3

\* A resume keeps it: the new node parks and owes nothing.
LEMMA ResumePreserves ==
  ASSUME IndInv, Resume
  PROVE  IndInv'
<1> USE RetryAssumption, ReportType, ConsultMaxNat DEF Resume
<1>1. TypeOK'
  <2>1. resumes' \in 0..MaxResumes
    BY DEF IndInv, TypeOK
  <2>2. /\ reviseCount' \in 0..(ReviseMax - 1)
        /\ reproAttempts' \in 0..(ReproMax + 1)
        /\ milestoneBlocks' \in 0..(BlockMax + 1)
        /\ finishAttempts' \in 0..FinishMax
        /\ consults' \in 0..(ConsultMax + 1)
    OBVIOUS
  <2>3. QED
    BY <2>1, <2>2 DEF IndInv, TypeOK
<1>2. CallsInTurn' /\ OneCall'
  BY DEF IndInv, CallsInTurn, OneCall
<1>3. EarnedThroughout' /\ GatedIsEarned'
  BY DEF EarnedThroughout, Accepted, GatedIsEarned, Recorded
<1>4. ConsultsArePaid'
  <2>1. ReviseMax * finishAttempts' \in Nat
    BY <1>1, OneMoreClose DEF TypeOK
  <2>2. QED
    BY <2>1 DEF ConsultsArePaid, Decided, Accepted
<1>5. QED
  BY <1>1, <1>2, <1>3, <1>4 DEF IndInv

LEMMA NextPreserves == IndInv /\ [Next]_vars => IndInv'
<1> SUFFICES ASSUME IndInv, [Next]_vars PROVE IndInv'
  OBVIOUS
<1>1. ASSUME NEW c \in Callers, Agent(c) \/ MustReproduce(c) \/ CriticGate(c)
      PROVE  IndInv'
  BY <1>1, DonePreserves, AgentPreserves, MustReproducePreserves,
     CriticGatePreserves DEF Agent
<1>2. CASE WorkerParks \/ WorkerResumes \/ WorkerReports
  BY <1>2, WorkerPreserves
<1>3. CASE StartTurn \/ Reprompt \/ TerminateRun
  BY <1>3, RouterPreserves
<1>4. CASE Halt \/ Crash \/ Finalize
  BY <1>4, StopPreserves
<1>5. CASE Resume
  BY <1>5, ResumePreserves
<1>6. CASE UNCHANGED vars
  BY <1>6 DEF IndInv, TypeOK, CallsInTurn, OneCall, EarnedThroughout,
     Accepted, Earned, Missing, GatedIsEarned, Recorded, ConsultsArePaid,
     Decided
<1>7. QED
  BY <1>1, <1>2, <1>3, <1>4, <1>5, <1>6 DEF Next

\* The invariant, and with it the types, holds in every reachable state.
THEOREM ClosureInvariant == Spec => []IndInv
<1>1. Init => IndInv
  BY InitEstablishes
<1>2. IndInv /\ [Next]_vars => IndInv'
  BY NextPreserves
<1>3. QED
  BY <1>1, <1>2, PTL DEF Spec

\* A run is recorded GATED, halts aside, only for a conclusion the critic
\* passed and with its deliverables: _finalize_run reads back what
\* _critic_gate parked, whatever the agent, its workers and resumes do.
THEOREM GatedRunsAreEarned == Spec => []GatedIsEarned
<1>1. IndInv => GatedIsEarned
  BY DEF IndInv
<1>2. QED
  BY <1>1, ClosureInvariant, PTL

\* The critic is consulted at most ReviseMax * (FinishMax + 1) times by one
\* process on the one-call-at-a-time backend: the budget of _critic_gate is
\* not refilled by anything the agent can do.
THEOREM CriticIsNotWornDown == Spec => []ConsultsBounded
<1>1. IndInv => ConsultsBounded
  <2> SUFFICES ASSUME IndInv, study.backend = "claude"
               PROVE  consults <= ConsultMax
    BY DEF ConsultsBounded
  <2>1. /\ finishAttempts \in Nat /\ finishAttempts <= FinishMax
        /\ ReviseMax \in Nat /\ FinishMax \in Nat
        /\ reviseCount \in Nat /\ reviseCount <= ReviseMax
        /\ consults \in Nat
    BY RetryAssumption, ConsultMaxNat DEF IndInv, TypeOK
  <2> DEFINE paid == ReviseMax * finishAttempts
             budget == ReviseMax * FinishMax
  <2>2. paid \in Nat /\ budget \in Nat /\ paid <= budget
    BY <2>1, OneMoreClose, WithinLimit
  <2>3. consults <= paid + ReviseMax
    BY <2>1, <2>2 DEF IndInv, ConsultsArePaid
  <2>4. ConsultMax = budget + ReviseMax
    BY <2>1, OneMoreClose DEF ConsultMax
  <2>5. QED
    BY <2>1, <2>2, <2>3, <2>4
<1>2. QED
  BY <1>1, ClosureInvariant, PTL

=============================================================================
