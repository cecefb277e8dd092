--------------------------- MODULE OperatorChannel ---------------------------
(***************************************************************************)
(* infra/operator_channel.py and its two ends: the node's FollowUp, which  *)
(* asks the human running the study and waits, and the viewer, another     *)
(* process, which answers.  They meet in debug/followups/Qnnn.json.  Every *)
(* write replaces the whole file, so a reader sees one version or the      *)
(* next; a resolution reads and writes under .operator.lock, which a       *)
(* holder that is wedged for five seconds loses.                           *)
(*                                                                         *)
(* A process is an Asker (a FollowUp call of the run; two when the agent's *)
(* tool calls run in parallel) or a Poster (an answer POSTed to the        *)
(* viewer).  The answer a process gives is the process itself.             *)
(***************************************************************************)
EXTENDS Naturals, FiniteSets, FiniteSetsExt

CONSTANTS
  Askers, Posters,
  MaxQuestions,    \* bound on the files Q001, Q002, ...
  MaxAsk,          \* _max_ask: questions per turn of the node
  DiskFails,       \* a write may fail: a full or read-only run directory
  NoOne

Procs == Askers \cup Posters
Questions == 1..MaxQuestions

ASSUME ProcAssumption ==
  /\ Askers \cap Posters = {} /\ NoOne \notin Procs
  /\ {"none", "ok", "refused", "unattended"} \cap Procs = {}
ASSUME QuotaAssumption == MaxQuestions \in Nat /\ MaxAsk \in Nat /\ DiskFails \in BOOLEAN

VARIABLES
  file,      \* "none", "empty" or the status in each question's file
  answer,    \* the answer in each question's file
  lock,      \* who holds .operator.lock
  lapsed,    \* history: someone has written without holding it
  watched,   \* the viewer's heartbeat is fresh
  terminal,  \* the run is interactive and stdin is a terminal
  askCount,  \* node._ask_count
  pc,        \* where each process is
  qid,       \* the question it is about
  count,     \* the number of files an asker has counted
  tty,       \* an asker still watches the terminal
  expired,   \* the asker's deadline has passed
  verdict,   \* the status it is about to write
  saw,       \* the status it has read under the lock
  got        \* what a call returned: an answer, "unattended", or what the
             \* viewer told its operator ("ok", "refused")

files == <<file, answer>>
channelVars == <<file, answer, lock, lapsed, watched, terminal, askCount, pc, qid,
          count, tty, expired, verdict, saw, got>>

Open == {"none", "empty", "pending"}
Closed == {"answered", "timeout", "unattended"}
Busy == {"count", "create", "publish", "decide", "poll", "read", "watch",
         "enter", "write"}

(***************************************************************************)
(* The type invariant: an answer is in a file exactly when its status says *)
(* so, and a process in the section is about a question that exists.       *)
(***************************************************************************)
ChannelTypeOK ==
  /\ file \in [Questions -> Open \cup Closed]
  /\ \A q \in Questions : /\ answer[q] \in Procs \cup {NoOne}
                          /\ answer[q] # NoOne <=> file[q] = "answered"
  /\ lock \in Procs \cup {NoOne}
  /\ {lapsed, watched, terminal} \subseteq BOOLEAN
  /\ askCount \in Nat
  /\ pc \in [Procs -> Busy \cup {"idle", "done"}]
  /\ \A p \in Procs : pc[p] \in {"enter", "write"} =>
       /\ qid[p] \in Questions
       /\ verdict[p] \in Closed
       /\ file[qid[p]] \notin {"none", "empty"}
  /\ \A p \in Procs : lock = p => pc[p] = "write"

ChannelInit ==
  /\ file = [q \in Questions |-> "none"]
  /\ answer = [q \in Questions |-> NoOne]
  /\ lock = NoOne
  /\ lapsed = FALSE
  /\ watched \in BOOLEAN
  /\ terminal \in BOOLEAN
  /\ askCount = 0
  /\ pc = [p \in Procs |-> "idle"]
  /\ qid = [p \in Procs |-> 0]
  /\ count = [p \in Procs |-> 0]
  /\ tty = [p \in Procs |-> FALSE]
  /\ expired = [p \in Procs |-> FALSE]
  /\ verdict = [p \in Procs |-> "none"]
  /\ saw = [p \in Procs |-> "none"]
  /\ got = [p \in Procs |-> "none"]

Goto(p, l) == pc' = [pc EXCEPT ![p] = l]
Return(p, r) == Goto(p, "done") /\ got' = [got EXCEPT ![p] = r]

\* Resolve the question with status s: the section below does it.
Resolving(p, s) == Goto(p, "enter") /\ verdict' = [verdict EXCEPT ![p] = s]

-----------------------------------------------------------------------------
(* ask_question and the first half of FollowUp.                            *)

FollowUp(a) ==
  /\ pc[a] \in {"idle", "done"}
  /\ askCount < MaxAsk
  /\ Goto(a, "count")
  /\ qid' = [qid EXCEPT ![a] = 0]
  /\ tty' = [tty EXCEPT ![a] = terminal]
  /\ expired' = [expired EXCEPT ![a] = FALSE]
  /\ got' = [got EXCEPT ![a] = "none"]
  /\ UNCHANGED <<files, lock, lapsed, watched, terminal, askCount, count,
                 verdict, saw>>

Count(a) ==
  /\ pc[a] = "count"
  /\ Goto(a, "create")
  /\ count' = [count EXCEPT ![a] = Cardinality({q \in Questions : file[q] # "none"})]
  /\ UNCHANGED <<files, lock, lapsed, watched, terminal, askCount, qid, tty,
                 expired, verdict, saw, got>>

\* The exclusive create skips the names another asker has taken.
Candidates(a) == {q \in Questions : q > count[a] /\ file[q] = "none"}

Create(a) ==
  /\ pc[a] = "create"
  /\ Candidates(a) # {}
  /\ LET q == Min(Candidates(a)) IN
       /\ file' = [file EXCEPT ![q] = "empty"]
       /\ qid' = [qid EXCEPT ![a] = q]
  /\ Goto(a, "publish")
  /\ UNCHANGED <<answer, lock, lapsed, watched, terminal, askCount, count, tty,
                 expired, verdict, saw, got>>

Publish(a) ==
  /\ pc[a] = "publish"
  /\ file' = [file EXCEPT ![qid[a]] = "pending"]
  /\ Goto(a, "decide")
  /\ UNCHANGED <<answer, lock, lapsed, watched, terminal, askCount, qid, count,
                 tty, expired, verdict, saw, got>>

\* A disk that cannot take the question degrades to no answer; the file the
\* create has left stays empty.
AskFails(a) ==
  /\ DiskFails \/ (pc[a] = "create" /\ Candidates(a) = {})
  /\ pc[a] \in {"create", "publish"}
  /\ Return(a, "unattended")
  /\ UNCHANGED <<files, lock, lapsed, watched, terminal, askCount, qid, count,
                 tty, expired, verdict, saw>>

\* Nobody could answer: the question is closed and not counted.
DecideUnattended(a) ==
  /\ pc[a] = "decide"
  /\ ~tty[a] /\ ~watched
  /\ Resolving(a, "unattended")
  /\ UNCHANGED <<files, lock, lapsed, watched, terminal, askCount, qid, count,
                 tty, expired, saw, got>>

DecideToWait(a) ==
  /\ pc[a] = "decide"
  /\ tty[a] \/ watched
  /\ askCount' = askCount + 1
  /\ Goto(a, "poll")
  /\ UNCHANGED <<files, lock, lapsed, watched, terminal, qid, count, tty,
                 expired, verdict, saw, got>>

-----------------------------------------------------------------------------
(* _await_operator_answer: deadline, terminal, viewer, heartbeat, in that  *)
(* order, until one of them ends the wait.                                 *)

Deadline(a) ==
  /\ pc[a] \in {"poll", "read", "watch", "enter", "write"}
  /\ ~expired[a]
  /\ expired' = [expired EXCEPT ![a] = TRUE]
  /\ UNCHANGED <<files, lock, lapsed, watched, terminal, askCount, pc, qid,
                 count, tty, verdict, saw, got>>

GiveUpUnseen(a) ==
  /\ pc[a] = "poll"
  /\ expired[a] /\ ~watched
  /\ Resolving(a, "timeout")
  /\ UNCHANGED <<files, lock, lapsed, watched, terminal, askCount, qid, count,
                 tty, expired, saw, got>>

GiveUp(a) ==
  /\ pc[a] = "poll"
  /\ expired[a]
  /\ Resolving(a, "timeout")
  /\ UNCHANGED <<files, lock, lapsed, watched, terminal, askCount, qid, count,
                 tty, expired, saw, got>>

\* Nothing was typed, or the terminal cannot be watched any more.
PollSilence(a) ==
  /\ pc[a] = "poll"
  /\ ~expired[a]
  /\ Goto(a, "read")
  /\ tty' \in {tty, [tty EXCEPT ![a] = FALSE]}
  /\ UNCHANGED <<files, lock, lapsed, watched, terminal, askCount, qid, count,
                 expired, verdict, saw, got>>

PollTyped(a) ==
  /\ pc[a] = "poll"
  /\ ~expired[a]
  /\ tty[a]
  /\ Resolving(a, "answered")
  /\ UNCHANGED <<files, lock, lapsed, watched, terminal, askCount, qid, count,
                 tty, expired, saw, got>>

ReadAnswer(a) ==
  /\ pc[a] = "read"
  /\ IF file[qid[a]] = "answered" THEN Return(a, answer[qid[a]])
                                  ELSE Goto(a, "watch") /\ UNCHANGED got
  /\ UNCHANGED <<files, lock, lapsed, watched, terminal, askCount, qid, count,
                 tty, expired, verdict, saw>>

\* The wait goes on as long as somebody could still answer.
WatchOn(a) ==
  /\ pc[a] = "watch"
  /\ tty[a] \/ watched
  /\ Goto(a, "poll")
  /\ UNCHANGED <<files, lock, lapsed, watched, terminal, askCount, qid, count,
                 tty, expired, verdict, saw, got>>

WatchGone(a) ==
  /\ pc[a] = "watch"
  /\ ~tty[a] /\ ~watched
  /\ Resolving(a, "unattended")
  /\ UNCHANGED <<files, lock, lapsed, watched, terminal, askCount, qid, count,
                 tty, expired, saw, got>>

-----------------------------------------------------------------------------
(* The viewer.                                                             *)

Look ==
  /\ watched' = ~watched
  /\ UNCHANGED <<files, lock, lapsed, terminal, askCount, pc, qid, count, tty,
                 expired, verdict, saw, got>>

\* The operator answers a question the viewer has shown as pending.
Post(v) ==
  /\ pc[v] = "idle"
  /\ \E q \in Questions : /\ file[q] = "pending"
                          /\ qid' = [qid EXCEPT ![v] = q]
  /\ Resolving(v, "answered")
  /\ UNCHANGED <<files, lock, lapsed, watched, terminal, askCount, count, tty,
                 expired, saw, got>>

-----------------------------------------------------------------------------
(* answer_question and close_question: read, decide, write.                *)

LockFreeAlways == TRUE
LockFree == lock = NoOne

Enter(p) ==
  /\ pc[p] = "enter"
  /\ LockFree
  /\ lock' = p
  /\ saw' = [saw EXCEPT ![p] = file[qid[p]]]
  /\ Goto(p, "write")
  /\ UNCHANGED <<files, lapsed, watched, terminal, askCount, qid, count, tty,
                 expired, verdict, got>>

\* The lock stays taken for five seconds: the body runs without it.
EnterWithout(p) ==
  /\ pc[p] = "enter"
  /\ ~LockFree
  /\ lapsed' = TRUE
  /\ saw' = [saw EXCEPT ![p] = file[qid[p]]]
  /\ Goto(p, "write")
  /\ UNCHANGED <<files, lock, watched, terminal, askCount, qid, count, tty,
                 expired, verdict, got>>

OutcomeTyped(p, wrote) ==
  IF p \in Posters THEN Return(p, IF wrote THEN "ok" ELSE "refused")
  ELSE Return(p, IF verdict[p] # "answered" THEN "unattended" ELSE p)

\* What the caller does with the outcome: the viewer tells its operator; a
\* typed answer that was not recorded is dropped for the recorded one; a
\* closed question has no answer.
Outcome(p, wrote) ==
  IF p \in Posters THEN Return(p, IF wrote THEN "ok" ELSE "refused")
  ELSE IF verdict[p] # "answered" THEN Return(p, "unattended")
  ELSE IF wrote THEN Return(p, p)
  ELSE Goto(p, "read") /\ UNCHANGED got
Resolvable(p) == saw[p] = "pending"

WriteFile(p) ==
  /\ file' = [file EXCEPT ![qid[p]] = verdict[p]]
  /\ answer' = [answer EXCEPT ![qid[p]] =
                  IF verdict[p] = "answered" THEN p ELSE NoOne]

\* A question that is already resolved is left alone; so is one the disk
\* refuses to take.
Write(p) ==
  /\ pc[p] = "write"
  /\ \/ Resolvable(p) /\ WriteFile(p) /\ Outcome(p, TRUE)
     \/ (~Resolvable(p) \/ DiskFails) /\ UNCHANGED files /\ Outcome(p, FALSE)
  /\ lock' = IF lock = p THEN NoOne ELSE lock
  /\ UNCHANGED <<lapsed, watched, terminal, askCount, qid, count, tty, expired,
                 verdict, saw>>

-----------------------------------------------------------------------------
AskerStep(a) ==
  \/ Count(a) \/ Create(a) \/ Publish(a) \/ AskFails(a)
  \/ DecideUnattended(a) \/ DecideToWait(a)
  \/ GiveUp(a) \/ PollSilence(a) \/ PollTyped(a)
  \/ ReadAnswer(a) \/ WatchOn(a) \/ WatchGone(a)

SectionStep(p) == Enter(p) \/ EnterWithout(p) \/ Write(p)

ChannelNext ==
  \/ \E a \in Askers : FollowUp(a) \/ AskerStep(a) \/ Deadline(a)
  \/ \E v \in Posters : Post(v)
  \/ \E p \in Procs : SectionStep(p)
  \/ Look

ChannelSpec == ChannelInit /\ [][ChannelNext]_channelVars

\* Threads and processes are scheduled and time passes.  No operator has to
\* answer, type or look.
ChannelFairSpec ==
  /\ ChannelSpec
  /\ \A a \in Askers : WF_channelVars(AskerStep(a)) /\ WF_channelVars(Deadline(a))
  /\ \A p \in Procs : WF_channelVars(SectionStep(p))

-----------------------------------------------------------------------------
\* Two askers never wait on one question (ask_question's exclusive create).
\* While the lock is respected, the answer an agent acted on is the one on
\* record for its own question, and an operator who was told "ok" gave it,
\* whoever else answered at the same time (typed against POSTed, two askers at
\* once; answer_question, _await_operator_answer).
ActedOnIsRecorded ==
  /\ \A a, b \in Askers :
       (a # b /\ {pc[a], pc[b]} \subseteq Busy \ {"count", "create"}) => qid[a] # qid[b]
  /\ ~lapsed =>
       /\ \A a \in Askers : (pc[a] = "done" /\ got[a] \in Procs) => answer[qid[a]] = got[a]
       /\ \A v \in Posters : got[v] = "ok" => answer[qid[v]] = v

\* While the lock is respected, a question is resolved once.
ResolvedOnce ==
  [][~lapsed' => \A q \in Questions :
       file[q] \in Closed => file'[q] = file[q] /\ answer'[q] = answer[q]]_channelVars

\* Every question comes back, whether or not anyone answers, looks or types.
AskReturns == \A a \in Askers : pc[a] \in Busy ~> pc[a] = "done"

=============================================================================
