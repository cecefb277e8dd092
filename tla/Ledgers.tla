-------------------------------- MODULE Ledgers --------------------------------
(***************************************************************************)
(* The two process ledgers of a run and the rules in front of them:        *)
(* hypotheses.json (epistemics/hypothesis_ledger.py) with the Popperian    *)
(* checks of HypothesisUpdate, the judge that annotates a verdict minutes  *)
(* later, and the linking of attempts; milestones.json                     *)
(* (epistemics/milestones.py) with the gate of Delegate.                   *)
(*                                                                         *)
(* Callers are the tool calls that may run at the same time.  A hypothesis *)
(* operation holds the lock of its ledger from load to save, and the save  *)
(* is atomic, so it is one step; the milestone file is rewritten in place  *)
(* under a lock that its readers do not take, so a write is two steps.     *)
(***************************************************************************)
EXTENDS Naturals, Sequences, FiniteSets, SequencesExt

CONSTANTS
  Callers,      \* tool calls that may run at the same time
  Hyps,         \* statements a hypothesis may make
  Dels,         \* ids of delegations
  Namespaces,   \* designs an implementer may be sent to
  Defaults,     \* milestones seeded at the start of a run
  Automatic,    \* those with a predicate, ticked when it holds
  Proposals,    \* milestones the agent proposes
  GroundTruth,  \* sources that are no delegation (D000), or none
  None,         \* the evidence has no "delegation"
  Null,         \* it has one, and the value is null
  Verdicts,     \* closing statuses the agent uses
  MaxCalls,     \* bound on the tool calls the agent makes
  MaxCrashes    \* bound on kills of the process

ASSUME LedgerAssumption ==
  /\ IsFiniteSet(Callers)
  /\ Automatic \subseteq Defaults /\ Defaults \cap Proposals = {}
  /\ {None, Null} \cap (Dels \cup GroundTruth) = {} /\ None # Null
  /\ Verdicts \subseteq {"SUPPORTED", "FALSIFIED", "INCONCLUSIVE"}
  /\ {MaxCalls, MaxCrashes} \subseteq Nat

Closing == {"SUPPORTED", "FALSIFIED", "INCONCLUSIVE"}
Statuses == Verdicts \cup {"OPEN"}
Cited == Dels \cup GroundTruth \cup {None, Null}

VARIABLES
  hyps,      \* the status log of each proposed hypothesis
  dels,      \* last row of each delegation in the log
  registry,  \* delegations of this process, Working or Done
  confirm,   \* _supported_confirm_pending
  calls,     \* what each tool call is in the middle of
  file,      \* milestones.json: whether it can be read, and its statuses
  ready,     \* predicates of default milestones that hold
  acked,     \* _milestone_ack
  begun,     \* tool calls made so far
  crashes,
  \* Ghosts: confirmations asked for, per hypothesis; the milestones as the
  \* tools acknowledged them.
  asked, told

hypVars == <<hyps, confirm, asked>>
delVars == <<dels, registry>>
msVars == <<file, ready, acked, told>>
boundVars == <<begun, crashes>>
vars == <<hypVars, delVars, msVars, calls, boundVars>>

\* Two ghosts: `bare`, SUPPORTED with no attempt in the log; `stray`, it
\* carries the judge's note on another entry.
Entry(s, d, bare) == [status |-> s, d |-> d, bare |-> bare, stray |-> FALSE]
Row(s, hs, attempt) == [status |-> s, hyps |-> hs, attempt |-> attempt]
Idle == [pc |-> "idle"]
Readable(ms) == [state |-> "ok", status |-> ms]
Torn == [state |-> "torn", status |-> <<>>]

-----------------------------------------------------------------------------
Status(h) == Last(hyps[h]).status
CitedIn(log) == {log[i].d : i \in DOMAIN log} \ {None, Null}
Completed(d) == d \in DOMAIN dels /\ dels[d].status = "DONE"

\* A finished attempt on h is in the delegation log.
Attempted(h) ==
  \E d \in DOMAIN dels : Completed(d) /\ dels[d].attempt /\ h \in dels[d].hyps

\* A file that is not there or cannot be read is an empty ledger.
Milestones == IF file.state = "ok" THEN file.status ELSE <<>>
Pending(ms) == {m \in DOMAIN ms : ms[m] = "PENDING"}
\* Mutant: milestone operations do not exclude each other.
MilestoneUnlocked == TRUE

MilestoneLock == \A c \in Callers : calls[c].pc # "saving"

Seeded(ms) == [m \in DOMAIN ms \cup Defaults |->
                 IF m \in DOMAIN ms THEN ms[m] ELSE "PENDING"]

\* An idle call takes up the next of the agent's tool calls.
Begins(c) == calls[c].pc = "idle" /\ begun < MaxCalls /\ begun' = begun + 1

Init ==
  /\ hyps = <<>> /\ dels = <<>> /\ registry = <<>>
  /\ confirm = {} /\ acked = {} /\ ready = {} /\ begun = 0 /\ crashes = 0
  /\ calls = [c \in Callers |-> Idle]
  /\ file = Readable(Seeded(<<>>)) /\ told = Seeded(<<>>)
  /\ asked = [h \in Hyps |-> 0]

-----------------------------------------------------------------------------
(* Hypotheses.                                                             *)

\* A statement already in the ledger is refused.
HypothesisPropose(c, h) ==
  /\ Begins(c) /\ h \notin DOMAIN hyps
  /\ hyps' = [x \in DOMAIN hyps \cup {h} |->
                IF x = h THEN <<Entry("OPEN", None, FALSE)>> ELSE hyps[x]]
  /\ UNCHANGED <<delVars, msVars, calls, crashes, confirm, asked>>

\* SUPPORTED without a finished attempt has to be said twice, the second time
\* with a justification; the first time only asks.
NeedsConfirmation(h, s) == s = "SUPPORTED" /\ ~Attempted(h)

\* The confirmation is used up.
Confirmation(h) == confirm \ {h}

AskToConfirm(c, h, s) ==
  /\ Begins(c) /\ NeedsConfirmation(h, s)
  /\ confirm' = confirm \cup {h}
  /\ asked' = [asked EXCEPT ![h] = @ + 1]
  /\ UNCHANGED <<hyps, delVars, msVars, calls, crashes>>

\* Mutant: a delegation that is only logged may be cited.
CitableIfLogged(d) == d \in GroundTruth \cup {None, Null} \/ d \in DOMAIN dels

\* A cited delegation has to be finished, or be the ground truth; null is let
\* through like no citation.
Citable(d) == d \in GroundTruth \cup {None, Null} \/ Completed(d)

Checked(h, s, d, bare) == [pc |-> "checked", h |-> h, s |-> s, d |-> d, bare |-> bare]

\* The verdict needs no confirmation, or finds it asked for.
HypothesisUpdate(c, h, s, d) ==
  /\ Begins(c) /\ h \in DOMAIN hyps
  /\ NeedsConfirmation(h, s) => h \in confirm
  /\ calls' = IF NeedsConfirmation(h, s)
              THEN [calls EXCEPT ![c] = [pc |-> "confirmed", h |-> h, s |-> s, d |-> d]]
              ELSE IF Citable(d) THEN [calls EXCEPT ![c] = Checked(h, s, d, FALSE)]
              ELSE calls
  /\ UNCHANGED <<hypVars, delVars, msVars, crashes>>

\* Only then, and without a lock, is the confirmation used up, even if the
\* citation is refused next: calls that found it before may all pass on it.
UseConfirmation(c) ==
  LET u == calls[c] IN
  /\ u.pc = "confirmed"
  /\ confirm' = Confirmation(u.h)
  /\ calls' = [calls EXCEPT ![c] =
                 IF Citable(u.d) THEN Checked(u.h, u.s, u.d, TRUE) ELSE Idle]
  /\ UNCHANGED <<hyps, asked, delVars, msVars, boundVars>>

\* Retracting a verdict, other than FALSIFIED, carries its source forward.
Retracts(h, s, d) == s = "OPEN" /\ Status(h) \notin {"OPEN", "FALSIFIED"} /\ d = None

LastCited(log) ==
  LET at == {i \in DOMAIN log : log[i].d \notin {None, Null}}
  IN log[CHOOSE i \in at : \A j \in at : j <= i].d

\* Nothing new: same status, no new source, same numbers and belief.
Settled(h, s, d, same) ==
  same /\ s = Status(h) /\ d \in CitedIn(hyps[h]) \cup {None, Null}

\* The key has to be there to close, and to reopen what is FALSIFIED; without it
\* a retraction needs a source to carry forward.
Refused(h, s, d, same) ==
  \/ s \in Closing /\ d = None
  \/ Settled(h, s, d, same)
  \/ s = "OPEN" /\ Status(h) = "FALSIFIED" /\ d = None
  \/ Retracts(h, s, d) /\ CitedIn(hyps[h]) = {}

LedgerUpdate(c, same) ==
  LET u == calls[c]
      source == IF Retracts(u.h, u.s, u.d) THEN LastCited(hyps[u.h]) ELSE u.d
      log == Append(hyps[u.h], Entry(u.s, source, u.bare))
  IN
  /\ u.pc = "checked"
  /\ IF Refused(u.h, u.s, u.d, same)
     THEN /\ calls' = [calls EXCEPT ![c] = Idle]
          /\ UNCHANGED hyps
     ELSE /\ hyps' = [hyps EXCEPT ![u.h] = log]
          /\ calls' = [calls EXCEPT ![c] =
                         IF u.s \in Closing
                         THEN [pc |-> "judging", h |-> u.h, i |-> Len(log)] ELSE Idle]
  /\ UNCHANGED <<confirm, asked, delVars, msVars, boundVars>>

\* The judge has ruled, after a model call: its note goes to the newest entry.
AnnotateLast(c) ==
  LET u == calls[c] IN
  /\ u.pc = "judging"
  /\ hyps' = [hyps EXCEPT ![u.h][Len(hyps[u.h])].stray = u.i # Len(hyps[u.h])]
  /\ calls' = [calls EXCEPT ![c] = Idle]
  /\ UNCHANGED <<confirm, asked, delVars, msVars, boundVars>>

\* No critic, a call that failed or an empty reply: the verdict stands as it is.
NoRuling(c) ==
  /\ calls[c].pc = "judging"
  /\ calls' = [calls EXCEPT ![c] = Idle]
  /\ UNCHANGED <<hypVars, delVars, msVars, boundVars>>

-----------------------------------------------------------------------------
(* Delegations, as far as verdicts rest on them.                           *)

\* Finishing writes the log, then the registry.
Finish(d) ==
  /\ d \in DOMAIN registry /\ dels[d].status = "RUNNING"
  /\ \E s \in {"DONE", "FAILED"} : dels' = [dels EXCEPT ![d].status = s]
  /\ UNCHANGED <<hypVars, registry, msVars, calls, boundVars>>

Publish(d) ==
  /\ d \in DOMAIN registry /\ registry[d] = "Working" /\ Completed(d)
  /\ registry' = [registry EXCEPT ![d] = "Done"]
  /\ UNCHANGED <<hypVars, dels, msVars, calls, boundVars>>

\* LinkFalsificationAttempt: known to the registry as done, and a registered
\* hypothesis; then the row is rewritten.
LinkFalsificationAttempt(c, d, h) ==
  /\ Begins(c) /\ h \in DOMAIN hyps
  /\ d \in DOMAIN registry /\ registry[d] = "Done"
  /\ calls' = [calls EXCEPT ![c] = [pc |-> "linked", d |-> d, h |-> h]]
  /\ UNCHANGED <<hypVars, delVars, msVars, crashes>>

MarkAttempt(c) ==
  LET u == calls[c] IN
  /\ u.pc = "linked"
  /\ dels' = [dels EXCEPT ![u.d].attempt = TRUE, ![u.d].hyps = @ \cup {u.h}]
  /\ calls' = [calls EXCEPT ![c] = Idle]
  /\ UNCHANGED <<hypVars, registry, msVars, boundVars>>

-----------------------------------------------------------------------------
(* Milestones.                                                             *)

\* The new contents are computed under the lock, the file is emptied, then
\* written.
BeginSave(c, ms, then) ==
  /\ MilestoneLock
  /\ calls' = [calls EXCEPT ![c] = [pc |-> "saving", ms |-> ms, then |-> then]]
  /\ file' = Torn
  /\ UNCHANGED <<hypVars, delVars, ready, acked, told, crashes>>

EndSave(c) ==
  LET u == calls[c] IN
  /\ u.pc = "saving"
  /\ file' = Readable(u.ms) /\ told' = u.ms
  /\ calls' = [calls EXCEPT ![c] = u.then]
  /\ UNCHANGED <<hypVars, delVars, ready, acked, boundVars>>

MilestonePropose(c, m) ==
  /\ Begins(c) /\ m \in Proposals \ DOMAIN Milestones
  /\ BeginSave(c, [x \in DOMAIN Milestones \cup {m} |->
                     IF x = m THEN "PENDING" ELSE Milestones[x]], Idle)

\* Complete and skip: whatever the status was.
MilestoneClose(c, m) ==
  /\ Begins(c) /\ m \in DOMAIN Milestones
  /\ BeginSave(c, [Milestones EXCEPT ![m] = "CLOSED"], Idle)

PredicateHolds(m) ==
  /\ m \in Automatic \ ready
  /\ ready' = ready \cup {m}
  /\ UNCHANGED <<hypVars, delVars, file, acked, told, calls, boundVars>>

\* Delegate checks the links; for the implementer, sent to a design, it then
\* ticks the milestones that are met, under the lock, and reads the pending
\* ones without it.
Delegate(c, hs, attempt, ns) ==
  /\ Begins(c) /\ DOMAIN dels # Dels
  /\ hs \subseteq DOMAIN hyps /\ attempt => hs # {}
  /\ hs = {} => Pending(Milestones) # {}
  /\ calls' = [calls EXCEPT ![c] = [pc |-> IF ns = None THEN "cleared" ELSE "delegating",
                                    row |-> Row("RUNNING", hs, attempt), ns |-> ns,
                                    torn |-> FALSE, blocked |-> FALSE]]
  /\ UNCHANGED <<hypVars, delVars, msVars, crashes>>

AutoSatisfy(c) ==
  LET u == calls[c]
      met == Pending(Milestones) \cap ready
      next == [u EXCEPT !.pc = "ticked"]
  IN
  /\ u.pc = "delegating" /\ MilestoneLock
  /\ \/ /\ met # {} /\ UNCHANGED begun
        /\ BeginSave(c, [m \in DOMAIN Milestones |->
                           IF m \in met THEN "CLOSED" ELSE Milestones[m]], next)
     \/ /\ met = {}
        /\ calls' = [calls EXCEPT ![c] = next]
        /\ UNCHANGED <<hypVars, delVars, msVars, boundVars>>

\* Mutant: one confirmation holds for all designs.
ConfirmedOnce(ns) == acked # {}

\* The first refusal for a design is a question, the second call confirms it.
Confirmed(ns) == ns \in acked

MilestoneGate(c) ==
  LET u == calls[c]
      blocked == Pending(Milestones) # {}
  IN
  /\ u.pc = "ticked"
  /\ IF blocked /\ ~Confirmed(u.ns)
     THEN /\ acked' = acked \cup {u.ns}
          /\ calls' = [calls EXCEPT ![c] = Idle]
     ELSE /\ UNCHANGED acked
          /\ calls' = [calls EXCEPT ![c].pc = "cleared", ![c].torn = file.state = "torn",
                                    ![c].blocked = Pending(told) # {}]
  /\ UNCHANGED <<hypVars, delVars, file, ready, told, boundVars>>

\* The row is written with an id of its own.
RecordStarted(c, d) ==
  /\ calls[c].pc = "cleared" /\ d \notin DOMAIN dels
  /\ dels' = [x \in DOMAIN dels \cup {d} |-> IF x = d THEN calls[c].row ELSE dels[x]]
  /\ registry' = [x \in DOMAIN registry \cup {d} |-> IF x = d THEN "Working" ELSE registry[x]]
  /\ calls' = [calls EXCEPT ![c] = Idle]
  /\ UNCHANGED <<hypVars, msVars, boundVars>>

-----------------------------------------------------------------------------
\* The process ends and the run is resumed: what nodes hold in memory is gone,
\* the files stay, and the defaults are seeded again.
Crash ==
  /\ crashes < MaxCrashes
  /\ crashes' = crashes + 1
  /\ calls' = [c \in Callers |-> Idle]
  /\ registry' = <<>> /\ confirm' = {} /\ acked' = {}
  /\ file' = Readable(Seeded(Milestones))
  /\ told' = IF file.state = "torn" THEN Seeded(<<>>) ELSE told
  /\ UNCHANGED <<hyps, asked, dels, ready, begun>>

Next ==
  \/ \E c \in Callers :
       \/ \E h \in Hyps : HypothesisPropose(c, h)
       \/ \E h \in DOMAIN hyps, s \in Statuses : AskToConfirm(c, h, s)
       \/ \E h \in DOMAIN hyps, s \in Statuses, d \in Cited : HypothesisUpdate(c, h, s, d)
       \/ UseConfirmation(c)
       \/ \E same \in BOOLEAN : LedgerUpdate(c, same)
       \/ AnnotateLast(c)
       \/ NoRuling(c)
       \/ \E d \in Dels, h \in Hyps : LinkFalsificationAttempt(c, d, h)
       \/ MarkAttempt(c)
       \/ \E m \in Proposals : MilestonePropose(c, m)
       \/ \E m \in Defaults \cup Proposals : MilestoneClose(c, m)
       \/ \E hs \in SUBSET Hyps, attempt \in BOOLEAN, ns \in Namespaces \cup {None} :
            Delegate(c, hs, attempt, ns)
       \/ AutoSatisfy(c)
       \/ MilestoneGate(c)
       \/ \E d \in Dels : RecordStarted(c, d)
       \/ EndSave(c)
  \/ \E d \in Dels : Finish(d) \/ Publish(d)
  \/ \E m \in Automatic : PredicateHolds(m)
  \/ Crash

Spec == Init /\ [][Next]_vars
-----------------------------------------------------------------------------
\* Every verdict, and what takes a verdict back, rests on one source that is
\* finished work: a delegation whose row is DONE, or the ground truth, however
\* checks, entries, the end of the delegation and a resume interleave
\* (_check_cited_delegation, update); or its evidence names null, which neither
\* check refuses, although "Evidence must cite a delegation that actually ran"
\* is among the refusals that "are hard" (docs/how-a-run-is-kept-honest.md).  And
\* each time the agent is asked whether it means it lets no tool call enter
\* SUPPORTED without an attempt twice (_supported_needs_attempt): the calls that
\* find one confirmation at the same time may all do so once.
VerdictHasSource ==
  \A h \in DOMAIN hyps :
    /\ \A i \in DOMAIN hyps[h] :
         hyps[h][i].status \in Closing \/ (i > 1 /\ hyps[h][i - 1].status \in Closing) =>
           hyps[h][i].d \in GroundTruth \cup {Null} \/ Completed(hyps[h][i].d)
    /\ Cardinality({i \in DOMAIN hyps[h] : hyps[h][i].bare}) <= asked[h] * Cardinality(Callers)

\* The milestone file says what the tools acknowledged: parallel tool calls lose
\* nothing, and a resume loses it only when a write was cut short
\* (MilestoneLedger._save).
MilestonesAsTold == file.state = "ok" => file.status = told

\* The implementer is not sent to a design while milestones are open unless the
\* question was asked for that design; the one way past the gate is to read the
\* file while another call rewrites it (implementer_block, pending).
GateAsks ==
  \A c \in Callers :
    calls[c].pc = "cleared" /\ calls[c].blocked =>
      calls[c].ns \in acked \/ calls[c].torn

=============================================================================
