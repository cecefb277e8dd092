---------------------------- MODULE BackendsProofs ----------------------------
(***************************************************************************)
(* The backends for every number of delegations, messages and shells, and  *)
(* every size of model and card.  The parts share no variable, so each has *)
(* an invariant of its own, and a step of the composite is a step of some  *)
(* parts that leaves the others alone.                                     *)
(*                                                                         *)
(* Adapter: a delegation that is alone is the only live one, so the shared *)
(* object is about it wherever its thread reads it (Alone).  Mailbox: a    *)
(* delivery under way carries the address its message was sent to          *)
(* (Addressed), and a note whose line is not written is with no one        *)
(* (Placed).  ServeJob: a job that is alive is known to whoever ends       *)
(* the run (Held).                                                         *)
(***************************************************************************)
EXTENDS Backends, TLAPS

\* AdapterTypeOK, one variable at a time.
Here == Delegations \cup {0}
AdapterTypes ==
  /\ kind \in Kinds
  /\ slot \in Here /\ bound \in Here /\ lock \in Here /\ usage \in Here
  /\ stage \in [Delegations -> {"none", "waiting", "turn", "backoff", "nudges",
                                "usage", "done", "failed"}]
  /\ attempt \in Nat /\ attempt <= MaxAttempts
  /\ round \in [Delegations -> 1..2]
  /\ calls \in [Delegations -> 0..MaxCalls]
  /\ nudge \subseteq Delegations /\ overlapped \subseteq Delegations
  /\ ran \in [Delegations -> SUBSET Here]
  /\ recorded \in [Delegations -> SUBSET Here]

Holder == \A d \in Delegations : stage[d] \in {"turn", "backoff"} <=> lock = d

\* The shared object belongs to the delegations that were dispatched, and a
\* turn has an attempt left.
Attempts ==
  /\ lock = 0 => attempt = 0
  /\ \A d \in Delegations :
       /\ stage[d] # "none" => slot # 0
       /\ stage[d] = "turn" => bound # 0
       /\ stage[d] = "backoff" => attempt < MaxAttempts

\* The delegation d, not overlapped, finds its own things only.
AloneAt(d) ==
  /\ d \in Live => Live = {d} /\ slot = d
  /\ stage[d] # "failed" => ran[d] \cup recorded[d] \subseteq {d}
  /\ stage[d] = "turn" => Uses = d
  /\ stage[d] \in {"turn", "nudges"} => nudge \subseteq {d}
  /\ stage[d] \in {"nudges", "usage"} => usage = d

Alone == \A d \in Delegations \ overlapped : AloneAt(d)

AdapterInv == AdapterTypes /\ Holder /\ Attempts /\ Alone

ShellsInv == ShellsTypeOK /\ BackgroundIsReachable

Addressed ==
  /\ noted \subseteq 1..sent
  /\ \A p \in posting :
       /\ p.msg \in 1..sent /\ addr[p.msg] = p.to
       /\ p.next \in {"look", "route"} <=> p.msg \in noted
       /\ p.next = "route" => p.to \in Delegations

\* What was sent is where it was sent, notes are in no inbox, and a note whose
\* line is not written yet is nowhere but in a file.
Placed ==
  /\ \A n \in Names : inbox[n] \subseteq (1..sent) \ noted
  /\ \A d \in Delegations : pending[d] \subseteq 1..sent
  /\ \A m \in Messages : shown[m] # {} => m \in 1..sent
  /\ \A m \in writing : Handling(m) = {} /\ Queues(m) = {} /\ shown[m] = {} /\ m \notin lost

MailInv == MailTypeOK /\ Addressed /\ NeverStranded /\ Placed /\ HandedOnce

\* Before its submission there is no job; between there and the graph its id is
\* written; the one who closes the run after the graph has it.
Held ==
  /\ phase \in {"sizing", "sized"} => job = "none"
  /\ phase \in {"queued", "loading"} => jobfile
  /\ job \in Alive =>
       /\ jobfile \/ "submitted" \in {phase, left}
       /\ phase = "graph" \/ (phase = "closing" /\ left = "graph") => jobid
  /\ phase \in {"sizing", "graph"} \cup Starting => left = "none"
  /\ phase = "ended" => left \in {"graph"} \cup Starting
  /\ phase = "closing" => left \in {"graph"} \cup Starting

ServeInv == ServeTypeOK /\ Held /\ ReleasedJob

IndInv == AdapterInv /\ MailInv /\ ShellsInv /\ ServeInv
-----------------------------------------------------------------------------
(* The adapter.                                                            *)

LEMMA AdapterStarts == AdapterInit => AdapterInv
BY AdapterAssumption, CrewAssumption
DEF AdapterInit, AdapterInv, AdapterTypes, Holder, Here, Attempts, Alone, AloneAt, Live,
    Delegations, Over, Uses, Kinds

LEMMA AdapterRestarts == AdapterInv /\ AdapterGone => AdapterInv'
BY AdapterAssumption, CrewAssumption
DEF AdapterGone, AdapterInv, AdapterTypes, Holder, Here, Attempts, Alone, AloneAt, Live,
    Delegations, Over, Uses, Kinds

LEMMA AdapterStays == AdapterInv /\ UNCHANGED adapter => AdapterInv'
BY DEF adapter, AdapterInv, AdapterTypes, Holder, Here, Attempts, Alone, AloneAt, Live, Uses

-----------------------------------------------------------------------------
(* The commands.                                                           *)

LEMMA ShellsStart == ShellsInit => ShellsInv
BY ShellsAssumption
DEF ShellsInit, ShellsInv, ShellsTypeOK, BackgroundIsReachable, Background, ShellIds

LEMMA ShellsStay == ShellsInv /\ UNCHANGED shells => ShellsInv'
BY DEF shells, ShellsInv, ShellsTypeOK, BackgroundIsReachable, Background

LEMMA ShellsEnd == ShellsInv /\ ShellsGone => ShellsInv'
BY ShellsAssumption
DEF ShellsGone, ShellsInv, ShellsTypeOK, BackgroundIsReachable, Background, ShellIds

\* Whatever is done to a command, what runs in the background keeps an id.
LEMMA ShellStep ==
  ASSUME ShellsInv, NEW s \in ShellIds,
         \/ BashWaits(s) \/ BashBackgrounds(s) \/ BashReturns(s) \/ BashTimesOut(s)
         \/ BashOutputReads(s) \/ BashOutputPolls \/ KillShell(s)
         \/ ShellWrites(s) \/ ShellExits(s)
  PROVE  ShellsInv'
<1> USE ShellsAssumption DEF ShellsInv, ShellsTypeOK, BackgroundIsReachable, Background, ShellIds
<1>1. CASE BashWaits(s) \/ BashBackgrounds(s)
  BY <1>1 DEF BashWaits, BashBackgrounds
<1>2. CASE BashReturns(s) \/ BashTimesOut(s)
  BY <1>2 DEF BashReturns, BashTimesOut, Waited, Kept
<1>3. CASE BashOutputReads(s)
  BY <1>3 DEF BashOutputReads
<1>4. CASE BashOutputPolls
  <2>1. polling \in ShellIds
    BY <1>4 DEF BashOutputPolls
  <2>2. QED  BY <1>4, <2>1 DEF BashOutputPolls
<1>5. CASE KillShell(s)
  BY <1>5 DEF KillShell, Background
<1>6. CASE ShellWrites(s) \/ ShellExits(s)
  BY <1>6 DEF ShellWrites, ShellExits, Waited
<1>7. QED  BY <1>1, <1>2, <1>3, <1>4, <1>5, <1>6

-----------------------------------------------------------------------------
LEMMA AdapterTyped == AdapterTypes /\ Holder => AdapterTypeOK
BY AdapterAssumption DEF AdapterTypes, Holder, AdapterTypeOK, Here, Over

(* The adapter, one action at a time.                                      *)

\* A dispatch next to a live delegation makes both overlapped; one on an idle
\* adapter finds nobody else.
LEMMA DelegateStep ==
  ASSUME AdapterInv, NEW d \in Delegations, Delegate(d)
  PROVE  AdapterInv'
<1> USE CrewAssumption, AdapterAssumption DEF AdapterInv, AdapterTypes, Here, Delegate
<1>1. AdapterTypes'
  BY DEF Live
<1>2. Holder' /\ Attempts'
  BY DEF Holder, Attempts, Delegations
<1>3. Live' = Live \cup {d} /\ d \notin Live
  BY DEF Live, Over
<1>4. ASSUME NEW e \in Delegations \ overlapped' PROVE AloneAt(e)'
  <2>1. CASE Live = {}
    BY <1>3, <1>4, <2>1 DEF Alone, AloneAt, Live, Over, Uses
  <2>2. CASE Live # {}
    <3>1. e \in Delegations \ overlapped /\ e # d /\ e \notin Live
      BY <1>4, <2>2
    <3>2. stage'[e] = stage[e] /\ stage[e] \in {"none"} \cup Over
      BY <3>1 DEF Live
    <3>3. AloneAt(e)
      BY <3>1 DEF Alone
    <3>4. QED
      BY <1>3, <3>1, <3>2, <3>3 DEF AloneAt, Over
  <2>3. QED  BY <2>1, <2>2
<1>5. QED  BY <1>1, <1>2, <1>4 DEF Alone

\* A thread that goes on stays live, and of an adapter that one has for itself
\* no other thread does.
LEMMA BeginsStep ==
  ASSUME AdapterInv, NEW d \in Delegations, Invoke(d) \/ Retry(d)
  PROVE  AdapterInv'
<1> USE CrewAssumption, AdapterAssumption
    DEF AdapterInv, AdapterTypes, Here, Begins, Invoke, Retry
<1>1. attempt < MaxAttempts
  BY DEF Attempts
<1>2. slot # 0
  BY DEF Attempts
<1>3. AdapterTypes'
  BY <1>1
<1>4. Holder'
  BY DEF Holder, Delegations
<1>5. Attempts'
  BY <1>2, SMTT(30) DEF Attempts, Holder, Delegations
<1>6. Live' = Live /\ d \in Live
  BY DEF Live, Over
<1>7. ASSUME NEW e \in Delegations \ overlapped' PROVE AloneAt(e)'
  <2>1. AloneAt(e)
    BY <1>7 DEF Alone
  <2>2. e \in Live => e = d /\ slot = d
    <3>1. e \in Live => Live = {e} /\ slot = e
      BY <2>1 DEF AloneAt
    <3>2. QED  BY <1>6, <3>1
  <2>3. stage'[d] = "turn" /\ (slot = d => Uses' = d)
    BY DEF Uses
  <2>4. CASE e = d
    BY <1>6, <2>1, <2>2, <2>3, <2>4 DEF AloneAt, Over
  <2>5. CASE e # d
    BY <1>6, <2>1, <2>2, <2>5 DEF AloneAt, Over, Live
  <2>6. QED  BY <2>4, <2>5
<1>8. QED  BY <1>3, <1>4, <1>5, <1>7 DEF Alone

LEMMA CallStep ==
  ASSUME AdapterInv, NEW d \in Delegations, Calls(d) \/ RawOracle(d)
  PROVE  AdapterInv' /\ Uses \in Delegations
<1> USE CrewAssumption, AdapterAssumption DEF AdapterInv, AdapterTypes, Here, Calls, RawOracle
<1>1. Uses \in Delegations
  BY DEF Attempts, Uses
<1>2. ran' \in [Delegations -> SUBSET Here]
  BY <1>1
<1>3. calls' \in [Delegations -> 0..MaxCalls]
  OBVIOUS
<1>4. AdapterTypes'
  BY <1>2, <1>3
<1>5. Holder' /\ Attempts'
  BY DEF Holder, Attempts
<1>6. Live' = Live /\ d \in Live
  BY DEF Live, Over
<1>7. ASSUME NEW e \in Delegations \ overlapped' PROVE AloneAt(e)'
  <2>1. AloneAt(e)
    BY <1>7 DEF Alone
  <2>2. d \in Live' => d = e \/ e \notin Live
    BY <1>6, <2>1 DEF AloneAt
  <2>3. Uses' = Uses
    BY DEF Uses
  <2>4. QED  BY <1>6, <2>1, <2>2, <2>3 DEF AloneAt, Over, Live
<1>8. QED  BY <1>1, <1>4, <1>5, <1>7 DEF Alone

LEMMA BackoffStep ==
  ASSUME AdapterInv, NEW d \in Delegations, Backoff(d)
  PROVE  AdapterInv'
<1> USE CrewAssumption, AdapterAssumption DEF AdapterInv, AdapterTypes, Here, Backoff, turns
<1>1. AdapterTypes' /\ Holder' /\ Attempts'
  BY DEF Holder, Attempts
<1>2. Live' = Live
  BY DEF Live, Over
<1>3. ASSUME NEW e \in Delegations \ overlapped' PROVE AloneAt(e)'
  BY <1>2, <1>3 DEF Alone, AloneAt, Over, Uses
<1>4. QED  BY <1>1, <1>3 DEF Alone

LEMMA ReturnStep ==
  ASSUME AdapterInv, NEW d \in Delegations, Returns(d)
  PROVE  AdapterInv'
<1> USE CrewAssumption, AdapterAssumption DEF AdapterInv, AdapterTypes, Here, Returns
<1>1. AdapterTypes'
  OBVIOUS
<1>2. Holder'
  BY DEF Holder, Delegations
<1>3. Attempts'
  BY <1>2 DEF Attempts, Holder
<1>4. Live' = Live /\ d \in Live
  BY DEF Live, Over
<1>5. ASSUME NEW e \in Delegations \ overlapped' PROVE AloneAt(e)'
  <2>1. AloneAt(e)
    BY <1>5 DEF Alone
  <2>2. d = e \/ e \notin Live
    BY <1>4, <2>1 DEF AloneAt
  <2>3. QED  BY <1>4, <2>1, <2>2 DEF AloneAt, Over, Live
<1>6. QED  BY <1>1, <1>2, <1>3, <1>5 DEF Alone

\* The end of a thread: it leaves Live, the others are as they were.
LEMMA EndStep ==
  ASSUME AdapterInv, NEW d \in Delegations,
         Fails(d) \/ RecordNudges(d) \/ RecordUsage(d)
  PROVE  AdapterInv'
<1> USE CrewAssumption, AdapterAssumption
    DEF AdapterInv, AdapterTypes, Here, Fails, RecordNudges, RecordUsage, turns
<1>1. recorded' \in [Delegations -> SUBSET Here]
  OBVIOUS
<1>2. AdapterTypes'
  BY <1>1
<1>3. Holder'
  BY SMTT(30) DEF Holder, Delegations
<1>4. Attempts'
  BY <1>3 DEF Attempts, Holder
<1>5. Live' \subseteq Live /\ d \in Live /\ Live \ {d} \subseteq Live'
  BY DEF Live, Over
<1>6. ASSUME NEW e \in Delegations \ overlapped' PROVE AloneAt(e)'
  <2>1. AloneAt(e)
    BY <1>6 DEF Alone
  <2>2. d = e \/ e \notin Live
    BY <1>5, <2>1 DEF AloneAt
  <2>3. QED  BY <1>5, <2>1, <2>2 DEF AloneAt, Over, Live
<1>7. QED  BY <1>2, <1>3, <1>4, <1>6 DEF Alone
-----------------------------------------------------------------------------
(* The mail.                                                               *)

LEMMA MailStarts == MailInit => MailInv
<1> SUFFICES ASSUME MailInit PROVE MailInv
  OBVIOUS
<1>1. MailTypeOK
  BY MailAssumption, CrewAssumption
  DEF MailInit, MailTypeOK, Messages, Readers, Names, Addresses, Strategizer, Role
<1>2. Addressed /\ NeverStranded /\ Placed /\ HandedOnce
  BY DEF MailInit, Addressed, NeverStranded, Placed, HandedOnce
<1>3. QED  BY <1>1, <1>2 DEF MailInv

LEMMA MailRestarts == MailInv /\ MailGone => MailInv'
<1> SUFFICES ASSUME MailGone PROVE MailInv'
  OBVIOUS
<1>1. MailTypeOK'
  BY MailAssumption, CrewAssumption
  DEF MailGone, MailTypeOK, Messages, Readers, Names, Addresses, Strategizer, Role
<1>2. (Addressed /\ NeverStranded /\ Placed /\ HandedOnce)'
  BY DEF MailGone, Addressed, NeverStranded, Placed, HandedOnce
<1>3. QED  BY <1>1, <1>2 DEF MailInv

LEMMA MailStays == MailInv /\ UNCHANGED mail => MailInv'
<1> SUFFICES ASSUME MailInv, UNCHANGED mail PROVE MailInv'
  OBVIOUS
<1> USE DEF mail, notesFile
<1>1. (MailTypeOK /\ Addressed)'
  BY DEF MailInv, MailTypeOK, Addressed
<1>2. NeverStranded'
  BY DEF MailInv, NeverStranded, Underway, Filed, Queued
<1>3. Placed'
  BY DEF MailInv, Placed, Handling, Queues
<1>4. HandedOnce'
  BY DEF MailInv, HandedOnce, InOnePlace, AtMostOne, At, Claimed, Handling, Queues
<1>5. QED  BY <1>1, <1>2, <1>3, <1>4 DEF MailInv

\* Who is shown some messages is added to those who saw them.
LEMMA SeenShows ==
  ASSUME shown \in [Messages -> SUBSET Readers],
         NEW ms \in SUBSET Messages, NEW r \in Readers, shown' = Seen(ms, r)
  PROVE  /\ shown' \in [Messages -> SUBSET Readers]
         /\ \A m \in Messages :
              /\ shown[m] # {} \/ m \in ms => shown'[m] # {}
              /\ m \in ms => shown'[m] = shown[m] \cup {r}
              /\ m \notin ms => shown'[m] = shown[m]
<1>1. shown' = [m \in Messages |-> IF m \in ms THEN shown[m] \cup {r} ELSE shown[m]]
  BY DEF Seen
<1>2. QED  BY <1>1

\* A note that a step leaves alone stays in its place.
LEMMA Undisturbed ==
  ASSUME NEW m, InOnePlace(m),
         (m \in notes') = (m \in notes), (m \in lost') = (m \in lost),
         Claimed(m)' = Claimed(m), Handling(m)' = Handling(m),
         Queues(m)' = Queues(m), shown'[m] = shown[m]
  PROVE  InOnePlace(m)'
BY DEF InOnePlace, At, AtMostOne

\* A note in one place is in no other.
LEMMA Elsewhere ==
  ASSUME NEW m, InOnePlace(m)
  PROVE  /\ m \in notes => Claimed(m) = {} /\ Handling(m) = {} /\ Queues(m) = {}
                            /\ shown[m] = {} /\ m \notin lost
         /\ Claimed(m) # {} => m \notin notes /\ Handling(m) = {} /\ Queues(m) = {}
                               /\ shown[m] = {} /\ m \notin lost
         /\ Handling(m) # {} => m \notin notes /\ Claimed(m) = {} /\ Queues(m) = {}
                                /\ shown[m] = {} /\ m \notin lost
         /\ Queues(m) # {} => m \notin notes /\ Claimed(m) = {} /\ Handling(m) = {}
                              /\ shown[m] = {} /\ m \notin lost
<1> DEFINE here == {w \in Stages : At(m, w)}
<1>1. \A x, y \in here : x = y
  BY DEF InOnePlace, AtMostOne
<1>2. /\ m \in notes => "file" \in here
      /\ Claimed(m) # {} => "claim" \in here
      /\ Handling(m) # {} => "call" \in here
      /\ Queues(m) # {} => "queue" \in here
      /\ shown[m] # {} => "shown" \in here
      /\ m \in lost => "lost" \in here
  BY DEF Stages, At
<1> HIDE DEF here
<1>3. QED  BY <1>1, <1>2

\* A new message is under way, the others are where they were.
LEMMA ConferStep ==
  ASSUME MailInv, NEW by \in Readers, NEW to \in Addresses,
         NEW live \in SUBSET Delegations, NEW woken, Confer(by, to, live, woken)
  PROVE  MailInv'
<1> DEFINE new == [by |-> by, msg |-> sent + 1, to |-> to,
                   live |-> AddressedLive(to, live), next |-> "pending"]
<1> USE MailAssumption, CrewAssumption
    DEF MailInv, MailTypeOK, Confer, Messages, notesFile
<1>1. AddressedLive(to, live) \in SUBSET Delegations
  BY DEF AddressedLive
<1>2. addr' \in [Messages -> Addresses]
  OBVIOUS
<1>3. MailTypeOK'
  BY <1>1, <1>2
<1>4. /\ new.msg = sent + 1 /\ new.to = to /\ new.next = "pending"
      /\ posting' = posting \cup {new}
  OBVIOUS
<1> HIDE DEF new
<1>5. Addressed'
  <2>1. \A m \in 1..sent : addr'[m] = addr[m]
    OBVIOUS
  <2>2. addr'[sent + 1] = to /\ sent + 1 \notin noted
    BY DEF Addressed
  <2>3. QED  BY <1>4, <2>1, <2>2 DEF Addressed
<1>6. \A m : Underway(m) \/ m = sent + 1 => Underway(m)'
  BY <1>4 DEF Underway
<1>7. \A m : m # sent + 1 => Handling(m)' = Handling(m)
  BY <1>4 DEF Handling
<1>8. \A m : Queues(m)' = Queues(m) /\ Claimed(m)' = Claimed(m) /\ Filed(m)' = Filed(m)
  BY DEF Queues, Claimed, Filed
<1>9. noted' = noted /\ writing' = writing /\ sent' = sent + 1
      /\ \A m \in noted \cup writing : m # sent + 1
  BY DEF Addressed
<1>10. NeverStranded'
  <2> SUFFICES ASSUME NEW m \in 1..sent', ~Underway(m)', shown'[m] = {}
               PROVE  IF m \in noted' THEN Filed(m)' \/ Queued(m)' \/ m \in lost'
                      ELSE addr'[m] \in Names => m \in inbox'[addr'[m]]
    BY DEF NeverStranded
  <2>1. m \in 1..sent /\ ~Underway(m)
    BY <1>6
  <2>2. addr'[m] = addr[m]
    BY <2>1
  <2>3. Queued(m)' = Queued(m)
    BY <2>2 DEF Queued
  <2>4. QED  BY <1>8, <2>1, <2>2, <2>3 DEF NeverStranded
<1>11. Placed'
  BY <1>7, <1>8, <1>9 DEF Placed
<1>12. HandedOnce'
  BY <1>7, <1>8, <1>9, Undisturbed DEF HandedOnce
<1>13. QED  BY <1>3, <1>5, <1>10, <1>11, <1>12

LEMMA ConferDeliversStep ==
  ASSUME MailInv, NEW p \in posting, ConferDelivers(p)
  PROVE  MailInv'
<1> DEFINE went == [p EXCEPT !.next = "inbox"]
<1> USE MailAssumption, CrewAssumption DEF MailInv, MailTypeOK, ConferDelivers, notesFile
<1>1. p.msg \in Messages /\ p.msg \in 1..sent /\ p.msg \notin noted
  BY DEF Addressed
<1>2. pending' \in [Delegations -> SUBSET Messages]
  BY <1>1
<1>3. MailTypeOK'
  BY <1>2
<1>4. Addressed'
  BY DEF Addressed
<1>5. went.msg = p.msg /\ posting' = (posting \ {p}) \cup {went}
  OBVIOUS
<1> HIDE DEF went
<1>6. \A m : /\ Underway(m) => Underway(m)'
             /\ m # p.msg => Handling(m)' = Handling(m)
             /\ m # p.msg => Queues(m)' = Queues(m)
             /\ Queued(m) => Queued(m)'
             /\ Filed(m)' = Filed(m) /\ Claimed(m)' = Claimed(m)
  <2>1. \A d \in Delegations : \/ pending'[d] = pending[d]
                                \/ pending'[d] = pending[d] \cup {p.msg}
    OBVIOUS
  <2>2. QED
    BY <1>5, <2>1 DEF Underway, Handling, Queues, Queued, Filed, Claimed
<1>7. NeverStranded'
  BY <1>6 DEF NeverStranded
<1>8. \A m \in noted \cup writing : m # p.msg
  BY <1>1
<1>9. Placed'
  BY <1>1, <1>6, <1>8 DEF Placed
<1>10. HandedOnce'
  BY <1>6, <1>8, Undisturbed DEF HandedOnce
<1>11. QED  BY <1>3, <1>4, <1>7, <1>9, <1>10

\* What is queued under a name waits there, unless it is the sender's own name,
\* whose mail the sender is shown.
LEMMA ConferQueuesStep ==
  ASSUME MailInv, NEW p \in posting, ConferQueues(p)
  PROVE  MailInv'
<1> USE MailAssumption, CrewAssumption DEF MailInv, MailTypeOK, notesFile
<1> DEFINE filled == [n \in Names |-> IF n = p.to THEN inbox[n] \cup QueuedByName(p)
                                      ELSE inbox[n]]
           own == NameOf(p.by)
<1>1. /\ p.msg \in Messages /\ p.by \in Readers /\ p.to \in Addresses /\ p.next = "inbox"
      /\ p.msg \in (1..sent) \ noted
  BY DEF ConferQueues, Addressed
<1>2. own \in Names
  BY DEF NameOf, Names
<1>3. filled \in [Names -> SUBSET Messages]
  BY <1>1 DEF QueuedByName
<1>4. /\ shown' = Seen(filled[own], p.by)
      /\ inbox' = [filled EXCEPT ![own] = {}]
      /\ posting' = posting \ {p}
      /\ UNCHANGED <<pending, notesFile, sent, addr, noted>>
  BY DEF ConferQueues
<1>5. filled[own] \in SUBSET Messages
  BY <1>2, <1>3
<1>6. /\ shown' \in [Messages -> SUBSET Readers]
      /\ \A m \in Messages :
           /\ shown[m] # {} \/ m \in filled[own] => shown'[m] # {}
           /\ m \notin filled[own] => shown'[m] = shown[m]
  <2>1. /\ shown \in [Messages -> SUBSET Readers] /\ filled[own] \in SUBSET Messages
        /\ p.by \in Readers /\ shown' = Seen(filled[own], p.by)
    BY <1>1, <1>4, <1>5
  <2> HIDE DEF filled, own
  <2>2. QED  BY ONLY <2>1, SeenShows
<1>7. \A n \in Names : inbox[n] \subseteq filled[n] /\ filled[n] \subseteq (1..sent) \ noted
  BY <1>1 DEF Placed, QueuedByName
<1>8. p.to \in Names => p.msg \in filled[p.to]
  BY DEF QueuedByName, Names, Role, Strategizer, Delegations
<1> HIDE DEF filled, own
<1>9. /\ inbox' \in [Names -> SUBSET Messages]
      /\ \A n \in Names : inbox'[n] \subseteq (1..sent) \ noted
      /\ \A n \in Names : n # own => inbox'[n] = filled[n]
  BY <1>2, <1>3, <1>4, <1>7
<1>10. MailTypeOK'
  BY <1>4, <1>6, <1>9
<1>11. Addressed'
  BY <1>4 DEF Addressed
<1>12. \A m : /\ m # p.msg => Handling(m)' = Handling(m) /\ Underway(m)' = Underway(m)
              /\ Queues(m)' = Queues(m) /\ Queued(m)' = Queued(m)
              /\ Claimed(m)' = Claimed(m) /\ Filed(m)' = Filed(m)
  BY <1>4 DEF Handling, Underway, Queues, Queued, Claimed, Filed
<1>13. \A m \in noted \cup writing : m # p.msg /\ m \notin filled[own] /\ m \in Messages
  BY <1>1, <1>2, <1>7
<1>14. ASSUME NEW m \in 1..sent
       PROVE  \/ shown'[m] # {} \/ Underway(m)'
              \/ IF m \in noted THEN Filed(m)' \/ Queued(m)' \/ m \in lost
                 ELSE addr[m] \in Names => m \in inbox'[addr[m]]
  <2>1. m \in Messages
    BY DEF Messages
  <2>2. CASE m = p.msg
    <3>1. m \notin noted /\ addr[m] = p.to
      BY <1>1, <2>2 DEF Addressed
    <3>2. QED  BY <1>6, <1>8, <1>9, <2>1, <2>2, <3>1
  <2>3. CASE m # p.msg
    <3>1. ASSUME m \notin noted, addr[m] \in Names, m \in inbox[addr[m]]
          PROVE  shown'[m] # {} \/ m \in inbox'[addr[m]]
      BY <1>6, <1>7, <1>9, <2>1, <3>1
    <3>2. QED  BY <1>6, <1>12, <2>1, <2>3, <3>1 DEF NeverStranded
  <2>4. QED  BY <2>2, <2>3
<1>15. NeverStranded'
  BY <1>4, <1>14 DEF NeverStranded
<1>16. Placed'
  <2>1. \A m \in Messages : shown'[m] # {} => m \in 1..sent
    BY <1>2, <1>6, <1>7 DEF Placed
  <2>2. QED  BY <1>4, <1>6, <1>9, <1>12, <1>13, <2>1 DEF Placed
<1>17. HandedOnce'
  BY <1>4, <1>6, <1>12, <1>13, Undisturbed DEF HandedOnce
<1>18. QED  BY <1>10, <1>11, <1>15, <1>16, <1>17

\* A queue is emptied by showing it.
LEMMA DrainsStep ==
  ASSUME MailInv, NEW d \in Delegations, NEW r \in Readers,
         shown' = Seen(pending[d], r), pending' = [pending EXCEPT ![d] = {}],
         UNCHANGED <<inbox, notesFile, posting, sent, addr, noted>>
  PROVE  MailInv'
<1> USE MailAssumption, CrewAssumption DEF MailInv, MailTypeOK, notesFile
<1>1. /\ shown' \in [Messages -> SUBSET Readers]
      /\ \A m \in Messages :
           /\ shown[m] # {} \/ m \in pending[d] => shown'[m] # {}
           /\ m \in pending[d] => shown'[m] = shown[m] \cup {r}
           /\ m \notin pending[d] => shown'[m] = shown[m]
  <2>1. pending[d] \in SUBSET Messages
    OBVIOUS
  <2>2. QED  BY <2>1, SeenShows
<1>2. MailTypeOK' /\ Addressed'
  BY <1>1 DEF Addressed
<1>3. \A m : /\ Underway(m)' = Underway(m) /\ Handling(m)' = Handling(m)
             /\ Claimed(m)' = Claimed(m) /\ Filed(m)' = Filed(m)
             /\ Queues(m)' = Queues(m) \ {d}
             /\ m \in pending[d] \/ (Queued(m) => Queued(m)')
  BY DEF Underway, Handling, Claimed, Filed, Queues, Queued
<1>4. NeverStranded'
  BY <1>1, <1>3 DEF NeverStranded, Messages
<1>5. Placed'
  <2>1. \A m \in writing : m \in Messages /\ m \notin pending[d]
    BY DEF Placed, Queues
  <2>2. QED  BY <1>1, <1>3, <2>1 DEF Placed
<1>6. ASSUME NEW m \in noted PROVE InOnePlace(m)'
  <2>1. m \in Messages /\ InOnePlace(m)
    BY DEF HandedOnce
  <2>2. CASE m \notin pending[d]
    <3>1. Queues(m)' = Queues(m)
      BY <1>3, <2>2 DEF Queues
    <3>2. QED  BY <1>1, <1>3, <2>1, <2>2, <3>1, Undisturbed
  <2>3. CASE m \in pending[d]
    <3>1. d \in Queues(m) /\ AtMostOne(Queues(m))
      BY <2>1, <2>3 DEF Queues, InOnePlace
    <3>2. Queues(m) = {d}
      BY <3>1 DEF AtMostOne
    <3>3. /\ m \notin notes' /\ m \notin lost' /\ Claimed(m)' = {} /\ Handling(m)' = {}
          /\ Queues(m)' = {} /\ shown'[m] = {r}
      BY <1>1, <1>3, <2>1, <2>3, <3>2, Elsewhere
    <3>4. QED  BY <3>3 DEF InOnePlace, At, AtMostOne
  <2>4. QED  BY <2>2, <2>3
<1>7. QED  BY <1>2, <1>4, <1>5, <1>6 DEF HandedOnce

\* A note just posted is in the file, its line still to come.
LEMMA QueueNoteStep ==
  ASSUME MailInv, NEW to \in Addresses, QueueNote(to)
  PROVE  MailInv'
<1> USE MailAssumption, CrewAssumption DEF MailInv, MailTypeOK, QueueNote, Messages
<1>1. MailTypeOK'
  OBVIOUS
<1>2. Addressed'
  BY DEF Addressed
<1>3. \A m : /\ Underway(m)' = Underway(m) /\ Handling(m)' = Handling(m)
             /\ Claimed(m)' = Claimed(m) /\ Queues(m)' = Queues(m)
             /\ Filed(m) \/ m = sent + 1 => Filed(m)'
  BY DEF Underway, Handling, Claimed, Queues, Filed
<1>4. \A m \in 1..sent : addr'[m] = addr[m] /\ (m \in noted' <=> m \in noted)
                         /\ Queued(m)' = Queued(m)
  BY DEF Addressed, Queued
<1>5. NeverStranded'
  <2> SUFFICES ASSUME NEW m \in 1..sent', ~Underway(m)', shown'[m] = {}
               PROVE  IF m \in noted' THEN Filed(m)' \/ Queued(m)' \/ m \in lost'
                      ELSE addr'[m] \in Names => m \in inbox'[addr'[m]]
    BY DEF NeverStranded
  <2>1. CASE m = sent + 1
    BY <1>3, <2>1
  <2>2. CASE m # sent + 1
    <3>1. m \in 1..sent
      BY <2>2
    <3>2. QED  BY <1>3, <1>4, <3>1 DEF NeverStranded
  <2>3. QED  BY <2>1, <2>2
<1>6. /\ sent + 1 \notin 1..sent /\ sent + 1 \in Messages
      /\ Handling(sent + 1) = {} /\ Queues(sent + 1) = {} /\ Claimed(sent + 1) = {}
      /\ shown[sent + 1] = {} /\ sent + 1 \notin lost /\ sent + 1 \notin noted
  <2>1. sent + 1 \notin 1..sent /\ sent + 1 \in Messages
    OBVIOUS
  <2>2. sent + 1 \notin noted
    BY <2>1 DEF Addressed
  <2>3. Handling(sent + 1) = {}
    BY <2>1 DEF Addressed, Handling
  <2>4. Queues(sent + 1) = {} /\ shown[sent + 1] = {}
    BY <2>1 DEF Placed, Queues
  <2>5. Claimed(sent + 1) = {}
    BY <2>2 DEF Claimed
  <2>6. QED  BY <2>1, <2>2, <2>3, <2>4, <2>5
<1>7. Placed'
  <2>1. \A m \in writing' : Handling(m)' = {} /\ Queues(m)' = {} /\ shown'[m] = {} /\ m \notin lost'
    BY <1>3, <1>6 DEF Placed
  <2>2. QED  BY <1>6, <2>1 DEF Placed
<1>8. ASSUME NEW m \in noted' PROVE InOnePlace(m)'
  <2>1. CASE m = sent + 1
    <3>1. /\ m \in notes' /\ m \notin lost' /\ Claimed(m)' = {} /\ Handling(m)' = {}
          /\ Queues(m)' = {} /\ shown'[m] = {}
      BY <1>3, <1>6, <2>1
    <3>2. QED  BY <3>1 DEF InOnePlace, At, AtMostOne
  <2>2. CASE m # sent + 1
    <3>1. InOnePlace(m)
      BY <2>2 DEF HandedOnce
    <3>2. QED  BY <1>3, <2>2, <3>1, Undisturbed
  <2>3. QED  BY <2>1, <2>2
<1>9. QED  BY <1>1, <1>2, <1>5, <1>7, <1>8 DEF HandedOnce

\* A line written to a file that was read already is lost, and it was nowhere else.
LEMMA WriteNoteStep ==
  ASSUME MailInv, NEW m \in writing, WriteNote(m)
  PROVE  MailInv'
<1> USE DEF MailInv, MailTypeOK, WriteNote
<1>1. MailTypeOK' /\ Addressed'
  BY DEF Addressed
<1>2. \A n : /\ Underway(n)' = Underway(n) /\ Handling(n)' = Handling(n)
             /\ Claimed(n)' = Claimed(n) /\ Queues(n)' = Queues(n) /\ Queued(n)' = Queued(n)
             /\ Filed(n) => Filed(n)' \/ n \in lost'
             /\ n # m => (n \in lost') = (n \in lost)
  BY DEF Underway, Handling, Claimed, Queues, Queued, Filed
<1>3. NeverStranded'
  BY <1>2 DEF NeverStranded
<1>4. Placed'
  BY <1>2 DEF Placed
<1>5. ASSUME NEW n \in noted PROVE InOnePlace(n)'
  <2>1. InOnePlace(n)
    BY DEF HandedOnce
  <2>2. CASE (n \in lost') = (n \in lost)
    BY <1>2, <2>1, <2>2, Undisturbed
  <2>3. CASE (n \in lost') # (n \in lost)
    <3>1. n = m /\ m \notin notes \cup UNION claims
      BY <1>2, <2>3
    <3>2. /\ n \notin notes' /\ Claimed(n)' = {} /\ Handling(n)' = {} /\ Queues(n)' = {}
          /\ shown'[n] = {}
      BY <3>1 DEF Placed, Claimed, Handling, Queues
    <3>3. QED  BY <3>2 DEF InOnePlace, At, AtMostOne
  <2>4. QED  BY <2>2, <2>3
<1>6. QED  BY <1>1, <1>3, <1>4, <1>5 DEF HandedOnce

\* A claim takes the file over as it is.
LEMMA DrainStep ==
  ASSUME MailInv, Drain
  PROVE  MailInv'
<1> USE MailAssumption, CrewAssumption DEF MailInv, MailTypeOK
<1>1. /\ shown' = Seen(inbox[Strategizer], Strategizer) /\ notes' = {}
      /\ inbox' = [inbox EXCEPT ![Strategizer] = {}]
      /\ claims' = IF notes = {} THEN claims ELSE claims \cup {notes}
      /\ UNCHANGED <<pending, writing, posting, sent, addr, noted, lost>>
  BY DEF Drain, LeftByClaim
<1>2. /\ Strategizer \in Names /\ Strategizer \in Readers
      /\ inbox[Strategizer] \in SUBSET Messages
      /\ inbox[Strategizer] \subseteq (1..sent) \ noted
  BY DEF Names, Readers, Placed
<1>3. /\ shown' \in [Messages -> SUBSET Readers]
      /\ \A m \in Messages :
           /\ shown[m] # {} \/ m \in inbox[Strategizer] => shown'[m] # {}
           /\ m \notin inbox[Strategizer] => shown'[m] = shown[m]
  BY <1>1, <1>2, SeenShows
<1>4. /\ inbox' \in [Names -> SUBSET Messages]
      /\ \A n \in Names : n # Strategizer => inbox'[n] = inbox[n]
      /\ \A n \in Names : inbox'[n] \subseteq (1..sent) \ noted
  BY <1>1, <1>2 DEF Placed
<1>5. MailTypeOK'
  BY <1>1, <1>3, <1>4
<1>6. Addressed'
  BY <1>1 DEF Addressed
<1>7. \A m : Claimed(m)' = IF m \in notes THEN Claimed(m) \cup {notes} ELSE Claimed(m)
  BY <1>1 DEF Claimed
<1>8. notes' = {} /\ UNCHANGED <<pending, writing, posting, sent, addr, noted, lost>>
  BY <1>1
<1>9. \A m : /\ Underway(m)' = Underway(m) /\ Handling(m)' = Handling(m)
              /\ Queues(m)' = Queues(m) /\ Queued(m)' = Queued(m)
  BY <1>8 DEF Underway, Handling, Queues, Queued
<1>10. \A m : Filed(m) => Filed(m)'
  BY <1>1 DEF Filed
<1>11. NeverStranded'
  <2> SUFFICES ASSUME NEW m \in 1..sent, ~Underway(m)', shown'[m] = {}
               PROVE  IF m \in noted THEN Filed(m)' \/ Queued(m)' \/ m \in lost
                      ELSE addr[m] \in Names => m \in inbox'[addr[m]]
    BY <1>8 DEF NeverStranded
  <2>1. m \in Messages /\ m \notin inbox[Strategizer] /\ shown[m] = {} /\ ~Underway(m)
    BY <1>3, <1>9 DEF Messages
  <2>2. IF m \in noted THEN Filed(m) \/ Queued(m) \/ m \in lost
        ELSE addr[m] \in Names => m \in inbox[addr[m]]
    BY <2>1 DEF NeverStranded
  <2>3. CASE m \in noted
    BY <1>9, <1>10, <2>2, <2>3
  <2>4. CASE m \notin noted
    BY <1>4, <2>1, <2>2, <2>4
  <2>5. QED  BY <2>3, <2>4
<1>12. \A m \in noted : m \in Messages /\ shown'[m] = shown[m]
  BY <1>2, <1>3
<1>13. Placed'
  <2>1. \A m \in Messages : shown'[m] # {} => m \in 1..sent
    BY <1>2, <1>3 DEF Placed
  <2>2. \A m \in writing : Handling(m)' = {} /\ Queues(m)' = {} /\ shown'[m] = {} /\ m \notin lost
    BY <1>12, <1>9 DEF Placed
  <2>3. \A d \in Delegations : pending[d] \subseteq 1..sent
    BY DEF Placed
  <2>4. QED  BY <1>4, <1>8, <2>1, <2>2, <2>3 DEF Placed
<1>14. ASSUME NEW m \in noted PROVE InOnePlace(m)'
  <2>1. InOnePlace(m) /\ shown'[m] = shown[m]
    BY <1>12 DEF HandedOnce
  <2>2. /\ (m \in lost') = (m \in lost) /\ m \notin notes'
        /\ Handling(m)' = Handling(m) /\ Queues(m)' = Queues(m)
    BY <1>8, <1>9
  <2>3. CASE m \notin notes
    <3>1. Claimed(m)' = Claimed(m) /\ (m \in notes') = (m \in notes)
      BY <1>7, <2>2, <2>3
    <3>2. QED  BY ONLY <2>1, <2>2, <3>1, Undisturbed
  <2>4. CASE m \in notes
    <3>1. Claimed(m) = {} /\ Handling(m) = {} /\ Queues(m) = {} /\ shown[m] = {} /\ m \notin lost
      BY ONLY <2>1, <2>4, Elsewhere
    <3>2. Claimed(m)' = {notes}
      BY <1>7, <2>4, <3>1
    <3>3. QED  BY <2>1, <2>2, <3>1, <3>2 DEF InOnePlace, At, AtMostOne
  <2>5. QED  BY <2>3, <2>4
<1>15. QED  BY <1>5, <1>6, <1>8, <1>11, <1>13, <1>14 DEF HandedOnce

\* What is read of a claim is in the hands of the call, the rest is lost or will be.
LEMMA ReadClaimStep ==
  ASSUME MailInv, NEW c \in claims, ReadClaim(c)
  PROVE  MailInv'
<1> USE MailAssumption, CrewAssumption DEF MailInv, MailTypeOK
<1> DEFINE read == {Handed(m) : m \in c \ writing}
<1>1. /\ claims' = claims \ {c}
      /\ \/ posting' = posting \cup read /\ lost' = lost
         \/ posting' = posting /\ lost' = lost \cup (c \ writing)
      /\ UNCHANGED <<inbox, pending, notes, writing, sent, addr, noted, shown>>
  BY DEF ReadClaim
<1>2. c \subseteq noted /\ c \subseteq Messages /\ c \subseteq 1..sent
  BY DEF Addressed
<1>3. \A p \in read :
        /\ p \in [by : Readers, msg : Messages, to : Addresses, live : SUBSET Delegations,
                  next : {"pending", "inbox", "look", "route"}]
        /\ p.msg \in c \ writing /\ p.to = addr[p.msg] /\ p.next = "look"
        /\ p = Handed(p.msg)
  BY <1>2 DEF Handed, Readers
<1>4. \A m \in c \ writing : Handed(m) \in read /\ Handed(m).msg = m
  BY DEF Handed
<1> HIDE DEF read
<1>5. MailTypeOK'
  BY <1>1, <1>2, <1>3
<1>6. Addressed'
  BY <1>1, <1>2, <1>3 DEF Addressed
<1>7. \A m \in c \ writing : Claimed(m) = {c} /\ InOnePlace(m)
  <2> SUFFICES ASSUME NEW m \in c \ writing PROVE Claimed(m) = {c} /\ InOnePlace(m)
    OBVIOUS
  <2>1. c \in Claimed(m) /\ InOnePlace(m)
    BY <1>2 DEF Claimed, HandedOnce
  <2>2. QED  BY <2>1 DEF InOnePlace, AtMostOne
<1>8. \A m : /\ Queues(m)' = Queues(m) /\ Queued(m)' = Queued(m)
             /\ Underway(m) => Underway(m)'
             /\ m \notin c => Claimed(m)' = Claimed(m)
             /\ Claimed(m)' = Claimed(m) \ {c}
             /\ m \notin c \ writing => Handling(m)' = Handling(m)
             /\ m \notin c \ writing => (m \in lost') = (m \in lost)
             /\ m \notin c \ writing /\ Filed(m) => Filed(m)'
             /\ m \in c \ writing => Underway(m)' \/ m \in lost'
  BY <1>1, <1>3, <1>4 DEF Queues, Queued, Underway, Claimed, Handling, Filed
<1>9. NeverStranded'
  <2> SUFFICES ASSUME NEW m \in 1..sent, ~Underway(m)', shown'[m] = {}
               PROVE  IF m \in noted THEN Filed(m)' \/ Queued(m)' \/ m \in lost'
                      ELSE addr[m] \in Names => m \in inbox'[addr[m]]
    BY <1>1 DEF NeverStranded
  <2>1. lost \subseteq lost'
    BY <1>1
  <2>2. CASE m \in c \ writing
    BY <1>2, <1>8, <2>2
  <2>3. CASE m \notin c \ writing
    BY <1>1, <1>8, <2>1, <2>3 DEF NeverStranded
  <2>4. QED  BY <2>2, <2>3
<1>10. Placed'
  BY <1>1, <1>8 DEF Placed
<1>11. ASSUME NEW m \in noted PROVE InOnePlace(m)'
  <2>1. InOnePlace(m) /\ m \in Messages
    BY DEF HandedOnce
  <2>2. CASE m \notin c
    BY <1>1, <1>8, <2>1, <2>2, Undisturbed
  <2>3. CASE m \in c /\ m \in writing
    <3>1. c \in Claimed(m)
      BY <2>3 DEF Claimed
    <3>2. /\ m \notin notes' /\ m \notin lost' /\ Handling(m)' = {} /\ Queues(m)' = {}
          /\ shown'[m] = {} /\ AtMostOne(Claimed(m)')
      BY <1>1, <1>8, <2>1, <2>3, <3>1, Elsewhere DEF AtMostOne, InOnePlace
    <3>3. QED  BY <3>2 DEF InOnePlace, At, AtMostOne
  <2>4. CASE m \in c \ writing
    <3>1. Claimed(m)' = {} /\ Claimed(m) # {}
      BY <1>7, <1>8, <2>4
    <3>2. /\ m \notin notes /\ Handling(m) = {} /\ Queues(m) = {} /\ shown[m] = {}
          /\ m \notin lost
      BY <2>1, <3>1, Elsewhere
    <3>3. \A p \in posting : p.msg # m
      BY <3>2 DEF Handling
    <3>4. \A p \in Handling(m)' : p \in read /\ p = Handed(m)
      BY <1>1, <1>3, <3>3 DEF Handling
    <3>5. AtMostOne(Handling(m)')
      BY <3>4 DEF AtMostOne
    <3>6. Handling(m)' = {} \/ m \notin lost'
      BY <1>1, <3>2, <3>3 DEF Handling
    <3>7. m \notin notes' /\ Queues(m)' = {} /\ shown'[m] = {}
      BY <1>1, <1>8, <3>2
    <3>8. QED  BY <3>1, <3>5, <3>6, <3>7 DEF InOnePlace, At, AtMostOne
  <2>5. QED  BY <2>2, <2>3, <2>4
<1>12. QED  BY <1>1, <1>5, <1>6, <1>9, <1>10, <1>11 DEF HandedOnce

\* A note read goes to its worker's queue, or the strategizer sees it.
LEMMA LookUpStep ==
  ASSUME MailInv, NEW p \in posting, NEW live \in SUBSET Delegations, LookUp(p, live)
  PROVE  MailInv'
<1> USE MailAssumption, CrewAssumption DEF MailInv, MailTypeOK, notesFile
<1>1. p.msg \in Messages /\ p.msg \in noted /\ p.msg \in 1..sent /\ addr[p.msg] = p.to
      /\ p.next = "look"
  BY DEF LookUp, Addressed
<1>2. UNCHANGED <<inbox, pending, notes, claims, writing, lost, sent, addr, noted>>
  BY DEF LookUp
<1>3. InOnePlace(p.msg) /\ p \in Handling(p.msg)
  BY <1>1 DEF HandedOnce, Handling
<1>4. Handling(p.msg) = {p}
  BY <1>3 DEF InOnePlace, AtMostOne
<1>5. /\ p.msg \notin notes /\ Claimed(p.msg) = {} /\ Queues(p.msg) = {} /\ shown[p.msg] = {}
      /\ p.msg \notin lost /\ p.msg \notin writing
  BY <1>3, Elsewhere DEF Placed
<1>6. \A m : Claimed(m)' = Claimed(m) /\ Queues(m)' = Queues(m) /\ Queued(m)' = Queued(m)
             /\ Filed(m)' = Filed(m)
  BY <1>2 DEF Claimed, Queues, Queued, Filed
<1>7. CASE p.to \in Delegations \cap live
  <2> DEFINE went == [p EXCEPT !.next = "route"]
  <2>1. shown' = shown /\ posting' = (posting \ {p}) \cup {went}
    BY <1>7 DEF LookUp
  <2>2. /\ went \in [by : Readers, msg : Messages, to : Addresses, live : SUBSET Delegations,
                     next : {"pending", "inbox", "look", "route"}]
        /\ went.msg = p.msg /\ went.to = p.to /\ went.next = "route"
    OBVIOUS
  <2> HIDE DEF went
  <2>3. MailTypeOK' /\ Addressed'
    BY <1>1, <1>2, <1>7, <2>1, <2>2 DEF Addressed
  <2>4. \A m : /\ Underway(m) => Underway(m)'
               /\ m # p.msg => Handling(m)' = Handling(m)
    BY <2>1, <2>2 DEF Underway, Handling
  <2>5. Handling(p.msg)' = {went}
    BY <1>4, <2>1, <2>2 DEF Handling
  <2>6. NeverStranded'
    BY <1>2, <1>6, <2>1, <2>4 DEF NeverStranded
  <2>7. Placed'
    BY <1>2, <1>5, <1>6, <2>1, <2>4 DEF Placed
  <2>8. InOnePlace(p.msg)'
    BY <1>2, <1>5, <1>6, <2>1, <2>5 DEF InOnePlace, At, AtMostOne
  <2>9. HandedOnce'
    BY <1>2, <1>6, <2>1, <2>4, <2>8, Undisturbed DEF HandedOnce
  <2>10. QED  BY <2>3, <2>6, <2>7, <2>9
<1>8. CASE p.to \notin Delegations \cap live
  <2>1. shown' = Seen({p.msg}, Strategizer) /\ posting' = posting \ {p}
    BY <1>8 DEF LookUp
  <2>2. Strategizer \in Readers /\ {p.msg} \in SUBSET Messages
    BY <1>1 DEF Readers
  <2>3. /\ shown' \in [Messages -> SUBSET Readers]
        /\ shown'[p.msg] = {Strategizer}
        /\ \A m \in Messages : m # p.msg => shown'[m] = shown[m]
    <3>1. shown \in [Messages -> SUBSET Readers]
      OBVIOUS
    <3>2. /\ shown' \in [Messages -> SUBSET Readers]
          /\ \A m \in Messages :
               /\ shown[m] # {} \/ m \in {p.msg} => shown'[m] # {}
               /\ m \in {p.msg} => shown'[m] = shown[m] \cup {Strategizer}
               /\ m \notin {p.msg} => shown'[m] = shown[m]
      BY ONLY <2>1, <2>2, <3>1, SeenShows
    <3>3. QED  BY <1>1, <1>5, <3>2
  <2>4. MailTypeOK' /\ Addressed'
    BY <1>2, <2>1, <2>3 DEF Addressed
  <2>5. \A m : m # p.msg => Handling(m)' = Handling(m) /\ Underway(m)' = Underway(m)
    BY <2>1 DEF Handling, Underway
  <2>6. NeverStranded'
    <3> SUFFICES ASSUME NEW m \in 1..sent, ~Underway(m)', shown'[m] = {}
                 PROVE  IF m \in noted THEN Filed(m)' \/ Queued(m)' \/ m \in lost
                        ELSE addr[m] \in Names => m \in inbox[addr[m]]
      BY <1>2 DEF NeverStranded
    <3>1. m \in Messages /\ m # p.msg
      BY <2>3 DEF Messages
    <3>2. QED  BY <1>6, <2>3, <2>5, <3>1 DEF NeverStranded
  <2>7. \A m \in noted \cup writing : m \in Messages
    OBVIOUS
  <2>8. Placed'
    BY <1>1, <1>2, <1>5, <1>6, <2>3, <2>5, <2>7 DEF Placed
  <2>9. Handling(p.msg)' = {}
    BY <1>4, <2>1 DEF Handling
  <2>10. InOnePlace(p.msg)'
    BY <1>2, <1>5, <1>6, <2>3, <2>9 DEF InOnePlace, At, AtMostOne
  <2>11. HandedOnce'
    BY <1>2, <1>6, <2>3, <2>5, <2>7, <2>10, Undisturbed DEF HandedOnce
  <2>12. QED  BY <2>4, <2>6, <2>8, <2>11
<1>9. QED  BY <1>7, <1>8

LEMMA RouteNoteStep ==
  ASSUME MailInv, NEW p \in posting, RouteNote(p)
  PROVE  MailInv'
<1> USE MailAssumption, CrewAssumption DEF MailInv, MailTypeOK, RouteNote, notesFile
<1>1. p.msg \in Messages /\ p.to \in Delegations /\ p.msg \in noted /\ addr[p.msg] = p.to
      /\ p.msg \in 1..sent
  BY DEF Addressed
<1>2. pending' \in [Delegations -> SUBSET Messages]
  BY <1>1
<1>3. MailTypeOK' /\ Addressed'
  BY <1>2 DEF Addressed
<1>4. /\ \A d \in Delegations : pending[d] \subseteq pending'[d]
      /\ p.msg \in pending'[p.to]
      /\ \A d \in Delegations : d # p.to => pending'[d] = pending[d]
      /\ pending'[p.to] = pending[p.to] \cup {p.msg}
  BY <1>1
<1>5. \A m : /\ Underway(m) => Underway(m)' \/ m = p.msg
             /\ m # p.msg => Handling(m)' = Handling(m) /\ Queues(m)' = Queues(m)
             /\ Queued(m) => Queued(m)'
             /\ Claimed(m)' = Claimed(m) /\ Filed(m)' = Filed(m)
  BY <1>4 DEF Underway, Handling, Queues, Queued, Claimed, Filed
<1>6. Queued(p.msg)'
  BY <1>1, <1>4 DEF Queued
<1>7. NeverStranded'
  BY <1>1, <1>5, <1>6 DEF NeverStranded
<1>8. InOnePlace(p.msg) /\ p \in Handling(p.msg)
  BY <1>1 DEF HandedOnce, Handling
<1>9. /\ p.msg \notin notes /\ Claimed(p.msg) = {} /\ Queues(p.msg) = {} /\ shown[p.msg] = {}
      /\ p.msg \notin lost /\ p.msg \notin writing
  BY <1>8, Elsewhere DEF Placed
<1>10. Placed'
  BY <1>1, <1>4, <1>5, <1>9 DEF Placed
<1>11. Handling(p.msg)' = {} /\ Queues(p.msg)' = {p.to}
  <2>1. Handling(p.msg) = {p}
    BY <1>8 DEF InOnePlace, AtMostOne
  <2>2. QED  BY <1>1, <1>4, <1>9, <2>1 DEF Handling, Queues
<1>12. InOnePlace(p.msg)'
  BY <1>5, <1>9, <1>11 DEF InOnePlace, At, AtMostOne
<1>13. HandedOnce'
  BY <1>5, <1>12, Undisturbed DEF HandedOnce
<1>14. QED  BY <1>3, <1>7, <1>10, <1>13

-----------------------------------------------------------------------------
(* The server.                                                             *)

LEMMA ServeStays == ServeInv /\ UNCHANGED serve => ServeInv'
BY DEF serve, ServeInv, ServeTypeOK, Held, ReleasedJob, Alive, Starting

LEMMA PlansTyped == NoPlan \in Plans /\ Configs \subseteq Plans
<1>1. [gpu |-> "unknown", params |-> 0, geometry |-> FALSE] \in Models
  BY ServeAssumption DEF Models, Gpus
<1>2. [asked |-> "", gres |-> 0, tensor |-> 0, flag |-> ""] \in Settings
  BY DEF Settings
<1>3. NoPlan \in Plans
  BY <1>1, <1>2 DEF NoPlan, Plans, Quants
<1>4. Configs \subseteq Plans
  BY DEF Configs, Plans, Quants
<1>5. QED  BY <1>3, <1>4

LEMMA ServeStarts == ServeInit => ServeInv
<1> SUFFICES ASSUME ServeInit PROVE ServeInv
  OBVIOUS
<1>1. phase \in {"graph", "sizing"} /\ job = "none" /\ left = "none"
      /\ ~jobid /\ ~jobfile /\ ~url /\ ~missed
  BY DEF ServeInit
<1>2. plan \in Plans
  BY PlansTyped DEF ServeInit
<1>3. {jobid, jobfile, url, missed} \subseteq BOOLEAN
  BY DEF ServeInit
<1>4. ServeTypeOK
  BY <1>1, <1>2, <1>3 DEF ServeTypeOK, Phases
<1>5. Held /\ ReleasedJob
  BY <1>1 DEF Held, ReleasedJob, Alive, Starting
<1>6. QED  BY <1>4, <1>5 DEF ServeInv

\* The GPUs and the dtype that come out of the sizing are such.
LEMMA SizeStep ==
  ASSUME ServeInv, Size
  PROVE  ServeInv'
<1> DEFINE model == plan.model
           q == IF plan.set.asked # "" THEN plan.set.asked ELSE DefaultQuant(model)
           derived == IF model.params = 0 \/ model.gpu = "unknown" THEN 1
                      ELSE Cards(Required(model, q))
           serves == IF plan.set.flag # "" THEN plan.set.flag ELSE Served(q)
<1>1. /\ plan \in Plans /\ model \in Models /\ plan.set \in Settings
      /\ model.params \in Nat /\ plan.set.gres \in Nat /\ plan.set.tensor \in Nat
  <2>1. plan \in Plans /\ model \in Models /\ plan.set \in Settings
    BY DEF ServeInv, ServeTypeOK, Plans
  <2>2. model.params \in 0..MaxParams
    BY <2>1 DEF Models
  <2>3. plan.set.gres \in 0..1 /\ plan.set.tensor \in 0..1
    BY <2>1 DEF Settings
  <2>4. QED  BY <2>1, <2>2, <2>3, ServeAssumption
<1>2. phase = "sizing" /\ phase' = "sized" /\ UNCHANGED <<job, jobid, jobfile, url, left, missed>>
      /\ plan' = [plan EXCEPT
                    !.cards = IF plan.set.gres # 0 THEN plan.set.gres ELSE derived,
                    !.parallel = IF plan.set.tensor # 0 THEN plan.set.tensor ELSE derived,
                    !.served = serves]
  BY DEF Size
<1>3. q \in Quants
  BY <1>1 DEF Settings, DefaultQuant, Quants
<1>4. serves \in Quants
  BY <1>1, <1>3 DEF Settings, Served, Quants
<1> HIDE DEF q, model
<1>5. Bytes[q] \in Nat
  <2>1. Bytes.bf16 = 4 /\ Bytes.fp8 = 2 /\ Bytes.awq = 1 /\ Bytes.q4 = 1
    BY DEF Bytes
  <2>2. Bytes["bf16"] = 4 /\ Bytes["fp8"] = 2 /\ Bytes["awq"] = 1 /\ Bytes["q4"] = 1
    BY <2>1
  <2>3. QED  BY <1>3, <2>2 DEF Quants
<1>6. Required(model, q) \in Nat
  <2> DEFINE w == model.params * Bytes[q]
  <2>1. w \in Nat
    <3>1. \A a, b \in Nat : a * b \in Nat
      OBVIOUS
    <3>2. QED  BY <1>1, <1>5, <3>1
  <2> HIDE DEF w
  <2>2. w + Context \in Nat /\ (13 * w + 9) \div 10 \in Nat
    BY <2>1, ServeAssumption
  <2>3. Required(model, q) = IF model.geometry THEN w + Context ELSE (13 * w + 9) \div 10
    BY DEF Required, w
  <2>4. QED  BY <2>2, <2>3
<1>7. derived \in Nat
  <2>1. \A need \in Nat : Cards(need) \in Nat
    BY ServeAssumption DEF Cards
  <2>2. QED  BY <1>6, <2>1
<1> HIDE DEF derived, serves
<1>8. plan' \in Plans
  BY <1>1, <1>2, <1>4, <1>7 DEF Plans
<1>9. ServeTypeOK'
  BY <1>2, <1>8 DEF ServeInv, ServeTypeOK, Phases, Starting
<1>10. Held' /\ ReleasedJob'
  BY <1>2 DEF ServeInv, Held, ReleasedJob, Alive, Starting
<1>11. QED  BY <1>9, <1>10 DEF ServeInv

\* Every other step leaves a plan alone or drops it.
LEMMA ServeOthers ==
  ASSUME ServeInv,
         \/ Submit \/ WriteJobid \/ JobRuns \/ ServerAnswers \/ StartFails \/ GraphEnds
         \/ Reap \/ JobStarts \/ JobEnds \/ Teardown \/ HardKill
  PROVE  ServeInv'
<1> USE ServeAssumption DEF ServeInv
<1>1. plan' \in {plan, NoPlan}
  BY DEF Submit, WriteJobid, JobRuns, ServerAnswers, StartFails, GraphEnds, Reap,
         JobStarts, JobEnds, Teardown, HardKill
<1>2. plan' \in Plans
  BY <1>1, PlansTyped DEF ServeTypeOK
<1> USE DEF Alive, Held, ReleasedJob
<1>4. /\ phase' \in Phases /\ left' \in Phases \cup {"none"}
      /\ job' \in Alive \cup {"none", "over", "cancelled"}
      /\ {jobid', jobfile', url', missed'} \subseteq BOOLEAN
  BY DEF ServeTypeOK, Submit, WriteJobid, JobRuns, ServerAnswers, StartFails, GraphEnds,
         Reap, JobStarts, JobEnds, Teardown, HardKill, Cancel, Phases, Starting
<1>5. ServeTypeOK'
  BY <1>2, <1>4 DEF ServeTypeOK
<1>6. CASE Submit \/ WriteJobid \/ JobRuns \/ ServerAnswers
  BY <1>5, <1>6 DEF Submit, WriteJobid, JobRuns, ServerAnswers, Starting
<1>7. CASE StartFails \/ GraphEnds
  BY <1>5, <1>7 DEF StartFails, GraphEnds, Starting
<1>8. CASE Teardown
  BY <1>5, <1>8 DEF Teardown, Cancel, Starting
<1>9. CASE HardKill
  BY <1>5, <1>9 DEF HardKill, Starting
<1>10. CASE Reap
  BY <1>5, <1>10 DEF Reap, Cancel, Starting
<1>11. CASE JobStarts \/ JobEnds
  BY <1>5, <1>11 DEF JobStarts, JobEnds, Starting
<1>12. QED  BY <1>6, <1>7, <1>8, <1>9, <1>10, <1>11

-----------------------------------------------------------------------------
(* The composite: which part a step belongs to.                            *)

LEMMA Starts == Init => IndInv
BY AdapterStarts, MailStarts, ShellsStart, ServeStarts DEF Init, IndInv

LEMMA Addressing ==
  /\ Names \subseteq Addresses /\ Delegations \subseteq Addresses
  /\ Strategizer \in Addresses /\ Strategizer \in Readers /\ Delegations \subseteq Readers
BY DEF Addresses, Names, Readers

\* What the strategizer and its operator do to the mail.
LEMMA StrategizeStep ==
  ASSUME IndInv, Strategize
  PROVE  IndInv'
<1> USE DEF IndInv
<1>1. AdapterInv' /\ ShellsInv' /\ ServeInv'
  BY AdapterStays, ShellsStay, ServeStays DEF Strategize
<1>2. Live \in SUBSET Delegations /\ Woken \in SUBSET Delegations
  BY DEF Live, Woken
<1>3. CASE \E to \in Names \cup Delegations : Confer(Strategizer, to, Live, Woken)
  BY <1>1, <1>2, <1>3, ConferStep, Addressing
<1>4. CASE Drain
  BY <1>1, <1>2, <1>4, DrainStep
<1>5. CASE \E d \in Woken : StatusDrains(d)
  BY <1>1, <1>2, <1>5, DrainsStep, Addressing DEF StatusDrains
<1>6. CASE \E to \in {Strategizer} \cup Woken : QueueNote(to)
  BY <1>1, <1>2, <1>6, QueueNoteStep, Addressing
<1>7. QED  BY <1>3, <1>4, <1>5, <1>6 DEF Strategize

LEMMA DeliverStep ==
  ASSUME IndInv, Deliver
  PROVE  IndInv'
<1> USE DEF IndInv
<1>1. AdapterInv' /\ ShellsInv' /\ ServeInv'
  BY AdapterStays, ShellsStay, ServeStays DEF Deliver
<1>2. Live \in SUBSET Delegations
  BY DEF Live
<1>3. CASE \E p \in posting : \/ ConferDelivers(p) \/ ConferQueues(p)
                              \/ LookUp(p, Live) \/ RouteNote(p)
  BY <1>1, <1>2, <1>3, ConferDeliversStep, ConferQueuesStep, LookUpStep, RouteNoteStep
<1>4. CASE (\E c \in claims : ReadClaim(c)) \/ (\E m \in writing : WriteNote(m))
  BY <1>1, <1>4, ReadClaimStep, WriteNoteStep
<1>5. QED  BY <1>3, <1>4 DEF Deliver

\* A worker's thread and its tools.
LEMMA WorkerStep ==
  ASSUME IndInv, NEW d \in Delegations,
         Dispatch(d) \/ Thread(d) \/ ReportEvals(d) \/ WorkerConfers(d) \/ RunsRaw(d)
  PROVE  IndInv'
<1> USE DEF IndInv
<1>1. CASE Dispatch(d)
  BY <1>1, DelegateStep, MailStays, ShellsStay, ServeStays DEF Dispatch
<1>2. CASE Thread(d)
  <2>1. AdapterInv'
    BY <1>2, BeginsStep, BackoffStep, EndStep, ReturnStep DEF Thread
  <2>2. QED  BY <1>2, <2>1, MailStays, ShellsStay, ServeStays DEF Thread
<1>3. CASE ReportEvals(d)
  <2>1. AdapterInv' /\ Uses \in Delegations
    BY <1>3, CallStep DEF ReportEvals
  <2>2. MailInv'
    BY <1>3, <2>1, DrainsStep, Addressing DEF ReportEvals, WorkerDrains
  <2>3. QED  BY <1>3, <2>1, <2>2, ShellsStay, ServeStays DEF ReportEvals
<1>4. CASE WorkerConfers(d)
  <2>1. AdapterInv'
    BY <1>4, CallStep DEF WorkerConfers
  <2>2. Live \in SUBSET Delegations
    BY DEF Live
  <2>3. MailInv'
    BY <1>4, <2>2, ConferStep, Addressing DEF WorkerConfers
  <2>4. QED  BY <1>4, <2>1, <2>3, ShellsStay, ServeStays DEF WorkerConfers
<1>5. CASE RunsRaw(d)
  BY <1>5, CallStep, MailStays, ShellsStay, ServeStays DEF RunsRaw
<1>6. QED  BY <1>1, <1>2, <1>3, <1>4, <1>5

LEMMA CommandStep ==
  ASSUME IndInv, NEW s \in ShellIds, UsesShell(s) \/ CommandGoesOn(s)
  PROVE  IndInv'
<1>1. ShellsInv'
  BY ShellStep DEF UsesShell, CommandGoesOn, IndInv
<1>2. AdapterInv' /\ MailInv' /\ ServeInv'
  BY AdapterStays, MailStays, ServeStays DEF UsesShell, CommandGoesOn, IndInv
<1>3. QED  BY <1>1, <1>2 DEF IndInv

LEMMA HostStep ==
  ASSUME IndInv, Hosting \/ ProcessEnds
  PROVE  IndInv'
<1> USE DEF IndInv
<1>1. CASE Hosting
  <2>1. ServeInv'
    BY <1>1, SizeStep, ServeOthers DEF Hosting, ServeStep
  <2>2. QED  BY <1>1, <2>1, AdapterStays, MailStays, ShellsStay DEF Hosting
<1>2. CASE ProcessEnds
  <2>1. ServeInv'
    BY <1>2, ServeOthers DEF ProcessEnds
  <2>2. ShellsInv'
    BY <1>2, ShellsEnd DEF ProcessEnds
  <2>3. QED  BY <1>2, <2>1, <2>2, AdapterRestarts, MailRestarts DEF ProcessEnds
<1>3. QED  BY <1>1, <1>2

\* The parts keep their invariants through every step of the composite.
THEOREM Inductive == Spec => []IndInv
<1>1. Init => IndInv
  BY Starts
<1>2. IndInv /\ [Next]_vars => IndInv'
  <2> SUFFICES ASSUME IndInv, [Next]_vars PROVE IndInv'
    OBVIOUS
  <2>1. CASE UNCHANGED vars
    BY <2>1, AdapterStays, MailStays, ShellsStay, ServeStays DEF vars, IndInv
  <2>2. CASE Next
    BY <2>2, StrategizeStep, DeliverStep, WorkerStep, CommandStep, HostStep DEF Next
  <2>3. QED  BY <2>1, <2>2
<1>3. QED  BY <1>1, <1>2, PTL DEF Spec

\* The variables of the four parts keep their types: the lock of the adapter is
\* held exactly by the thread in a turn, attempts stay within llm_retry_max,
\* mail is addressed to those there are, a job asks for a bounded number of cards.
THEOREM TypeCorrect == Spec => []TypeOK
<1>1. IndInv => TypeOK
  BY AdapterTyped DEF IndInv, TypeOK, AdapterInv, MailInv, ShellsInv, ServeInv
<1>2. QED  BY <1>1, Inductive, PTL

\* OwnWhenAlone: a delegation alone on the shared adapter runs its own closures
\* and is charged with its own usage and nudges (copy() returning self,
\* closure_tools, last_usage, _oracle_nudge).
THEOREM AloneIsOwn == Spec => []OwnWhenAlone
<1>1. IndInv => OwnWhenAlone
  BY DEF IndInv, AdapterInv, Alone, AloneAt, OwnWhenAlone
<1>2. QED  BY <1>1, Inductive, PTL

\* NeverStranded: mail sent to a name waits somewhere until someone is shown it,
\* and so does a note of the operator unless it was written to a file that had been
\* read, or its claim could not be read (Confer, queue_note, drain_note_rows).
THEOREM MailIsNeverStranded == Spec => []NeverStranded
<1>1. IndInv => NeverStranded
  BY DEF IndInv, MailInv
<1>2. QED  BY <1>1, Inductive, PTL

\* HandedOnce: a note is in one place at a time and has one reader at most, however
\* many drains overlap (drain_note_rows, _drain_notifications).
THEOREM NotesAreHandedOnce == Spec => []HandedOnce
<1>1. IndInv => HandedOnce
  BY DEF IndInv, MailInv
<1>2. QED  BY <1>1, Inductive, PTL

\* BackgroundIsReachable: a command that runs on in the background keeps an id
\* that BashOutput and KillShell accept, unless KillShell failed to kill it
\* (_BashSession).
THEOREM CommandsAreReachable == Spec => []BackgroundIsReachable
<1>1. IndInv => BackgroundIsReachable
  BY DEF IndInv, ShellsInv
<1>2. QED  BY <1>1, Inductive, PTL

\* ReleasedJob: a job outlives its run only if scancel failed, if the start failed
\* and the run closed, or if it was killed before the id was on disk
\* (_maybe_start_slurm_llm, _invoke_graph, reap_run_serve_job).
THEOREM JobsAreReleased == Spec => []ReleasedJob
<1>1. IndInv => ReleasedJob
  BY DEF IndInv, ServeInv
<1>2. QED  BY <1>1, Inductive, PTL
=============================================================================
