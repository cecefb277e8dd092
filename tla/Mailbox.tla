------------------------------- MODULE Mailbox -------------------------------
(***************************************************************************)
(* The mail of a node: Confer between the strategizer and its workers, the *)
(* operator's notes, and the two places a message waits in.  _confer_inbox *)
(* is keyed by a node's name and emptied when that node confers itself;    *)
(* _pending_worker_msgs is keyed by delegation and emptied by the worker's *)
(* next ReportEvals or FollowUp.  Each is under a lock of its own, and so  *)
(* is the registry that says who is running: the look and the two appends  *)
(* are three steps.  The notes pass through a file that the viewer, another*)
(* process, opens and then writes, and that a drain renames, reads and     *)
(* deletes, with no lock between the two.  All workers modelled here are   *)
(* of one role.                                                            *)
(***************************************************************************)
EXTENDS Crew, FiniteSets

CONSTANT MaxMessages   \* bound on what is sent through Confer or the viewer

ASSUME MailAssumption == MaxMessages \in Nat

Messages == 1..MaxMessages
Strategizer == 0
Role == MaxDelegations + 1           \* the name all the workers share
Readers == {Strategizer} \cup Delegations
Names == {Strategizer, Role}
Addresses == Names \cup Delegations
NameOf(r) == IF r = Strategizer THEN Strategizer ELSE Role

VARIABLES
  inbox,    \* _confer_inbox: the messages waiting for a name
  pending,  \* _pending_worker_msgs: those waiting for a delegation
  notes,    \* operator_notes.jsonl, absent when empty: the notes that were
            \* posted to it, those whose line is still to come included
  claims,   \* the files renamed aside and not read yet, each as such a set
  writing,  \* the notes whose post has opened the file and not written to it
  posting,  \* deliveries under way: who, what, to whom, which live workers
            \* the registry showed, and the append that comes next
  sent,     \* _confer_seq, and the notes: how many messages there are
  addr,     \* history: where each message was sent
  noted,    \* history: which of them are notes
  lost,   \* history: the notes deleted with a file that was not read, or
            \* was read before they were written to it
  shown     \* history: who has been shown each message

notesFile == <<notes, claims, writing, lost>>
mail == <<inbox, pending, notesFile, posting, sent, addr, noted, shown>>

MailInit ==
  /\ inbox = [n \in Names |-> {}]
  /\ pending = [d \in Delegations |-> {}]
  /\ notes = {} /\ claims = {} /\ writing = {} /\ lost = {}
  /\ posting = {}
  /\ sent = 0
  /\ addr = [m \in Messages |-> Strategizer]
  /\ noted = {}
  /\ shown = [m \in Messages |-> {}]

MailGone ==
  /\ inbox' = [n \in Names |-> {}]
  /\ pending' = [d \in Delegations |-> {}]
  /\ notes' = {} /\ claims' = {} /\ writing' = {} /\ lost' = {}
  /\ posting' = {}
  /\ sent' = 0
  /\ addr' = [m \in Messages |-> Strategizer]
  /\ noted' = {}
  /\ shown' = [m \in Messages |-> {}]

MailTypeOK ==
  /\ inbox \in [Names -> SUBSET Messages]
  /\ pending \in [Delegations -> SUBSET Messages]
  /\ noted \subseteq Messages
  /\ notes \subseteq noted /\ writing \subseteq noted /\ lost \subseteq noted
  /\ \A c \in claims : c \subseteq noted
  /\ posting \subseteq [by : Readers, msg : Messages, to : Addresses,
                        live : SUBSET Delegations,
                        next : {"pending", "inbox", "look", "route"}]
  /\ sent \in 0..MaxMessages
  /\ addr \in [Messages -> Addresses]
  /\ shown \in [Messages -> SUBSET Readers]

Posts(r) == {p \in posting : p.by = r}
Seen(ms, r) == [m \in Messages |->
                  IF m \in ms THEN shown[m] \cup {r} ELSE shown[m]]

(***************************************************************************)
(* Confer(target, message): which delegations are running is read under    *)
(* the registry's lock and used after it.                                  *)
(***************************************************************************)
AddressedLive(to, live) ==
  IF to \in Delegations THEN {to} \cap live
  ELSE IF to = Role THEN live ELSE {}

Confer(by, to, live, woken) ==
  /\ sent < MaxMessages
  /\ to = Strategizer \/ to \in woken \/ (to = Role /\ woken # {})
  /\ sent' = sent + 1
  /\ addr' = [addr EXCEPT ![sent + 1] = to]
  /\ posting' = posting \cup
       {[by |-> by, msg |-> sent + 1, to |-> to,
         live |-> AddressedLive(to, live), next |-> "pending"]}
  /\ UNCHANGED <<inbox, pending, notesFile, noted, shown>>

(* The copies for workers that looked alive; a dead one is not noticed.    *)
ConferDelivers(p) ==
  /\ p \in posting /\ p.next = "pending"
  /\ pending' = [d \in Delegations |->
                   IF d \in p.live THEN pending[d] \cup {p.msg}
                   ELSE pending[d]]
  /\ posting' = (posting \ {p}) \cup {[p EXCEPT !.next = "inbox"]}
  /\ UNCHANGED <<inbox, notesFile, sent, addr, noted, shown>>

(* A form that spares the inbox a message some worker was handed.          *)
QueuedIfIdle(p) ==
  IF p.to \in Delegations \/ p.live # {} THEN {} ELSE {p.msg}

(* What goes under the target's name: whatever is addressed by name, alive *)
(* or not.  In the same section the sender collects its own mail.          *)
QueuedByName(p) == IF p.to \in Delegations THEN {} ELSE {p.msg}

ConferQueues(p) ==
  LET filled == [n \in Names |->
                   IF n = p.to THEN inbox[n] \cup QueuedByName(p)
                   ELSE inbox[n]]
  IN /\ p \in posting /\ p.next = "inbox"
     /\ shown' = Seen(filled[NameOf(p.by)], p.by)
     /\ inbox' = [filled EXCEPT ![NameOf(p.by)] = {}]
     /\ posting' = posting \ {p}
     /\ UNCHANGED <<pending, notesFile, sent, addr, noted>>

(* ReportEvals and FollowUp of delegation "owner", called in the turn of   *)
(* delegation d.                                                           *)
WorkerDrains(d, owner) ==
  /\ shown' = Seen(pending[owner], d)
  /\ pending' = [pending EXCEPT ![owner] = {}]
  /\ UNCHANGED <<inbox, notesFile, posting, sent, addr, noted>>

(***************************************************************************)
(* The operator leaves a note in the viewer, for the run or for one        *)
(* delegation: queue_note opens the file, which creates it when it is not  *)
(* there, and writes the line.  The handle follows a file that is renamed, *)
(* and a line written after the read goes the way of the file.             *)
(***************************************************************************)
QueueNote(to) ==
  /\ sent < MaxMessages
  /\ sent' = sent + 1
  /\ addr' = [addr EXCEPT ![sent + 1] = to]
  /\ noted' = noted \cup {sent + 1}
  /\ notes' = notes \cup {sent + 1}
  /\ writing' = writing \cup {sent + 1}
  /\ UNCHANGED <<inbox, pending, claims, posting, lost, shown>>

WriteNote(m) ==
  /\ m \in writing
  /\ writing' = writing \ {m}
  /\ lost' = IF m \in notes \cup UNION claims THEN lost
               ELSE lost \cup {m}
  /\ UNCHANGED <<inbox, pending, notes, claims, posting, sent, addr, noted,
                 shown>>

(***************************************************************************)
(* _drain_notifications, at every tool call of the strategizer: its inbox, *)
(* and the notes, claimed all at once by a rename.  Calls of one turn may  *)
(* run side by side, each with a claim of its own.                         *)
(***************************************************************************)

(* A form that reads the file where it is and empties it afterwards.       *)
LeftUntilRead == notes

(* What a claim leaves in its place: nothing, the file has another name.   *)
LeftByClaim == {}

Drain ==
  /\ shown' = Seen(inbox[Strategizer], Strategizer)
  /\ inbox' = [inbox EXCEPT ![Strategizer] = {}]
  /\ claims' = IF notes = {} THEN claims ELSE claims \cup {notes}
  /\ notes' = LeftByClaim
  /\ UNCHANGED <<pending, writing, posting, sent, addr, noted, lost>>

(* The read of a claim, and the unlink whether it succeeded or not.        *)
Handed(m) == [by |-> Strategizer, msg |-> m, to |-> addr[m], live |-> {},
              next |-> "look"]

ReadClaim(c) ==
  /\ c \in claims
  /\ claims' = claims \ {c}
  /\ \/ /\ posting' = posting \cup {Handed(m) : m \in c \ writing}
        /\ UNCHANGED lost
     \/ /\ lost' = lost \cup (c \ writing)   \* OSError
        /\ UNCHANGED posting
  /\ UNCHANGED <<inbox, pending, notes, writing, sent, addr, noted, shown>>

(* Each note read: one for a delegation that looks alive goes on to its    *)
(* worker, any other is handed to the strategizer.                         *)
LookUp(p, live) ==
  /\ p \in posting /\ p.next = "look"
  /\ IF p.to \in Delegations \cap live
     THEN /\ posting' = (posting \ {p}) \cup {[p EXCEPT !.next = "route"]}
          /\ UNCHANGED shown
     ELSE /\ posting' = posting \ {p}
          /\ shown' = Seen({p.msg}, Strategizer)
  /\ UNCHANGED <<inbox, pending, notesFile, sent, addr, noted>>

RouteNote(p) ==
  /\ p \in posting /\ p.next = "route"
  /\ pending' = [pending EXCEPT ![p.to] = @ \cup {p.msg}]
  /\ posting' = posting \ {p}
  /\ UNCHANGED <<inbox, notesFile, sent, addr, noted, shown>>

(* GetStatus(d), after it has drained: the delegation's own queue too.     *)
StatusDrains(d) ==
  /\ shown' = Seen(pending[d], Strategizer)
  /\ pending' = [pending EXCEPT ![d] = {}]
  /\ UNCHANGED <<inbox, notesFile, posting, sent, addr, noted>>
=============================================================================
