---------------------------- MODULE DelegationLog ----------------------------
(***************************************************************************)
(* infra/delegation_log.py: delegation_log.jsonl, the one durable record   *)
(* of who asked whom for what.  The file is a sequence of lines; every     *)
(* operation holds _lock, so the operations are atomic for the threads of  *)
(* the process.  What can cut one short is the end of the process, or of   *)
(* the disk, in the middle of a write: a line without its end, which the   *)
(* next append continues, or a rewrite that has emptied the file.          *)
(*                                                                         *)
(* A line is a record, cut to its id, its status and the post-hoc attempt  *)
(* flag, or Junk, which json.loads refuses and every reader skips.         *)
(***************************************************************************)
EXTENDS Naturals, Sequences, SequencesExt, FiniteSets, FiniteSetsExt, Subsequences

CONSTANTS
  MaxIds,      \* bound on the ids handed out
  MaxLines,    \* bound on the lines of the file
  MaxCrashes   \* bound on the sessions that end

ASSUME BoundAssumption == MaxIds \in Nat /\ MaxLines \in Nat /\ MaxCrashes \in Nat

VARIABLES
  file,     \* the lines of delegation_log.jsonl
  torn,     \* the last line has no newline
  seq,      \* _seq of this session
  rewrite,  \* what mark_attempt is about to write, <<>> when it is not
  acked,    \* history: the record of d as the last call that wrote it left it
  cut,      \* history: some write has ended before its end
  crashes   \* sessions that ended

vars == <<file, torn, seq, rewrite, acked, cut, crashes>>

Ids == 1..MaxIds
Terminal == {"DONE", "FAILED", "INTERRUPTED"}
Statuses == Terminal \cup {"RUNNING"}
Record == [id : Ids, status : Statuses, attempt : BOOLEAN]
Junk == [id |-> 0]
NoRecord == [id |-> 0, status |-> "none", attempt |-> FALSE]

(***************************************************************************)
(* The type invariant: lines are records or junk, and a rewrite only ever  *)
(* holds records.                                                          *)
(***************************************************************************)
TypeOK ==
  /\ file \in Seq(Record \cup {Junk}) /\ Len(file) <= MaxLines
  /\ torn \in BOOLEAN
  /\ seq \in 0..MaxIds
  /\ rewrite \in Seq(Record)
  /\ acked \in [Ids -> Record \cup {NoRecord}]
  /\ cut \in BOOLEAN
  /\ crashes \in 0..MaxCrashes

Init ==
  /\ file = <<>>
  /\ torn = FALSE
  /\ seq = 0
  /\ rewrite = <<>>
  /\ acked = [d \in Ids |-> NoRecord]
  /\ cut = FALSE
  /\ crashes = 0

-----------------------------------------------------------------------------
(* Reading: _load_all and _max_existing_seq.                               *)

IdsIn(f) == {f[i].id : i \in DOMAIN f} \ {0}
LastLine(f, d) == Max({i \in DOMAIN f : f[i].id = d})

\* One record per id, the last one, in the order of their lines.
CollapseFirstWins(f) ==
  Picked(f, {Min({i \in DOMAIN f : f[i].id = d}) : d \in IdsIn(f)})
Collapse(f) == Picked(f, {LastLine(f, d) : d \in IdsIn(f)})

MaxExistingSeqLast(f) == IF IdsIn(f) = {} THEN 0 ELSE Collapse(f)[Len(Collapse(f))].id
MaxExistingSeq(f) == IF IdsIn(f) = {} THEN 0 ELSE Max(IdsIn(f))

-----------------------------------------------------------------------------
Free == rewrite = <<>>      \* _lock

NextId ==
  /\ Free
  /\ seq < MaxIds
  /\ seq' = seq + 1
  /\ UNCHANGED <<file, torn, rewrite, acked, cut, crashes>>

\* f.write: a line that has no end swallows the one that follows.
Written(r) == IF torn THEN Append(Front(file), Junk) ELSE Append(file, r)

Write(r) ==
  /\ Free
  /\ Len(file) < MaxLines
  /\ file' = Written(r)
  /\ torn' = FALSE
  /\ acked' = [acked EXCEPT ![r.id] = r]
  /\ UNCHANGED <<seq, rewrite, cut, crashes>>

Row(d, s) == [id |-> d, status |-> s, attempt |-> FALSE]

\* Delegate logs an id it has just been handed; a worker thread or the ghost
\* flush of this session ends a delegation, a DONE possibly with a FAILED.
Starting(d) == d = seq /\ d \notin IdsIn(file)
Ending(d) ==
  /\ d <= seq
  /\ acked[d].status \in {"RUNNING", "DONE"}
  /\ ~acked[d].attempt

RecordStarted(d) == Starting(d) /\ Write(Row(d, "RUNNING"))
RecordEnd(d, s) == Ending(d) /\ Write(Row(d, s))

\* The write ends early: what is on disk is part of the line, or all of it
\* but the newline.  The call raises, the session may live on.
Tear(d, s) ==
  /\ Free
  /\ IF s = "RUNNING" THEN Starting(d) ELSE Ending(d)
  /\ Len(file) < MaxLines
  /\ torn' = TRUE
  /\ cut' = TRUE
  /\ file' \in IF torn THEN {Append(Front(file), Junk)}
                       ELSE {Append(file, Junk), Append(file, Row(d, s))}
  /\ UNCHANGED <<seq, rewrite, acked, crashes>>

\* mark_attempt: read, change the record, truncate the file ...
MarkedToEnd(d) ==
  Append(SelectSeq(Collapse(file), LAMBDA r : r.id # d),
         [file[LastLine(file, d)] EXCEPT !.attempt = TRUE])
Marked(d) ==
  [i \in DOMAIN Collapse(file) |->
     [Collapse(file)[i] EXCEPT !.attempt = @ \/ Collapse(file)[i].id = d]]

MarkAttempt(d) ==
  /\ Free
  /\ d \in IdsIn(file)
  /\ acked[d].status = "DONE"
  /\ rewrite' = Marked(d)
  /\ file' = <<>>
  /\ torn' = FALSE
  /\ acked' = [acked EXCEPT ![d].attempt = TRUE]
  /\ UNCHANGED <<seq, cut, crashes>>

\* ... and write every record back.
MarkWrites ==
  /\ ~Free
  /\ file' = rewrite
  /\ rewrite' = <<>>
  /\ UNCHANGED <<torn, seq, acked, cut, crashes>>

\* The session ends (Ctrl-C, watchdog, power) and is resumed.  Inside a
\* rewrite it leaves the lines that were back on disk by then, the last one
\* perhaps without its end.
CrashAndResume ==
  /\ crashes < MaxCrashes
  /\ crashes' = crashes + 1
  /\ \/ Free /\ UNCHANGED <<file, torn>>
     \/ \E n \in 0..Len(rewrite) - 1 :
          \/ file' = SubSeq(rewrite, 1, n) /\ torn' = FALSE
          \/ file' = Append(SubSeq(rewrite, 1, n), Junk) /\ torn' = TRUE
  /\ cut' = (cut \/ ~Free)
  /\ rewrite' = <<>>
  /\ seq' = MaxExistingSeq(file')
  /\ UNCHANGED acked

Next ==
  \/ NextId
  \/ \E d \in Ids : RecordStarted(d)
  \/ \E d \in Ids, s \in Terminal : RecordEnd(d, s)
  \/ \E d \in Ids, s \in Statuses : Tear(d, s)
  \/ \E d \in Ids : MarkAttempt(d)
  \/ MarkWrites
  \/ CrashAndResume

Spec == Init /\ [][Next]_vars

-----------------------------------------------------------------------------
\* The lines the readers would find once the rewrite in progress is done: they
\* wait for _lock.
Lines == IF Free THEN file ELSE rewrite

LatestOf(d) ==
  IF d \in IdsIn(Lines) THEN CHOOSE r \in ToSet(Collapse(Lines)) : r.id = d
                        ELSE NoRecord

\* As long as no write was cut short, what a writer was told is written is
\* what every reader sees, over crashes and rewrites (record, mark_attempt,
\* _load_all).
AckedIsRead == ~cut => \A d \in Ids : acked[d] = LatestOf(d)

\* No session hands out the id of a delegation that is on record: its
\* workspace and its stamped rows keep one owner (_max_existing_seq).
NoReissue == [][(seq' = seq + 1 /\ ~cut) => acked[seq'] = NoRecord]_vars

\* What the readers find, and in which order.
RecordOf == [d \in Ids |-> [status |-> LatestOf(d).status, attempt |-> LatestOf(d).attempt]]
OrderOf ==
  {p \in Ids \X Ids : /\ {p[1], p[2]} \subseteq IdsIn(Lines)
                      /\ LastLine(Lines, p[1]) < LastLine(Lines, p[2])}

\* The log implements the records its readers rely on: the mapping reads the
\* file as _load_all does.
Abstract ==
  INSTANCE DelegationRecords WITH
    record <- RecordOf, before <- OrderOf, next <- seq, damaged <- cut
ImplementsRecords == Abstract!Records
=============================================================================
