-------------------------------- MODULE Shells --------------------------------
(***************************************************************************)
(* _BashSession of the OpenAI-compatible backend: the shells behind Bash,  *)
(* BashOutput and KillShell.  There is one session per adapter, so all the *)
(* delegations of a worker share it, and a shell outlives the turn that    *)
(* started it.  A command that exceeds its timeout is not killed but kept  *)
(* under an id.                                                            *)
(***************************************************************************)
EXTENDS Naturals, FiniteSets

CONSTANT MaxShells   \* bound on the commands a run starts

ASSUME ShellsAssumption == MaxShells \in Nat

ShellIds == 1..MaxShells

VARIABLES
  proc,     \* the process: "none", "waited" for by a Bash call, "running"
            \* in the background, "exited", "killed"
  known,    \* _bg: the ids BashOutput and KillShell accept
  unread,   \* shells with output past the cursor
  polling,  \* the shell a BashOutput call has read but not polled; 0: none
  escaped   \* history: the shells KillShell could not kill

shells == <<proc, known, unread, polling, escaped>>

ShellsInit ==
  /\ proc = [s \in ShellIds |-> "none"]
  /\ known = {}
  /\ unread = {}
  /\ polling = 0 /\ escaped = {}

ShellsGone ==
  /\ proc' = [s \in ShellIds |-> "none"]
  /\ known' = {} /\ unread' = {}
  /\ polling' = 0 /\ escaped' = {}

ShellsTypeOK ==
  /\ proc \in [ShellIds -> {"none", "waited", "running", "exited", "killed"}]
  /\ known \subseteq ShellIds
  /\ unread \subseteq ShellIds
  /\ polling \in 0..MaxShells
  /\ escaped \subseteq ShellIds

Fresh(s) == proc[s] = "none" /\ \A r \in 1..(s - 1) : proc[r] # "none"
Waited == {s \in ShellIds : proc[s] = "waited"}
Background == {s \in ShellIds : proc[s] = "running"}

(* Bash: in the foreground the call waits; with run_in_background it       *)
(* returns at once, the cursor still at the start of the output.           *)
BashWaits(s) ==
  /\ Fresh(s)
  /\ proc' = [proc EXCEPT ![s] = "waited"]
  /\ UNCHANGED <<known, unread, polling, escaped>>

BashBackgrounds(s) ==
  /\ Fresh(s)
  /\ proc' = [proc EXCEPT ![s] = "running"]
  /\ known' = known \cup {s}
  /\ UNCHANGED <<unread, polling, escaped>>

BashReturns(s) ==
  /\ s \in Waited
  /\ proc' = [proc EXCEPT ![s] = "exited"]
  /\ unread' = unread \ {s}
  /\ UNCHANGED <<known, polling, escaped>>

(* A form that reports the timeout and forgets the process.                *)
KeptNot(s) == known

(* TimeoutExpired: kept under an id, what it wrote so far is returned.     *)
Kept(s) == known \cup {s}

BashTimesOut(s) ==
  /\ s \in Waited
  /\ proc' = [proc EXCEPT ![s] = "running"]
  /\ known' = Kept(s)
  /\ unread' = unread \ {s}
  /\ UNCHANGED <<polling, escaped>>

ShellWrites(s) ==
  /\ s \in Waited \cup Background
  /\ unread' = unread \cup {s}
  /\ UNCHANGED <<proc, known, polling, escaped>>

ShellExits(s) ==
  /\ s \in Background
  /\ proc' = [proc EXCEPT ![s] = "exited"]
  /\ UNCHANGED <<known, unread, polling, escaped>>

(* BashOutput reads the spool to its end, and only then asks whether the   *)
(* process has exited; an exited one is dropped.                           *)
BashOutputReads(s) ==
  /\ s \in known /\ polling = 0
  /\ unread' = unread \ {s}
  /\ polling' = s
  /\ UNCHANGED <<proc, known, escaped>>

BashOutputPolls ==
  /\ polling # 0
  /\ known' = IF proc[polling] \in {"exited", "killed"} THEN known \ {polling}
              ELSE known
  /\ polling' = 0
  /\ UNCHANGED <<proc, unread, escaped>>

(* KillShell kills the process tree, or failing that the process; whether  *)
(* or not that did it, the id is dropped and "[killed ...]" is returned.   *)
KillShell(s) ==
  /\ s \in known
  /\ \/ /\ proc' = [proc EXCEPT ![s] = IF @ = "running" THEN "killed" ELSE @]
        /\ UNCHANGED escaped
     \/ /\ escaped' = IF s \in Background THEN escaped \cup {s} ELSE escaped
        /\ UNCHANGED proc
  /\ known' = known \ {s}
  /\ UNCHANGED <<unread, polling>>

(***************************************************************************)
(* No command runs on unseen: as long as a process lives in the            *)
(* background, whichever delegation started it, some id still reaches it   *)
(* ("a command that exceeds its timeout is BACKGROUNDED (not killed) and   *)
(* returned with a bash_id"), except one that KillShell failed to kill,    *)
(* which it reports killed and forgets.                                    *)
(***************************************************************************)
BackgroundIsReachable == Background \subseteq known \cup escaped
=============================================================================
