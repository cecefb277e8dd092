---------------------------- MODULE RunLifeProofs ----------------------------
(***************************************************************************)
(* The life of the runs for every number of runs, processes, statements,   *)
(* lookers and budgets.  What a process relies on was often written by an  *)
(* earlier one that was killed somewhere, so the invariant says, for every *)
(* run, what its files promise about each other (Told, Recorded, Anchors)  *)
(* and, for the process at each of its steps, what it holds in memory of   *)
(* them (Following, Timed).  Counted is the monitor's account.             *)
(***************************************************************************)
EXTENDS RunLife, FiniteSetTheorems, TLAPS

Steps == {"snapshot", "anchor", "thread", "review", "enter", "refused",
          "absorb", "turn", "commit", "stamp", "record"}
Reports == {"none", "halted"} \cup Closes
Statuses == {"none", "halted", "crashed", "GATED", "UNGATED", "FAILED"}
Times == Nat \cup {NoTime}
Checkpoints ==
  [next : BOOLEAN, whole : BOOLEAN, told : SUBSET Statements, budget : Nat,
   start : Times, report : Reports]
Processes ==
  [at : Steps, run : Runs, resuming : BOOLEAN, problem : Statements,
   budget : Nat, start : Times, replay : BOOLEAN, report : Reports]
Notebooks == [by : SUBSET (Runs \cup {Unknown}), stamp : Runs \cup {Unknown}]

Types ==
  /\ clock \in Nat
  /\ live \in Statements
  /\ notebook \in Notebooks
  /\ \E n \in Nat : made = 1..n
  /\ thread \subseteq made
  /\ snapshot \in [Runs -> Statements \cup {NoStatement}]
  /\ anchor \in [Runs -> Times]
  /\ status \in [Runs -> Statuses]
  /\ checkpoint \in [Runs -> Checkpoints]
  /\ process \in Processes \cup {Down}
  /\ born \in [Runs -> Times]

MonitorTypes ==
  /\ rows \in [Runs -> [Delegations -> Nat]]
  /\ baseline \in [Delegations -> Nat]
  /\ counter \in [Delegations -> Nat]
  /\ nudges \in [Delegations -> Nat]
  /\ looking \in [Lookers -> [at : {"idle", "looked"},
                             seen : [Delegations -> Nat]]]

\* A conversation that began with the run's statement still holds it, and a
\* directory without a run in it has no statement.
Told ==
  /\ \A s \in Runs : s \notin made => snapshot[s] = NoStatement
  /\ \A s \in Runs : checkpoint[s].whole => snapshot[s] \in checkpoint[s].told

\* What is recorded GATED is a whole conversation, which closes with a report;
\* unless a process is about to replace the record, or failed to, it is that
\* of the last report.
Recorded ==
  /\ \A s \in Runs : checkpoint[s].whole /\ ~ checkpoint[s].next
                     => checkpoint[s].report # "none"
  /\ \A s \in Runs : status[s] = "GATED" => checkpoint[s].whole
  /\ \A s \in Runs \ spoiled :
       (status[s] = "GATED" /\ ~ checkpoint[s].next)
         => \/ Outcome(checkpoint[s].report) = "GATED"
            \/ At({"stamp", "record"}) /\ run = s

\* What the process that drives a run knows about it.
Following ==
  /\ At(Steps) => run \in made
  /\ At({"snapshot"}) /\ ~ process.resuming => snapshot[run] = NoStatement
  /\ At({"anchor", "thread", "review", "enter"}) /\ ~ process.resuming
       => snapshot[run] = process.problem
  /\ At({"absorb", "turn"}) /\ checkpoint[run].whole /\ ~ process.replay
       => process.problem \in checkpoint[run].told
  /\ At({"commit", "stamp", "record"}) => checkpoint[run].whole
  /\ At({"commit"}) => process.report # "none"
  /\ At({"refused"}) => ~ checkpoint[run].next /\ status[run] = "GATED"

\* A run that can be resumed was anchored when it was born.
Anchors ==
  \A s \in thread \ spoiled : s \in Runs =>
    anchor[s] = born[s] /\ born[s] # NoTime

\* What the process that drives a run measures its time by.
Timed ==
  /\ At(Steps) /\ process.resuming => run \in thread
  /\ At({"thread", "review", "enter", "absorb", "turn"}) /\ run \notin spoiled =>
       /\ process.start = born[run] /\ born[run] # NoTime
       /\ anchor[run] = born[run]
  /\ At({"absorb", "turn"}) /\ run \notin spoiled =>
       /\ checkpoint[run].start = process.start
       /\ checkpoint[run].budget = process.budget

\* What has been held against a delegation has been counted, and what has
\* been counted, or seen, is in the stores.
Counted ==
  At(Steps) => \A d \in Delegations :
    /\ Threshold * nudges[d] + counter[d] <= baseline[d]
    /\ baseline[d] <= rows[run][d]
    /\ \A l \in Lookers : looking[l].seen[d] <= rows[run][d]

IndInv == /\ Types /\ MonitorTypes /\ Told /\ Recorded /\ Following
          /\ Anchors /\ Timed /\ Counted

USE LifeAssumption, MonitorAssumption
USE DEF files, history, vars, monitor, At, Goes, run, Spoils

LEMMA Driven ==
  ASSUME Types, process.at # "down"
  PROVE  /\ process \in Processes
         /\ run \in Runs /\ process.problem \in Statements
         /\ process.budget \in Nat /\ process.start \in Times
         /\ process.report \in Reports
         /\ checkpoint[run] \in Checkpoints
<1>1. process \in Processes
  BY DEF Types, Down
<1>2. QED
  BY <1>1 DEF Processes, Types

LEMMA Stepped ==
  ASSUME Types, process.at # "down", NEW st \in Steps
  PROVE  [process EXCEPT !.at = st] \in Processes
  BY Driven DEF Processes

\* A write that may fail leaves a status, and what is spoiled stays so.
LEMMA StatusType ==
  ASSUME Types, process.at # "down",
         NEW st \in Statuses,
         WritesStatus(st)
  PROVE  /\ status' \in [Runs -> Statuses]
         /\ \A s \in Runs : s # run => status'[s] = status[s]
         /\ \/ status'[run] = st
            \/ status'[run] = status[run] /\ run \in spoiled'
         /\ spoiled \subseteq spoiled'
<1>1. PICK ok \in BOOLEAN :
        /\ status' = IF ok THEN [status EXCEPT ![run] = st] ELSE status
        /\ Spoils(ok)
  BY DEF WritesStatus, Outcomes
<1>2. CASE ok
  <2>1. status' = [status EXCEPT ![run] = st] /\ spoiled' = spoiled
    BY <1>1, <1>2
  <2>2. status'[run] = st
    BY <2>1, Driven DEF Types
  <2>5. \A s \in Runs : s # run => status'[s] = status[s]
    BY <2>1, Driven DEF Types
  <2>3. status' \in [Runs -> Statuses]
    BY <2>1 DEF Types
  <2>6. spoiled \subseteq spoiled'
    BY <2>1
  <2>4. QED
    BY <2>2, <2>3, <2>5, <2>6
<1>3. CASE ~ ok
  BY <1>1, <1>3, Driven DEF Types
<1>4. QED
  BY <1>2, <1>3

LEMMA OneMoreNudge ==
  ASSUME NEW t \in Nat, NEW n \in Nat
  PROVE  /\ t * n \in Nat
         /\ t * (n + 1) = t * n + t
  BY SMT

\* Runs are numbered in the order their directories are made.
LEMMA NextRun ==
  ASSUME NEW n \in Nat, made = 1..n
  PROVE  /\ Cardinality(made) = n
         /\ made \cup {n + 1} = 1..(n + 1)
<1>1. Cardinality(1..n) = n
  BY FS_Interval
<1>2. QED
  BY <1>1

LEMMA InitEstablishes == Init => IndInv
<1> SUFFICES ASSUME Init PROVE IndInv
  OBVIOUS
<1> USE DEF Init, NoCheckpoint, Down, MonitorInit, Forgotten, NoRows, Idle
<1>1. Types
  <2>1. made = 1..0
    OBVIOUS
  <2>2. QED
    BY <2>1 DEF Types, Checkpoints, Reports, Times, NoTime, Notebooks,
      Statuses
<1>2. MonitorTypes
  BY DEF MonitorTypes
<1>3. Told /\ Recorded /\ Following
  BY DEF Told, Recorded, Following, Steps
<1>4. Anchors /\ Timed /\ Counted
  BY DEF Anchors, Timed, Counted, Steps
<1>5. QED
  BY <1>1, <1>2, <1>3, <1>4 DEF IndInv

LEMMA WorldKeeps ==
  ASSUME IndInv, World
  PROVE  IndInv'
<1> USE DEF IndInv
<1>1. CASE Tick
  <2>1. Types'
    BY <1>1, Stepped, Driven DEF Tick, Types, Steps, Down
  <2>2. MonitorTypes' /\ Told' /\ Recorded' /\ Following'
        /\ Anchors' /\ Timed' /\ Counted'
    BY <1>1, Driven DEF Tick, MonitorTypes, Told, Recorded, Following,
      Anchors, Timed, Counted, Types, Steps, Down
  <2>3. QED
    BY <2>1, <2>2
<1>2. CASE Edit
  <2>1. Types'
    BY <1>2, Stepped, Driven DEF Edit, Types, Steps, Down
  <2>2. MonitorTypes' /\ Told' /\ Recorded' /\ Following'
        /\ Anchors' /\ Timed' /\ Counted'
    BY <1>2, Driven DEF Edit, MonitorTypes, Told, Recorded, Following,
      Anchors, Timed, Counted, Types, Steps, Down
  <2>3. QED
    BY <2>1, <2>2
<1>3. CASE Kill
  <2>1. Types'
    BY <1>3, Stepped, Driven DEF Kill, Types, Steps, Down
  <2>2. MonitorTypes' /\ Told' /\ Recorded' /\ Following'
        /\ Anchors' /\ Timed' /\ Counted'
    BY <1>3, Driven DEF Kill, MonitorTypes, Told, Recorded, Following,
      Anchors, Timed, Counted, Types, Steps, Down
  <2>3. QED
    BY <2>1, <2>2
<1>4. QED
  BY <1>1, <1>2, <1>3 DEF World

\* A new process's monitor holds nothing against anyone.
LEMMA MonitorBegins ==
  ASSUME MonitorTypes, MonitorForgets, process'.run \in Runs
  PROVE  MonitorTypes' /\ Counted'
<1>1. /\ baseline' = NoRows /\ counter' = NoRows /\ nudges' = NoRows
      /\ looking' = [l \in Lookers |-> Idle] /\ rows' = rows
  BY DEF MonitorForgets, Forgotten
<1>2. Threshold * 0 + 0 = 0
  OBVIOUS
<1>3. rows[process'.run] \in [Delegations -> Nat]
  BY DEF MonitorTypes
<1>4. QED
  BY <1>1, <1>2, <1>3 DEF MonitorTypes, Counted, NoRows, Idle

\* A fresh run's directory has nothing in it.
LEMMA FreshRun ==
  ASSUME Types, NEW s \in Runs, StartFresh(s)
  PROVE  s \notin made
<1>1. PICK n \in Nat : made = 1..n
  BY DEF Types
<1>2. QED
  BY <1>1, NextRun DEF StartFresh

LEMMA EstablishKeeps ==
  ASSUME IndInv, NEW s \in Runs,
         \/ StartFresh(s) \/ Resume(s) \/ SnapshotsStatement \/ AnchorsStart
         \/ ResolvesThread \/ ReviewsStatement
  PROVE  IndInv'
<1> USE DEF IndInv
<1>1. CASE StartFresh(s)
  <2>1. process' \in Processes /\ process'.at = "snapshot"
        /\ process'.run = s /\ process'.resuming = FALSE
    BY <1>1 DEF StartFresh, Begins, Types, Processes, Steps, Times, Reports
  <2>2. Types'
    <3>1. PICK n \in Nat : made = 1..n
      BY DEF Types
    <3>2. made' = 1..(n + 1)
      BY <1>1, <3>1, NextRun DEF StartFresh
    <3>3. notebook' \in Notebooks
      BY <1>1 DEF StartFresh, NoNotebook, Notebooks
    <3>4. QED
      BY <1>1, <2>1, <3>1, <3>2, <3>3, SMTT(30) DEF StartFresh, Begins, Types
  <2>3. Told' /\ Recorded' /\ Following'
    BY <1>1, <2>1, FreshRun DEF StartFresh, Begins, Types, Told, Recorded,
      Following, Steps
  <2>4. Anchors' /\ Timed'
    BY <1>1, <2>1 DEF StartFresh, Begins, Types, Anchors, Timed
  <2>5. MonitorTypes' /\ Counted'
    BY <1>1, <2>1, MonitorBegins DEF StartFresh, Begins
  <2>6. QED
    BY <2>2, <2>3, <2>4, <2>5
<1>2. CASE Resume(s)
  <2>1. process' \in Processes /\ process'.at = "snapshot"
        /\ process'.run = s /\ process'.resuming = TRUE
    BY <1>2 DEF Resume, Begins, Types, Processes, Steps, Times, Reports
  <2>2. Types'
    BY <1>2, <2>1 DEF Resume, Begins, Types
  <2>3. Told' /\ Recorded' /\ Following'
    BY <1>2, <2>1 DEF Resume, Begins, Types, Told, Recorded, Following, Steps
  <2>4. Anchors' /\ Timed'
    BY <1>2, <2>1 DEF Resume, Begins, Types, Anchors, Timed
  <2>5. MonitorTypes' /\ Counted'
    BY <1>2, <2>1, MonitorBegins DEF Resume, Begins
  <2>6. QED
    BY <2>2, <2>3, <2>4, <2>5
<1>3. CASE SnapshotsStatement
  <2>1. Types'
    BY <1>3, Stepped, Driven DEF SnapshotsStatement, Frozen, Types, Steps
  <2>2. /\ checkpoint[run].whole => snapshot'[run] = snapshot[run]
        /\ \A s2 \in Runs : s2 # run => snapshot'[s2] = snapshot[s2]
        /\ snapshot'[run] \in Statements
    BY <1>3, Driven DEF SnapshotsStatement, Frozen, Types, Told, Checkpoints
  <2>3. Told'
    BY <1>3, <2>2, Driven DEF SnapshotsStatement, Types, Steps, Told,
      Following
  <2>4. Recorded'
    BY <1>3, Driven DEF SnapshotsStatement, Processes, Recorded
  <2>5. Following'
    BY <1>3, Driven DEF SnapshotsStatement, Frozen, Types, Processes,
      Steps, Following
  <2>6. Anchors' /\ Timed'
    BY <1>3, Driven DEF SnapshotsStatement, Processes, Steps, Anchors, Timed
  <2>7. MonitorTypes' /\ Counted'
    BY <1>3, Driven
    DEF SnapshotsStatement, Processes, Steps, MonitorTypes, Counted
  <2>8. QED
    BY <2>1, <2>3, <2>4, <2>5, <2>6, <2>7
<1>4. CASE AnchorsStart
  <2>1. PICK ok \in BOOLEAN, start \in Nat :
          /\ start = IF Anchored = NoTime THEN clock ELSE Anchored
          /\ anchor' = [anchor EXCEPT ![run] = IF ok \/ Anchored # NoTime
                                                THEN start ELSE NoTime]
          /\ Spoils(anchor'[run] # NoTime)
          /\ process' = [process EXCEPT !.at = "thread", !.start = start]
    BY <1>4, Driven DEF AnchorsStart, Anchored, Outcomes, Types, Times
  <2>2. process' \in Processes
    BY <1>4, <2>1, Driven DEF AnchorsStart, Processes, Steps, Times
  <2>3. Types'
    BY <1>4, <2>1, <2>2, Driven DEF AnchorsStart, Types, Times
  <2>4. Told' /\ Recorded' /\ Following'
    BY <1>4, <2>1, Driven
    DEF AnchorsStart, Types, Processes, Told, Recorded, Following, Steps
  <2>5. Anchors' /\ Timed'
    BY <1>4, <2>1, Driven
    DEF AnchorsStart, Anchored, Types, Processes, Steps, Times, NoTime, Anchors, Timed
  <2>6. MonitorTypes' /\ Counted'
    BY <1>4, <2>1, Driven
    DEF AnchorsStart, Types, Processes, Steps, MonitorTypes, Counted
  <2>7. QED
    BY <2>3, <2>4, <2>5, <2>6
<1>5. CASE ResolvesThread
  <2>1. Types'
    BY <1>5, Stepped, Driven DEF ResolvesThread, Types, Steps, Following
  <2>2. Told' /\ Recorded' /\ Following'
    BY <1>5, Driven DEF ResolvesThread, Told, Recorded, Following, Types,
      Steps, Checkpoints, Reports
  <2>3. Anchors' /\ Timed'
    BY <1>5, Driven DEF ResolvesThread, Anchors, Timed, Types,
      Checkpoints, Steps, Times, NoTime
  <2>4. MonitorTypes' /\ Counted'
    BY <1>5, Driven DEF ResolvesThread, MonitorTypes, Counted, Types, Steps
  <2>5. QED
    BY <2>1, <2>2, <2>3, <2>4
<1>6. CASE ReviewsStatement
  <2>1. Types'
    BY <1>6, Stepped, Driven DEF ReviewsStatement, Types, Steps, Down
  <2>2. MonitorTypes' /\ Told' /\ Recorded' /\ Following'
        /\ Anchors' /\ Timed' /\ Counted'
    BY <1>6, Driven DEF ReviewsStatement, MonitorTypes, Told, Recorded,
      Following, Anchors, Timed, Counted, Types, Steps, Down
  <2>3. QED
    BY <2>1, <2>2
<1>7. QED
  BY <1>1, <1>2, <1>3, <1>4, <1>5, <1>6

\* A graph that is entered goes on with a conversation that was told the
\* statement, and with this process's start and budget if nothing failed.
LEMMA EntersKeeps ==
  ASSUME IndInv, At({"enter"}), NEW st \in Checkpoints, NEW replay \in BOOLEAN,
         Enters(st, replay), st.next, spoiled \subseteq spoiled',
         st.whole => snapshot[run] \in st.told,
         st.whole /\ ~ replay => process.problem \in st.told,
         checkpoint[run].whole => st.whole,
         run \notin spoiled' => st.start = process.start /\ st.budget = process.budget
  PROVE  IndInv'
<1> USE Driven DEF IndInv, Enters
<1>1. /\ process' = [process EXCEPT !.at = "absorb", !.replay = replay]
      /\ process' \in Processes
  BY DEF Processes, Steps
<1>2. checkpoint' = [checkpoint EXCEPT ![run] = st]
  OBVIOUS
<1>3. Types'
  BY <1>1, <1>2 DEF Types
<1>4. Told' /\ Recorded' /\ Following'
  BY <1>1, <1>2 DEF Types, Processes, Told, Recorded, Following, Steps
<1>5. Anchors' /\ Timed'
  BY <1>1, <1>2 DEF Types, Processes, Steps, Anchors, Timed
<1>6. MonitorTypes' /\ Counted'
  BY <1>1 DEF Processes, Steps, MonitorTypes, Counted
<1>7. QED
  BY <1>3, <1>4, <1>5, <1>6

LEMMA EnterKeeps ==
  ASSUME IndInv, Enter
  PROVE  IndInv'
<1>1. CASE ServingFails
  BY <1>1
  DEF ServingFails, IndInv, Types, MonitorTypes, Told, Recorded, Following,
      Anchors, Timed, Counted, Steps, Down
<1>2. CASE Refuse
  <2>1. Types'
    BY <1>2, Stepped DEF Refuse, IndInv, Types, Steps
  <2>2. QED
    BY <1>2, <2>1, Driven
    DEF Refuse, Over, IndInv, Types, MonitorTypes, Told, Recorded, Following,
        Anchors, Timed, Counted, Processes, Steps
<1>3. CASE Leaves
  BY <1>3
  DEF Leaves, IndInv, Types, MonitorTypes, Told, Recorded, Following,
      Anchors, Timed, Counted, Steps, Down
<1>4. CASE EnterFresh
  <2> DEFINE st == [next |-> TRUE, whole |-> TRUE, told |-> {process.problem},
                    budget |-> process.budget, start |-> process.start,
                    report |-> "none"]
  <2>1. st \in Checkpoints
    BY <1>4, Driven DEF EnterFresh, IndInv, Checkpoints, Reports
  <2>2. snapshot[run] \in st.told
    BY <1>4 DEF EnterFresh, IndInv, Following
  <2>3. QED
    BY <1>4, <2>1, <2>2, EntersKeeps DEF EnterFresh
<1>5. CASE EnterReplay
  <2>1. PICK ok \in BOOLEAN :
          /\ Enters(IF ok THEN Refreshed(checkpoint[run]) ELSE checkpoint[run], TRUE)
          /\ Spoils(ok)
    BY <1>5 DEF EnterReplay, EntersRefreshed, Outcomes
  <2> DEFINE st == IF ok THEN Refreshed(checkpoint[run]) ELSE checkpoint[run]
  <2>2. st \in Checkpoints
    BY <1>5, Driven DEF EnterReplay, IndInv, Refreshed, Checkpoints
  <2>3. /\ st.next /\ st.whole = checkpoint[run].whole
        /\ st.told = checkpoint[run].told
        /\ ok => st.start = process.start /\ st.budget = process.budget
    BY <1>5, Driven DEF EnterReplay, IndInv, Refreshed, Checkpoints
  <2>4. st.whole => snapshot[run] \in st.told
    BY <1>5, <2>3, Driven DEF EnterReplay, IndInv, Told
  <2>5. QED
    <3> HIDE DEF st
    <3>1. Enters(st, TRUE)
      BY <2>1 DEF st
    <3>2. QED
      BY <1>5, <2>1, <2>2, <2>3, <2>4, <3>1, EntersKeeps DEF EnterReplay
<1>6. CASE EnterAgain
  <2> DEFINE asked == [checkpoint[run] EXCEPT !.next = TRUE, !.report = "none",
                         !.told = @ \cup ({process.problem} \ {snapshot[run]})]
  <2>1. PICK ok \in BOOLEAN :
          /\ Enters(IF ok THEN Refreshed(asked) ELSE asked, FALSE)
          /\ Spoils(ok)
    BY <1>6 DEF EnterAgain, EntersRefreshed, Outcomes
  <2> DEFINE st == IF ok THEN Refreshed(asked) ELSE asked
  <2>2. /\ asked \in Checkpoints /\ asked.next
        /\ asked.whole = checkpoint[run].whole
        /\ asked.told = checkpoint[run].told \cup ({process.problem} \ {snapshot[run]})
    BY <1>6, Driven DEF EnterAgain, IndInv, Checkpoints, Reports
  <2>3. /\ st \in Checkpoints /\ st.next /\ st.whole = checkpoint[run].whole
        /\ st.told = checkpoint[run].told \cup ({process.problem} \ {snapshot[run]})
        /\ ok => st.start = process.start /\ st.budget = process.budget
    <3> HIDE DEF asked
    <3>1. QED
      BY <1>6, <2>2, Driven DEF EnterAgain, IndInv, Refreshed, Checkpoints
  <2>4. st.whole => snapshot[run] \in st.told /\ process.problem \in st.told
    <3> HIDE DEF st
    <3>1. QED
      BY <1>6, <2>3, Driven DEF EnterAgain, IndInv, Told
  <2>5. QED
    <3> HIDE DEF st
    <3>1. Enters(st, FALSE)
      BY <2>1 DEF st
    <3>2. QED
      BY <1>6, <2>1, <2>3, <2>4, <3>1, EntersKeeps DEF EnterAgain
<1>7. QED
  BY <1>1, <1>2, <1>3, <1>4, <1>5, <1>6 DEF Enter

LEMMA DriveKeeps ==
  ASSUME IndInv, Drive, ~ Monitors
  PROVE  IndInv'
<1> USE DEF IndInv
<1>1. CASE Halt
  <2>1. Types'
    BY <1>1, Driven, StatusType DEF Halt, Types, Steps, Processes,
      Reports, Statuses
  <2>2. Told' /\ Recorded' /\ Following'
    BY <1>1, Driven, StatusType DEF Halt, Told, Recorded, Following,
      Types, Steps, Statuses
  <2>3. Anchors' /\ Timed'
    BY <1>1, Driven, StatusType DEF Halt, Anchors, Timed, Steps, Types,
      Statuses
  <2>4. MonitorTypes' /\ Counted'
    BY <1>1, Driven DEF Halt, MonitorTypes, Counted, Types, Steps
  <2>5. QED
    BY <2>1, <2>2, <2>3, <2>4
<1>2. CASE BeginTurn
  <2>1. Types'
    BY <1>2, Stepped, Driven DEF BeginTurn, Types, Steps, Down
  <2>2. MonitorTypes' /\ Told' /\ Recorded' /\ Following'
        /\ Anchors' /\ Timed' /\ Counted'
    BY <1>2, Driven DEF BeginTurn, MonitorTypes, Told, Recorded,
      Following, Anchors, Timed, Counted, Types, Steps, Down
  <2>3. QED
    BY <2>1, <2>2
<1>3. CASE WriteNotebook
  <2>1. Types'
    BY <1>3, Driven DEF WriteNotebook, Types, Notebooks
  <2>2. MonitorTypes' /\ Told' /\ Recorded' /\ Following'
        /\ Anchors' /\ Timed' /\ Counted'
    BY <1>3, Driven DEF WriteNotebook, MonitorTypes, Told, Recorded,
      Following, Anchors, Timed, Counted, Types, Steps, Down
  <2>3. QED
    BY <2>1, <2>2
<1>4. CASE LoopBack
  <2>1. Types'
    BY <1>4, Stepped, Driven DEF LoopBack, Types, Steps, Down
  <2>2. MonitorTypes' /\ Told' /\ Recorded' /\ Following'
        /\ Anchors' /\ Timed' /\ Counted'
    BY <1>4, Driven DEF LoopBack, MonitorTypes, Told, Recorded, Following,
      Anchors, Timed, Counted, Types, Steps, Down
  <2>3. QED
    BY <2>1, <2>2
<1>5. CASE Close
  <2>1. Types'
    BY <1>5, Driven DEF Close, Types, Steps, Processes, Reports
  <2>2. Told' /\ Recorded' /\ MonitorTypes'
    BY <1>5, Driven DEF Close, MonitorTypes, Told, Recorded, Types, Steps
  <2>3. Following'
    <3>1. PICK report \in Closes :
            process' = [process EXCEPT !.at = "commit", !.report = report]
      BY <1>5 DEF Close
    <3>2. process'.at = "commit" /\ process'.run = process.run
          /\ process'.report # "none"
      BY <3>1, Driven DEF Processes
    <3>3. QED
      BY <1>5, <3>2, Driven DEF Close, Following, Steps
  <2>4. Anchors' /\ Timed' /\ Counted'
    BY <1>5, Driven DEF Close, Anchors, Timed, Counted, Steps, Types
  <2>5. QED
    BY <2>1, <2>2, <2>3, <2>4
<1>6. CASE Commit
  <2>1. Types'
    BY <1>6, Stepped, Driven DEF Commit, Types, Steps, Checkpoints
  <2>2. Told' /\ Recorded' /\ Following'
    BY <1>6, Driven DEF Commit, Told, Recorded, Following, Types, Steps,
      Checkpoints
  <2>3. Anchors' /\ Timed'
    BY <1>6, Driven DEF Commit, Anchors, Timed, Steps, Types
  <2>4. MonitorTypes' /\ Counted'
    BY <1>6, Driven DEF Commit, MonitorTypes, Counted, Types, Steps
  <2>5. QED
    BY <2>1, <2>2, <2>3, <2>4
<1>7. CASE Crash
  <2>1. Types'
    BY <1>7, Driven, StatusType DEF Crash, Types, Down, Statuses
  <2>2. Told' /\ Recorded' /\ Following'
    BY <1>7, Driven, StatusType DEF Crash, Told, Recorded, Following,
      Types, Steps, Down, Statuses
  <2>3. Anchors' /\ Timed'
    BY <1>7, Driven, StatusType DEF Crash, Anchors, Timed, Steps, Types,
      Down, Statuses
  <2>4. MonitorTypes' /\ Counted'
    BY <1>7, Driven DEF Crash, MonitorTypes, Counted, Steps, Down
  <2>5. QED
    BY <2>1, <2>2, <2>3, <2>4
<1>8. QED
  BY <1>1, <1>2, <1>3, <1>4, <1>5, <1>6, <1>7 DEF Drive

LEMMA FinalizeKeeps ==
  ASSUME IndInv, Finalize
  PROVE  IndInv'
<1> USE DEF IndInv
<1>1. CASE StampNotebook
  <2>1. Types'
    BY <1>1, Stepped, Driven DEF StampNotebook, Types, Steps, Notebooks
  <2>2. MonitorTypes' /\ Told' /\ Recorded' /\ Following'
        /\ Anchors' /\ Timed' /\ Counted'
    BY <1>1, Driven DEF StampNotebook, MonitorTypes, Told, Recorded,
      Following, Anchors, Timed, Counted, Types, Steps, Down
  <2>3. QED
    BY <2>1, <2>2
<1>2. CASE RecordStatus
  <2>1. Outcome(checkpoint[run].report) \in Statuses
    BY DEF Outcome, Statuses
  <2>2. process' = Down /\ WritesStatus(Outcome(checkpoint[run].report))
        /\ UNCHANGED <<checkpoint, snapshot, made, anchor, thread, born, monitor>>
    BY <1>2 DEF RecordStatus
  <2>3. Types'
    BY <1>2, <2>1, <2>2, StatusType DEF RecordStatus, Types
  <2>4. Told' /\ Following'
    BY <1>2, <2>2 DEF Told, Following, Steps, Down
  <2>8. Recorded'
    <3>1. Outcome(checkpoint'[run].report) = Outcome(checkpoint[run].report)
      BY <2>2 DEF Outcome
    <3>2. QED
      BY <1>2, <2>1, <2>2, <3>1, Driven, StatusType
      DEF RecordStatus, Types, Following, Recorded, Down
  <2>5. Anchors' /\ Timed'
    BY <1>2, <2>1, <2>2, StatusType DEF RecordStatus, Types, Anchors,
      Timed, Steps, Down
  <2>6. MonitorTypes' /\ Counted'
    BY <2>2 DEF MonitorTypes, Counted, Steps, Down
  <2>7. QED
    BY <2>3, <2>4, <2>5, <2>6, <2>8
<1>3. QED
  BY <1>1, <1>2 DEF Finalize

\* What is held against a delegation is only ever counted out of rows that a
\* look has seen and no earlier count has known.
LEMMA CountKeeps ==
  ASSUME IndInv, At(Steps), NEW l \in Lookers, Count(l),
         UNCHANGED process
  PROVE  MonitorTypes' /\ Counted'
<1> DEFINE new(d) == looking[l].seen[d] - baseline[d]
<1>1. ASSUME NEW d \in Delegations
      PROVE  /\ baseline[d] \in Nat /\ counter[d] \in Nat /\ nudges[d] \in Nat
             /\ looking[l].seen[d] \in Nat /\ rows[run][d] \in Nat
             /\ Threshold * nudges[d] \in Nat
             /\ Threshold * nudges[d] + counter[d] <= baseline[d]
             /\ baseline[d] <= rows[run][d]
             /\ looking[l].seen[d] <= rows[run][d]
  BY Driven, OneMoreNudge DEF IndInv, MonitorTypes, Counted, Steps
<1>2. /\ looking' = [looking EXCEPT ![l] = Idle] /\ rows' = rows
      /\ baseline' = [d \in Delegations |-> Known(l, d)]
  BY DEF Count
<1>3. ASSUME NEW d \in Delegations
      PROVE  /\ baseline'[d] \in Nat /\ counter'[d] \in Nat /\ nudges'[d] \in Nat
             /\ Threshold * nudges'[d] + counter'[d] <= baseline'[d]
             /\ baseline'[d] <= rows[run][d]
  <2>1. baseline'[d] = Known(l, d)
    BY <1>2
  <2>2. /\ baseline'[d] \in Nat /\ baseline'[d] <= rows[run][d]
        /\ baseline'[d] = IF new(d) > 0 THEN baseline[d] + new(d) ELSE baseline[d]
    BY <1>1, <2>1 DEF Known, NewDuplicates
  <2>3. \/ nudges'[d] = nudges[d] /\ counter'[d] = counter[d]
        \/ /\ new(d) > 0 /\ nudges'[d] = nudges[d]
           /\ counter'[d] = counter[d] + new(d)
        \/ /\ new(d) > 0 /\ nudges'[d] = nudges[d] + 1
           /\ counter'[d] = 0 /\ counter[d] + new(d) >= Threshold
    BY DEF Count, NewDuplicates
  <2>4. CASE nudges'[d] = nudges[d] /\ counter'[d] = counter[d]
    BY <1>1, <2>2, <2>4
  <2>5. CASE /\ new(d) > 0 /\ nudges'[d] = nudges[d]
             /\ counter'[d] = counter[d] + new(d)
    BY <1>1, <2>2, <2>5, SMTT(30)
  <2>6. CASE /\ new(d) > 0 /\ nudges'[d] = nudges[d] + 1
             /\ counter'[d] = 0 /\ counter[d] + new(d) >= Threshold
    <3>1. PICK paid \in Nat : paid = Threshold * nudges[d]
      BY <1>1
    <3>2. Threshold * nudges'[d] = paid + Threshold
      BY <1>1, <2>6, <3>1, OneMoreNudge
    <3>3. paid + Threshold <= baseline'[d]
      <4>1. paid + counter[d] <= baseline[d]
        BY <1>1, <3>1
      <4>2. /\ baseline[d] \in Nat /\ counter[d] \in Nat /\ new(d) \in Int
            /\ Threshold \in Nat
        BY <1>1
      <4>3. baseline'[d] = baseline[d] + new(d) /\ counter[d] + new(d) >= Threshold
        BY <2>2, <2>6
      <4>4. QED
        <5> HIDE DEF new
        <5>1. QED
          BY <4>1, <4>2, <4>3
    <3>4. Threshold * nudges'[d] + counter'[d] = paid + Threshold
      BY <2>6, <3>2
    <3>5. nudges'[d] \in Nat /\ counter'[d] \in Nat
      BY <1>1, <2>6
    <3>6. QED
      BY <2>2, <3>3, <3>4, <3>5
  <2>7. QED
    BY <2>3, <2>4, <2>5, <2>6
<1>4. /\ baseline' \in [Delegations -> Nat] /\ counter' \in [Delegations -> Nat]
      /\ nudges' \in [Delegations -> Nat]
  <2>1. /\ baseline' = [d \in Delegations |-> baseline'[d]]
        /\ counter' = [d \in Delegations |-> counter'[d]]
        /\ nudges' = [d \in Delegations |-> nudges'[d]]
    BY DEF Count
  <2>2. QED
    BY <1>3, <2>1
<1>5. MonitorTypes'
  BY <1>2, <1>4 DEF IndInv, MonitorTypes, Idle, NoRows
<1>6. \A k \in Lookers : \A d \in Delegations : looking'[k].seen[d] <= rows[run][d]
  BY <1>1, <1>2 DEF IndInv, MonitorTypes, Counted, Idle, NoRows
<1>7. QED
  BY <1>2, <1>3, <1>5, <1>6 DEF Counted

LEMMA MonitorsKeep ==
  ASSUME IndInv, Monitors
  PROVE  IndInv'
<1>1. /\ At(Steps) /\ run \in Runs
      /\ UNCHANGED <<clock, live, files, process, history>>
  BY Driven DEF Monitors, IndInv, Steps
<1>2. Types' /\ Told' /\ Recorded' /\ Following' /\ Anchors' /\ Timed'
  BY <1>1 DEF IndInv, Types, Told, Recorded, Following, Anchors, Timed
<1>3. ASSUME NEW d \in Delegations, Repeats(run, d)
      PROVE  MonitorTypes' /\ Counted'
  <2>1. MonitorTypes'
    BY <1>1, <1>3 DEF Repeats, IndInv, MonitorTypes
  <2>2. \A e \in Delegations : rows[run][e] <= rows'[run][e]
    BY <1>1, <1>3 DEF Repeats, IndInv, MonitorTypes
  <2>3. ASSUME NEW e \in Delegations
        PROVE  /\ rows[run][e] \in Nat /\ rows'[run][e] \in Nat
               /\ baseline[e] \in Nat
               /\ \A l \in Lookers : looking[l].seen[e] \in Nat
    BY <1>1, <2>1 DEF IndInv, MonitorTypes
  <2>4. UNCHANGED <<baseline, counter, nudges, looking>>
    BY <1>3 DEF Repeats
  <2>5. Counted'
    BY <1>1, <2>2, <2>3, <2>4 DEF IndInv, Counted
  <2>6. QED
    BY <2>1, <2>5
<1>4. ASSUME NEW d \in Delegations, CoolsDown(d)
      PROVE  MonitorTypes' /\ Counted'
  BY <1>1, <1>4 DEF CoolsDown, IndInv, MonitorTypes, Counted
<1>5. ASSUME NEW l \in Lookers, Look(run, l)
      PROVE  MonitorTypes' /\ Counted'
  <2>1. PICK seen \in {rows[run], NoRows} :
          looking' = [looking EXCEPT ![l] = [at |-> "looked", seen |-> seen]]
    BY <1>5 DEF Look
  <2>2. /\ seen \in [Delegations -> Nat]
        /\ \A d \in Delegations : seen[d] <= rows[run][d]
    BY <1>1, <2>1, SMTT(30) DEF IndInv, MonitorTypes, NoRows
  <2>3. UNCHANGED <<rows, baseline, counter, nudges>>
    BY <1>5 DEF Look
  <2>4. MonitorTypes'
    BY <2>1, <2>2, <2>3 DEF IndInv, MonitorTypes
  <2>5. Counted'
    BY <1>1, <2>1, <2>2, <2>3 DEF IndInv, MonitorTypes, Counted
  <2>6. QED
    BY <2>4, <2>5
<1>6. ASSUME NEW l \in Lookers, Count(l)
      PROVE  MonitorTypes' /\ Counted'
  BY <1>1, <1>6, CountKeeps
<1>7. QED
  BY <1>2, <1>3, <1>4, <1>5, <1>6 DEF Monitors, MonitorStep, IndInv

LEMMA StepKeeps == IndInv /\ [Next]_vars => IndInv'
<1> SUFFICES ASSUME IndInv, [Next]_vars PROVE IndInv'
  OBVIOUS
<1>1. CASE UNCHANGED vars
  <2>1. Types' /\ MonitorTypes'
    BY <1>1 DEF IndInv, Types, MonitorTypes
  <2>2. Told' /\ Following'
    BY <1>1 DEF IndInv, Told, Following
  <2>3. Recorded'
    BY <1>1 DEF IndInv, Recorded, Outcome
  <2>4. Anchors' /\ Timed' /\ Counted'
    BY <1>1 DEF IndInv, Anchors, Timed, Counted
  <2>5. QED
    BY <2>1, <2>2, <2>3, <2>4 DEF IndInv
<1>2. CASE Establish
  <2>1. PICK s \in Runs : \/ StartFresh(s) \/ Resume(s) \/ SnapshotsStatement
                          \/ AnchorsStart \/ ResolvesThread \/ ReviewsStatement
    BY <1>2, Driven
    DEF Establish, IndInv, SnapshotsStatement, AnchorsStart, ResolvesThread,
        ReviewsStatement
  <2>2. QED
    BY <2>1, EstablishKeeps
<1>3. QED
  BY <1>1, <1>2, WorldKeeps, EnterKeeps, DriveKeeps, MonitorsKeep,
    FinalizeKeeps
  DEF Next

\* The invariant holds whatever is killed, edited, resumed or spoiled, and
\* whenever.
THEOREM Inductive == Spec => []IndInv
<1>1. IndInv /\ [Next]_vars => IndInv'
  BY StepKeeps
<1>2. QED
  BY InitEstablishes, <1>1, PTL DEF Spec

\* A resume is refused only to a run that closed itself through the gate and
\* would be asked nothing else, or was halted for time, whatever processes were
\* killed before (_resumed_graph_input).
THEOREM RefusedRunsAreOver == Spec => []RefusedIsOver
<1>1. IndInv => RefusedIsOver
  BY Driven DEF IndInv, Told, Recorded, Following, RefusedIsOver, Outcome, Checkpoints,
    Reports
<1>2. QED
  BY Inductive, <1>1, PTL

\* The agent of a turn has been told the statement its run's snapshot holds,
\* and the one that was live when a closed run was reopened
\* (_build_initial_state, _invoke_graph).
THEOREM StatementsAreTold == Spec => []StatementIsTold
<1>1. IndInv => StatementIsTold
  BY Driven DEF IndInv, Told, Following, StatementIsTold
<1>2. QED
  BY Inductive, <1>1, PTL

\* Every nudge about repeated evaluations is paid for by Threshold rows of its
\* own, however the checks overlap (_check_duplicate_evaluations).
THEOREM NudgesArePaidFor == Spec => []NudgesPaidFor
<1>1. IndInv => NudgesPaidFor
  <2> SUFFICES ASSUME IndInv, At({"turn"}), NEW d \in Delegations
               PROVE  Threshold * nudges[d] + counter[d] <= rows[run][d]
    BY DEF NudgesPaidFor, PaidFor
  <2>1. /\ Threshold * nudges[d] + counter[d] <= baseline[d]
        /\ baseline[d] <= rows[run][d]
    BY DEF IndInv, Counted, Steps
  <2>2. /\ Threshold * nudges[d] \in Nat /\ counter[d] \in Nat
        /\ baseline[d] \in Nat /\ rows[run][d] \in Nat
    BY Driven, OneMoreNudge DEF IndInv, MonitorTypes
  <2>3. QED
    BY <2>1, <2>2
<1>2. QED
  BY Inductive, <1>1, PTL

\* The time a run may take is the run's and not the process's: whether a turn
\* begins or the run is halted for time goes by what has passed since it was
\* born and by what its process was given (_check_unrecoverable,
\* _refresh_resumed_budgets).
THEOREM BackstopIsTheRuns == Spec => BackstopHolds
<1> DEFINE Held ==
      /\ Starts("absorb", "turn") /\ run \notin spoiled => WithinBackstop
      /\ Starts("absorb", "commit") /\ run \notin spoiled => ~ WithinBackstop
<1>1. ASSUME IndInv, process.at = "absorb", run \notin spoiled
      PROVE  Spent <=> ~ WithinBackstop
  <2>1. /\ checkpoint[run].start = born[run] /\ born[run] \in Nat
        /\ checkpoint[run].budget = process.budget /\ process.budget \in Nat
    BY <1>1, Driven DEF IndInv, Types, Timed, Times
  <2>2. process.budget * Multiple \in Int /\ clock - born[run] \in Int
    BY <2>1, <1>1 DEF IndInv, Types
  <2>3. QED
    BY <2>1, <2>2 DEF Spent, WithinBackstop
<1>2. ASSUME IndInv, [Next]_vars, process.at = "absorb",
             process'.at \in {"turn", "commit"}
      PROVE  \/ BeginTurn /\ process'.at = "turn"
             \/ Halt /\ process'.at = "commit"
  <2>1. process # Down /\ process \in Processes
    BY <1>2, Driven DEF IndInv, Down
  <2>2. ~ (World \/ Establish \/ Enter \/ Finalize \/ UNCHANGED vars)
    BY <1>2, <2>1
    DEF World, Tick, Edit, Kill, Establish, StartFresh, Resume, Begins,
        SnapshotsStatement, AnchorsStart, ResolvesThread, ReviewsStatement,
        Enter, ServingFails, EnterFresh, EnterReplay, EnterAgain,
        EntersRefreshed, Enters, Refuse, Leaves, Finalize, StampNotebook,
        RecordStatus, Down
  <2>3. Halt \/ BeginTurn
    BY <1>2, <2>1, <2>2
    DEF Next, Drive, WriteNotebook, Monitors, LoopBack, Close, Commit, Crash, Down
  <2>4. CASE Halt
    <3>1. process'.at = "commit"
      BY <2>1, <2>4 DEF Halt, Processes
    <3>2. QED
      BY <2>4, <3>1
  <2>5. CASE BeginTurn
    <3>1. process'.at = "turn"
      BY <2>1, <2>5 DEF BeginTurn, Processes
    <3>2. QED
      BY <2>5, <3>1
  <2>6. QED
    BY <2>3, <2>4, <2>5
<1>3. IndInv /\ [Next]_vars => [Held]_vars
  <2> SUFFICES ASSUME IndInv, [Next]_vars, process.at = "absorb",
                      process'.at \in {"turn", "commit"}, run \notin spoiled
               PROVE  Held
    BY DEF Starts
  <2>1. Spent <=> ~ WithinBackstop
    BY <1>1
  <2>2. QED
    BY <1>2, <2>1 DEF Starts, BeginTurn, Halt
<1>4. QED
  BY Inductive, <1>3, PTL DEF Spec, BackstopHolds

\* No run loses what it wrote in the notebook: what is not in the study's
\* notebook any more is in the archive (_resolve_run_dir).
THEOREM NotebooksAreKept == Spec => NotebooksKept
<1> DEFINE Keeps ==
      \A n \in archive \cup {notebook} :
        \A s \in n.by : \E m \in archive' \cup {notebook'} : s \in m.by
<1>1. ASSUME NEW s \in Runs, StartFresh(s) PROVE Keeps
  BY <1>1 DEF StartFresh, Archived, NoNotebook
<1>2. ASSUME IndInv, WriteNotebook \/ StampNotebook PROVE Keeps
  <2>1. archive' = archive /\ notebook.by \subseteq notebook'.by
    BY <1>2, Driven DEF WriteNotebook, StampNotebook, IndInv, Types, Notebooks
  <2>2. QED
    BY <2>1
<1>3. ASSUME UNCHANGED <<notebook, archive>> PROVE Keeps
  BY <1>3
<1>4. IndInv /\ [Next]_vars => [Keeps]_vars
  <2> HIDE DEF Keeps
  <2> SUFFICES ASSUME IndInv, Next, ~ UNCHANGED <<notebook, archive>>
               PROVE  Keeps
    BY <1>3
  <2>1. \/ \E s \in Runs : StartFresh(s)
        \/ WriteNotebook \/ StampNotebook
    BY DEF Next, World, Tick, Edit, Kill, Establish, Resume,
       SnapshotsStatement, AnchorsStart, ResolvesThread, ReviewsStatement,
       Enter, ServingFails, EnterFresh, EnterReplay, EnterAgain,
       EntersRefreshed, Enters, Refuse, Leaves, Drive, Halt, BeginTurn,
       Monitors, LoopBack, Close, Commit, Crash, Finalize, RecordStatus
  <2>2. QED
    BY <1>1, <1>2, <2>1
<1>5. QED
  BY Inductive, <1>4, PTL DEF Spec, NotebooksKept

==============================================================================
