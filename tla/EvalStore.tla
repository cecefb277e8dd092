------------------------------ MODULE EvalStore ------------------------------
(***************************************************************************)
(* The metered evaluation store.  Campaign processes reach the oracle      *)
(* through get_evaluator() (oracle_resolution.py) and append what they     *)
(* measured to a shared table by read, merge and write under a file lock   *)
(* (instrumented.py), through an ExperimentData.store() that is guarded    *)
(* against shrinking it (_f3dasm_compat.py).  The run writes the           *)
(* configuration they resolve the oracle from (run_setup.py), and the      *)
(* reproduction gate replays the notebook against a copy of the tables     *)
(* (reproduction_gate.py, notebook_exec.py).                               *)
(*                                                                         *)
(* A run has one table for its base study and one per design namespace.    *)
(* flush_every is 1, as get_evaluator leaves it.  The oracle is            *)
(* deterministic: a value is its design and the generator that computed it.*)
(* Workers run under the Claude backend, whose sessions are given the path *)
(* of the live run_config.json and inherit the rest of os.environ.         *)
(***************************************************************************)
EXTENDS Naturals, Sequences, FiniteSets, SequencesExt, Subsequences

CONSTANTS
  Campaigns,    \* processes that evaluate: scripts a worker launched
  Ids,          \* delegations they are stamped with
  Designs,      \* points of the design space
  Namespaces,   \* design namespaces beside the base study
  Generators,   \* oracle sources: "file.py:attr"
  Declared,     \* the one config.yaml declares, NoOracle when it declares none
  Registrars,   \* worker threads that end a datagenerator delegation
  Gates,        \* tool calls that execute the notebook
  Pool,         \* designs of the precomputed pool, {} when there is none
  AgentStores,  \* TRUE: agents also call ExperimentData.store() themselves
  MaxEvals,     \* bound on evaluations, of campaigns and of the notebook
  MaxTroubles   \* bound on writes cut short, oracle calls that raise, resumes of
                \* the run, executions of the notebook and loads by agents, together

NoOracle == "none"
Nobody == "unstamped"
PoolId == "D000"
ReplayId == "D999"

ASSUME PoolAssumption == IsFiniteSet(Pool)
ASSUME IdAssumption == {Nobody, PoolId, ReplayId} \cap Ids = {}
ASSUME NameAssumption == "base" \notin Namespaces /\ "live" \notin Gates
ASSUME OracleAssumption ==
  NoOracle \notin Generators /\ Declared \in Generators \cup {NoOracle}
ASSUME BoundAssumption ==
  /\ {MaxEvals, MaxTroubles} \subseteq Nat
  /\ AgentStores \in BOOLEAN

Stores == {"base"} \cup Namespaces
Copies == {"live"} \cup Gates
Places == Copies \X Stores
Base == <<"live", "base">>

VARIABLES
  disk,       \* the table at each place
  config,     \* run_config.json of the run and of each sandbox: the oracles
  environ,    \* the copy F3DASM_* of os.environ point at
  campaign,   \* the InstrumentedDataGenerator of each process
  agentCopy,  \* an ExperimentData an agent loaded and may store() back
  registrar,  \* registrations under way
  gate,       \* executions of the notebook under way
  evals, troubles,
  acked,      \* ghost: evaluations whose flush returned
  excused,    \* ghost: those lost with a damaged file or to an agent's store()
  superseded, \* ghost: those a flush dropped for a newer value
  unreplaced, \* ghost: those of them whose newer value the oracle never gave
  registered  \* ghost: every oracle a store was ever given

counters == <<evals, troubles>>
ledgered == <<acked, excused, superseded, unreplaced>>
vars == <<disk, config, environ, campaign, agentCopy, registrar, gate,
          counters, ledgered, registered>>

DesignsOf(rows) == {r.design : r \in ToSet(rows)}

\* output.csv is missing, whole, empty or half there; jobs.csv is a file of
\* its own and marks the first `jobs` rows FINISHED.
Table(rows) == [state |-> "ok", rows |-> rows, jobs |-> Len(rows)]
Absent == [state |-> "absent", rows |-> <<>>, jobs |-> 0]
Damaged(state, jobs) == [state |-> state, rows |-> <<>>, jobs |-> jobs]

\* raised is a ghost: the queued keys whose oracle raised.
Off == [pc |-> "off", by |-> Nobody, at |-> Base, oracle |-> NoOracle,
        scope |-> "delegation", buffer |-> <<>>, keys |-> {}, raised |-> {},
        merged |-> <<>>]
NoGate == [pc |-> "idle", saved |-> "live"]
Executing == {"running", "scratch", "cell"}
NoCopy == [at |-> Base, rows |-> <<>>]
NoOracles == [s \in Stores |-> NoOracle]
NoCall == [pc |-> "idle", read |-> NoOracles]

-----------------------------------------------------------------------------
(* Which oracle and which table get_evaluator resolves.  A namespace block *)
(* carries its own store_dir; a sandbox redirects the one of the base.     *)

StoreDir(copy, s) == IF s = "base" THEN <<copy, "base">> ELSE <<"live", s>>

\* Mutant: a namespace without an oracle of its own takes the base's.
EffectiveOracleOrBase(copy, s) ==
  IF config[copy][s] = NoOracle THEN config[copy]["base"] ELSE config[copy][s]

EffectiveOracle(copy, s) == config[copy][s]

\* get_evaluator raises where nothing is registered.
HasOracle(copy, s) == EffectiveOracle(copy, s) # NoOracle

DedupScope == IF environ = "live" THEN "delegation" ELSE "all"

-----------------------------------------------------------------------------
(* The flush: what is read, what is dropped, what may be written.          *)

\* Mutant: no lock.
UnlockedAlways(p) == TRUE

Unlocked(p) == \A c \in Campaigns : ~(campaign[c].pc = "storing" /\ campaign[c].at = p)

Superseded(rows, keys) ==
  Picked(rows, {i \in DOMAIN rows : rows[i].design \notin keys})

\* Mutants: no dedup; dedup that ignores the scope.
SeenNothing(rows, id, scope) == {}
SeenOwn(rows, id, scope) == {r.design : r \in {q \in ToSet(rows) : q.by = id}}

\* Designs that count as already evaluated for a writer of this id and scope.
Seen(rows, id, scope) ==
  {r.design : r \in {q \in ToSet(rows) : scope = "all" \/ q.by = id}}

\* Of samples of one design the first is kept, if it has not been seen.
DropDuplicates(buffer, seen) ==
  Picked(buffer, {i \in DOMAIN buffer :
                    /\ buffer[i].design \notin seen
                    /\ \A j \in 1..i - 1 : buffer[j].design # buffer[i].design})

\* ExperimentData.store() on a protected store refuses to shrink it, and to
\* reset a row that jobs.csv has as FINISHED.
Guarded(p, rows) == Len(rows) >= Len(disk[p].rows) /\ Len(rows) >= disk[p].jobs

Ack(c, samples) ==
  {[at |-> campaign[c].at, design |-> r.design,
    by |-> IF campaign[c].scope = "all" THEN Nobody ELSE campaign[c].by] :
     r \in ToSet(samples)}
AckedAt(p) == {a \in acked : a.at = p}

\* What is superseded, and never replaced, once the merged table is written.
Dropped(c) ==
  superseded \cup {a \in AckedAt(campaign[c].at) : a.design \in campaign[c].keys}
Deleted(c) ==
  unreplaced \cup {a \in AckedAt(campaign[c].at) : a.design \in campaign[c].raised}

\* The flush returned: its samples are in the table.
Acknowledges(c, dropped, deleted) ==
  LET new == Ack(c, campaign[c].buffer) IN
  /\ acked' = acked \cup new
  /\ excused' = excused \ new
  /\ superseded' = dropped \ new
  /\ unreplaced' = deleted \ new

Covers(rows, a) == \E r \in ToSet(rows) : r.design = a.design /\ a.by \in {r.by, Nobody}

\* Rows of the precomputed pool are appended again at every start.
PoolRows == SetToSeq({[by |-> PoolId, design |-> x, oracle |-> NoOracle] : x \in Pool})

\* Under the lock; a table that cannot be read, or a guard, makes it give up.
IngestPool(table) ==
  LET rows == table.rows \o PoolRows IN
  IF Pool # {} /\ table.state # "torn" /\ Len(rows) >= table.jobs
  THEN Table(rows) ELSE table

-----------------------------------------------------------------------------
Init ==
  /\ disk = [p \in Places |-> IF p = Base THEN IngestPool(Absent) ELSE Absent]
  /\ config = [k \in Copies |-> [NoOracles EXCEPT !["base"] =
                                   IF k = "live" THEN Declared ELSE NoOracle]]
  /\ registered = {<<"base", Declared>>}
  /\ environ = "live"
  /\ campaign = [c \in Campaigns |-> Off]
  /\ agentCopy = NoCopy
  /\ registrar = [t \in Registrars |-> NoCall]
  /\ gate = [g \in Gates |-> NoGate]
  /\ evals = 0 /\ troubles = 0
  /\ acked = {} /\ excused = {} /\ superseded = {} /\ unreplaced = {}

\* A script of delegation d calls get_evaluator(s).
Launch(c, d, s) ==
  /\ campaign[c].pc = "off"
  /\ HasOracle("live", s)
  /\ campaign' = [campaign EXCEPT ![c] =
       [Off EXCEPT !.pc = "idle", !.by = d, !.at = StoreDir("live", s),
          !.oracle = EffectiveOracle("live", s), !.scope = DedupScope]]
  /\ UNCHANGED <<disk, config, environ, agentCopy, registrar, gate,
                 counters, ledgered, registered>>

Sample(c, x) == [by |-> campaign[c].by, design |-> x, oracle |-> campaign[c].oracle]

\* execute: the oracle answered, the sample is buffered and the buffer is full.
\* supersede queues the design for replacement before it asks the oracle, and
\* leaves it queued when the oracle raises.
Answers(c, x, keys) ==
  /\ campaign' = [campaign EXCEPT ![c] =
       [campaign[c] EXCEPT !.keys = @ \cup keys, !.raised = @ \ {x},
          !.pc = "flushing", !.buffer = Append(@, Sample(c, x))]]
  /\ evals' = evals + 1
  /\ UNCHANGED troubles

Raises(c, x) ==
  /\ troubles < MaxTroubles
  /\ troubles' = troubles + 1
  /\ campaign' = [campaign EXCEPT ![c] =
       [campaign[c] EXCEPT !.keys = @ \cup {x},
          !.raised = @ \cup ({x} \ DesignsOf(campaign[c].buffer))]]
  /\ UNCHANGED evals

Execute(c, x) ==
  /\ campaign[c].pc = "idle" /\ evals < MaxEvals
  /\ (\E keys \in {{}, {x}} : Answers(c, x, keys)) \/ Raises(c, x)
  /\ UNCHANGED <<disk, config, environ, agentCopy, registrar, gate,
                 ledgered, registered>>

\* Inside the lock: read, drop what is superseded, drop duplicates, merge.
\* A torn table makes the read raise; an absent or empty one is fresh.
BeginFlush(c) ==
  LET p == campaign[c].at
      canon == Superseded(disk[p].rows, campaign[c].keys)
      fresh == DropDuplicates(campaign[c].buffer,
                 Seen(canon, campaign[c].by, campaign[c].scope))
  IN
  /\ campaign[c].pc = "flushing" /\ Unlocked(p)
  /\ \/ /\ disk[p].state = "torn"
        /\ campaign' = [campaign EXCEPT ![c].pc = "idle"]
        /\ UNCHANGED ledgered
     \/ /\ disk[p].state # "torn" /\ fresh = <<>>
        /\ campaign' = [campaign EXCEPT ![c].pc = "idle",
                          ![c].buffer = <<>>, ![c].keys = {}, ![c].raised = {}]
        /\ Acknowledges(c, superseded, unreplaced)
     \/ /\ disk[p].state # "torn" /\ fresh # <<>>
        /\ campaign' = [campaign EXCEPT ![c].pc = "storing",
                          ![c].buffer = fresh, ![c].merged = canon \o fresh]
        /\ UNCHANGED ledgered
  /\ UNCHANGED <<disk, config, environ, agentCopy, registrar, gate,
                 counters, registered>>

\* The merged table is stored and the lock released, or the guard refuses it
\* and the samples stay buffered.
StoreMerged(c) ==
  LET p == campaign[c].at
      rows == campaign[c].merged
  IN
  /\ campaign[c].pc = "storing"
  /\ \/ /\ Guarded(p, rows)
        /\ disk' = [disk EXCEPT ![p] = Table(rows)]
        /\ campaign' = [campaign EXCEPT ![c].pc = "idle", ![c].buffer = <<>>,
                          ![c].keys = {}, ![c].raised = {}, ![c].merged = <<>>]
        /\ Acknowledges(c, Dropped(c), Deleted(c))
     \/ /\ ~Guarded(p, rows)
        /\ campaign' = [campaign EXCEPT ![c].pc = "idle", ![c].merged = <<>>]
        /\ UNCHANGED <<disk, ledgered>>
  /\ UNCHANGED <<config, environ, agentCopy, registrar, gate,
                 counters, registered>>

\* A store is cut short, by an error or with its process: the files are as
\* they were, or, when the guards let it write, already written, or output.csv
\* is empty or half there.
CutShort(c) ==
  LET p == campaign[c].at
      written == Table(campaign[c].merged)
  IN
  /\ campaign[c].pc = "storing" /\ troubles < MaxTroubles
  /\ troubles' = troubles + 1
  /\ \/ UNCHANGED <<disk, excused, superseded, unreplaced>>
     \/ /\ Guarded(p, written.rows)
        /\ disk' = [disk EXCEPT ![p] = written]
        /\ superseded' = Dropped(c) /\ unreplaced' = Deleted(c)
        /\ UNCHANGED excused
     \/ /\ Guarded(p, written.rows)
        /\ \E state \in {"empty", "torn"}, jobs \in {disk[p].jobs, written.jobs} :
             disk' = [disk EXCEPT ![p] = Damaged(state, jobs)]
        /\ excused' = excused \cup AckedAt(p)
        /\ UNCHANGED <<superseded, unreplaced>>
  /\ campaign' \in {[campaign EXCEPT ![c] = Off],
                    [campaign EXCEPT ![c].pc = "idle", ![c].merged = <<>>]}
  /\ UNCHANGED <<config, environ, agentCopy, registrar, gate, evals,
                 acked, registered>>

\* The script ends, or the memory governor or KillShell ends it: what is
\* still buffered is gone with it.
Ends(c) ==
  /\ campaign[c].pc \in {"idle", "flushing"}
  /\ campaign' = [campaign EXCEPT ![c] = Off]
  /\ UNCHANGED <<disk, config, environ, agentCopy, registrar, gate,
                 counters, ledgered, registered>>

-----------------------------------------------------------------------------
(* An agent that loads a table and stores it back, with a row of its own   *)
(* or without, takes no lock: only the guards stand in its way.            *)

AgentLoad(p) ==
  /\ AgentStores /\ agentCopy = NoCopy /\ p[1] = "live" /\ disk[p].rows # <<>>
  /\ troubles < MaxTroubles
  /\ troubles' = troubles + 1
  /\ agentCopy' = [at |-> p, rows |-> disk[p].rows]
  /\ UNCHANGED <<disk, config, environ, campaign, registrar, gate,
                 evals, ledgered, registered>>

AgentStore(own) ==
  LET p == agentCopy.at
      rows == agentCopy.rows \o own
  IN
  /\ agentCopy # NoCopy /\ evals + Len(own) <= MaxEvals /\ Guarded(p, rows)
  /\ evals' = evals + Len(own)
  /\ disk' = [disk EXCEPT ![p] = Table(rows)]
  /\ excused' = excused \cup {a \in AckedAt(p) : ~Covers(rows, a)}
  /\ agentCopy' = NoCopy
  /\ UNCHANGED <<config, environ, campaign, registrar, gate,
                 troubles, acked, superseded, unreplaced, registered>>

-----------------------------------------------------------------------------
(* register_evaluator_entrypoint reads run_config.json, edits what it read *)
(* and replaces the file; nothing keeps two registrations apart.           *)

\* What a datagenerator delegation may leave in registration.json: an oracle,
\* for the namespace it worked in or one it names.
Manifests == Stores \X Generators

RegisterRead(t) ==
  /\ registrar[t].pc = "idle"
  /\ registrar' = [registrar EXCEPT ![t] = [pc |-> "read", read |-> config["live"]]]
  /\ UNCHANGED <<disk, config, environ, campaign, agentCopy, gate,
                 counters, ledgered, registered>>

RegisterWrite(t, s, o) ==
  /\ registrar[t].pc = "read"
  /\ config' = [config EXCEPT !["live"] = [registrar[t].read EXCEPT ![s] = o]]
  /\ registered' = registered \cup {<<s, o>>}
  /\ registrar' = [registrar EXCEPT ![t] = NoCall]
  /\ UNCHANGED <<disk, environ, campaign, agentCopy, gate,
                 counters, ledgered>>

-----------------------------------------------------------------------------
(* The ledger's count decides what a finished delegation is recorded with: *)
(* one that claims evaluations and has no row in any store is off-ledger.  *)

StampedRows(d) ==
  UNION {{r \in ToSet(disk[<<"live", s>>].rows) : r.by = d} : s \in Stores}

OffLedger(d) == StampedRows(d) = {}

-----------------------------------------------------------------------------
(* The reproduction gate.  Two tool calls may run it at the same time.     *)

\* A store without rows is not worth replaying.
GateStart(g) ==
  /\ gate[g].pc = "idle" /\ troubles < MaxTroubles
  /\ \E s \in Stores : disk[<<"live", s>>].rows # <<>>
  /\ troubles' = troubles + 1
  /\ gate' = [gate EXCEPT ![g] = [NoGate EXCEPT !.pc = "copying"]]
  /\ UNCHANGED <<disk, config, environ, campaign, agentCopy, registrar,
                 evals, ledgered, registered>>

\* The sandbox: a copy of the tables and of run_config.json.
Copied(g) ==
  /\ disk' = [p \in Places |-> IF p[1] = g THEN disk[<<"live", p[2]>>] ELSE disk[p]]
  /\ config' = [config EXCEPT ![g] = config["live"]]

\* The notebook runs with os.environ of the whole process pointed at it.
Patched(g, pc) ==
  /\ gate' = [gate EXCEPT ![g] = [pc |-> pc, saved |-> environ]]
  /\ environ' = g

GateCopy(g) ==
  /\ gate[g].pc = "copying"
  /\ Copied(g)
  /\ Patched(g, "running")
  /\ UNCHANGED <<campaign, agentCopy, registrar, counters, ledgered,
                 registered>>

\* RunScratch runs a snippet and RunPipelineCell the notebook, up to a cell,
\* against a copy, rows or none; the snippet in a process of its own.  They
\* leave lock_path alone: their flushes wait for those of the live base store.
RunScratch(g) ==
  /\ gate[g].pc = "idle" /\ troubles < MaxTroubles
  /\ troubles' = troubles + 1
  /\ Copied(g)
  /\ gate' = [gate EXCEPT ![g] = [NoGate EXCEPT !.pc = "scratch"]]
  /\ UNCHANGED <<environ, campaign, agentCopy, registrar, evals,
                 ledgered, registered>>

RunPipelineCell(g) ==
  /\ gate[g].pc = "idle" /\ troubles < MaxTroubles
  /\ troubles' = troubles + 1
  /\ Copied(g)
  /\ Patched(g, "cell")
  /\ UNCHANGED <<campaign, agentCopy, registrar, evals,
                 ledgered, registered>>

\* The notebook evaluates a design through get_evaluator(s).
GateEvaluate(g, s, x) ==
  LET p == StoreDir(g, s)
      row == [by |-> ReplayId, design |-> x, oracle |-> EffectiveOracle(g, s)]
      fresh == DropDuplicates(<<row>>, Seen(disk[p].rows, ReplayId, "all"))
      rows == disk[p].rows \o fresh
  IN
  /\ gate[g].pc \in Executing /\ HasOracle(g, s)
  /\ evals < MaxEvals
  /\ gate[g].pc # "running" => Unlocked(Base)
  /\ Unlocked(p) /\ disk[p].state # "torn" /\ fresh # <<>> /\ Guarded(p, rows)
  /\ evals' = evals + 1
  /\ disk' = [disk EXCEPT ![p] = Table(rows)]
  /\ UNCHANGED <<config, environ, campaign, agentCopy, registrar, gate,
                 troubles, ledgered, registered>>

\* The notebook ended, failed or was cut off after its time: the environment
\* is put back and the sandbox removed.
GateEnd(g) ==
  /\ gate[g].pc \in Executing
  /\ environ' = IF gate[g].pc = "scratch" THEN environ ELSE gate[g].saved
  /\ gate' = [gate EXCEPT ![g] = NoGate]
  /\ disk' = [p \in Places |-> IF p[1] = g THEN Absent ELSE disk[p]]
  /\ config' = [config EXCEPT ![g] = NoOracles]
  /\ UNCHANGED <<campaign, agentCopy, registrar, counters, ledgered,
                 registered>>

-----------------------------------------------------------------------------
(* Resuming runs _init_canonical_store and _ingest_pool again.  Scripts    *)
(* that outlived the dead run go on.  run_config.json is written in place, *)
(* so a kill may have left it unreadable: it then counts as empty.         *)

Resume ==
  /\ troubles < MaxTroubles /\ Unlocked(Base)
  /\ troubles' = troubles + 1
  /\ \E oracles \in {config["live"], [NoOracles EXCEPT !["base"] = Declared]} :
       config' = [k \in Copies |-> IF k = "live" THEN oracles ELSE NoOracles]
  /\ disk' = [p \in Places |->
       IF p = Base THEN IngestPool(disk[p])
       ELSE IF p[1] = "live" THEN disk[p] ELSE Absent]
  /\ environ' = "live"
  /\ agentCopy' = NoCopy
  /\ registrar' = [t \in Registrars |-> NoCall]
  /\ gate' = [g \in Gates |-> NoGate]
  /\ UNCHANGED <<campaign, evals, ledgered, registered>>

Next ==
  \/ \E c \in Campaigns :
       \/ \E d \in Ids, s \in Stores : Launch(c, d, s)
       \/ \E x \in Designs : Execute(c, x)
       \/ BeginFlush(c)
       \/ StoreMerged(c)
       \/ CutShort(c)
       \/ Ends(c)
  \/ \E s \in Stores : AgentLoad(<<"live", s>>)
  \/ AgentStore(<<>>)
  \/ \E x \in Designs :
       AgentStore(<<[by |-> Nobody, design |-> x, oracle |-> NoOracle]>>)
  \/ \E t \in Registrars :
       \/ RegisterRead(t)
       \/ \E m \in Manifests : RegisterWrite(t, m[1], m[2])
  \/ \E g \in Gates :
       \/ GateStart(g)
       \/ GateCopy(g)
       \/ RunScratch(g)
       \/ RunPipelineCell(g)
       \/ \E s \in Stores, x \in Designs : GateEvaluate(g, s, x)
       \/ GateEnd(g)
  \/ Resume

Spec == Init /\ [][Next]_vars

-----------------------------------------------------------------------------
\* A delegation never pays for a design twice: whatever processes it runs at
\* once, restarts or retries, a table has at most one row of it per design
\* (dedup-on-write in _flush; pool rows are appended again by every resume).
AtMostOnce ==
  \A p \in Places : \A i, j \in DOMAIN disk[p].rows :
    LET r == disk[p].rows[i]
        q == disk[p].rows[j]
    IN r.by = q.by /\ r.design = q.design /\ r.by \in Ids \cup {ReplayId} => i = j

\* What a flush acknowledged stays in the table, under concurrent flushes,
\* replays and resumes, until its file is damaged or an agent's own store()
\* replaces it (_flush, the guards of store()), or until it is superseded: then
\* there is still a row of its design ("REPLACE its existing FINISHED ledger
\* row(s)"), unless the oracle raised.  Such a supersede has no row to put in
\* the place of what the next flush of its process drops, because the key it
\* queued is not taken back (supersede): the acknowledged row is deleted.  And
\* whatever table it is in, the delegation of what stays is not taken for one
\* that went round the ledger (_reconcile_delegation_evals).
Stays(a) ==
  /\ Covers(disk[a.at].rows, a)
  /\ a.by \in Ids => ~OffLedger(a.by)

Replaced(a) ==
  /\ a \in superseded
  /\ a.design \in DesignsOf(disk[a.at].rows) \/ a \in unreplaced

AckedKept == \A a \in acked \ excused : Stays(a) \/ Replaced(a)

\* A value in a table was computed by an oracle registered for that table: no
\* base oracle leaks into a namespace (_effective_oracle_config takes the
\* oracle of a namespace wholesale).
NoOracleLeak ==
  \A p \in Places : \A r \in ToSet(disk[p].rows) :
    r.by \notin {PoolId, Nobody} => <<p[2], r.oracle>> \in registered

\* Replaying what is already measured adds nothing: a row of the replay is
\* new only for a design that its table did not have (F3DASM_DEDUP_SCOPE=all).
ReplayAddsNothing ==
  [][\A p \in Places : \A i \in DOMAIN disk'[p].rows \ DOMAIN disk[p].rows :
       disk'[p].rows[i].by = ReplayId /\ disk[p].state = "ok"
         => disk'[p].rows[i].design \notin DesignsOf(disk[p].rows)]_disk

=============================================================================
