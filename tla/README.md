# a3dasm: TLA+ models of the run

a3dasm runs a *graph of language-model agents* over a design study.  An
orchestrating node (the "strategizer") plans, dispatches work to worker nodes,
consults a critic, writes a notebook and closes the run.  The agents decide
*what* to do; the runtime decides what they are allowed to do, what is put on
record and when it is over.  The runtime is what is modelled here: the agents
are nondeterministic.

All paths below are relative to `src/a3dasm/_src/` of the repository.

## 1. Inventory

| Component | State | Operations | Properties that make it correct | Module |
|---|---|---|---|---|
| **Delegation lifecycle** `nodes/tools/routing/delegation.py`, `nodes/orchestration.py`, `nodes/lifecycle.py` | the registry (id → status, read/cancel flags), worker threads, the two-shot and attempt counters, the route of the turn | Delegate, Wait, Wait(id), GetStatus, CancelDelegation, Reply, Done; the worker's FollowUp and its two ends; turn reset, re-prompts, ghost flush, halts | what a reader of the registry sees finished is on disk; nothing live is forgotten; no ghost `RUNNING` row survives a close; waits return | `Delegation` |
| **Delegation log** `infra/delegation_log.py` | `debug/delegation_log.jsonl` | next_id, record_started, record, mark_attempt, query | last row wins, ids are never reissued, a torn line costs one record | `DelegationLog` |
| **Operator channel** `infra/operator_channel.py`, `viewer/app.py` | one JSON file per question, a lock file, a heartbeat | ask, answer, close, watch | an answer acted on is the answer on record; every question comes back | `OperatorChannel` |
| **Closing** `nodes/tools/routing/feedback.py`, `nodes/reproduction_gate.py`, `runtime/agent_runtime.py` | gate counters, the parked conclusion, the route, `run_status.json` | the seven steps of Done, the router, halt, crash, finalize | GATED is earned; gates give way; the critic cannot be worn down | `RunClosure` |
| **Life of a run** `runtime/agent_runtime.py`, `runtime/run_setup.py` | run directory: snapshot, anchor, thread id, checkpoint, status; the study's notebook and its archive | start fresh, resume, refuse, replay, halt, finalize; kills | budgets are the run's, refusals are right, the agent knows its statement, notebooks are kept | `RunLife` |
| **Science monitor** `epistemics/science_monitor.py` | baseline, counter, cap and cooldown per delegation | evaluate, from tool calls, Wait and ending workers | a duplicate is held against a delegation once | `ScienceMonitor` |
| **Evaluation store** `evaluation/instrumented.py`, `_f3dasm_compat.py`, `oracle_resolution.py`, `runtime/run_setup.py` | an experiment table per namespace, buffers per process, `run_config.json`, `os.environ` | execute, supersede, flush (read-merge-write under a file lock), store() with guards, registration, replay in a sandbox | no evaluation lost or counted twice, the right oracle, a replay adds nothing | `EvalStore` |
| **Notebook tools** `nodes/tools/routing/notebook.py` | `pipeline.ipynb`, revisions the agent has seen | add, edit, delete, explain, check, clear | the notebook is what the tools said; canonical order | `Notebook` |
| **Hypothesis and milestone ledgers** `epistemics/*_ledger.py`, `milestones.py`, `routing/ledger.py` | two JSON files | propose, update with evidence checks, link, judge; propose, complete, skip, auto-satisfy, the gate of Delegate | a verdict rests on finished work; what was acknowledged is in the file | `Ledgers` |
| **Literature providers** `literature/http_client.py`, `agents/literature_tools/` | last request per domain, breaker, cache, provider locks, background searches | the six tools, CollectSearches | at most the permitted rate, breaker honoured, no call hangs | `LiteratureHttp`, `Literature` |
| **Literature corpus** `literature/literature_corpus.py`, `embedder.py` | index, chunks, embeddings, paper texts | CorpusAdd, search, page | what was added is found; dense search pairs chunks with their vectors | `LiteratureCorpus` |
| **Model backends** `backends/*.py` | the shared adapter of a role, its closures, lock and usage; shells | invoke, retry, corrective round, copy; Bash, BashOutput, KillShell | a worker has its own tools and bill; commands stay reachable | `Adapter`, `Shells` |
| **Mail** `delegation.py`, `orchestration.py`, `infra/operator_channel.py` | inbox per name, queue per delegation, operator notes | Confer, drain, GetStatus, queue_note, drain_note_rows | a message to a name is not lost; a note is handed over once | `Mailbox` |
| **Model server** `infra/slurm_llm.py`, `watchdog_cleanup.py` | job, id on disk, published URL | size, submit, wait, publish, tear down, reap | the job is released | `ServeJob` |
| Store queries, workspace commits, viewer, telemetry, containers, prompts and knowledge, mathematics workspace, review | files and external programs | reading, formatting, launching | not modelled (section 8) | |

How they meet.  The strategizer's tool calls and the daemon threads of its
workers share the registry (one lock) and the log (another lock), and the
order in which a thread writes the two decides what the other side can see.  A
worker may park on a question to its caller, who may be waiting for that very
worker.  The workers of a role share one adapter object, whose tool table is
rebound at each dispatch.  Their scripts are processes of their own, which meet
the run and each other in the tables and in `run_config.json`; the reproduction
gate replays the notebook against a copy of both.  Done consults the registry,
the milestone file, the notebook and the critic, each some time before the
close is performed.  The viewer is another process and meets the run only in
files.  A run that stops is resumed by a new process over the same directory,
with new counters and the old notebook.

Hard behaviours: real thread interleaving (tool calls run in parallel under the
OpenAI-compatible backend and one at a time under the Claude backend), steps
separated by minutes (a notebook execution, a critic review, a model server
that loads), 300-second patience racing a late answer, locks that lapse after
five seconds or that readers do not take, files rewritten in place while
others read them, sessions that end in the middle of a write, process-wide
environment variables changed under running code, and gates that must both
refuse and in the end give way.

## 2. Plan

Done: `Delegation`, `DelegationLog` (refining `DelegationRecords`),
`OperatorChannel`, `RunClosure`, `EvalStore`, `Notebook`, `Ledgers`,
`Literature` (over `LiteratureHttp` and `LiteratureCorpus`), `Backends` (over
`Adapter`, `Mailbox`, `Shells` and `ServeJob`), `RunLife` (over
`ScienceMonitor`), and the proofs about `Delegation`, `DelegationLog`,
`RunClosure`, `OperatorChannel`, `RunLife`, `Ledgers`, `Backends`, `EvalStore`,
`Literature` and `Notebook`: every property of the runs but the five of liveness.

Left, most important first:

1. Confer threads between two idle roles, and `Reply` on top of them.
2. The watchdog's idle detection and memory kill, composed with `Shells`.
3. The budget nudge of the strategizer over `EvalStore`'s tables.

One run per component and question.

## 3. Modules and the code

**Delegation.**  One action is one critical section of `_registry_lock` or one
row of the log.  `Delegate`, `DelegateLogs`, `DelegateStarts` are the three
parts of `Delegate()`: the registry entry, the RUNNING row, the thread.
`thread[d]` is the program counter of `WorkerSession.run`: `run`, `parked` (in
FollowUp), `okLog`/`okPublish` (`_finish_ok`: DONE row, then registry),
`errLog`/`errPublish` (`_finish_error`), `ended`.  The tail of `_finish_ok`
after the registry write (harvest, notification) is merged into the publishing
step, and `Given(d)` says that ids the agent uses are ids it was given.
`phase` is the node: between turns, in one, flushing, closed, halted; `Exit`
kills the daemon threads.  `Granted` is the set of opt-in tools: the default
strategizer declares no CancelDelegation, and the runs say which they assume.
`errs` is the streak of failures per target behind the halt on repeated errors.

**DelegationLog / DelegationRecords.**  A line is a record or junk; `torn` says
that the last line has no newline.  Every operation holds `_lock`, so only the
end of the session (or of the disk) cuts one short: `Tear` leaves part of a
line, `MarkAttempt`/`MarkWrites` are the truncation and the rewriting of
`mark_attempt`, and a crash may fall between two of its lines.
`DelegationRecords` is what readers rely on: a table of last records and the
order of their writes as a relation (`before`), which a rewrite that is cut
short truncates; `ImplementsRecords` maps the file through `_load_all`
(`RecordOf`, `OrderOf`).  `Subsequences` holds the one operator this module
and `EvalStore` share: the elements a pass over a list keeps (`Picked`).

**OperatorChannel.**  Askers are FollowUp calls of the run, posters are answers
posted to the viewer; `pc` is the step of each.  Enter/Write is the section of
`answer_question`/`close_question` under `.operator.lock`, which a holder loses
after five seconds (`EnterWithout`).

**RunClosure.**  A Done call is three steps: `Done` (pending check, exit
interview, milestones, first-call warning: short and in one go),
`MustReproduce` (the notebook runs) and `CriticGate` (the critic reviews).
Between them workers report and, under ToolNode, other tool calls run;
`study.backend` says which.  `StartTurn` is `_reset_for_turn`, `Reprompt` and
`TerminateRun` the three endings of `_route_turn`, `Bannered` is `_banner`,
`Halt` is `_halt_resumable`, `Finalize` is `_finalize_run` with
`GateOutcomeFrom` reading the outcome back out of the report, and `Resume` is a
new process: new counters, same notebook and milestones.  A report is its
conclusion and the set of banners above it.  Ghost variables record the
critic's verdicts per conclusion and the number of consults.

**EvalStore.**  `Places` are the tables: the run's and those of each sandbox,
for the base study and each namespace.  A campaign is a process that called
`get_evaluator` (`Launch`); `Execute` is one evaluation, plain or superseding,
`BeginFlush` the read, the dropping of superseded rows and duplicates and the
merge inside the lock, `StoreMerged` the write, `CutShort` an error or a kill
inside it: before the guards nothing is written, after them `output.csv` may be
left empty or half there and `jobs.csv` at either count.  A supersede whose
oracle raises (`Raises`) leaves the key it queued in `campaign.keys`, so the
flush drops the row (`Deleted`) with nothing to put in its place.  `Guarded` are the two
checks of the protected `store()`;
`AgentLoad`/`AgentStore` is an agent that stores a copy it read earlier, which
takes no lock.  `RegisterRead`/`RegisterWrite` is
`register_evaluator_entrypoint`.  `GateStart`/`GateCopy`/`GateEnd` is the
reproduction gate with its patched `os.environ`, `RunPipelineCell` and
`RunScratch` the two debug tools, and `GateEvaluate` what the code under them
evaluates.  `StoreDir` and `EffectiveOracle` are how a namespace resolves its
table and its oracle.  `Resume` runs the set-up again, pool included.

**Notebook.**  A cell is its name (section, and whether it is the section's
explainer) and a text that stands for its rev.  A tool call is a load, an edit
of the map, and a write in two steps (`BeginWrite`, `EndWrite`), because the file is
written in place; `Kill` between the two leaves it empty, which counts as a new
notebook, and two writes that overlap may leave a mixture of both (`Mixed`).
`Slots` has a place for every section and its explainer in the order of `Spine`,
of which `Canonical` are used: an explainer has one only if its section is a
pillar.  `Emit` selects from the slots, then from the other names by where they
were first seen, then the unnamed cells, all with `Picked` of `Subsequences`;
`kept` is what the tools told the agent they wrote.  Raw notebooks are a
constant, any set of lists of cells.

**Ledgers.**  Hypothesis operations hold their lock from load to an atomic
save and are one step; a milestone write begins with
`BeginSave` and ends with `EndSave`, between which readers find the file torn.
An update is split where the code holds no lock: the look at the pending
confirmations (`HypothesisUpdate`, or `AskToConfirm` when none is found), their
use and the check of the citation (`UseConfirmation`), the write
(`LedgerUpdate`), the judge's note minutes later (`AnnotateLast`).  Evidence
cites a delegation, the ground truth, nothing (`None`: the key is absent) or
null (`Null`: it is there); the code asks for the key only, and so does
`Refused`.  `MilestoneGate`, `AutoSatisfy` and `RecordStarted` are the front of
`Delegate`.

**LiteratureHttp, LiteratureCorpus, Literature.**  `LiteratureHttp` is the
request table: pacing (`since`), breaker (`streak`, `cooldown`), retries with
backoff, cache, the look before the sleep and the send after it.
`LiteratureCorpus` is `add` and `append` in the order in which they touch
`index.csv`, the chunk file and the embeddings, and `search` in the order in
which it reads them: the index (`BeginSearch`), the passages under the lock
(`ReadPassages`), then one file of embeddings after the other without it
(`LoadEmbeddings`), and the ranking (`RankPassages`).  `Literature` is the tools on
top: provider locks, background searches with handles, `CollectSearches`,
`DownloadPdf` and `CorpusAdd`; `Kill` ends the process at any step.

**Backends: Crew, Adapter, Mailbox, Shells, ServeJob.**  `Adapter` is the one
object all delegations of a role share, since `copy()` returns `self`: `slot`
is whose closures it holds, `bound` those the running session was built from,
`lock` who is inside `invoke`, `usage` and `nudge` what the next reader is
charged with.  `Mailbox` is Confer in its three steps: the look at the registry
and the two appends.  A note of the operator is opened and then written by the
viewer (`QueueNote`, `WriteNote`), renamed aside (`Drain`), read and unlinked
(`ReadClaim`) and routed (`LookUp`, `RouteNote`) by the run, with nothing to
keep the two apart.  `Shells` is `_BashSession`; a command that exceeds its
time is kept under an id, and `KillShell` drops the id whether or not it could
kill (`escaped`).  `ServeJob` follows the model server from sizing, with what a
study sets in `llm_slurm` and the default where the metadata has no cache
geometry, to the reaper.  `Backends` composes them: what a turn needs to go on, and what the
end of the process takes with it.

**RunLife and ScienceMonitor.**  `process` is the process that drives a run,
and `process.at` the step of `execute` it is in; the files are those of the
study and of each run.  `Kill` may fall anywhere, best-effort writes may fail
(`Faulty`), the statement may be edited between processes.  `EnterFresh`,
`EnterReplay`, `EnterAgain` and `Refuse` are the four ways of `_invoke_graph`.
`checkpoint.whole` says that the conversation began with the initial state: a
run that is killed before its first turn is resumed without one.
`ScienceMonitor` is the duplicate check, split between the read of the stores
and the count under the lock.

`MC*` modules extend their component with the symmetry sets of the runs; the
assumptions on the constants are evaluated there.

## 4. Runs

| Run | What it asks | Size |
|---|---|---|
| `delegation_core` | Two delegations, cancel granted, workers that ask and raise, halt on two failures: log before registry, every end logged, nothing handed out unseen; a bare Wait returns even if nobody answers a parked worker, joins return once patience ends | 2 delegations, 1 target, 1 caller, fair |
| `delegation_production` | The default tools, two parallel tool calls, faulty rows, half-done dispatches: the inductive invariant and no RUNNING row after a close | 2 delegations, 2 callers |
| `delegation_log` | Acknowledged is read, no id reissued, refinement of the table of records, torn lines and rewrites included | 2 ids, 5 lines, 1 crash |
| `operator_channel` | Acted-on is recorded and no two askers share a question, resolved once, every question comes back | 2 askers, 1 poster, failing disk, lapsing lock, fair |
| `run_closure` | The inductive invariant of the closing, consults bounded | both backends, with and without critic, 2 callers, 2 conclusions |
| `run_closure_live` | Halts, crashes, one resume: GATED earned, and an agent that calls Done and stops delegating gets its run closed | Claude backend, any number of dispatches, fair |
| `eval_store` | At most one row per delegation and design; acknowledged rows stay and keep their delegation on the ledger; no oracle leaks; replays add nothing | 2 scripts, 1 id, 1 namespace, 2 designs, a pool, agents that store, 2 evaluations, 2 troubles |
| `notebook` | The notebook is what the tools said; canonical order | 2 pillars, the verdict between them, 1 custom section, 2 texts, raw notebooks out of order and with a name twice, 3 writes, 1 kill |
| `ledgers` | A cited source is finished work, SUPPORTED without an attempt was asked for first; the milestone file is what was acknowledged; the gate asks | 2 callers, 6 tool calls, 1 hypothesis, 1 delegation, 2 namespaces, 1 crash |
| `literature` | Sources spared (pacing and breaker), corpus as told, dense search aligned unless overtaken, every call returns | 2 calls, 1 background search, 1 search of the corpus, 3 domains, 2 papers, 1 kill, fair |
| `backends` | Own tools and bill when alone; mail to a name not lost; a note handed over once; commands reachable; the serve job released | 2 delegations, 1 message, note or shell, 2 attempts |
| `run_life` | Backstop by the run's age and the process's budget, refusals right, statement told, notebooks kept, nudges paid for | 2 runs, 3 processes, 2 statements, 2 budgets, 2 lookers |

What the properties turn on, where it is not plain:

* `AckedKept` excuses what the code really gives up: rows superseded, rows in a
  table a cut write damaged, rows an agent's own `store()` replaced.  Everything
  else that a flush acknowledged stays, and `OffLedger` never takes its
  delegation for one that went round the ledger.  A superseded row may go only
  if a row of its design takes its place; where the oracle of the supersede
  raised, none does (`unreplaced`, section 7).
* `OwnWhenAlone` is about delegations that never overlapped on their role's
  adapter.  For the others it is false (section 7).
* `ResolvedOnce` and the answer half of `ActedOnIsRecorded` hold while no lock
  lapsed; after a lapse two resolutions may both write.
* `BackstopHolds`, `RefusedIsOver` exclude runs whose own record could not be
  written (`spoiled`).  `RefusedIsOver` asks for an accepted Done, not for a
  record that says GATED; a run halted for time has the record without the
  Done, and is refused all the same: it is left out by name (section 7).
* `VerdictHasSource` says what the checks give, which is less than the
  documentation says: a verdict may cite null, and calls that look at one
  confirmation at once all pass on it (section 7).
* `DenseAligned` leaves out the passages of a paper whose embeddings were saved
  by an add that began to append after the search had read them (`overtaken`).
* `NeverStranded` leaves out the notes in `lost`, those deleted with their file
  before they were written or read; `HandedOnce` is about every note.
* `BackgroundIsReachable` leaves out shells a kill failed on; `ReleasedJob` names
  the three cases in which a job is left.
* The sizing of the serve job has no property of its own: what it gets wrong
  (section 7) is a table lookup, and nothing else depends on it.
* `GateAsks` allows the one way round the gate there is: a reader that met the
  file in the middle of a write.
* `ConsultsBounded` is about the one-call-at-a-time backend.

**Bounds, and why they are enough.**  Two delegations are needed for one to be
pruned, flushed, waited for or rebound while the other lives; no rule of the
code compares three.  Two callers, scripts or lookers give every interleaving of
a pair, and every lock, file and counter is used pairwise.  The limits of the
gates (6, 3, 3, 3), of retries, thresholds and cooldowns are constants: the
runs use 1 and 2, which reach "below", "at" and "beyond" each of them.  Two
conclusions are needed to tell "the critic passed something" from "the critic
passed this", two statements to tell an edited one, two designs to tell a new
one from a repeated one.  One namespace beside the base is needed for a leak.
Counters that the code lets grow are stopped one above the limit they are
compared with (`OneMore`).  `MaxEvals`, `MaxTroubles`, `MaxRows`, `MaxClock`,
`MaxProcesses`, `MaxCalls`, `MaxSearches`, `MaxKills`, `MaxCrashes`, `MaxWrites`, `MaxSide`, `MaxMessages`, `MaxShells`, `MaxResumes`, `MaxLines`,
`MaxQuestions` and `MaxDelegations` only bound the state space.  In `EvalStore`
two evaluations and two troubles are shared by whatever happens, so that every
pair of a cut write, a raising oracle, a resume, a replay and a stale copy meets; in `run_life`
the monitor is exercised in the first process only (`Watched`) and best-effort
writes fail for run 1 only (`Faulty`).  In `backends` one message or one
command is in play beside the delegations, because mail, shells and the server
meet only in a turn's end and in the end of the process.

Runs whose system may stop for good (a recorded run, a session ended, bounds
used up) do not check deadlock; `delegation_core` does.

**Fairness.**  Only what runs by itself is fair: worker threads are scheduled,
the runtime's own steps are taken, the notebook runs under a timeout and the
critic under its backend's, a parked worker resumes after 300 seconds, free
locks are taken by those who wait and time passes (`Literature`).  The agent is
never forced to act; where a property needs it, the premise is in the property:
`KeepsCallingDone` and `StopsDelegating` in `DoneCloses` (each dispatch makes the
next Done warn again, and nothing bounds the dispatches), `PatienceEnds` in
`JoinReturns`.
`WaitAnyReturns` needs neither: it holds even if no question is ever answered.
The end of a turn is fair only after an accepted close, where the Claude
backend cuts the stream (`route_watcher`).  A provider lock is taken by one
waiter at a time and each tool call makes finitely many requests, which is why
weak fairness of each thread is enough.

## 5. Proofs

Checked by TLAPS for every number of delegations, targets, callers, askers,
conclusions, runs, processes, statements, lines, hypotheses, milestones,
campaigns, designs, namespaces, sandboxes, messages, shells, cells and tool
calls, and every value of the limits.  Each module proves `Spec => []IndInv` for an invariant that TLC
checked first on the small instances, and its other theorems from it.

**DelegationProofs** (`Spec => []IndInv`).  The safety properties are not
inductive: that a finished entry is logged (`DurableBeforeObservable`) depends
on where the thread was when it wrote the row, and that the flush leaves no
ghost (`NoGhostRow`) on what the agent cancelled.  `IndInv` adds the missing
links: an id not handed out has no thread and no row (`Fresh`), a settled entry
belongs to a thread that has ended (`SettledIsEnded`), a thread has its RUNNING row
(`RowBeforeThread`) and its terminal row before it publishes
(`RowBeforePublish`), each id is dispatched by one call (`OneDispatcher`), calls
live in turns (`CallsInTurn`), a RUNNING row has a live entry, a live thread or
a cancel behind it (`RunningIsAccountedFor`).  One lemma per group of actions:
tools, workers, node.  `ProductionCloses` adds that without CancelDelegation no
RUNNING row survives a close at all.

**RunClosureProofs** (`Spec => []IndInv`).  Two arguments.  *Earned*: GATED is
read off a report long after the critic spoke, so the invariant carries the
debt through every place where a conclusion waits: the one parked for the exit
interview, the one in the route, the one in the report (`EarnedThroughout`);
on the one-call-at-a-time backend it also needs that a Done in progress finds
the close still open (`OneCall`), otherwise a later refusal could overtake an
accepted PASS.  `GatedRunsAreEarned` follows.  *Paid*: the number of consults
is bounded by `ReviseMax * finishAttempts` plus what the current close has used
(`ConsultsArePaid`); a decided close may have used them all, and being reopened
costs an attempt, of which there are `FinishMax`.  `CriticIsNotWornDown`:
at most `ReviseMax * (FinishMax + 1)` consults, 12 with the code's constants.

**ToolsProofs, the operator channel** (`ChannelSpec => []ChannelInv`).  Where
each call is, its question is in a certain condition (`Places`), and a create
takes a name nobody has, so askers are `Apart`.  While no lock has lapsed,
whoever is in the section holds the lock and still sees what it read
(`Section`): so a question that is resolved is written no more
(`ResolvesOnce`), and what was `Returned` stays true (`ActedOnIsOnRecord`).

**ToolsProofs, the corpus** (`Spec => []CorpusInv`, `Spec` of `Literature`).
Passages, embeddings and the index row of a paper are written one after the
other by a call that others race with, so each must be justified before it is
written: `Complete` says that the passages of a call past its append are in the
file, `OneWriter` and `Indexed` that a call that saves still saves a new paper;
`CorpusIsAsTold` follows by counting rows.  For `DenseIsAligned` the rank of a
passage among those of its paper has to be understood (`Ranks`, `RanksStay`):
a paper that is embedded, or is about to be, either has exactly the passages of
that source, in order, or more of them (`Embedded`), whoever appended the rest
and however a kill cut it; more of them is enough for `Dense` to fail.  A line
cut short stays in the file (`Appending`), after which nothing is readable.
That is about the files in one state; a search reads them in several, so
`SearchInv` (`Matched`) says the same of the passages a search has read and of
the embeddings it has loaded or that are about to be saved, unless it was
overtaken, and its own lemmas carry it through every step of an add.

**ToolsProofs, the requests** (`Spec => []PacingInv`, `Spec` of `Literature`).
A thread reads the shared table, sleeps and then sends, so `SourceSpared` is
about what may happen in the sleep.  The time since the last serialized request
and what is left of the wait make up the interval (`Spaced`), unless another
serialized request of the domain is sent: none is, because who fetches for a
provider's tool holds that provider's lock (`HoldsLock`), its request goes to
that tool's domain (`OfItsTool`) and no two providers share one
(`AloneOnDomain`).  A breaker that trips in the sleep is not seen, but only
once: who has sent in a cooldown is past its check and is refused the next
(`Sparing`).  The proof is what made the ghost count per thread *and* domain:
one count per thread was right only for instances so small that no thread meets
two cooldowns.

**RunLifeProofs** (`Spec => []IndInv`).  A process relies on files that an
earlier one left when it was killed, so the invariant is in two layers.  For
every run: a conversation that began with the statement still holds it (`Told`),
a record of GATED is that of the last report unless a process is about to
replace it (`Recorded`), a run that can be resumed has the anchor it was born
with (`Anchors`).  For the process at each step: what it holds of them in memory
(`Following`, `Timed`).  `RefusedRunsAreOver`, `StatementsAreTold` and
`BackstopIsTheRuns` follow.  `Counted` is the monitor's account: what is held
against a delegation was counted, and what was counted is in the stores; the
late count of an old look is harmless because a baseline only rises
(`NudgesArePaidFor`).  `NotebooksAreKept` needs only that run directories are
numbered in order.

**FilesProofs, the log** (`Spec` of `DelegationLog`).  What reading the log means is proved first, without
induction over it: `Nth` is the rank of a place among the places chosen, a
bijection by counting (the pigeonhole lemma of the library), so `Picked` keeps
the order of the lines and a collapsed log has one record per id, that of its
last line, in the order of those lines.  The invariant adds to `AckedIsRead`
that a rewrite holds each id once (`Rewriting`), that the id of a torn line has
no attempt on record (`Torn`), that an attempt on record was acknowledged
(`AttemptsAcked`) and that no id on record is beyond the last one handed out
(`WithinSeq`).
`IdsAreNotReissued` follows.  `LogImplementsRecords` goes through the
operations: each append, repair, rewritten line, tear and session is one step
of `DelegationRecords` or none; in a rewrite only the truncation and the crash
are visible.

**FilesProofs, the notebook** (`NotebookSpec`).  It is here because it rests on
the same lemmas: `PickedIs` says of any selection what is in it and in which
order.  From it follow what a delete leaves (`RemainingIs`), that the listed
names come by their slots and the custom ones once each (`ListedIs`,
`CustomIs`), and so what `Emit` returns (`Emitted`): the names of the old cells
and of the new ones, each once, with the new text where there is one; in order;
as many unnamed cells as before.  `NotebookIsInOrder` needs nothing else than
the types, so it holds for any number of calls at once, of whatever overlap.
`NotebookIsAsTold` needs more and holds for less: it assumes `OneCall`, that
all calls are one, as under the Claude backend, because two that overlap lose
cells (section 7).  The invariant adds to it that a call in progress holds
the cells the agent was told of while the file is empty (`HeldCells`); a raw
write, a delete and an emission each write what they tell (`WrittenAsTold`), and
a kill in the middle gives up both sides.  The attempt corrected the model in
four places: narrative sections and pillars alternate in the code's order (the
verdict comes before the analysis), a section that is no pillar may also get an
explainer, a pillar's code and explainer can be edited in one call, and two
writes at once may leave neither.

**LedgersProofs.**  A citation that was checked is entered later, so `Sourced`
speaks of both and rests on DONE rows staying DONE.  One confirmation asked for
lets each caller through at most once: `Counted` adds up, per hypothesis, the
entries made without an attempt, the calls that used a confirmation and those
that may still use the present one, and no step raises the sum beyond a number
of callers for each time it was asked for.  The milestone file is torn exactly while one call is saving
(`OneSaver`), and what that call saves is what was told.

**BackendsProofs.**  The four parts share no variable, so each has its own
invariant and a step of the composite is one of them with the others still, or
the end of the process.  A delegation that never overlapped is the only live
one, so the shared object is about it whenever its thread reads it (`AloneAt`).
Mail under way carries its address (`Addressed`).  A note is in the file, in one
claim, under way to one reader, shown or lost, and nowhere twice: claims are
disjoint because a rename leaves nothing behind (`NotesAreHandedOnce`).  A job
that is alive is known to whoever ends the run: by its file before the graph, by
its id after (`Held`).

**EvalStoreProofs.**  Lists of rows become tables in many ways (merged under
the lock, loaded by an agent, copied into a sandbox, extended by the pool), so
the invariant says the same of each of them: `Sound`, no design twice for one
delegation and every value by a registered oracle.  `Merging` is what makes the
lock matter: a campaign inside it is about to write a list that covers every
acknowledged evaluation it does not supersede, and as nobody else can flush to
that table, none is acknowledged in the meantime; agents can write to it, but
only take rows away that are excused.  That a write is then never smaller than
what `jobs.csv` marks (`Guarded`) gives `Marked`: what a list holds of replays
is in the table already, which `ReplaysAddNothing` needs.  `Covered` with
`Live` places gives that no delegation with an acknowledged row is off the
ledger.  The attempt corrected the model once: it had let a write that the
guards refuse be cut short half-way; the guards come before the first byte
(`_f3dasm_compat.py`), and `CutShort` now says so.

The assumptions are those named in the modules: limits are naturals,
`ReviseMax`, `MaxAttempts` and the sizes of cards are not zero, at least one
target, finitely many callers and pool designs, hazards from the listed sets,
the marks a writer may bear (`Nobody`, `PoolId`, `ReplayId`) are not delegations,
"base" is no namespace and "live" no sandbox, an oracle that is declared has a
name, "reply" is not a conclusion, the marker of a missing statement is not a
statement, processes are not the words a call returns, defaults are not
proposed milestones, tool calls are threads that may add papers, none is called
"nobody" or "free", the tools in use ask domains of the table, no canonical
section is listed twice or is also a custom one, and raw notebooks are lists of
cells.  `OneCall` of `FilesProofs` (all tool calls are one and the same) is the
only hypothesis beside them.

Only model-checked: liveness (`WaitAnyReturns`, `JoinReturns`, `AskReturns`,
`DoneCloses`, `CallsReturn`), which the prover cannot conclude from fairness.
`Backends`, `Delegation`, `DelegationLog` and
`RunClosure` define `TypeOK`, `OperatorChannel` `ChannelTypeOK`; the types of
`Ledgers`, `EvalStore`, `RunLife`, `Literature` and `Notebook` are in their proof
modules, where they are proved.
The other modules spell their variables' values out beside the declarations.

## 6. What the models leave out

Texts, prompts, costs and counts of tokens; the contents of reports beyond
their banners; what the reproduction gate finds inside a notebook (it is
absent, broken or good); `oracle_gold_state`, a milestone of the same kind as
`craft_pipeline`; more than one delegation in flight in `RunClosure`; buffers
that flush less often than at each evaluation; oracles that answer differently
twice; the wording of what a judge, a critic or a monitor says; the text that
is extracted from a PDF and how a search scores it; the other two checks of the
science monitor, which keep no state.

## 7. Known divergences

Met while reading and modelling.  The models follow the code.

*Delegation*

* "Nothing closes while a delegation is still in flight" (`feedback.py:125`):
  Done counts only Working entries (`orchestration.py:202`), so it closes over
  a delegation parked on a question.
* A delegation resumed from a FollowUp sets its status to Working over a
  cancellation (`delegation.py:300`); `_finish_error` replaces Cancelled by
  Errored (`:821`); a cancel between the two sections of `_finish_ok`
  (`:601`, `:643`) is overwritten by Done and its deliverable handed out.
* The ghost flush may append INTERRUPTED after a DONE row whose publication is
  still under way (`orchestration.py:947`).
* The prune drops entries whose threads still run; a cancelled worker then
  meets a KeyError and records FAILED (`delegation.py:602`,
  `orchestration.py:638`).  It also drops Errored reports nobody read, after
  which a bare Wait says nothing is unread.
* A bare Wait hands a report out again that GetStatus has shown (`:1819`); it
  waits for good on a dispatch that failed half way (`:1118`, `:1844`);
  Wait(id) joins a worker that is parked on the caller until the patience of
  300 seconds ends (`:1895`).
* A cancelled row whose thread is still running stays RUNNING after the close
  (`orchestration.py:951`).
* `_ask_count` is read when a call starts and incremented when it waits:
  parallel calls overshoot the limit (`:1976`); it is per turn although its
  message says per run.  `followup_question` is written and never read.

*Log and operator channel*

* `delegation_log.py:39-42` says a resume never restarts the ids: a session that
  ends while `mark_attempt` rewrites the file (mode "w") loses the records not
  yet written, and the next one may hand out D001 again.
* A line cut short swallows the record appended after it (`delegation_log.py:184`).
* An answer that lands between the asker's last look and `close_question` is
  recorded and its operator told "ok", but the agent never sees it
  (`delegation.py:2115`, `operator_channel.py:229-231`, `:262-263`).
* "Either makes it into this batch or stays in a fresh file" (of a note,
  `operator_channel.py:299-301`): `queue_note` opens the file (`:288`) and then
  writes (`:289`), and a line written through the old handle after the claim was
  read (`:318`) is deleted with it (`:323`) although the viewer answered ok.  An
  OSError in that read (`:319-320`) deletes the whole batch.

*Closing*

* A halted run is recorded GATED (`agent_runtime.py:95`), which
  `docs/how-a-run-is-kept-honest.md:148` reserves for runs whose every check
  passed.  It is meant to be resumable ("raise budget + resume",
  `lifecycle.py:23-31`, `:166-167`), and only an accepted Done is not worth
  resuming (`agent_runtime.py:800-803`), but the resume goes by the record and
  is refused.
* Every dispatch clears `_done_warned` (`delegation.py:1181`): an agent that
  delegates between any two calls of Done gets the first-call warning for ever,
  although the second call is to close (`feedback.py:103-105`).
* A notebook rewritten between the PASS and the exit interview is delivered as
  GATED without having been executed (`feedback.py:165`,
  `docs/reading-a-run.md:23`).
* UNGATED and FAILED are announced as final, but a missing required deliverable
  reopens the close (`orchestration.py:820`).  "Failed on all n attempts"
  (`feedback.py:313`) counts failures between which others passed.
* A run whose turns end after a PASS but before the exit interview is bannered
  as not having passed the critic (`orchestration.py:924`).
* Under the OpenAI-compatible backend a second Done may be refused after the
  first was accepted, and consults are not bounded.
* A study without a critic is recorded GATED.  The outcome is a substring match
  on the report: a conclusion that quotes "NOT validated" is recorded UNGATED.

*Evaluation store*

* The gate's replay of a namespace writes rows stamped D999 into the live store:
  a namespace block carries its own `store_dir`, and only that of the base is
  redirected (`reproduction_gate.py:181`, `:201`, `notebook_exec.py:90`); so does
  scratch code, whose sandbox says it cannot touch the real ledger.
* A supersede whose oracle raised leaves the design queued
  (`instrumented.py:428-430`): the next flush deletes the acknowledged row with
  nothing in its place, where the docstring (`:418-427`) promises to replace it.
  A supersede after a failed flush keeps the stale sample in the buffer.  A
  supersede of a design that two delegations measured makes the guard raise at
  every later flush.
* A stale agent copy with as many rows as the table passes the guard.  An empty
  output.csv beside an intact jobs.csv is never healed; a torn one makes every
  flush raise.
* Overlapping gates leave `os.environ` patched for good; a flush between the
  gate's snapshot and its copy can make a lazy notebook fail.
* Two registrations at once lose one; `run_config.json` is written in place, and
  a kill then loses every registered oracle.  Pool rows are appended again at
  each resume.  The reconciliation reads the stores twice without a lock, and
  the budget nudge counts pool and unstamped rows.
* `RunStateSummary.from_store` caches by mtime: a table parsed half-written is
  served until the next write.

*Notebook and ledgers*

* A full-field edit or delete overwrites the explainer under the code cell's rev
  (`notebook.py:100`).  A file torn by a kill silently becomes a new notebook;
  parallel calls lose cells; the budget of checks starts anew on resume.
  A section that is no pillar but has a place (the verdict), added as a pipeline
  cell, is not "preceded by its WHY-explainer" (`notebook.py:403`): that one goes
  to the end.
* Linking a delegation to one hypothesis makes it an attempt on every hypothesis
  it was filed under (`delegation_log.py:243`, `:258`).  After a resume a
  delegation finished before cannot be linked.
* A closing verdict must cite a delegation
  (`docs/how-a-run-is-kept-honest.md:35-44`), but `{"delegation": null}` closes a
  hypothesis, and reopens a FALSIFIED one: `hypothesis_ledger.py:278-286` tests
  that the key is there and `ledger.py:198-203` lets None through.
* A FALSIFIED hypothesis can be reopened with the delegation already cited, or
  through INCONCLUSIVE and OPEN without evidence.  The docstring of
  HypothesisUpdate says SUPPORTED "requires" an attempt; the code asks twice, and
  of two parallel calls the second passes before the first question is seen.
  The pending confirmation is tested and then discarded without a lock
  (`ledger.py:154-172`), so parallel calls may all pass on one.
  The attempt may be older than the hypothesis.  The judge's note may land on a
  newer entry.
* `milestones.py` calls its gate HARD; in Delegate it is a nudge, and a torn read
  opens it unasked.  A milestone file torn by a kill loses what the agent
  proposed and reopens the defaults.

*Literature*

* The cache keeps a PDF as text: a second DownloadPdf within 24 hours saves a
  corrupt one.  A PDF without text, or a concurrent add, overwrites the text of
  a paper that is listed as full.
* Author details, and citations and references, hold no provider lock, and the
  locks are per delegation.  The cooldown is not looked at again after the
  pacing sleep, and its end does not reset the count.  CollectSearches forgets
  a handle after 600 seconds.
* A kill in mid-append leaves a cut line that makes every later search raise; a
  csv cut short loses rows; duplicated or orphaned chunks disable dense search.
* A search reads the passages under the lock (`literature_corpus.py:358`) and the
  embeddings after it (`:364-367`): when an add from another source appends and
  saves in between, old passages are ranked by the vectors of the new ones.

*Backends, mail, hosting*

* "Each delegation gets its OWN adapter copy" (`delegation.py:1152`): `copy()`
  returns self, so overlapping delegations run with each other's ReportEvals,
  sandbox and mail.  A retry runs a turn again that was not idempotent; a failed
  invoke is charged with the usage of the previous delegation; the corrective
  round loses that of the first.
* BashOutput reads before it polls (the last output of a command that exits
  between is not shown), and parallel calls show output twice.  `_run_async_safe`
  loses the namespace and the oracle flag on a nested hop.  With parallel tools
  the first message re-arms the idle window while others run.
* Confer to a delegation that is not live says "Queued" and stores nothing.  A
  message between the look at the registry and the append is stranded in the
  queue of a delegation that ended.  GetStatus drains the worker's queue.
  Confer to a live role is shown twice.
* KillShell drops the id and reports "killed" whether or not the kill succeeded
  (`openai_compatible.py:339-351`); a command that survived runs on out of reach.
* "Torn down in the finally on EVERY exit path" (`agent_runtime.py:727-731`): a
  serve job is leaked when the start fails, or when the process dies between
  sbatch and the write of its id; a resume overwrites that file; scancel's result
  is not looked at; a server that dies while loading is noticed at the timeout.
* "Never a silent mis-size" (`slurm_llm.py:555-556`): on Ampere cards the default
  "q4" yields no `--quantization` flag (`:164-167`), so the model is sized at four
  bits and served at sixteen (as for int8 and nf4), and a `--quantization` in the
  study's `vllm_args` (`:608-618`) changes what is served, not what was sized.  `VLLM_BASE_URL` stays set after teardown, and the
  reviewer before a run is built without it.  `_owned_pids` takes an
  unverifiable pid for its own although its docstring says it is EXCLUDED.

*Life of a run and monitor*

* `_refresh_resumed_budgets` (`agent_runtime.py:871-874`) says that money spent is
  still counted: no process reads `token_totals` back.  The anchor charges time
  in which no process ran.
* A kill between close and finalize leaves no status or the one before: a GATED
  close is run again, or an UNGATED one refused after the edit is reverted.
  After one edit a GATED close can be resumed again and again; a replay in
  mid-flight ignores the edit.
* A run killed before its first checkpoint is resumed without statement and run
  directory, and its close raises KeyError.  The snapshot, called verbatim, lacks
  the operator's clarifications.  A failed start of the server, and a refusal,
  write no status.  Resuming run 1 after a fresh run 2 works on run 2's notebook
  (`run_setup.py:95-96`) and stamps it as run 1's.
* A duplicate evaluation noticed by an ending worker is told nobody, though it
  uses up one of two nudges (`docs/how-a-run-is-kept-honest.md:68-70`).
  Escalation cannot happen.  Wait repeats standing violations every ten seconds,
  parallel tool calls inject twice in a turn (`orchestration.py:371`), a check
  during a flush flags UNLEDGERED falsely, and old duplicates count as new after
  a resume.

## 8. Not modelled, and why

Store queries, constraint snapshots, viewer: read-only, but for the answer to a
question, which is in `OperatorChannel`, and notes, which are in `Mailbox`.
Workspace commits: best-effort calls of git that nothing depends on.
Containers, resource limits, telemetry, the watchdog's measurements: I/O around
external programs.  Prompts, agents' declarations, knowledge base: text.
Symbolic algebra and the run diagram: libraries over data.  The review before a
run: advisory; its place in the life of a run is in `RunLife`.  Text
extraction, embeddings and scoring: numerical.
