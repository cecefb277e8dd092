------------------------------ MODULE Literature ------------------------------
(***************************************************************************)
(* The tools of the literature reviewer (agents/literature_tools): calls   *)
(* to the providers, run at once or in the background, CollectSearches,    *)
(* DownloadPdf and CorpusAdd, over the shared request table and the corpus *)
(* of the study.  Calls of one turn may run in parallel; a call with       *)
(* wait=False gives the agent a handle and runs in a thread of its own.    *)
(***************************************************************************)
EXTENDS LiteratureHttp, LiteratureCorpus

CONSTANTS
  Calls,     \* tool calls of one turn that may run in parallel
  Handles,   \* background searches
  Tools,     \* the provider tools in use
  MaxCalls,  \* bound on tool calls other than searches of the corpus
  MaxSearches, \* bound on those that find full text to search
  MaxKills   \* bound on kills of the process

ASSUME CallAssumption == Calls \subseteq Adders

VARIABLES
  job,      \* what each call or background thread is doing
  providerLock,     \* the thread that holds the lock of each provider
  reg,      \* handles CollectSearches knows
  disk,     \* what DownloadPdf left on disk for a paper
  used, searches, kills

vars == <<httpVars, corpusVars, job, providerLock, reg, disk, used, searches, kills>>

Free == "free"
NoJob == [pc |-> "idle", tool |-> Nothing, query |-> Nothing, todo |-> <<>>, part |-> 1]
Providers == {"semantic_scholar", "openalex", "http"}

\* Tools that go through the client library; two of them are in no provider's
\* list, and so are not serialized.
ClientTools ==
  {"search_semantic_scholar", "get_semantic_scholar_paper_details",
   "get_semantic_scholar_author_details",
   "get_semantic_scholar_citations_and_references"}

ProviderOf(tool) ==
  CASE tool \in {"search_semantic_scholar", "get_semantic_scholar_paper_details",
                 "get_semantic_scholar_recommendations"} -> "semantic_scholar"
    [] tool \in {"search_openalex", "get_openalex_citations",
                 "get_openalex_references"} -> "openalex"
    [] tool = "DownloadPdf" -> "http"
    [] OTHER -> Free

Serialized(tool) == ProviderOf(tool) # Free

\* A call may ask twice: for the list of references, then for the works.
Asked(q, part) == [of |-> q, part |-> part]

\* The client library asks for a longer interval than its domain's default.
ClientRequest(q) ==
  [domain |-> "semanticscholar.org", interval |-> MaxInterval, how |-> "client", query |-> Asked(q, 1)]

Recommendations(q) ==
  [domain |-> "semanticscholar.org", interval |-> 1, how |-> "post", query |-> Asked(q, 1)]

OpenalexRequest(q, part) ==
  [domain |-> "openalex.org", interval |-> 1, how |-> "get", query |-> Asked(q, part)]

PdfRequest(q) ==
  [domain |-> "publisher", interval |-> 1, how |-> "get", query |-> Asked(q, 1)]

Request(tool, q) ==
  CASE tool \in ClientTools -> ClientRequest(q)
    [] ProviderOf(tool) = "openalex" -> OpenalexRequest(q, 1)
    [] tool = "DownloadPdf" -> PdfRequest(q)
    [] OTHER -> Recommendations(q)

Subjects(tool) == IF tool = "DownloadPdf" THEN Papers ELSE Queries

ASSUME RequestAssumption ==
  /\ Calls \cup Handles \subseteq Threads /\ Free \notin Threads
  /\ \A tool \in Tools : \A q \in Subjects(tool) : Request(tool, q).domain \in Domains

Init ==
  /\ HttpInit /\ CorpusInit
  /\ job = [t \in Threads |-> NoJob]
  /\ providerLock = [p \in Providers |-> Free]
  /\ reg = {}
  /\ disk = [p \in Papers |-> Nothing]
  /\ used = 0 /\ searches = 0 /\ kills = 0

Idle(c) == job[c].pc = "idle" /\ CorpusIdle(c)

Spend ==
  /\ used < MaxCalls
  /\ used' = used + 1

\* The tool waits for its provider's lock, or there is none to wait for.
Launched(tool, q) ==
  [NoJob EXCEPT !.pc = IF Serialized(tool) THEN "lock" ELSE "begin",
                !.tool = tool, !.query = q]

CallTool(c, tool, q) ==
  /\ Idle(c) /\ Spend
  /\ job' = [job EXCEPT ![c] = Launched(tool, q)]
  /\ UNCHANGED <<httpVars, corpusVars, providerLock, reg, disk, searches, kills>>

CallAsync(c, h, tool, q) ==
  /\ Idle(c) /\ Spend
  /\ job[h] = NoJob /\ Serialized(tool)
  /\ job' = [job EXCEPT ![h] = Launched(tool, q)]
  /\ reg' = reg \cup {h}
  /\ UNCHANGED <<httpVars, corpusVars, providerLock, disk, searches, kills>>

ProviderFree(t) == providerLock[ProviderOf(job[t].tool)] = Free

BeginFetch(t) ==
  /\ \/ /\ job[t].pc = "lock" /\ ProviderFree(t)
        /\ providerLock' = [providerLock EXCEPT ![ProviderOf(job[t].tool)] = t]
     \/ job[t].pc = "begin" /\ UNCHANGED providerLock
  /\ fetch' = [fetch EXCEPT ![t] = 
                Begun(Request(job[t].tool, job[t].query), Serialized(job[t].tool))]
  /\ job' = [job EXCEPT ![t].pc = "fetch"]
  /\ UNCHANGED <<since, streak, cooldown, cache, gap, leaks, corpusVars, reg,
                 disk, used, searches, kills>>

Fetching(t) ==
  /\ job[t].pc = "fetch" /\ FetchStep(t)
  /\ UNCHANGED <<corpusVars, job, providerLock, reg, disk, used, searches, kills>>

Delivered(t) == fetch[t].result \in {"ok", "cached"}

\* The references of a paper are asked for as works once their list is known
\* and not empty.
Hydrate(t) ==
  /\ job[t].pc = "fetch" /\ At(t, "done") /\ Delivered(t)
  /\ job[t].tool = "get_openalex_references" /\ job[t].part = 1
  /\ job' = [job EXCEPT ![t].part = 2]
  /\ fetch' = [fetch EXCEPT ![t] = Begun(OpenalexRequest(job[t].query, 2), TRUE)]
  /\ UNCHANGED <<since, streak, cooldown, cache, gap, leaks, corpusVars, providerLock,
                 reg, disk, used, searches, kills>>

\* Mutant: the lock is given back only by a tool that did not raise.
ReleasedIfOk(t) ==
  IF Delivered(t)
  THEN [p \in Providers |-> IF providerLock[p] = t THEN Free ELSE providerLock[p]] ELSE providerLock

Released(t) == [p \in Providers |-> IF providerLock[p] = t THEN Free ELSE providerLock[p]]

\* The cache keeps the body of a response as text: a PDF does not survive.
Body(result) == IF result = "ok" THEN "pdf" ELSE "mangled"

FinishTool(t) ==
  /\ job[t].pc = "fetch" /\ At(t, "done")
  /\ disk' = IF job[t].tool = "DownloadPdf" /\ Delivered(t)
             THEN [disk EXCEPT ![job[t].query] = Body(fetch[t].result)] ELSE disk
  /\ providerLock' = Released(t)
  /\ fetch' = [fetch EXCEPT ![t] = NoFetch]
  /\ job' = [job EXCEPT ![t] = IF t \in Handles THEN [NoJob EXCEPT !.pc = "over"]
                               ELSE NoJob]
  /\ UNCHANGED <<since, streak, cooldown, cache, gap, leaks, corpusVars, reg,
                 used, searches, kills>>

\* One handle, or all that are in the registry now.
CollectSearches(c, hs) ==
  /\ Idle(c) /\ Spend
  /\ job' = [job EXCEPT ![c] = [NoJob EXCEPT !.pc = "collect", !.todo = SetToSeq(hs)]]
  /\ UNCHANGED <<httpVars, corpusVars, providerLock, reg, disk, searches, kills>>

\* The next handle, unknown, finished, or still running after 600 s, is
\* forgotten; after the last one the call returns.
CollectNext(c) ==
  /\ job[c].pc = "collect"
  /\ IF job[c].todo = <<>>
     THEN job' = [job EXCEPT ![c] = NoJob] /\ UNCHANGED reg
     ELSE /\ job' = [job EXCEPT ![c].todo = Tail(@)]
          /\ reg' = reg \ {Head(job[c].todo)}
  /\ UNCHANGED <<httpVars, corpusVars, providerLock, disk, used, searches, kills>>

\* A paper is added from its download, which may be a scan, or from text the
\* reviewer wrote.  A mangled PDF yields no text, as a scan does.
CorpusAdd(c, p, src) ==
  /\ Idle(c) /\ Spend
  /\ src \in {"pdf", "scan"} => disk[p] # Nothing
  /\ src = "pdf" => disk[p] = "pdf"
  /\ BeginAdd(c, p, src)
  /\ UNCHANGED <<httpVars, job, providerLock, reg, disk, searches, kills>>

CorpusSearch(c) ==
  /\ Idle(c) /\ BeginSearch(c)
  /\ searches < MaxSearches
  /\ searches' = searches + 1
  /\ UNCHANGED <<httpVars, job, providerLock, reg, disk, used, kills>>

UsingCorpus(c) ==
  /\ AddStep(c) \/ SearchStep(c)
  /\ UNCHANGED <<httpVars, job, providerLock, reg, disk, used, searches, kills>>

\* The table, the locks and the handles live in the process.  A process killed
\* before its first call has nothing to lose.
Kill ==
  /\ kills < MaxKills /\ used > 0
  /\ kills' = kills + 1
  /\ CorpusKill
  /\ since' = [d \in Domains |-> MaxInterval] /\ gap' = [d \in Domains |-> MaxInterval]
  /\ streak' = [d \in Domains |-> 0] /\ cooldown' = [d \in Domains |-> 0]
  /\ fetch' = [t \in Threads |-> NoFetch] /\ leaks' = [t \in Threads |-> [d \in Domains |-> 0]]
  /\ job' = [t \in Threads |-> NoJob] /\ providerLock' = [p \in Providers |-> Free] /\ reg' = {}
  /\ UNCHANGED <<cache, disk, used, searches>>

Time == Tick /\ UNCHANGED <<corpusVars, job, providerLock, reg, disk, used, searches, kills>>

Next ==
  \/ \E c \in Calls :
       \/ \E tool \in Tools : \E q \in Subjects(tool) :
            CallTool(c, tool, q) \/ \E h \in Handles : CallAsync(c, h, tool, q)
       \/ CollectSearches(c, reg) \/ \E h \in reg : CollectSearches(c, {h})
       \/ CollectNext(c)
       \/ \E p \in Papers, src \in Sources : CorpusAdd(c, p, src)
       \/ CorpusSearch(c)
       \/ UsingCorpus(c)
  \/ \E t \in Threads : BeginFetch(t) \/ Fetching(t) \/ Hydrate(t) \/ FinishTool(t)
  \/ Time
  \/ Kill

\* Threads run, locks that are free are taken, and time passes.
Fairness ==
  /\ \A t \in Threads : WF_vars(BeginFetch(t) \/ Fetching(t) \/ FinishTool(t))
  /\ \A c \in Calls : WF_vars(CollectNext(c)) /\ WF_vars(UsingCorpus(c))
  /\ WF_vars(Time)

Spec == Init /\ [][Next]_vars /\ Fairness

-----------------------------------------------------------------------------
(* Every tool call comes back to the agent: a provider lock is given back  *)
(* by calls that fail as well, retries end, cooldowns refuse instead of    *)
(* waiting, and no call waits for the corpus while it holds its lock.      *)
CallsReturn == \A c \in Calls : ~Idle(c) ~> Idle(c)

===============================================================================
