---------------------------- MODULE LiteratureHttp ----------------------------
(***************************************************************************)
(* Requests to the literature providers (literature/http_client.py and     *)
(* agents/literature_tools/throttle.py).  All threads of the process share *)
(* one table per domain: the time of the last request, the streak of       *)
(* refusals (429, 503) and the end of the cooldown its breaker imposes.    *)
(* An attempt reads the table, sleeps outside the lock, and then writes    *)
(* the time of its request.                                                *)
(*                                                                         *)
(* Time is a number of ticks; clocks are kept as ages and remaining times. *)
(***************************************************************************)
EXTENDS Naturals, FiniteSets, FiniteSetsExt

CONSTANTS
  Threads,     \* threads of the process that may be fetching
  Domains,     \* hosts of the providers
  Queries,     \* what may be asked of them
  Retries,     \* attempts of one call (3)
  Threshold,   \* refusals in a row that trip the breaker (3)
  Cooldown,    \* ticks a tripped breaker stays so
  Backoffs,    \* sleeps between two attempts, and what Retry-After may ask
  MaxInterval  \* the longest interval between two requests of a domain

ASSUME HttpAssumption ==
  /\ {Retries, Threshold, Cooldown, MaxInterval} \subseteq Nat \ {0}
  /\ Backoffs \subseteq Nat

VARIABLES
  since,     \* ticks since the last request, capped
  streak,    \* refusals since the last success
  cooldown,  \* ticks until the breaker lets requests through again
  cache,     \* queries whose response is in the on-disk cache
  fetch,     \* the request a thread is working on
  gap,       \* ghost: ticks since the last request of a serialized tool
  leaks      \* ghost: requests a thread has sent to a domain in its cooldown

httpVars == <<since, streak, cooldown, cache, fetch, gap, leaks>>

\* A request: its domain, the interval its caller asks for, the code it goes
\* through (robust_get, robust_post, or the client library) and what it asks;
\* serialized, when its tool holds a provider lock.
NoFetch == [pc |-> "idle", req |-> {}, serialized |-> FALSE, attempt |-> 0, wait |-> 0, result |-> "none"]

HttpInit ==
  /\ since = [d \in Domains |-> MaxInterval]
  /\ streak = [d \in Domains |-> 0]
  /\ cooldown = [d \in Domains |-> 0]
  /\ cache = {}
  /\ fetch = [t \in Threads |-> NoFetch]
  /\ gap = [d \in Domains |-> MaxInterval]
  /\ leaks = [t \in Threads |-> [d \in Domains |-> 0]]

At(t, pc) == fetch[t].pc = pc
Req(t) == fetch[t].req
Dom(t) == Req(t).domain

\* A hit never sleeps; only GETs are cached.
Begun(req, serialized) ==
  [NoFetch EXCEPT !.req = req, !.serialized = serialized,
     !.pc = IF req.how = "get" /\ req.query \in cache THEN "done" ELSE "check",
     !.result = IF req.how = "get" /\ req.query \in cache THEN "cached" ELSE "none"]

Ended(t, result) == [fetch EXCEPT ![t].pc = "done", ![t].result = result]

\* Mutant: the breaker is looked at once per call, not before every attempt.
RefusedFirst(t) == cooldown[Dom(t)] > 0 /\ fetch[t].attempt = 0

Refused(t) == cooldown[Dom(t)] > 0

\* First half of _rate_limit_wait, under the lock.
RateLimitCheck(t) ==
  /\ At(t, "check") /\ fetch[t].wait = 0
  /\ fetch' = IF Refused(t) THEN Ended(t, "cooldown")
              ELSE [fetch EXCEPT ![t].pc = "pacing",
                      ![t].wait = Max({0, Req(t).interval - since[Dom(t)]})]
  /\ UNCHANGED <<since, streak, cooldown, cache, gap, leaks>>

\* Its second half, after the sleep, and the request.
Send(t) ==
  /\ At(t, "pacing") /\ fetch[t].wait = 0
  /\ since' = [since EXCEPT ![Dom(t)] = 0]
  /\ gap' = IF fetch[t].serialized THEN [gap EXCEPT ![Dom(t)] = 0] ELSE gap
  /\ leaks' = IF cooldown[Dom(t)] > 0 THEN [leaks EXCEPT ![t][Dom(t)] = @ + 1] ELSE leaks
  /\ fetch' = [fetch EXCEPT ![t].pc = "sent"]
  /\ UNCHANGED <<streak, cooldown, cache>>

\* Another attempt after a sleep, or the end of the retries.
Again(t, wait) ==
  IF fetch[t].attempt + 1 < Retries
  THEN [fetch EXCEPT ![t].pc = "check", ![t].attempt = @ + 1, ![t].wait = wait]
  ELSE Ended(t, "error")

TooMany(t) ==
  LET d == Dom(t)
      fired == streak[d] + 1 >= Threshold
  IN /\ At(t, "sent")
     /\ streak' = [streak EXCEPT ![d] = Min({@ + 1, Threshold})]
     /\ cooldown' = IF fired THEN [cooldown EXCEPT ![d] = Cooldown] ELSE cooldown
     /\ IF fired THEN fetch' = Ended(t, "cooldown")
        ELSE \E w \in Backoffs : fetch' = Again(t, w)
     /\ UNCHANGED <<since, cache, gap, leaks>>

\* A connection error or a 5xx is retried by the direct fetches.
Fails(t) ==
  /\ At(t, "sent") /\ Req(t).how \in {"get", "post"}
  /\ \E w \in Backoffs : fetch' = Again(t, w)
  /\ UNCHANGED <<since, streak, cooldown, cache, gap, leaks>>

\* A 4xx is final, and so is whatever the client library raises, its timeout
\* of 30 s included, which leaves a thread behind that nobody listens to.
GivesUp(t) ==
  /\ At(t, "sent")
  /\ fetch' = Ended(t, "error")
  /\ UNCHANGED <<since, streak, cooldown, cache, gap, leaks>>

Succeeds(t) ==
  /\ At(t, "sent")
  /\ streak' = [streak EXCEPT ![Dom(t)] = 0]
  /\ cache' = IF Req(t).how = "get" THEN cache \cup {Req(t).query} ELSE cache
  /\ fetch' = Ended(t, "ok")
  /\ UNCHANGED <<since, cooldown, gap, leaks>>

FetchStep(t) ==
  \/ RateLimitCheck(t) \/ Send(t) \/ TooMany(t) \/ Fails(t) \/ GivesUp(t)
  \/ Succeeds(t)

Older(n) == Min({n + 1, MaxInterval})
Less(n) == Max({n, 1}) - 1

Tick ==
  /\ since' = [d \in Domains |-> Older(since[d])]
  /\ gap' = [d \in Domains |-> Older(gap[d])]
  /\ cooldown' = [d \in Domains |-> Less(cooldown[d])]
  /\ leaks' = [t \in Threads |->
                [d \in Domains |-> IF cooldown[d] > 1 THEN leaks[t][d] ELSE 0]]
  /\ fetch' = [t \in Threads |-> [fetch[t] EXCEPT !.wait = Less(@)]]
  /\ UNCHANGED <<streak, cache>>

-----------------------------------------------------------------------------
(* A source is spared, however the waits of parallel callers overlap.  Two *)
(* requests of tools that serialize on a provider are at least the         *)
(* interval of the later one apart, whatever other tools send to the same  *)
(* domain in between; and during a cooldown of a domain a thread sends it  *)
(* at most the request it was already pacing for, since retries of calls   *)
(* that slept when the breaker tripped do not go out (http_client.py,      *)
(* _rate_limit_wait; async_pool.py, provider_lock).                        *)
SourceSpared ==
  [][\A t \in Threads :
       At(t, "pacing") /\ fetch'[t].pc = "sent" =>
         /\ fetch[t].serialized => gap[Dom(t)] >= Req(t).interval
         /\ leaks'[t][Dom(t)] <= 1]_httpVars

===============================================================================
