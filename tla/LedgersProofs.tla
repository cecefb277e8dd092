----------------------------- MODULE LedgersProofs -----------------------------
(***************************************************************************)
(* The two ledgers for every number of tool calls, hypotheses, delegations *)
(* and milestones.                                                         *)
(*                                                                         *)
(* Verdicts: a citation that has been checked stays citable until it is    *)
(* entered, because a row that is DONE stays DONE (Sourced); and while a   *)
(* confirmation is pending every call may still find it, but each one that *)
(* has ends in one entry at most (Counted).                                *)
(* Milestones: the file is torn exactly while one call is saving, and what *)
(* that call saves was computed from what was told (OneSaver, Told).       *)
(***************************************************************************)
EXTENDS Ledgers, FiniteSetTheorems, WellFoundedInduction, TLAPS

Entries == [status : Statuses, d : Cited, bare : BOOLEAN, stray : BOOLEAN]

Logs == Seq(Entries) \ {<<>>}

HypsTyped ==
  /\ DOMAIN hyps \subseteq Hyps /\ hyps \in [DOMAIN hyps -> Logs]
  /\ confirm \subseteq Hyps
  /\ asked \in [Hyps -> Nat]

Rows == [status : {"RUNNING", "DONE", "FAILED"}, hyps : SUBSET Hyps, attempt : BOOLEAN]

DelsTyped ==
  /\ DOMAIN dels \subseteq Dels /\ dels \in [DOMAIN dels -> Rows]
  /\ DOMAIN registry \subseteq DOMAIN dels
  /\ registry \in [DOMAIN registry -> {"Working", "Done"}]

IsLedger(ms) ==
  /\ Defaults \subseteq DOMAIN ms
  /\ ms \in [DOMAIN ms -> {"PENDING", "CLOSED"}]

MilestonesTyped ==
  /\ file.state \in {"ok", "torn"}
  /\ IsLedger(told)

\* A call of Delegate that has its row, on its way to the log.
Sending == [pc : {"delegating", "ticked", "cleared"}, row : Rows,
            ns : Namespaces \cup {None}, torn : BOOLEAN, blocked : BOOLEAN]

CallTyped(u) ==
  /\ u.pc \in {"idle", "confirmed", "checked", "judging", "linked", "saving",
               "delegating", "ticked", "cleared"}
  /\ u.pc = "confirmed" => u.h \in DOMAIN hyps /\ u.s \in Statuses /\ u.d \in Cited
  /\ u.pc = "checked" =>
       u.h \in DOMAIN hyps /\ u.s \in Statuses /\ u.d \in Cited /\ u.bare \in BOOLEAN
  /\ u.pc = "judging" => u.h \in DOMAIN hyps
  /\ u.pc = "linked" => u.d \in DOMAIN dels /\ u.h \in Hyps
  /\ u.pc = "saving" =>
       /\ IsLedger(u.ms)
       /\ u.then = Idle \/ (u.then \in Sending /\ u.then.pc = "ticked")
  /\ u.pc \in {"delegating", "ticked", "cleared"} => u \in Sending

CallsTyped ==
  /\ calls = [c \in Callers |-> calls[c]]
  /\ \A c \in Callers : CallTyped(calls[c])

\* The sources of entries, made and about to be; a verdict and what takes it
\* back name one.
Sourced ==
  /\ \A h \in DOMAIN hyps : \A i \in DOMAIN hyps[h] :
       /\ Citable(hyps[h][i].d)
       /\ hyps[h][i].status \in Closing \/ (i > 1 /\ hyps[h][i - 1].status \in Closing) =>
            hyps[h][i].d # None
  /\ \A c \in Callers : calls[c].pc = "checked" => Citable(calls[c].d)

\* Where the confirmations of h went: entries, calls that used one up, calls that
\* found one, and calls that may still find one.
Bare(h) == IF h \in DOMAIN hyps THEN {i \in DOMAIN hyps[h] : hyps[h][i].bare} ELSE {}
Holding(h) ==
  {c \in Callers : calls[c].pc = "checked" /\ calls[c].h = h /\ calls[c].bare}
Passed(h) == {c \in Callers : calls[c].pc = "confirmed" /\ calls[c].h = h}
Out(h) == IF h \in confirm THEN Cardinality(Callers) ELSE Cardinality(Passed(h))
Allowed(h) == asked[h] * Cardinality(Callers)

Counted ==
  \A h \in Hyps : Cardinality(Bare(h)) + Cardinality(Holding(h)) + Out(h) <= Allowed(h)

\* The lock of the milestones.
OneSaver ==
  /\ \A c, e \in Callers : calls[c].pc = "saving" /\ calls[e].pc = "saving" => c = e
  /\ (\E c \in Callers : calls[c].pc = "saving") <=> file.state = "torn"

LedgersTypeOK == HypsTyped /\ DelsTyped /\ MilestonesTyped /\ CallsTyped

IndInv == LedgersTypeOK /\ Sourced /\ Counted /\ OneSaver /\ MilestonesAsTold /\ GateAsks

-----------------------------------------------------------------------------
(* Facts about a call that moves from one place to another.                *)

LEMMA Statuses3 == Statuses \subseteq Closing \cup {"OPEN"} /\ Verdicts \subseteq Closing
BY LedgerAssumption DEF Statuses, Closing

\* A call that neither is nor becomes a verdict on its way holds no confirmation.
LEMMA HoldsAlike ==
  ASSUME CallsTyped, NEW c \in Callers, NEW u, calls' = [calls EXCEPT ![c] = u],
         calls[c].pc \notin {"confirmed", "checked"}, u.pc \notin {"confirmed", "checked"}
  PROVE  \A h \in Hyps : Holding(h)' = Holding(h) /\ Passed(h)' = Passed(h)
BY DEF CallsTyped, Holding, Passed

LEMMA MovesTyped ==
  ASSUME CallsTyped, NEW c \in Callers, NEW u, calls' = [calls EXCEPT ![c] = u],
         CallTyped(u)', DOMAIN hyps \subseteq DOMAIN hyps', DOMAIN dels \subseteq DOMAIN dels'
  PROVE  CallsTyped'
<1>1. calls' = [e \in Callers |-> calls'[e]]
  BY DEF CallsTyped
<1>2. ASSUME NEW e \in Callers PROVE CallTyped(calls[e])'
  <2>1. CASE e = c
    BY <2>1 DEF CallsTyped
  <2>2. CASE e # c
    BY <2>2 DEF CallsTyped, CallTyped
  <2>3. QED  BY <2>1, <2>2
<1>3. QED  BY <1>1, <1>2 DEF CallsTyped

\* A step that only moves one call, between places that hold no verdict and
\* no lock.
LEMMA QuietStep ==
  ASSUME IndInv, NEW c \in Callers, NEW u, calls' = [calls EXCEPT ![c] = u],
         calls[c].pc \notin {"confirmed", "checked", "saving"}, u.pc \notin {"confirmed", "checked", "saving"},
         CallTyped(u), UNCHANGED <<hypVars, delVars, file, told>>,
         acked \subseteq acked',
         u.pc = "cleared" /\ u.blocked => u.ns \in acked' \/ u.torn
  PROVE  IndInv'
<1> USE DEF IndInv, LedgersTypeOK, hypVars, delVars
<1>1. HypsTyped' /\ DelsTyped' /\ MilestonesTyped' /\ MilestonesAsTold'
  BY DEF HypsTyped, DelsTyped, MilestonesTyped, MilestonesAsTold
<1>2. CallsTyped'
  <2>1. CallTyped(u)'
    BY DEF CallTyped
  <2>2. QED  BY <2>1, MovesTyped
<1>3. Sourced'
  BY DEF Sourced, CallsTyped, Citable, Completed
<1>4. Counted'
  <2>1. \A h \in Hyps : Holding(h)' = Holding(h) /\ Passed(h)' = Passed(h)
    BY HoldsAlike
  <2>2. \A h \in Hyps : Bare(h)' = Bare(h) /\ Out(h)' = Out(h) /\ Allowed(h)' = Allowed(h)
    BY <2>1 DEF Bare, Out, Allowed
  <2>3. QED  BY <2>1, <2>2 DEF Counted
<1>5. OneSaver'
  BY DEF OneSaver, CallsTyped
<1>6. GateAsks'
  BY DEF GateAsks, CallsTyped
<1>7. QED  BY <1>1, <1>2, <1>3, <1>4, <1>5, <1>6

-----------------------------------------------------------------------------
LEMMA Starts == Init => IndInv
<1> SUFFICES ASSUME Init PROVE IndInv
  OBVIOUS
<1> USE DEF Init
<1>1. HypsTyped /\ DelsTyped
  BY DEF HypsTyped, DelsTyped
<1>2. MilestonesTyped
  BY DEF MilestonesTyped, IsLedger, Seeded, Readable
<1>3. CallsTyped
  BY DEF CallsTyped, CallTyped, Idle
<1>4. Sourced /\ OneSaver /\ MilestonesAsTold /\ GateAsks
  BY DEF Sourced, OneSaver, MilestonesAsTold, GateAsks, Idle, Readable
<1>5. Counted
  <2>1. \A h \in Hyps : Bare(h) = {} /\ Holding(h) = {} /\ Passed(h) = {}
    BY DEF Bare, Holding, Passed, Idle
  <2>2. Cardinality({}) = 0 /\ Cardinality(Callers) \in Nat
    BY LedgerAssumption, FS_EmptySet, FS_CardinalityType
  <2>3. ASSUME NEW h \in Hyps
        PROVE  Cardinality(Bare(h)) + Cardinality(Holding(h)) + Out(h) <= Allowed(h)
    <3>1. Cardinality(Bare(h)) = 0 /\ Cardinality(Holding(h)) = 0 /\ Cardinality(Passed(h)) = 0
      BY <2>1, <2>2
    <3>2. Out(h) = 0
      BY <3>1 DEF Out
    <3>3. Allowed(h) = 0
      BY <2>2 DEF Allowed
    <3>4. QED  BY <3>1, <3>2, <3>3
  <2>4. QED  BY <2>3 DEF Counted
<1>6. QED  BY <1>1, <1>2, <1>3, <1>4, <1>5 DEF IndInv, LedgersTypeOK

(* Hypotheses.                                                             *)

LEMMA ProposeStep ==
  ASSUME IndInv, NEW c \in Callers, NEW h \in Hyps, HypothesisPropose(c, h)
  PROVE  IndInv'
<1> USE DEF IndInv, LedgersTypeOK, HypothesisPropose, Begins, delVars, msVars
<1>1. <<Entry("OPEN", None, FALSE)>> \in Logs
  BY DEF Logs, Entries, Entry, Statuses, Cited
<1>2. HypsTyped'
  BY <1>1 DEF HypsTyped
<1>3. DelsTyped' /\ MilestonesTyped' /\ MilestonesAsTold' /\ OneSaver' /\ GateAsks'
  BY DEF DelsTyped, MilestonesTyped, MilestonesAsTold, OneSaver, GateAsks
<1>4. CallsTyped'
  BY DEF CallsTyped, CallTyped
<1>5. Sourced'
  <2>1. \A x \in DOMAIN hyps' :
          (x \in DOMAIN hyps /\ hyps'[x] = hyps[x]) \/ hyps'[x] = <<Entry("OPEN", None, FALSE)>>
    OBVIOUS
  <2>2. \A e \in Callers : calls'[e].pc = "checked" => calls'[e] = calls[e]
    OBVIOUS
  <2>3. \A d : Citable(d)' <=> Citable(d)
    BY DEF Citable, Completed
  <2>4. Citable(None)
    BY DEF Citable
  <2>5. QED  BY <2>1, <2>2, <2>3, <2>4 DEF Sourced, Entry, Closing
<1>6. Counted'
  <2>1. \A x \in Hyps : /\ Holding(x)' = Holding(x) /\ Passed(x)' = Passed(x)
                         /\ Out(x)' = Out(x) /\ Allowed(x)' = Allowed(x)
    BY DEF Holding, Passed, Out, Allowed
  <2>2. ASSUME NEW x \in Hyps PROVE Bare(x)' = Bare(x)
    <3>1. CASE x = h
      BY <3>1 DEF Bare, Entry
    <3>2. CASE x # h
      BY <3>2 DEF Bare
    <3>3. QED  BY <3>1, <3>2
  <2>3. QED  BY <2>1, <2>2 DEF Counted
<1>7. QED  BY <1>2, <1>3, <1>4, <1>5, <1>6

LEMMA Finite ==
  ASSUME IndInv, NEW h \in Hyps
  PROVE  /\ IsFiniteSet(Bare(h)) /\ Cardinality(Bare(h)) \in Nat
         /\ IsFiniteSet(Holding(h)) /\ Cardinality(Holding(h)) \in Nat
         /\ IsFiniteSet(Passed(h)) /\ Cardinality(Passed(h)) \in Nat
         /\ Cardinality(Passed(h)) <= Cardinality(Callers) /\ Cardinality(Callers) \in Nat
         /\ Out(h) \in Nat /\ Out(h) <= Cardinality(Callers)
         /\ asked[h] \in Nat /\ Allowed(h) \in Nat
<1>1. IsFiniteSet(Holding(h))
  BY LedgerAssumption, FS_Subset DEF Holding
<1>2. IsFiniteSet(Bare(h))
  <2>1. CASE h \in DOMAIN hyps
    <3>1. hyps[h] \in Seq(Entries)
      BY <2>1 DEF IndInv, LedgersTypeOK, HypsTyped, Logs
    <3>2. Len(hyps[h]) \in Nat /\ Bare(h) \subseteq 1..Len(hyps[h])
      BY <2>1, <3>1 DEF Bare
    <3>3. IsFiniteSet(1..Len(hyps[h]))
      BY <3>2, FS_Interval
    <3>4. QED  BY <3>2, <3>3, FS_Subset
  <2>2. CASE h \notin DOMAIN hyps
    BY <2>2, FS_EmptySet DEF Bare
  <2>3. QED  BY <2>1, <2>2
<1>3. IsFiniteSet(Passed(h)) /\ Cardinality(Passed(h)) <= Cardinality(Callers)
  BY LedgerAssumption, FS_Subset DEF Passed
<1>4. /\ Cardinality(Bare(h)) \in Nat /\ Cardinality(Holding(h)) \in Nat
      /\ Cardinality(Passed(h)) \in Nat /\ Cardinality(Callers) \in Nat
  BY <1>1, <1>2, <1>3, LedgerAssumption, FS_CardinalityType
<1>5. Out(h) \in Nat /\ Out(h) <= Cardinality(Callers)
  BY <1>3, <1>4 DEF Out
<1>6. asked[h] \in Nat
  BY DEF IndInv, LedgersTypeOK, HypsTyped
<1>7. QED  BY <1>1, <1>2, <1>3, <1>4, <1>5, <1>6 DEF Allowed

LEMMA OneMore ==
  ASSUME NEW S, IsFiniteSet(S), NEW x, NEW T, T = S \/ T = S \cup {x}
  PROVE  Cardinality(T) \in Nat /\ Cardinality(T) <= Cardinality(S) + 1
<1>1. Cardinality(S) \in Nat
  BY FS_CardinalityType
<1>2. Cardinality(S \cup {x}) = IF x \in S THEN Cardinality(S) ELSE Cardinality(S) + 1
  BY FS_AddElement
<1>3. CASE T = S
  BY <1>1, <1>3
<1>4. CASE T = S \cup {x}
  BY <1>1, <1>2, <1>4
<1>5. QED  BY <1>3, <1>4

LEMMA AskStep ==
  ASSUME IndInv, NEW c \in Callers, NEW h \in DOMAIN hyps, NEW s, AskToConfirm(c, h, s)
  PROVE  IndInv'
<1> USE DEF IndInv, LedgersTypeOK, AskToConfirm, Begins, delVars, msVars
<1>1. h \in Hyps /\ asked[h] \in Nat
  BY DEF HypsTyped
<1>2. HypsTyped'
  BY <1>1 DEF HypsTyped
<1>3. DelsTyped' /\ MilestonesTyped' /\ MilestonesAsTold' /\ OneSaver' /\ GateAsks'
  BY DEF DelsTyped, MilestonesTyped, MilestonesAsTold, OneSaver, GateAsks
<1>4. CallsTyped'
  BY DEF CallsTyped, CallTyped
<1>5. Sourced'
  BY DEF Sourced, Citable, Completed
<1>6. Counted'
  <2>1. ASSUME NEW x \in Hyps
        PROVE  (Cardinality(Bare(x)) + Cardinality(Holding(x)) + Out(x) <= Allowed(x))'
    <3>1. Bare(x)' = Bare(x) /\ Holding(x)' = Holding(x) /\ Passed(x)' = Passed(x)
      BY DEF Bare, Holding, Passed
    <3>2. Cardinality(Bare(x)) + Cardinality(Holding(x)) + Out(x) <= Allowed(x)
      BY DEF Counted
    <3>3. CASE x # h
      <4>1. Out(x)' = Out(x) /\ Allowed(x)' = Allowed(x)
        BY <1>1, <3>1, <3>3 DEF Out, Allowed, HypsTyped
      <4>2. QED  BY <3>1, <3>2, <4>1
    <3>4. CASE x = h
      <4>1. Out(x)' = Cardinality(Callers)
        BY <3>4 DEF Out
      <4>2. asked'[x] = asked[x] + 1 /\ Cardinality(Callers) \in Nat
        BY <1>1, <3>4, Finite DEF HypsTyped
      <4>3. Allowed(x)' = Allowed(x) + Cardinality(Callers)
        BY <1>1, <3>4, <4>2 DEF Allowed
      <4>4. QED  BY <3>1, <3>2, <4>1, <4>3, Finite
    <3>5. QED  BY <3>3, <3>4
  <2>2. QED  BY <2>1 DEF Counted
<1>7. QED  BY <1>2, <1>3, <1>4, <1>5, <1>6

\* The checks let a verdict through, with a confirmation that is still pending or
\* without one.
LEMMA UpdateStep ==
  ASSUME IndInv, NEW c \in Callers, NEW h \in DOMAIN hyps, NEW s \in Statuses,
         NEW d \in Cited, HypothesisUpdate(c, h, s, d)
  PROVE  IndInv'
<1> USE DEF IndInv, LedgersTypeOK, hypVars, delVars, msVars
<1> DEFINE asks == [pc |-> "confirmed", h |-> h, s |-> s, d |-> d]
<1>1. calls[c].pc = "idle" /\ h \in Hyps
      /\ UNCHANGED <<hyps, confirm, asked, dels, registry, file, ready, acked, told>>
  BY DEF HypothesisUpdate, Begins, HypsTyped
<1>2. PICK u : /\ calls' = [calls EXCEPT ![c] = u]
               /\ \/ u = asks /\ h \in confirm
                  \/ u = Checked(h, s, d, FALSE) /\ Citable(d)
                  \/ u = calls[c]
  <2>1. calls = [calls EXCEPT ![c] = calls[c]]
    BY DEF CallsTyped
  <2>2. CASE NeedsConfirmation(h, s)
    BY <2>2 DEF HypothesisUpdate
  <2>3. CASE ~NeedsConfirmation(h, s) /\ Citable(d)
    BY <2>3 DEF HypothesisUpdate
  <2>4. CASE ~NeedsConfirmation(h, s) /\ ~Citable(d)
    BY <2>1, <2>4 DEF HypothesisUpdate
  <2>5. QED  BY <2>2, <2>3, <2>4
<1>3. HypsTyped' /\ DelsTyped' /\ MilestonesTyped' /\ MilestonesAsTold'
  BY <1>1 DEF HypsTyped, DelsTyped, MilestonesTyped, MilestonesAsTold
<1>4. u.pc \in {"confirmed", "checked", "idle"}
      /\ (u.pc = "checked" => Citable(u.d) /\ u.bare = FALSE)
      /\ (u.pc = "confirmed" => u.h = h /\ h \in confirm)
  BY <1>1, <1>2 DEF Checked
<1>5. CallsTyped'
  <2>1. CallTyped(u)'
    <3>1. CASE u = asks
      BY <1>1, <3>1 DEF CallTyped
    <3>2. CASE u = Checked(h, s, d, FALSE)
      BY <1>1, <3>2 DEF CallTyped, Checked
    <3>3. CASE u = calls[c]
      BY <1>1, <3>3 DEF CallTyped
    <3>4. QED  BY <1>2, <3>1, <3>2, <3>3
  <2>2. QED  BY <1>1, <1>2, <2>1, MovesTyped
<1>6. Sourced' /\ OneSaver' /\ GateAsks'
  BY <1>1, <1>2, <1>4 DEF Sourced, OneSaver, GateAsks, CallsTyped, Citable, Completed
<1>7. Counted'
  <2>1. \A x \in Hyps : Bare(x)' = Bare(x) /\ Holding(x)' = Holding(x) /\ Allowed(x)' = Allowed(x)
    BY <1>1, <1>2, <1>4 DEF Bare, Holding, Allowed, CallsTyped
  <2>2. \A x \in Hyps : x \notin confirm => Passed(x)' = Passed(x)
    BY <1>1, <1>2, <1>4 DEF Passed, CallsTyped
  <2>3. \A x \in Hyps : Out(x)' = Out(x)
    BY <1>1, <2>2 DEF Out
  <2>4. QED  BY <2>1, <2>3 DEF Counted
<1>8. QED  BY <1>3, <1>5, <1>6, <1>7

\* A call that found a confirmation uses it up; those that found it before keep it.
LEMMA UseStep ==
  ASSUME IndInv, NEW c \in Callers, UseConfirmation(c)
  PROVE  IndInv'
<1> USE DEF IndInv, LedgersTypeOK, delVars, msVars
<1>1. PICK u : u = IF Citable(calls[c].d)
                   THEN Checked(calls[c].h, calls[c].s, calls[c].d, TRUE) ELSE Idle
  OBVIOUS
<1>2. /\ calls[c].pc = "confirmed" /\ calls[c].h \in DOMAIN hyps /\ calls[c].h \in Hyps
      /\ calls[c].s \in Statuses /\ calls[c].d \in Cited
      /\ confirm' = confirm \ {calls[c].h} /\ calls' = [calls EXCEPT ![c] = u]
      /\ UNCHANGED <<hyps, asked, dels, registry, file, ready, acked, told>>
  BY <1>1 DEF UseConfirmation, Confirmation, CallsTyped, CallTyped, HypsTyped
<1>3. u.pc \in {"checked", "idle"}
      /\ (u.pc = "checked" => Citable(u.d) /\ u.h = calls[c].h)
  BY <1>1 DEF Checked, Idle
<1>4. HypsTyped' /\ DelsTyped' /\ MilestonesTyped' /\ MilestonesAsTold'
  BY <1>2 DEF HypsTyped, DelsTyped, MilestonesTyped, MilestonesAsTold
<1>5. CallsTyped'
  <2>1. CallTyped(u)'
    BY <1>1, <1>2 DEF CallTyped, Checked, Idle
  <2>2. QED  BY <1>2, <2>1, MovesTyped
<1>6. Sourced' /\ OneSaver' /\ GateAsks'
  BY <1>2, <1>3 DEF Sourced, OneSaver, GateAsks, CallsTyped, Citable, Completed
<1>7. Counted'
  <2>1. ASSUME NEW x \in Hyps
        PROVE  (Cardinality(Bare(x)) + Cardinality(Holding(x)) + Out(x) <= Allowed(x))'
    <3>1. Bare(x)' = Bare(x) /\ Allowed(x)' = Allowed(x)
      BY <1>2 DEF Bare, Allowed
    <3>2. Cardinality(Bare(x)) + Cardinality(Holding(x)) + Out(x) <= Allowed(x)
      BY DEF Counted
    <3>3. CASE x # calls[c].h
      <4>1. Holding(x)' = Holding(x) /\ Passed(x)' = Passed(x)
        BY <1>2, <1>3, <3>3 DEF Holding, Passed, CallsTyped
      <4>2. Out(x)' = Out(x)
        BY <1>2, <3>3, <4>1 DEF Out
      <4>3. QED  BY <3>1, <3>2, <4>1, <4>2
    <3>4. CASE x = calls[c].h
      <4>1. c \in Passed(x) /\ Passed(x)' = Passed(x) \ {c}
        BY <1>2, <1>3, <3>4 DEF Passed, CallsTyped
      <4>2. Holding(x)' = Holding(x) \/ Holding(x)' = Holding(x) \cup {c}
        BY <1>2, <1>3, <3>4 DEF Holding, CallsTyped
      <4>3. Cardinality(Holding(x)') \in Nat
            /\ Cardinality(Holding(x)') <= Cardinality(Holding(x)) + 1
        BY <4>2, Finite, OneMore
      <4>4. Cardinality(Passed(x)') = Cardinality(Passed(x)) - 1
        BY <4>1, Finite, FS_RemoveElement
      <4>5. Out(x)' = Cardinality(Passed(x)) - 1
        BY <1>2, <3>4, <4>4 DEF Out
      <4>6. Cardinality(Passed(x)) <= Out(x)
        BY Finite DEF Out
      <4>7. QED  BY <3>1, <3>2, <4>3, <4>5, <4>6, Finite
    <3>5. QED  BY <3>3, <3>4
  <2>2. QED  BY <2>1 DEF Counted
<1>8. QED  BY <1>4, <1>5, <1>6, <1>7

\* Numbers up to n have a largest: the one whose distance to n is least.
LEMMA Largest ==
  ASSUME NEW n \in Nat, NEW S \in SUBSET (1..n), S # {}
  PROVE  \E i \in S : \A j \in S : j <= i
<1> DEFINE Shorter == {p \in Nat \X Nat : p[1] < p[2]}
           Distances == {n - i : i \in S}
<1>1. Distances # {} /\ Distances \subseteq Nat
  <2>1. ASSUME NEW i \in S PROVE n - i \in Nat
    <3>1. i \in 1..n
      OBVIOUS
    <3>2. QED  BY <3>1
  <2>2. QED  BY <2>1
<1>2. PICK l \in Distances : \A k \in Distances : <<k, l>> \notin Shorter
  <2>1. IsWellFoundedOn(Shorter, Nat)
    BY NatLessThanWellFounded DEF OpToRel
  <2> HIDE DEF Shorter, Distances
  <2>2. QED  BY <1>1, <2>1, WFMin
<1>3. PICK i \in S : l = n - i
  BY <1>2
<1>4. \A j \in S : ~(n - j < n - i)
  BY <1>1, <1>2, <1>3
<1>5. QED  BY <1>3, <1>4

\* What a retraction carries forward was cited before, so it may be cited.
LEMMA Carried ==
  ASSUME IndInv, NEW h \in DOMAIN hyps, CitedIn(hyps[h]) # {}
  PROVE  /\ LastCited(hyps[h]) \in Cited /\ LastCited(hyps[h]) # None
         /\ Citable(LastCited(hyps[h]))
<1> DEFINE log == hyps[h]
           at == {i \in DOMAIN log : log[i].d \notin {None, Null}}
           top == CHOOSE i \in at : \A j \in at : j <= i
<1>1. log \in Seq(Entries)
  BY DEF IndInv, LedgersTypeOK, HypsTyped, Logs
<1>2. Len(log) \in Nat /\ at \subseteq 1..Len(log) /\ at # {}
  BY <1>1 DEF CitedIn
<1>3. top \in at
  <2>1. \E i \in at : \A j \in at : j <= i
    BY <1>2, Largest
  <2>2. QED  BY <2>1
<1>4. log[top] \in Entries /\ log[top].d \notin {None, Null} /\ Citable(log[top].d)
  BY <1>1, <1>3 DEF IndInv, Sourced
<1>5. log[top].d \in Cited
  BY <1>4 DEF Entries
<1>6. QED  BY <1>4, <1>5 DEF LastCited

LEMMA EnterStep ==
  ASSUME IndInv, NEW c \in Callers, NEW same \in BOOLEAN, LedgerUpdate(c, same)
  PROVE  IndInv'
<1> USE DEF IndInv, LedgersTypeOK, delVars, msVars
<1> DEFINE u == calls[c]
           h == u.h
           source == IF Retracts(u.h, u.s, u.d) THEN LastCited(hyps[u.h]) ELSE u.d
           entry == Entry(u.s, source, u.bare)
           log == Append(hyps[h], entry)
           then == IF u.s \in Closing THEN [pc |-> "judging", h |-> u.h, i |-> Len(log)]
                   ELSE Idle
<1>1. /\ u.pc = "checked" /\ h \in DOMAIN hyps /\ h \in Hyps /\ u.s \in Statuses
      /\ u.d \in Cited /\ u.bare \in BOOLEAN /\ Citable(u.d)
  BY DEF LedgerUpdate, CallsTyped, CallTyped, Sourced, HypsTyped
<1>2. UNCHANGED <<confirm, asked, dels, registry, file, ready, acked, told>>
  BY DEF LedgerUpdate
<1>3. \/ calls' = [calls EXCEPT ![c] = Idle] /\ hyps' = hyps
      \/ /\ hyps' = [hyps EXCEPT ![h] = log]
         /\ calls' = [calls EXCEPT ![c] = then]
         /\ source \in Cited /\ Citable(source)
         /\ u.s \in Closing \/ Status(h) \in Closing => source # None
  <2>1. CASE Refused(h, u.s, u.d, same)
    BY <2>1 DEF LedgerUpdate
  <2>2. CASE ~Refused(h, u.s, u.d, same)
    <3>1. source \in Cited /\ Citable(source)
      BY <1>1, <2>2, Carried DEF Refused
    <3>2. u.s \in Closing \/ Status(h) \in Closing => source # None
      <4>1. CASE u.d # None
        BY <4>1 DEF Retracts
      <4>2. CASE u.d = None /\ Retracts(h, u.s, u.d)
        BY <1>1, <2>2, <4>2, Carried DEF Refused
      <4>3. CASE u.d = None /\ ~Retracts(h, u.s, u.d)
        <5>1. u.s \notin Closing /\ u.s = "OPEN"
          BY <1>1, <2>2, <4>3, Statuses3 DEF Refused
        <5>2. Status(h) \notin Closing
          BY <2>2, <4>3, <5>1 DEF Refused, Retracts, Closing
        <5>3. QED  BY <5>1, <5>2
      <4>4. QED  BY <4>1, <4>2, <4>3
    <3>3. QED  BY <2>2, <3>1, <3>2 DEF LedgerUpdate
  <2>3. QED  BY <2>1, <2>2
<1>4. hyps[h] \in Seq(Entries)
  BY <1>1 DEF HypsTyped, Logs
<1>5. Status(h) = hyps[h][Len(hyps[h])].status
  BY DEF Status, Last
<1>6. /\ source \in Cited => entry \in Entries
      /\ entry.status = u.s /\ entry.bare = u.bare /\ entry.d = source
  BY <1>1 DEF Entry, Entries
<1> HIDE DEF entry, source
<1>7. entry \in Entries => log \in Logs /\ Len(log) = Len(hyps[h]) + 1 /\ Len(hyps[h]) \in Nat
      /\ DOMAIN log = DOMAIN hyps[h] \cup {Len(log)} /\ Len(log) \notin DOMAIN hyps[h]
      /\ log[Len(log)] = entry /\ \A i \in DOMAIN hyps[h] : log[i] = hyps[h][i]
  BY <1>4, SMTT(30) DEF Logs
<1> HIDE DEF log
<1>8. HypsTyped'
  BY <1>1, <1>2, <1>3, <1>6, <1>7 DEF HypsTyped
<1>9. DelsTyped' /\ MilestonesTyped' /\ MilestonesAsTold'
  BY <1>2 DEF DelsTyped, MilestonesTyped, MilestonesAsTold
<1>10. DOMAIN hyps' = DOMAIN hyps
  BY <1>3 DEF HypsTyped
<1>11. CallsTyped'
  <2>1. PICK v : v = then
    OBVIOUS
  <2>2. CallTyped(Idle)' /\ CallTyped(v)'
    BY <1>1, <1>10, <2>1 DEF CallTyped, Idle
  <2> HIDE DEF then
  <2>3. QED  BY <1>2, <1>3, <1>10, <2>1, <2>2, MovesTyped
<1>12. then.pc \in {"idle", "judging"} /\ Idle.pc = "idle"
  BY DEF Idle
<1> HIDE DEF then
<1>13. OneSaver' /\ GateAsks'
  BY <1>1, <1>2, <1>3, <1>12 DEF OneSaver, GateAsks, CallsTyped
<1>14. Sourced'
  <2>1. \A d \in Cited : Citable(d)' <=> Citable(d)
    BY <1>2 DEF Citable, Completed
  <2>2. \A e \in Callers : calls'[e].pc = "checked" => calls'[e] = calls[e]
    BY <1>3, <1>12 DEF CallsTyped
  <2>3. ASSUME NEW x \in DOMAIN hyps, NEW i \in DOMAIN hyps'[x]
        PROVE  /\ hyps'[x][i].d \in Cited /\ Citable(hyps'[x][i].d)
               /\ hyps'[x][i].status \in Closing \/ (i > 1 /\ hyps'[x][i - 1].status \in Closing) =>
                    hyps'[x][i].d # None
    <3>1. hyps[x] \in Seq(Entries)
      BY DEF HypsTyped, Logs
    <3>2. CASE /\ i \in DOMAIN hyps[x] /\ hyps'[x][i] = hyps[x][i]
               /\ i > 1 => hyps'[x][i - 1] = hyps[x][i - 1]
      <4>1. hyps[x][i] \in Entries
        BY <3>1, <3>2
      <4>2. QED  BY <3>2, <4>1 DEF Sourced, Entries
    <3>3. CASE /\ x = h /\ i = Len(log) /\ hyps'[x] = log /\ log[i] = entry
               /\ source \in Cited /\ Citable(source)
               /\ u.s \in Closing \/ Status(h) \in Closing => source # None
      <4>1. i > 1 => log[i - 1] = hyps[h][Len(hyps[h])]
        <5>1. Len(log) = Len(hyps[h]) + 1 /\ Len(hyps[h]) \in Nat
              /\ \A j \in DOMAIN hyps[h] : log[j] = hyps[h][j]
          BY <1>6, <1>7, <3>3
        <5>2. i > 1 => Len(hyps[h]) \in DOMAIN hyps[h] /\ i - 1 = Len(hyps[h])
          BY <1>4, <3>3, <5>1
        <5>3. QED  BY <5>1, <5>2
      <4> HIDE DEF u
      <4>2. QED  BY <1>5, <1>6, <3>3, <4>1
    <3>4. CASE hyps' = hyps
      BY <3>1, <3>2, <3>4
    <3>5. CASE hyps' = [hyps EXCEPT ![h] = log] /\ x # h
      BY <3>1, <3>2, <3>5 DEF HypsTyped
    <3>6. CASE /\ hyps' = [hyps EXCEPT ![h] = log] /\ x = h
               /\ source \in Cited /\ Citable(source)
               /\ u.s \in Closing \/ Status(h) \in Closing => source # None
      <4>1. hyps'[x] = log
        BY <1>1, <3>6 DEF HypsTyped
      <4>2. CASE i = Len(log)
        BY <1>6, <1>7, <3>3, <3>6, <4>1, <4>2
      <4>3. CASE i # Len(log)
        <5>1. i \in DOMAIN hyps[x] /\ log[i] = hyps[x][i]
          BY <1>6, <1>7, <3>6, <4>1, <4>3
        <5>2. i > 1 => i - 1 \in DOMAIN hyps[x]
          BY <3>1, <5>1
        <5>3. i > 1 => log[i - 1] = hyps[x][i - 1]
          BY <1>6, <1>7, <3>6, <5>2
        <5>4. QED  BY <3>2, <4>1, <5>1, <5>3
      <4>4. QED  BY <4>2, <4>3
    <3>7. QED  BY <1>3, <3>4, <3>5, <3>6
  <2>4. (\A e \in Callers : calls[e].pc = "checked" => Citable(calls[e].d))'
    BY <1>2, <2>2 DEF Sourced, Citable, Completed
  <2>5. (\A x \in DOMAIN hyps : \A i \in DOMAIN hyps[x] :
           /\ Citable(hyps[x][i].d)
           /\ hyps[x][i].status \in Closing \/ (i > 1 /\ hyps[x][i - 1].status \in Closing) =>
                hyps[x][i].d # None)'
    BY <1>2, <1>10, <2>1, <2>3
  <2>6. QED  BY <2>4, <2>5 DEF Sourced
<1>15. Counted'
  <2>1. ASSUME NEW x \in Hyps
        PROVE  (Cardinality(Bare(x)) + Cardinality(Holding(x)) + Out(x) <= Allowed(x))'
    <3>1. Out(x)' = Out(x) /\ Allowed(x)' = Allowed(x)
      <4>1. Passed(x)' = Passed(x)
        BY <1>1, <1>3, <1>12 DEF Passed, CallsTyped
      <4>2. QED  BY <1>2, <4>1 DEF Out, Allowed
    <3>2. Cardinality(Bare(x)) + Cardinality(Holding(x)) + Out(x) <= Allowed(x)
      BY DEF Counted
    <3>3. IF x = h /\ u.bare THEN c \in Holding(x) /\ Holding(x)' = Holding(x) \ {c}
                             ELSE Holding(x)' = Holding(x)
      BY <1>1, <1>3, <1>12 DEF Holding, CallsTyped
    <3>4. \/ Bare(x)' = Bare(x)
          \/ x = h /\ u.bare /\ Bare(x)' = Bare(x) \cup {Len(log)}
      <4>1. CASE x # h \/ hyps' = hyps
        BY <1>1, <1>3, <1>10, <4>1 DEF Bare, HypsTyped
      <4>2. CASE x = h /\ hyps' = [hyps EXCEPT ![h] = log] /\ source \in Cited
        <5>1. hyps'[x] = log /\ x \in DOMAIN hyps /\ x \in DOMAIN hyps'
          BY <1>1, <1>10, <4>2 DEF HypsTyped
        <5>2. Bare(x)' = {i \in DOMAIN log : log[i].bare}
          BY <5>1 DEF Bare
        <5>3. Bare(x) = {i \in DOMAIN hyps[h] : hyps[h][i].bare}
          BY <4>2, <5>1 DEF Bare
        <5>4. /\ DOMAIN log = DOMAIN hyps[h] \cup {Len(log)} /\ Len(log) \notin DOMAIN hyps[h]
              /\ log[Len(log)].bare = u.bare
              /\ \A i \in DOMAIN hyps[h] : log[i] = hyps[h][i]
          BY <1>6, <1>7, <4>2
        <5>5. u.bare \in BOOLEAN
          BY <1>1
        <5> HIDE DEF u, h
        <5>6. QED  BY <4>2, <5>2, <5>3, <5>4, <5>5
      <4>3. QED  BY <1>3, <4>1, <4>2
    <3>5. IsFiniteSet(Bare(x)) /\ IsFiniteSet(Holding(x))
      BY Finite
    <3>6. Cardinality(Bare(x)') \in Nat
          /\ Cardinality(Bare(x)') <= Cardinality(Bare(x)) + IF x = h /\ u.bare THEN 1 ELSE 0
      <4>1. CASE Bare(x)' = Bare(x)
        BY <4>1, Finite
      <4>2. CASE x = h /\ u.bare /\ Bare(x)' = Bare(x) \cup {Len(log)}
        BY <3>5, <4>2, OneMore
      <4>3. QED  BY <3>4, <4>1, <4>2
    <3>7. Cardinality(Holding(x)') = Cardinality(Holding(x)) - IF x = h /\ u.bare THEN 1 ELSE 0
      BY <3>3, <3>5, FS_RemoveElement, Finite
    <3>8. QED  BY <3>1, <3>2, <3>6, <3>7, Finite
  <2>2. QED  BY <2>1 DEF Counted
<1>16. QED  BY <1>8, <1>9, <1>11, <1>13, <1>14, <1>15

\* The judge's note marks the newest entry and changes nothing it says.
LEMMA AnnotateStep ==
  ASSUME IndInv, NEW c \in Callers, AnnotateLast(c)
  PROVE  IndInv'
<1> USE DEF IndInv, LedgersTypeOK, delVars, msVars
<1> DEFINE h == calls[c].h
           n == Len(hyps[h])
           mark == calls[c].i # n
           log == [hyps[h] EXCEPT ![n] = [hyps[h][n] EXCEPT !.stray = mark]]
<1>1. /\ calls[c].pc = "judging" /\ h \in DOMAIN hyps
      /\ UNCHANGED <<confirm, asked, dels, registry, file, ready, acked, told>>
      /\ calls' = [calls EXCEPT ![c] = Idle]
      /\ hyps' = [hyps EXCEPT ![h] = log]
  BY DEF AnnotateLast, CallsTyped, CallTyped
<1>2. hyps[h] \in Seq(Entries) /\ hyps[h] # <<>>
  BY <1>1 DEF HypsTyped, Logs
<1>3. n \in DOMAIN hyps[h] /\ hyps[h][n] \in Entries /\ mark \in BOOLEAN
  BY <1>2
<1>4. [hyps[h][n] EXCEPT !.stray = mark] \in Entries
  BY <1>3 DEF Entries
<1>5. log \in Seq(Entries) /\ log # <<>> /\ DOMAIN log = DOMAIN hyps[h]
  BY <1>2, <1>3, <1>4
<1>6. \A i \in DOMAIN log : /\ log[i].status = hyps[h][i].status
                            /\ log[i].d = hyps[h][i].d
                            /\ log[i].bare = hyps[h][i].bare
  <2>1. \A i \in DOMAIN hyps[h] : hyps[h][i] \in Entries
    BY <1>2
  <2>2. QED  BY <1>3, <1>5, <2>1 DEF Entries
<1> HIDE DEF log, mark, n
<1>7. HypsTyped'
  BY <1>1, <1>5 DEF HypsTyped, Logs
<1>8. DOMAIN hyps' = DOMAIN hyps /\ \A x \in DOMAIN hyps :
        /\ DOMAIN hyps'[x] = DOMAIN hyps[x]
        /\ \A i \in DOMAIN hyps[x] : /\ hyps'[x][i].status = hyps[x][i].status
                                     /\ hyps'[x][i].d = hyps[x][i].d
                                     /\ hyps'[x][i].bare = hyps[x][i].bare
  BY <1>1, <1>5, <1>6 DEF HypsTyped
<1>9. DelsTyped' /\ MilestonesTyped' /\ MilestonesAsTold' /\ OneSaver' /\ GateAsks'
  BY <1>1 DEF DelsTyped, MilestonesTyped, MilestonesAsTold, OneSaver, GateAsks, CallsTyped, Idle
<1>10. CallsTyped'
  <2>1. CallTyped(Idle)'
    BY DEF CallTyped, Idle
  <2>2. QED  BY <1>1, <1>8, <2>1, MovesTyped
<1>11. Sourced'
  <2>1. \A e \in Callers : calls'[e].pc = "checked" => calls'[e] = calls[e]
    BY <1>1 DEF CallsTyped, Idle
  <2>2. \A d : Citable(d)' <=> Citable(d)
    BY <1>1 DEF Citable, Completed
  <2>3. ASSUME NEW x \in DOMAIN hyps, NEW i \in DOMAIN hyps[x], i > 1
        PROVE  i - 1 \in DOMAIN hyps[x]
    <3>1. hyps[x] \in Seq(Entries)
      BY DEF HypsTyped, Logs
    <3>2. QED  BY <2>3, <3>1
  <2>4. QED  BY <1>8, <2>1, <2>2, <2>3 DEF Sourced
<1>12. Counted'
  <2>1. Idle.pc = "idle"
    BY DEF Idle
  <2>2. \A x \in Hyps : Holding(x)' = Holding(x) /\ Passed(x)' = Passed(x)
    BY <1>1, <2>1, HoldsAlike
  <2>3. \A x \in Hyps : Bare(x)' = Bare(x)
    BY <1>8 DEF Bare
  <2>4. \A x \in Hyps : Out(x)' = Out(x) /\ Allowed(x)' = Allowed(x)
    BY <1>1, <2>2 DEF Out, Allowed
  <2>5. QED  BY <1>1, <2>2, <2>3, <2>4 DEF Counted
<1>13. QED  BY <1>7, <1>9, <1>10, <1>11, <1>12

-----------------------------------------------------------------------------
(* Delegations: what is DONE stays DONE.                                   *)

LEMMA RowsStep ==
  ASSUME IndInv, NEW c \in Callers,
         \/ calls' = calls
         \/ calls' = [calls EXCEPT ![c] = Idle] /\ calls[c].pc \notin {"confirmed", "checked", "saving"},
         DelsTyped', DOMAIN dels \subseteq DOMAIN dels',
         \A d \in DOMAIN dels : dels[d].status = "DONE" => dels'[d].status = "DONE",
         UNCHANGED <<hypVars, msVars>>
  PROVE  IndInv'
<1> USE DEF IndInv, LedgersTypeOK, hypVars, msVars
<1>1. Idle.pc = "idle"
  BY DEF Idle
<1>2. HypsTyped' /\ MilestonesTyped' /\ MilestonesAsTold' /\ OneSaver' /\ GateAsks'
  BY <1>1 DEF HypsTyped, MilestonesTyped, MilestonesAsTold, OneSaver, GateAsks, CallsTyped
<1>3. CallsTyped'
  <2>1. CASE calls' = calls
    BY <2>1 DEF CallsTyped, CallTyped
  <2>2. CASE calls' = [calls EXCEPT ![c] = Idle]
    <3>1. CallTyped(Idle)'
      BY DEF CallTyped, Idle
    <3>2. QED  BY <2>2, <3>1, MovesTyped
  <2>3. QED  BY <2>1, <2>2
<1>4. \A d : Citable(d) => Citable(d)'
  BY DEF Citable, Completed
<1>5. Sourced'
  BY <1>1, <1>4 DEF Sourced, CallsTyped
<1>6. Counted'
  <2>1. \A x \in Hyps : Holding(x)' = Holding(x) /\ Passed(x)' = Passed(x)
    BY <1>1, HoldsAlike DEF Holding, Passed
  <2>2. \A x \in Hyps : Bare(x)' = Bare(x) /\ Out(x)' = Out(x) /\ Allowed(x)' = Allowed(x)
    BY <2>1 DEF Bare, Out, Allowed
  <2>3. QED  BY <2>1, <2>2 DEF Counted
<1>7. QED  BY <1>2, <1>3, <1>5, <1>6

LEMMA FinishStep ==
  ASSUME IndInv, NEW d \in Dels, Finish(d) \/ Publish(d)
  PROVE  IndInv'
<1>1. DelsTyped' /\ DOMAIN dels \subseteq DOMAIN dels'
      /\ \A e \in DOMAIN dels : dels[e].status = "DONE" => dels'[e].status = "DONE"
  BY DEF Finish, Publish, IndInv, LedgersTypeOK, DelsTyped, Rows
<1>2. UNCHANGED <<hypVars, msVars, calls>>
  BY DEF Finish, Publish
<1>3. CASE Callers # {}
  BY <1>1, <1>2, <1>3, RowsStep
<1>4. CASE Callers = {}
  BY <1>1, <1>2, <1>4
  DEF hypVars, msVars, IndInv, LedgersTypeOK, HypsTyped, MilestonesTyped, MilestonesAsTold,
      OneSaver, GateAsks, CallsTyped, Sourced, Counted, Citable, Completed, Bare, Out, Allowed, Passed, Holding
<1>5. QED  BY <1>3, <1>4

LEMMA MarkStep ==
  ASSUME IndInv, NEW c \in Callers, MarkAttempt(c)
  PROVE  IndInv'
<1> DEFINE d == calls[c].d
<1>1. calls[c].pc = "linked" /\ d \in DOMAIN dels /\ calls[c].h \in Hyps
      /\ dels[d] \in Rows
  BY DEF MarkAttempt, IndInv, LedgersTypeOK, CallsTyped, CallTyped, DelsTyped
<1>2. dels' = [dels EXCEPT ![d] = [dels[d] EXCEPT !.attempt = TRUE,
                                                  !.hyps = @ \cup {calls[c].h}]]
  BY <1>1 DEF MarkAttempt, IndInv, LedgersTypeOK, DelsTyped
<1>3. [dels[d] EXCEPT !.attempt = TRUE, !.hyps = @ \cup {calls[c].h}] \in Rows
  BY <1>1 DEF Rows
<1>4. DelsTyped' /\ DOMAIN dels \subseteq DOMAIN dels'
  BY <1>1, <1>2, <1>3 DEF MarkAttempt, IndInv, LedgersTypeOK, DelsTyped
<1>5. \A e \in DOMAIN dels : dels[e].status = "DONE" => dels'[e].status = "DONE"
  BY <1>1, <1>2 DEF IndInv, LedgersTypeOK, DelsTyped, Rows
<1>6. UNCHANGED <<hypVars, msVars>> /\ calls' = [calls EXCEPT ![c] = Idle]
  BY DEF MarkAttempt
<1>7. QED  BY <1>1, <1>4, <1>5, <1>6, RowsStep

LEMMA RecordStep ==
  ASSUME IndInv, NEW c \in Callers, NEW d \in Dels, RecordStarted(c, d)
  PROVE  IndInv'
<1>1. calls[c].pc = "cleared" /\ calls[c].row \in Rows
  BY DEF RecordStarted, IndInv, LedgersTypeOK, CallsTyped, CallTyped, Sending
<1>2. DelsTyped' /\ DOMAIN dels \subseteq DOMAIN dels'
  BY <1>1 DEF RecordStarted, IndInv, LedgersTypeOK, DelsTyped
<1>3. \A e \in DOMAIN dels : dels[e].status = "DONE" => dels'[e].status = "DONE"
  BY DEF RecordStarted
<1>4. UNCHANGED <<hypVars, msVars>> /\ calls' = [calls EXCEPT ![c] = Idle]
  BY DEF RecordStarted
<1>5. QED  BY <1>1, <1>2, <1>3, <1>4, RowsStep

-----------------------------------------------------------------------------
(* Milestones: who computes a new ledger does so alone, from what was told. *)

LEMMA UnderLock ==
  ASSUME IndInv, MilestoneLock
  PROVE  file.state = "ok" /\ file.status = told /\ Milestones = told
BY DEF IndInv, LedgersTypeOK, MilestoneLock, OneSaver, MilestonesTyped, MilestonesAsTold, Milestones

LEMMA SaveStep ==
  ASSUME IndInv, NEW c \in Callers, calls[c].pc \notin {"confirmed", "checked", "saving"},
         NEW ms, IsLedger(ms),
         NEW then, then = Idle \/ (then \in Sending /\ then.pc = "ticked"),
         BeginSave(c, ms, then)
  PROVE  IndInv'
<1> USE DEF IndInv, LedgersTypeOK, hypVars, delVars
<1> DEFINE u == [pc |-> "saving", ms |-> ms, then |-> then]
<1>1. /\ calls' = [calls EXCEPT ![c] = u] /\ file' = Torn /\ MilestoneLock
      /\ UNCHANGED <<hypVars, delVars, ready, acked, told>>
  BY DEF BeginSave
<1>2. HypsTyped' /\ DelsTyped' /\ MilestonesTyped' /\ MilestonesAsTold'
  BY <1>1 DEF HypsTyped, DelsTyped, MilestonesTyped, MilestonesAsTold, Torn
<1>3. CallsTyped'
  <2>1. CallTyped(u)'
    BY DEF CallTyped, IsLedger
  <2> HIDE DEF u
  <2>2. QED  BY <1>1, <2>1, MovesTyped
<1>4. Sourced' /\ GateAsks'
  BY <1>1 DEF Sourced, GateAsks, CallsTyped, Citable, Completed
<1>5. OneSaver'
  BY <1>1 DEF OneSaver, CallsTyped, Torn, MilestoneLock
<1>6. Counted'
  <2>1. u.pc = "saving"
    OBVIOUS
  <2> HIDE DEF u
  <2>2. \A x \in Hyps : Holding(x)' = Holding(x) /\ Passed(x)' = Passed(x)
    BY <1>1, <2>1, HoldsAlike
  <2>3. \A x \in Hyps : Bare(x)' = Bare(x) /\ Out(x)' = Out(x) /\ Allowed(x)' = Allowed(x)
    BY <1>1, <2>2 DEF Bare, Out, Allowed
  <2>4. QED  BY <1>1, <2>2, <2>3 DEF Counted
<1>7. QED  BY <1>2, <1>3, <1>4, <1>5, <1>6

LEMMA EndSaveStep ==
  ASSUME IndInv, NEW c \in Callers, EndSave(c)
  PROVE  IndInv'
<1> USE DEF IndInv, LedgersTypeOK, hypVars, delVars
<1>1. PICK u : u = calls[c].then
  OBVIOUS
<1>2. /\ calls[c].pc = "saving" /\ IsLedger(calls[c].ms)
      /\ u = Idle \/ (u \in Sending /\ u.pc = "ticked")
      /\ calls' = [calls EXCEPT ![c] = u]
      /\ file' = Readable(calls[c].ms) /\ told' = calls[c].ms
      /\ UNCHANGED <<hypVars, delVars, ready, acked>>
  BY <1>1 DEF EndSave, CallsTyped, CallTyped
<1>3. u.pc \in {"idle", "ticked"}
  BY <1>2 DEF Idle
<1>4. HypsTyped' /\ DelsTyped' /\ MilestonesTyped' /\ MilestonesAsTold'
  BY <1>2 DEF HypsTyped, DelsTyped, MilestonesTyped, MilestonesAsTold, Readable, IsLedger
<1>5. CallsTyped'
  <2>1. CallTyped(u)'
    <3>1. CASE u = Idle
      BY <3>1 DEF CallTyped, Idle
    <3>2. CASE u \in Sending /\ u.pc = "ticked"
      BY <3>2 DEF CallTyped
    <3>3. QED  BY <1>2, <3>1, <3>2
  <2>2. QED  BY <1>2, <2>1, MovesTyped
<1>6. Sourced' /\ GateAsks'
  BY <1>2, <1>3 DEF Sourced, GateAsks, CallsTyped, Citable, Completed
<1>7. OneSaver'
  BY <1>2, <1>3 DEF OneSaver, CallsTyped, Readable
<1>8. Counted'
  <2>1. \A x \in Hyps : Holding(x)' = Holding(x) /\ Passed(x)' = Passed(x)
    BY <1>2, <1>3, HoldsAlike
  <2>2. \A x \in Hyps : Bare(x)' = Bare(x) /\ Out(x)' = Out(x) /\ Allowed(x)' = Allowed(x)
    BY <1>2, <2>1 DEF Bare, Out, Allowed
  <2>3. QED  BY <1>2, <2>1, <2>2 DEF Counted
<1>9. QED  BY <1>4, <1>5, <1>6, <1>7, <1>8

LEMMA ProposeMilestoneStep ==
  ASSUME IndInv, NEW c \in Callers, NEW m,
         (m \in Proposals /\ MilestonePropose(c, m)) \/ MilestoneClose(c, m)
  PROVE  IndInv'
<1>1. calls[c].pc = "idle" /\ MilestoneLock
  BY DEF MilestonePropose, MilestoneClose, BeginSave, Begins
<1>2. Milestones = told /\ IsLedger(told)
  BY <1>1, UnderLock DEF IndInv, LedgersTypeOK, MilestonesTyped
<1>3. CASE MilestonePropose(c, m)
  <2>1. PICK ms : ms = [x \in DOMAIN Milestones \cup {m} |->
                          IF x = m THEN "PENDING" ELSE Milestones[x]]
    OBVIOUS
  <2>2. IsLedger(ms)
    BY <1>2, <2>1 DEF IsLedger
  <2>3. QED  BY <1>1, <1>3, <2>1, <2>2, SaveStep DEF MilestonePropose
<1>4. CASE MilestoneClose(c, m)
  <2>1. PICK ms : ms = [Milestones EXCEPT ![m] = "CLOSED"]
    OBVIOUS
  <2>2. IsLedger(ms)
    BY <1>2, <2>1 DEF IsLedger
  <2>3. QED  BY <1>1, <1>4, <2>1, <2>2, SaveStep DEF MilestoneClose
<1>5. QED  BY <1>3, <1>4

LEMMA DelegateStep ==
  ASSUME IndInv, NEW c \in Callers, NEW hs \in SUBSET Hyps, NEW attempt \in BOOLEAN,
         NEW ns \in Namespaces \cup {None}, Delegate(c, hs, attempt, ns)
  PROVE  IndInv'
<1>1. PICK u : u = [pc |-> IF ns = None THEN "cleared" ELSE "delegating",
                    row |-> Row("RUNNING", hs, attempt), ns |-> ns,
                    torn |-> FALSE, blocked |-> FALSE]
  OBVIOUS
<1>2. u \in Sending /\ u.pc \in {"cleared", "delegating"} /\ ~u.blocked
  BY <1>1 DEF Sending, Row, Rows
<1>3. CallTyped(u)
  BY <1>2 DEF CallTyped
<1>4. /\ calls' = [calls EXCEPT ![c] = u] /\ calls[c].pc = "idle"
      /\ UNCHANGED <<hypVars, delVars, file, told, acked>>
  BY <1>1 DEF Delegate, Begins, msVars
<1>5. QED  BY <1>2, <1>3, <1>4, QuietStep

\* The milestones that are met are ticked in one go.
LEMMA TickStep ==
  ASSUME IndInv, NEW c \in Callers, AutoSatisfy(c)
  PROVE  IndInv'
<1>1. PICK u : u = [calls[c] EXCEPT !.pc = "ticked"]
  OBVIOUS
<1>2. calls[c].pc = "delegating" /\ calls[c] \in Sending /\ MilestoneLock
  BY DEF AutoSatisfy, IndInv, LedgersTypeOK, CallsTyped, CallTyped
<1>3. u \in Sending /\ u.pc = "ticked"
  BY <1>1, <1>2 DEF Sending
<1>4. CASE calls' = [calls EXCEPT ![c] = u] /\ UNCHANGED <<hypVars, delVars, msVars>>
  <2>1. CallTyped(u)
    BY <1>3 DEF CallTyped
  <2>2. UNCHANGED <<hypVars, delVars, file, told, acked>>
    BY <1>4 DEF msVars
  <2>3. QED  BY <1>2, <1>3, <1>4, <2>1, <2>2, QuietStep
<1>5. CASE \E met : BeginSave(c, [m \in DOMAIN Milestones |->
                                    IF m \in met THEN "CLOSED" ELSE Milestones[m]], u)
  <2>1. PICK met, ms : /\ ms = [m \in DOMAIN Milestones |->
                                  IF m \in met THEN "CLOSED" ELSE Milestones[m]]
                       /\ BeginSave(c, ms, u)
    BY <1>5
  <2>2. Milestones = told /\ IsLedger(told)
    BY <1>2, UnderLock DEF IndInv, LedgersTypeOK, MilestonesTyped
  <2>3. IsLedger(ms)
    BY <2>1, <2>2 DEF IsLedger
  <2>4. QED  BY <1>2, <1>3, <2>1, <2>3, SaveStep
<1>6. QED  BY <1>1, <1>4, <1>5 DEF AutoSatisfy

\* Who gets past the gate has asked, or found nothing open; what it found is
\* what was told, unless the file was being rewritten.
LEMMA GateStep ==
  ASSUME IndInv, NEW c \in Callers, MilestoneGate(c)
  PROVE  IndInv'
<1>1. calls[c].pc = "ticked" /\ calls[c] \in Sending
  BY DEF MilestoneGate, IndInv, LedgersTypeOK, CallsTyped, CallTyped
<1>2. UNCHANGED <<hypVars, delVars, file, told>> /\ acked \subseteq acked'
  BY DEF MilestoneGate
<1>3. CASE calls' = [calls EXCEPT ![c] = Idle]
  <2>1. CallTyped(Idle) /\ Idle.pc = "idle"
    BY DEF CallTyped, Idle
  <2>2. QED  BY <1>1, <1>2, <1>3, <2>1, QuietStep
<1>4. CASE /\ ~(Pending(Milestones) # {} /\ ~Confirmed(calls[c].ns))
           /\ calls' = [calls EXCEPT ![c].pc = "cleared",
                                     ![c].torn = file.state = "torn",
                                     ![c].blocked = Pending(told) # {}]
  <2>1. PICK u : u = [calls[c] EXCEPT !.pc = "cleared", !.torn = file.state = "torn",
                                      !.blocked = Pending(told) # {}]
    OBVIOUS
  <2>2. calls' = [calls EXCEPT ![c] = u]
    BY <1>4, <2>1 DEF IndInv, LedgersTypeOK, CallsTyped
  <2>3. u \in Sending /\ u.pc = "cleared" /\ u.ns = calls[c].ns
        /\ (u.torn <=> file.state = "torn") /\ (u.blocked <=> Pending(told) # {})
    BY <1>1, <2>1 DEF Sending
  <2>4. u.blocked => u.ns \in acked' \/ u.torn
    <3>1. ~u.torn => Milestones = told
      BY <2>3 DEF IndInv, LedgersTypeOK, MilestonesTyped, MilestonesAsTold, Milestones
    <3>2. QED  BY <1>2, <1>4, <2>3, <3>1 DEF Confirmed
  <2>5. CallTyped(u)
    BY <2>3 DEF CallTyped
  <2>6. QED  BY <1>1, <1>2, <2>2, <2>3, <2>4, <2>5, QuietStep
<1>5. QED  BY <1>3, <1>4 DEF MilestoneGate

LEMMA PredicateStep ==
  ASSUME IndInv, UNCHANGED <<hypVars, delVars, file, acked, told, calls>>
  PROVE  IndInv'
BY ZenonT(30) DEF hypVars, delVars, IndInv, LedgersTypeOK, HypsTyped, DelsTyped, MilestonesTyped,
       MilestonesAsTold, OneSaver, GateAsks, CallsTyped, CallTyped, Sourced, Counted,
       Citable, Completed, Bare, Out, Allowed, Passed, Holding

-----------------------------------------------------------------------------
\* A resume finds the milestones as told, or, when a write was cut short, the
\* defaults.
LEMMA CrashStep ==
  ASSUME IndInv, Crash
  PROVE  IndInv'
<1> USE DEF IndInv, LedgersTypeOK
<1>1. /\ calls' = [c \in Callers |-> Idle] /\ registry' = <<>> /\ confirm' = {} /\ acked' = {}
      /\ file' = Readable(Seeded(Milestones))
      /\ told' = (IF file.state = "torn" THEN Seeded(<<>>) ELSE told)
      /\ UNCHANGED <<hyps, asked, dels, ready>>
  BY DEF Crash
<1>2. Idle.pc = "idle"
  BY DEF Idle
<1>3. HypsTyped' /\ DelsTyped'
  BY <1>1 DEF HypsTyped, DelsTyped
<1>4. MilestonesTyped' /\ MilestonesAsTold'
  <2>1. IsLedger(told)
    BY DEF MilestonesTyped
  <2>2. file.state = "ok" => Milestones = told /\ Seeded(told) = told
    BY <2>1 DEF Milestones, MilestonesAsTold, Seeded, IsLedger
  <2>3. file.state = "torn" => Milestones = <<>>
    BY DEF Milestones
  <2>4. IsLedger(Seeded(<<>>))
    BY DEF IsLedger, Seeded
  <2>5. told' = Seeded(Milestones) /\ IsLedger(told')
    BY <1>1, <2>1, <2>2, <2>3, <2>4 DEF MilestonesTyped
  <2>6. file'.state = "ok" /\ file'.status = told'
    BY <1>1, <2>5 DEF Readable
  <2>7. QED  BY <2>5, <2>6 DEF MilestonesTyped, MilestonesAsTold, IsLedger
<1>5. CallsTyped'
  BY <1>1, <1>2 DEF CallsTyped, CallTyped
<1>6. Sourced' /\ GateAsks' /\ OneSaver'
  BY <1>1, <1>2 DEF Sourced, GateAsks, OneSaver, Citable, Completed, Readable
<1>7. Counted'
  <2>1. ASSUME NEW x \in Hyps
        PROVE  (Cardinality(Bare(x)) + Cardinality(Holding(x)) + Out(x) <= Allowed(x))'
    <3>1. Bare(x)' = Bare(x) /\ Allowed(x)' = Allowed(x)
      BY <1>1 DEF Bare, Allowed
    <3>2. Holding(x)' = {} /\ Passed(x)' = {}
      BY <1>1, <1>2 DEF Holding, Passed
    <3>3. Cardinality({}) = 0
      BY FS_EmptySet
    <3>4. Cardinality(Bare(x)) + Cardinality(Holding(x)) + Out(x) <= Allowed(x)
      BY DEF Counted
    <3>5. Cardinality(Holding(x)') = 0 /\ Out(x)' = 0
      BY <1>1, <3>2, <3>3 DEF Out
    <3>6. QED  BY <3>1, <3>4, <3>5, Finite
  <2>2. QED  BY <2>1 DEF Counted
<1>8. QED  BY <1>3, <1>4, <1>5, <1>6, <1>7

LEMMA NoRulingStep ==
  ASSUME IndInv, NEW c \in Callers, NoRuling(c)
  PROVE  IndInv'
<1>1. CallTyped(Idle) /\ Idle.pc = "idle"
  BY DEF CallTyped, Idle
<1>2. QED  BY <1>1, QuietStep DEF NoRuling, msVars

LEMMA LinkStep ==
  ASSUME IndInv, NEW c \in Callers, NEW d \in Dels, NEW h \in Hyps,
         LinkFalsificationAttempt(c, d, h)
  PROVE  IndInv'
<1>1. PICK u : u = [pc |-> "linked", d |-> d, h |-> h]
  OBVIOUS
<1>2. d \in DOMAIN dels
  BY DEF LinkFalsificationAttempt, IndInv, LedgersTypeOK, DelsTyped
<1>3. CallTyped(u) /\ u.pc = "linked"
  BY <1>1, <1>2 DEF CallTyped
<1>4. QED  BY <1>1, <1>3, QuietStep DEF LinkFalsificationAttempt, Begins, msVars

\* One step of the ledgers keeps all of it.
LEMMA NextStep == IndInv /\ [Next]_vars => IndInv'
<1> SUFFICES ASSUME IndInv, [Next]_vars PROVE IndInv'
  OBVIOUS
<1>1. ASSUME NEW c \in Callers,
             \/ \E h \in Hyps : HypothesisPropose(c, h)
             \/ \E h \in DOMAIN hyps, s \in Statuses : AskToConfirm(c, h, s)
             \/ \E h \in DOMAIN hyps, s \in Statuses, d \in Cited : HypothesisUpdate(c, h, s, d)
             \/ UseConfirmation(c)
             \/ \E same \in BOOLEAN : LedgerUpdate(c, same)
             \/ AnnotateLast(c)
      PROVE  IndInv'
  BY <1>1, ProposeStep, AskStep, UpdateStep, UseStep, EnterStep, AnnotateStep
<1>2. ASSUME NEW c \in Callers,
             \/ NoRuling(c)
             \/ \E d \in Dels, h \in Hyps : LinkFalsificationAttempt(c, d, h)
             \/ MarkAttempt(c)
             \/ \E d \in Dels : RecordStarted(c, d)
      PROVE  IndInv'
  BY <1>2, NoRulingStep, LinkStep, MarkStep, RecordStep
<1>3. ASSUME NEW c \in Callers,
             \/ \E m \in Proposals : MilestonePropose(c, m)
             \/ \E m \in Defaults \cup Proposals : MilestoneClose(c, m)
             \/ \E hs \in SUBSET Hyps, attempt \in BOOLEAN, ns \in Namespaces \cup {None} :
                  Delegate(c, hs, attempt, ns)
             \/ AutoSatisfy(c) \/ MilestoneGate(c) \/ EndSave(c)
      PROVE  IndInv'
  BY <1>3, ProposeMilestoneStep, DelegateStep, TickStep, GateStep, EndSaveStep
<1>4. CASE \E d \in Dels : Finish(d) \/ Publish(d)
  BY <1>4, FinishStep
<1>5. CASE (\E m \in Automatic : PredicateHolds(m)) \/ UNCHANGED vars
  BY <1>5, PredicateStep DEF PredicateHolds, vars, msVars
<1>6. CASE Crash
  BY <1>6, CrashStep
<1>7. QED  BY <1>1, <1>2, <1>3, <1>4, <1>5, <1>6 DEF Next

\* The invariant behind the four others.
THEOREM Inductive == Spec => []IndInv
<1>1. QED  BY Starts, NextStep, PTL DEF Spec

\* The variables of the ledgers keep their types: a call that is under way names
\* a hypothesis or a delegation that is on record, and what a call is about to
\* save holds every default.
THEOREM TypeCorrect == Spec => []LedgersTypeOK
<1>1. IndInv => LedgersTypeOK
  BY DEF IndInv
<1>2. QED  BY <1>1, Inductive, PTL

\* VerdictHasSource: however many tool calls check, enter and judge verdicts
\* while delegations end, every verdict and every retraction names null or rests
\* on finished work; and one question lets each tool call enter SUPPORTED without
\* an attempt once at most (HypothesisUpdate, _check_cited_delegation,
\* _supported_needs_attempt).
THEOREM VerdictsHaveSources == Spec => []VerdictHasSource
<1>1. IndInv => VerdictHasSource
  <2> SUFFICES ASSUME IndInv, NEW h \in DOMAIN hyps
               PROVE  /\ \A i \in DOMAIN hyps[h] :
                           hyps[h][i].status \in Closing
                             \/ (i > 1 /\ hyps[h][i - 1].status \in Closing) =>
                               hyps[h][i].d \in GroundTruth \cup {Null} \/ Completed(hyps[h][i].d)
                      /\ Cardinality({i \in DOMAIN hyps[h] : hyps[h][i].bare}) <=
                           asked[h] * Cardinality(Callers)
    BY DEF VerdictHasSource
  <2>1. h \in Hyps
    BY DEF IndInv, LedgersTypeOK, HypsTyped
  <2>2. \A i \in DOMAIN hyps[h] :
          hyps[h][i].status \in Closing \/ (i > 1 /\ hyps[h][i - 1].status \in Closing) =>
            hyps[h][i].d \in GroundTruth \cup {Null} \/ Completed(hyps[h][i].d)
    BY DEF IndInv, Sourced, Citable
  <2>3. Bare(h) = {i \in DOMAIN hyps[h] : hyps[h][i].bare}
    BY DEF Bare
  <2>4. Cardinality(Bare(h)) + Cardinality(Holding(h)) + Out(h) <= Allowed(h)
    BY <2>1 DEF IndInv, Counted
  <2>5. Cardinality(Bare(h)) <= Allowed(h)
    BY <2>1, <2>4, Finite
  <2>6. QED  BY <2>2, <2>3, <2>5 DEF Allowed
<1>2. QED  BY <1>1, Inductive, PTL

\* MilestonesAsTold: parallel tool calls lose no acknowledged milestone, over
\* resumes (MilestoneLedger._save).
THEOREM MilestonesAreAsTold == Spec => []MilestonesAsTold
<1>1. IndInv => MilestonesAsTold
  BY DEF IndInv
<1>2. QED  BY <1>1, Inductive, PTL

\* GateAsks: no design is opened past open milestones without the question,
\* except by a read of a file that is being rewritten (implementer_block).
THEOREM GateAlwaysAsks == Spec => []GateAsks
<1>1. IndInv => GateAsks
  BY DEF IndInv
<1>2. QED  BY <1>1, Inductive, PTL
=============================================================================
