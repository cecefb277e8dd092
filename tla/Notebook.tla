------------------------------- MODULE Notebook -------------------------------
(***************************************************************************)
(* Authoring of the deliverable, pipeline.ipynb, by the notebook tools of  *)
(* the strategizer (nodes/tools/routing/notebook.py).  Every tool call     *)
(* loads the whole file, edits the cells by name, and writes the file back *)
(* in place; a file that cannot be read counts as a new notebook.  There   *)
(* is no lock: a backend that runs the tool calls of one turn in parallel  *)
(* has several Calls, the Claude backend has one.                          *)
(*                                                                         *)
(* A cell is known by the section it belongs to and its role there: the    *)
(* cell a section is named after, or the section's "__why" explainer.  The *)
(* text of a cell stands for its rev, the hash of its source.              *)
(***************************************************************************)
EXTENDS Naturals, Sequences, FiniteSets, SequencesExt, Subsequences

CONSTANTS
  Calls,        \* tool calls that may run at the same time
  Spine,        \* the canonical sections, in their order
  Pillars,      \* those of them that have code; the others are narrative
  Customs,      \* sections outside the canonical structure
  Texts,        \* contents of a cell
  RawNotebooks, \* notebooks the agent hands to the raw tool
  MaxWrites,    \* bound on tool calls that write
  MaxKills,     \* bound on kills of the process
  CheckBudget   \* calls of CheckDeliverable that execute the notebook

ASSUME CountAssumption == {MaxWrites, MaxKills, CheckBudget} \subseteq Nat
ASSUME SpineAssumption ==
  /\ Spine \in Seq(STRING) /\ IsInjective(Spine)
  /\ Pillars \subseteq ToSet(Spine)
  /\ Customs \subseteq STRING /\ Customs \cap ToSet(Spine) = {}

Main(s) == <<s, "main">>
Why(s) == <<s, "why">>
NoName == <<"", "unnamed">>
Sections == ToSet(Spine) \cup Customs
Names == {Main(s) : s \in Sections} \cup {Why(s) : s \in Sections}
PillarNames == {Main(s) : s \in Pillars} \cup {Why(s) : s \in Pillars}
MarkdownNames == Names \ PillarNames

Cell(n, t) == [name |-> n, text |-> t]
CellType == [name : Names \cup {NoName}, text : Texts]

ASSUME RawAssumption == RawNotebooks \subseteq Seq(CellType)

\* Only a pillar's explainer is canonical, just before the pillar.
Canonical == {Main(s) : s \in ToSet(Spine)} \cup {Why(s) : s \in Pillars}

\* Every canonical name has a slot, and the slots are in canonical order.
Slots == [i \in 1..(2 * Len(Spine)) |->
            IF i % 2 = 1 THEN Why(Spine[(i + 1) \div 2]) ELSE Main(Spine[i \div 2])]

VARIABLES
  notebook, \* pipeline.ipynb: whether it is there and readable, and its cells
  call,     \* the tool calls under way
  revs,     \* the text of each cell as the agent last saw it
  checks,   \* executions of CheckDeliverable so far
  writes, kills,
  kept      \* ghost: the texts the tools said they wrote, until dropped

notebookVars == <<notebook, call, revs, checks, writes, kills, kept>>

Absent == [state |-> "absent", cells |-> <<>>]
Emptied == [state |-> "emptied", cells |-> <<>>]
Mixed == [state |-> "mixed", cells |-> <<>>]
Saved(cells) == [state |-> "ok", cells |-> cells]
Idle == [pc |-> "idle", op |-> "none", cells |-> <<>>, set |-> <<>>, drop |-> {}]

-----------------------------------------------------------------------------
(* A notebook seen as a map of names, and written back as a list.          *)

NamesIn(cells) == {cells[i].name : i \in DOMAIN cells} \ {NoName}

\* Of two cells with one name, the later one counts.
Text(cells, n) == cells[Max({i \in DOMAIN cells : cells[i].name = n})].text

Extras(cells) == Picked(cells, {i \in DOMAIN cells : cells[i].name = NoName})

\* Mutant: cells stay where they were, new ones go to the end.
EmitInPlace(cells, set) ==
  Picked(cells, {i \in DOMAIN cells : cells[i].name \notin NamesIn(set)}) \o set

\* The canonical names of a notebook, in their order; the others, in the order
\* they were first seen.
Listed(cells) == Picked(Slots, {i \in DOMAIN Slots : Slots[i] \in NamesIn(cells) \cap Canonical})
Custom(cells) ==
  LET first == {i \in DOMAIN cells : /\ cells[i].name \in NamesIn(cells) \ Canonical
                                     /\ \A j \in 1..(i - 1) : cells[j].name # cells[i].name}
  IN Picked([i \in DOMAIN cells |-> cells[i].name], first)

Ordered(cells) == Listed(cells) \o Custom(cells)

\* The cells `set` replace or follow those there: named ones once each, then
\* the cells without a name.
Emit(cells, set) ==
  LET all == cells \o set
      names == Ordered(all)
  IN [i \in DOMAIN names |-> Cell(names[i], Text(all, names[i]))] \o Extras(cells)

\* Deleting keeps the order and takes a pillar's explainer along.
DropTargets(n) == IF n \in {Main(s) : s \in Pillars} THEN {n, Why(n[1])} ELSE {n}

-----------------------------------------------------------------------------
NotebookInit ==
  /\ notebook = Absent
  /\ call = [c \in Calls |-> Idle]
  /\ revs = <<>> /\ kept = <<>>
  /\ checks = 0 /\ writes = 0 /\ kills = 0

\* A corrupt or missing file starts clean.
Loaded == IF notebook.state = "ok" THEN notebook.cells ELSE <<>>

\* The tool has loaded the notebook and accepted its arguments: it will write
\* the cells of `set` and leave out those of `drop`.
Accept(c, op, set, drop) ==
  /\ call[c].pc = "idle" /\ writes < MaxWrites
  /\ writes' = writes + 1
  /\ call' = [call EXCEPT ![c] = [pc |-> "loaded", op |-> op, cells |-> Loaded,
                                  set |-> set, drop |-> drop]]
  /\ UNCHANGED <<notebook, revs, checks, kills, kept>>

AddPipelineMarkdownCell(c, n, t) ==
  /\ n \in MarkdownNames /\ n \notin NamesIn(Loaded)
  /\ Accept(c, "add", <<Cell(n, t)>>, {})

\* Only the code cell is checked to be new; the explainer is overwritten.
AddPipelineCell(c, s, t) ==
  /\ Main(s) \notin NamesIn(Loaded)
  /\ Accept(c, "add", <<Cell(Why(s), t), Cell(Main(s), t)>>, {})

\* A full-field edit and a delete present the rev last seen.
RevMatches(n) ==
  n \in NamesIn(Loaded) /\ n \in DOMAIN revs /\ revs[n] = Text(Loaded, n)

\* For a pillar `code`, `why` or both; the rev is that of the code cell.
EditPipelineCell(c, n, t) ==
  /\ RevMatches(n)
  /\ \/ Accept(c, "edit", <<Cell(n, t)>>, {})
     \/ /\ n \in {Main(s) : s \in Pillars}
        /\ \/ Accept(c, "edit", <<Cell(Why(n[1]), t)>>, {})
           \/ Accept(c, "edit", <<Cell(Why(n[1]), t), Cell(n, t)>>, {})

\* A surgical edit presents a piece of the source, which may still be there
\* although the cell has changed elsewhere.
SurgicalEdit(c, n, t) ==
  /\ n \in NamesIn(Loaded) \cap DOMAIN revs
  /\ Accept(c, "edit", <<Cell(n, t)>>, {})

DeletePipelineCell(c, n) ==
  /\ RevMatches(n)
  /\ Accept(c, "delete", <<>>, DropTargets(n))

\* The raw tool writes whatever valid notebook it is given, over the old one.
WriteDeliverable(c, cells) ==
  /\ Accept(c, "raw", cells, Names)

\* open("w") empties the file before the new cells are in it.
BeginWrite(c) ==
  /\ call[c].pc = "loaded"
  /\ notebook' = Emptied
  /\ call' = [call EXCEPT ![c].pc = "writing"]
  /\ UNCHANGED <<revs, checks, writes, kills, kept>>

\* A delete leaves out the cells of its targets.
Remaining(cells, drop) == Picked(cells, {i \in DOMAIN cells : cells[i].name \notin drop})

Result(c) ==
  CASE call[c].op = "raw" -> call[c].set
    [] call[c].op = "delete" -> Remaining(call[c].cells, call[c].drop)
    [] OTHER -> Emit(call[c].cells, call[c].set)

\* The agent is told the revs of what it wrote.
Told(c, map) ==
  LET named == NamesIn(call[c].set)
  IN [n \in (DOMAIN map \ call[c].drop) \cup named |->
        IF n \in named THEN Text(call[c].set, n) ELSE map[n]]

\* No other call has the file open, or has written it in the meantime.
Alone(c) == notebook = Emptied /\ \A d \in Calls \ {c} : call[d].pc # "writing"

\* Of two writes at once, either is whole or what is left is neither.
EndWrite(c) ==
  /\ call[c].pc = "writing"
  /\ notebook' \in {Saved(Result(c))} \cup (IF Alone(c) THEN {} ELSE {Mixed})
  /\ revs' = Told(c, revs)
  /\ kept' = Told(c, kept)
  /\ call' = [call EXCEPT ![c] = Idle]
  /\ UNCHANGED <<checks, writes, kills>>

\* Read one cell, or the list of all of them with their revs.
ShowNotebook(names) ==
  /\ notebook.state = "ok"
  /\ revs' = [n \in (DOMAIN revs \cup names) \cap NamesIn(notebook.cells) |->
               IF n \in names THEN Text(notebook.cells, n) ELSE revs[n]]
  /\ UNCHANGED <<notebook, call, checks, writes, kills, kept>>

\* CheckDeliverable executes the notebook; without one it costs nothing.
CheckDeliverable ==
  /\ notebook.state # "absent" /\ checks < CheckBudget
  /\ checks' = checks + 1
  /\ UNCHANGED <<notebook, call, revs, writes, kills, kept>>

\* The process is killed and the run resumed: a write that had begun leaves
\* the file unreadable, the agent's context and the checks are gone.
Kill ==
  /\ kills < MaxKills
  /\ kills' = kills + 1
  /\ call' = [c \in Calls |-> Idle]
  /\ revs' = <<>> /\ checks' = 0
  /\ kept' = IF notebook.state = "ok" THEN kept ELSE <<>>
  /\ UNCHANGED <<notebook, writes>>

\* Mutant: the notebook of the run before is left in place.
NotArchived == notebook

\* A run started afresh renames the notebook of the run before it, readable or
\* not.
Archived == Absent

FreshRun ==
  /\ kills < MaxKills
  /\ kills' = kills + 1
  /\ notebook' = Archived
  /\ call' = [c \in Calls |-> Idle]
  /\ revs' = <<>> /\ checks' = 0 /\ kept' = <<>>
  /\ UNCHANGED writes

NotebookNext ==
  \/ \E c \in Calls :
       \/ \E n \in Names, t \in Texts :
            \/ AddPipelineMarkdownCell(c, n, t)
            \/ EditPipelineCell(c, n, t)
            \/ SurgicalEdit(c, n, t)
       \/ \E s \in Sections, t \in Texts : AddPipelineCell(c, s, t)
       \/ \E n \in Names : DeletePipelineCell(c, n)
       \/ \E cells \in RawNotebooks : WriteDeliverable(c, cells)
       \/ BeginWrite(c)
       \/ EndWrite(c)
  \/ ShowNotebook(Names)
  \/ \E n \in Names : ShowNotebook({n})
  \/ CheckDeliverable
  \/ Kill
  \/ FreshRun

NotebookSpec == NotebookInit /\ [][NotebookNext]_notebookVars

-----------------------------------------------------------------------------
Quiet == notebook.state = "ok" /\ \A c \in Calls : call[c].pc = "idle"

\* The named cells of the notebook are those the tools of this run said they
\* wrote, with that text: edits of other cells, re-emission and a resume lose
\* none, and none leaks in from an earlier run (_emit_notebook, _by_name,
\* _archive_prior_pipeline_notebook).
NotebookAsTold ==
  Quiet => /\ NamesIn(notebook.cells) = DOMAIN kept
           /\ \A n \in DOMAIN kept : Text(notebook.cells, n) = kept[n]

\* Where a name belongs: its slot, or after all of them, or at the very end.
Place(n) ==
  IF n \in Canonical THEN CHOOSE i \in DOMAIN Slots : Slots[i] = n
  ELSE IF n # NoName THEN 2 * Len(Spine) + 1 ELSE 2 * Len(Spine) + 2

\* Whatever the order of the calls, and whatever a raw write left behind, an
\* added or edited notebook has each name once, the canonical cells in
\* canonical order, and keeps its unnamed cells, at the end (_NB_ORDER).
InOrder(cells) ==
  \A i, j \in DOMAIN cells :
    i < j => /\ Place(cells[i].name) <= Place(cells[j].name)
             /\ cells[i].name = cells[j].name => cells[i].name = NoName
CanonicalOrder ==
  [][\A c \in Calls :
       /\ call[c].pc = "writing" /\ call[c].op \in {"add", "edit"}
       /\ call'[c].pc = "idle" /\ kills' = kills /\ notebook'.state = "ok"
       => /\ InOrder(notebook'.cells)
          /\ Len(Extras(notebook'.cells)) = Len(Extras(call[c].cells))]_notebookVars

=============================================================================
