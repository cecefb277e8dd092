--------------------------- MODULE LiteratureCorpus ---------------------------
(***************************************************************************)
(* The corpus of a study on disk (literature/literature_corpus.py): an     *)
(* index of papers (corpus.csv), their passages (chunks.jsonl), and for    *)
(* each paper its text and the embeddings of its passages.  The three are  *)
(* written at different steps of one CorpusAdd, under a file lock that is  *)
(* held for each step and not across them.                                 *)
(*                                                                         *)
(* A source is what a paper is added from: its PDF, which may turn out to  *)
(* be scanned, one of two full texts, or no more than its abstract.        *)
(*                                                                         *)
(* CorpusSearch reads the three one after the other: the index without the *)
(* lock, the passages under it, then the embeddings of one paper at a time *)
(* without it.  The embeddings file of a paper is written in one step.     *)
(***************************************************************************)
EXTENDS Naturals, Sequences, FiniteSets, SequencesExt

CONSTANTS
  Adders,    \* tool calls that may be adding a paper
  Papers

Nobody == "nobody"

ASSUME AdderAssumption == Nobody \notin Adders

VARIABLES
  csv,      \* the index: its rows, and whether it is being rewritten
  chunks,   \* passages of chunks.jsonl; Torn stands for a line cut short
  npy,      \* the source whose passages the embeddings of a paper are of
  text,     \* the source the text file of a paper was taken from
  adding,   \* the CorpusAdd calls under way
  searching, \* the CorpusSearch calls under way
  holder,   \* who holds the file lock
  told      \* ghost: papers the agent was told are in the corpus

corpusVars == <<csv, chunks, npy, text, adding, searching, holder, told>>

Sources == {"pdf", "scan", "fulltext", "preprint", "abstract"}
Quotable(src) == src \in {"pdf", "fulltext", "preprint"}
Passages(src) == IF Quotable(src) THEN 2 ELSE 1

Nothing == "nothing"
NotAdding == [pc |-> "idle", paper |-> Nothing, src |-> Nothing]
Torn == [paper |-> Nothing, src |-> "torn", k |-> 0]

\* Two ghosts: the adders that have appended since the search read the passages,
\* and the papers whose embeddings they were the last to save.
Search(pc, full, read, todo) ==
  [pc |-> pc, full |-> full, read |-> read, todo |-> todo,
   embs |-> [p \in Papers |-> Nothing], late |-> {}, overtaken |-> {}]
NotSearching == Search("idle", {}, <<>>, {})

Row(p, src) == [paper |-> p, src |-> src]
Chunk(p, src, k) == [paper |-> p, src |-> src, k |-> k]
ChunkText(p, src) == [k \in 1..Passages(src) |-> Chunk(p, src, k)]

CorpusInit ==
  /\ csv = [state |-> "ok", rows |-> <<>>]
  /\ chunks = <<>>
  /\ npy = [p \in Papers |-> Nothing]
  /\ text = [p \in Papers |-> Nothing]
  /\ adding = [c \in Adders |-> NotAdding]
  /\ searching = [c \in Adders |-> NotSearching]
  /\ holder = Nobody
  /\ told = {}

Listed == {csv.rows[i].paper : i \in DOMAIN csv.rows}
AddAt(c, pc) == adding[c].pc = pc
SearchAt(c, pc) == searching[c].pc = pc
CorpusIdle(c) == AddAt(c, "idle") /\ SearchAt(c, "idle")

\* The first look at the index; the file exists and is of a known type.
BeginAdd(c, p, src) ==
  /\ AddAt(c, "idle") /\ holder = Nobody /\ p \notin Listed
  /\ adding' = [adding EXCEPT ![c] = [pc |-> "copy", paper |-> p, src |-> src]]
  /\ UNCHANGED <<csv, chunks, npy, text, holder, told, searching>>

\* Whether a source has a text to speak of, whichever extractor is there.
Extracted(src) == src # "scan"

\* The source is copied into the directory of the paper, a PDF extracted.
\* One that yields next to no text is an error, after its text is written.
CopySource(c) ==
  /\ AddAt(c, "copy")
  /\ text' = [text EXCEPT ![adding[c].paper] = adding[c].src]
  /\ adding' = IF Extracted(adding[c].src) THEN [adding EXCEPT ![c].pc = "append"]
               ELSE [adding EXCEPT ![c] = NotAdding]
  /\ UNCHANGED <<csv, chunks, npy, holder, told, searching>>

BeginAppend(c) ==
  /\ AddAt(c, "append") /\ holder = Nobody
  /\ holder' = c
  /\ adding' = [adding EXCEPT ![c].pc = "appending"]
  /\ UNCHANGED <<csv, chunks, npy, text, told, searching>>

\* What is appended to a line cut short becomes part of that line.
Appended(old, new) ==
  IF old # <<>> /\ Last(old) = Torn /\ new # <<>> THEN old \o Tail(new) ELSE old \o new

AppendChunks(c) ==
  /\ AddAt(c, "appending")
  /\ chunks' = Appended(chunks, ChunkText(adding[c].paper, adding[c].src))
  /\ holder' = Nobody
  /\ adding' = [adding EXCEPT ![c].pc = "embed"]
  /\ searching' = [s \in Adders |-> IF SearchAt(s, "load")
                                    THEN [searching[s] EXCEPT !.late = @ \cup {c}]
                                    ELSE searching[s]]
  /\ UNCHANGED <<csv, npy, text, told>>

\* A search that has not loaded them yet finds the new embeddings.
EmbedPassages(c) ==
  LET p == adding[c].paper IN
  /\ AddAt(c, "embed")
  /\ npy' = [npy EXCEPT ![p] = adding[c].src]
  /\ adding' = [adding EXCEPT ![c].pc = "save"]
  /\ searching' = [s \in Adders |->
                     IF p \notin searching[s].todo THEN searching[s]
                     ELSE IF c \in searching[s].late
                     THEN [searching[s] EXCEPT !.overtaken = @ \cup {p}]
                     ELSE [searching[s] EXCEPT !.overtaken = @ \ {p}]]
  /\ UNCHANGED <<csv, chunks, text, holder, told>>

\* Neither this process nor a worker process has an embedding model.
NoModel(c) ==
  /\ AddAt(c, "embed")
  /\ adding' = [adding EXCEPT ![c].pc = "save"]
  /\ UNCHANGED <<csv, chunks, npy, text, holder, told, searching>>

\* The worker process raises, and so does CorpusAdd.
EmbedFails(c) ==
  /\ AddAt(c, "embed")
  /\ adding' = [adding EXCEPT ![c] = NotAdding]
  /\ UNCHANGED <<csv, chunks, npy, text, holder, told, searching>>

\* Mutant: the first look at the index is taken to be still true.
KnownStale(c) == FALSE

Known(c) == adding[c].paper \in Listed

BeginSave(c) ==
  /\ AddAt(c, "save") /\ holder = Nobody
  /\ IF Known(c)
     THEN /\ adding' = [adding EXCEPT ![c] = NotAdding]
          /\ UNCHANGED <<csv, holder>>
     ELSE /\ holder' = c
          /\ csv' = [csv EXCEPT !.state = "writing"]
          /\ adding' = [adding EXCEPT ![c].pc = "saving"]
  /\ UNCHANGED <<chunks, npy, text, told, searching>>

SavedRows(c) == Append(csv.rows, Row(adding[c].paper, adding[c].src))

EndSave(c) ==
  /\ AddAt(c, "saving")
  /\ csv' = [state |-> "ok", rows |-> SavedRows(c)]
  /\ holder' = Nobody
  /\ told' = told \cup {adding[c].paper}
  /\ adding' = [adding EXCEPT ![c] = NotAdding]
  /\ UNCHANGED <<chunks, npy, text, searching>>

AddStep(c) ==
  \/ CopySource(c) \/ BeginAppend(c) \/ AppendChunks(c) \/ EmbedPassages(c)
  \/ NoModel(c) \/ EmbedFails(c) \/ BeginSave(c) \/ EndSave(c)

\* The process is killed: of a file being rewritten a prefix is left, of one
\* being appended to also a line cut short.  The system frees the lock.
CorpusKill ==
  /\ adding' = [c \in Adders |-> NotAdding]
  /\ searching' = [c \in Adders |-> NotSearching]
  /\ holder' = Nobody
  /\ \/ /\ holder = Nobody
        /\ UNCHANGED <<csv, chunks, told>>
     \/ \E c \in Adders :
          /\ AddAt(c, "saving")
          /\ \E n \in 0..Len(csv.rows) :
               csv' = [state |-> "ok", rows |-> SubSeq(csv.rows, 1, n)]
          /\ told' = {csv'.rows[i].paper : i \in DOMAIN csv'.rows}
          /\ UNCHANGED chunks
     \/ \E c \in Adders :
          LET new == ChunkText(adding[c].paper, adding[c].src) IN
          /\ AddAt(c, "appending")
          /\ \E n \in 0..Len(new) : \E cut \in {<<>>, <<Torn>>} :
               chunks' = Appended(chunks, SubSeq(new, 1, n) \o cut)
          /\ UNCHANGED <<csv, told>>
  /\ UNCHANGED <<npy, text>>

-----------------------------------------------------------------------------
(* CorpusSearch.                                                            *)

\* A line cut short makes every later search fail.
Readable == \A i \in DOMAIN chunks : chunks[i] # Torn

FullText(rows) == {rows[i].paper : i \in {j \in DOMAIN rows : Quotable(rows[j].src)}}
PapersOf(s) == {s[i].paper : i \in DOMAIN s}

\* The passages that are ranked: those of papers listed with their full text.
FullTextIds == FullText(csv.rows)
Searched == {chunks[i] : i \in {j \in DOMAIN chunks : chunks[j].paper \in FullTextIds}}

\* The index is read without the lock, so some of its rows may not be there while
\* it is rewritten.  A search of no full text is refused, and changes nothing.
BeginSearch(c) ==
  /\ CorpusIdle(c)
  /\ \E n \in 0..Len(csv.rows) :
       LET full == FullText(SubSeq(csv.rows, 1, n)) IN
       /\ csv.state = "ok" => n = Len(csv.rows)
       /\ full # {}
       /\ searching' = [searching EXCEPT ![c] = Search("read", full, <<>>, {})]
  /\ UNCHANGED <<csv, chunks, npy, text, adding, holder, told>>

\* There is nothing to rank, or the file cannot be parsed, or the passages are
\* those of now.
ReadPassages(c) ==
  /\ SearchAt(c, "read") /\ holder = Nobody
  /\ searching' = [searching EXCEPT ![c] =
                     IF chunks = <<>> \/ ~Readable THEN NotSearching
                     ELSE Search("load", @.full, chunks, PapersOf(chunks))]
  /\ UNCHANGED <<csv, chunks, npy, text, adding, holder, told>>

\* The embeddings of the next paper, in the order of its passages, if it has any.
LoadEmbeddings(c) ==
  LET s == searching[c] IN
  /\ SearchAt(c, "load")
  /\ \E i \in DOMAIN s.read :
       LET p == s.read[i].paper IN
       /\ p \in s.todo /\ \A j \in 1..(i - 1) : s.read[j].paper \notin s.todo
       /\ searching' = [searching EXCEPT ![c] =
                          [s EXCEPT !.embs[p] = npy[p], !.todo = @ \ {p},
                                    !.pc = IF s.todo = {p} THEN "rank" ELSE "load"]]
  /\ UNCHANGED <<csv, chunks, npy, text, adding, holder, told>>

\* The passages of papers with full text are ranked and quoted.
RankPassages(c) ==
  /\ SearchAt(c, "rank")
  /\ searching' = [searching EXCEPT ![c] = NotSearching]
  /\ UNCHANGED <<csv, chunks, npy, text, adding, holder, told>>

SearchStep(c) == ReadPassages(c) \/ LoadEmbeddings(c) \/ RankPassages(c)

\* How many passages of the paper come before the i-th, that one included.
Rank(read, i) == Cardinality({j \in 1..i : read[j].paper = read[i].paper})

\* Mutant: a passage without an embedding of its own gets the last one.
HasEmbeddingPadded(s, i) == s.embs[s.read[i].paper] # Nothing

HasEmbedding(s, i) ==
  /\ s.embs[s.read[i].paper] # Nothing
  /\ Rank(s.read, i) <= Passages(s.embs[s.read[i].paper])

\* Dense ranking is used only when every passage that was read has one.
Dense(s) == s.pc = "rank" /\ \A i \in DOMAIN s.read : HasEmbedding(s, i)

(* The index lists each paper once, and exactly those the agent was told   *)
(* were added, although two calls may add at once and look at the index    *)
(* twice (LiteratureCorpus.add); a paper it lists as quotable has its      *)
(* passages among those that are searched.                                 *)
CorpusAsTold ==
  csv.state = "ok" =>
    /\ Listed = told
    /\ Cardinality(Listed) = Len(csv.rows)
    /\ Readable => \A i \in DOMAIN csv.rows :
         Quotable(csv.rows[i].src)
         => ToSet(ChunkText(csv.rows[i].paper, csv.rows[i].src)) \subseteq Searched

(* When a search uses dense ranking, the k-th passage of a paper is ranked *)
(* by the embedding of that very passage, although the search reads the    *)
(* passages and later the embeddings, which are written by different steps *)
(* of calls that race, fail and are killed (_load_all_embeddings).  The    *)
(* one way to go wrong is to be overtaken: embeddings saved, before the    *)
(* search loads them, by an add that appended after the search had read    *)
(* the passages.                                                           *)
DenseAligned ==
  \A c \in Adders :
    LET s == searching[c] IN
    Dense(s) =>
      \A i \in DOMAIN s.read :
        \/ s.read[i].paper \in s.overtaken
        \/ /\ s.read[i].src = s.embs[s.read[i].paper]
           /\ s.read[i].k = Rank(s.read, i)

===============================================================================
