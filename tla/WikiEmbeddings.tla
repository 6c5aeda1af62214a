--------------------------- MODULE WikiEmbeddings ---------------------------
(***************************************************************************)
(* The vector kept for a wiki document, by which related documents are     *)
(* found.  It belongs to one revision and to the title and text it was     *)
(* made from; whoever saves a document, a revision, a source of a revision *)
(* or the vector of a chunk through the models synchronises it afterwards, *)
(* a command does so for every document, and the seed command within its   *)
(* transaction.  The ingestion pipeline writes the tables directly, and    *)
(* synchronises nothing.                                                   *)
(*                                                                         *)
(* A synchronisation reads the document, compares what it would embed with *)
(* what the row was made from, asks the embedding service, which may take  *)
(* its time or fail, falls back on the vectors of the source chunks, and   *)
(* saves.  Nothing is locked meanwhile.  A vector that has not the length  *)
(* of the column, or of the setting, is dropped, and nothing replaces it.  *)
(*                                                                         *)
(* One document, one embedding model; the summary is part of the title.    *)
(***************************************************************************)
EXTENDS Naturals, SequencesExt

CONSTANTS Titles, Texts, Chunks,
          Syncs,    \* programs that save and synchronise
          SeedTitle, SeedText,
          MaxEdits, \* bound: changes of the document in a behaviour
          None

\* The seed command writes revision 1, the pipeline adds others.
Revisions == 1..2

VARIABLES title, current, \* the document: its title, its current revision
          text, cites,    \* of each revision: its text, the chunks it rests on
          vectors,        \* the chunks with a vector
          embedding,      \* the row of the document
          sync,           \* sync[p]: the synchronisation p is in
          fits,           \* settings.WIKI_EMBEDDING_DIM is the length of the column
          edits,          \* changes so far (bound)
          past, calm, missed \* history: see the properties that use them

content == <<title, current, text>>
tables == <<content, cites, vectors, embedding>>
history == <<past, calm, missed>>
vars == <<tables, sync, fits, edits, history>>

\* A document as a synchronisation holds it; the revision and what is hashed.
Snapshot == [title : Titles, revision : Revisions, text : Texts]
Row == Snapshot

\* What is asked of the constants.
EmbeddingAssumption ==
    /\ SeedTitle \in Titles /\ SeedText \in Texts
    /\ MaxEdits \in Nat
    /\ None \notin Titles \cup Texts \cup Chunks \cup Revisions \cup Snapshot

Steps == {"idle", "check", "read", "query", "generate", "write"}
Idle == [step |-> "idle", cause |-> None, document |-> None]

\* What a synchronisation would read now: the document joined with its revision.
Now == IF current = None THEN None
       ELSE [title |-> title, revision |-> current, text |-> text[current]]

Written(r) == text[r] # None

\* p works with a document that has since changed, or may.
Holding(p) == sync[p].document # None
NobodyHoldsAnother(document) == \A p \in Syncs : Holding(p) => sync[p].document = document

Go(p, step) == sync' = [sync EXCEPT ![p].step = step]
End(p) == sync' = [sync EXCEPT ![p] = Idle]

Init ==
    /\ title \in Titles /\ current = None
    /\ text = [r \in Revisions |-> None] /\ cites = [r \in Revisions |-> {}]
    /\ vectors = {} /\ embedding = None
    /\ sync = [p \in Syncs |-> Idle] /\ fits \in BOOLEAN
    /\ edits = 0 /\ past = {} /\ calm = TRUE /\ missed = FALSE

-----------------------------------------------------------------------------
(* Synchronising. *)

\* Where the receiver of a save goes on: with the revision or the chunk it is about,
\* or at once with the document.
Receive(p, cause) ==
    sync' = [sync EXCEPT ![p] = [Idle EXCEPT !.step = IF cause = None THEN "read" ELSE "check",
                                             !.cause = cause]]

\* Mutant: a new vector of a cited chunk concerns nobody.
ConcernsRevision(cause) == current # None /\ cause = current

\* The receivers go on for the current revision, and for chunks it cites.
Concerns(cause) == current # None /\ (cause = current \/ cause \in cites[current])

Check(p) ==
    /\ sync[p].step = "check"
    /\ IF Concerns(sync[p].cause) THEN Go(p, "read") ELSE End(p)
    /\ UNCHANGED <<tables, edits, history>>

Hold(p) == sync' = [sync EXCEPT ![p] = [step |-> "query", cause |-> None, document |-> Now]]

\* A document without a current revision has nothing to embed.
Read(p) ==
    /\ sync[p].step = "read"
    /\ IF Now = None THEN End(p) ELSE Hold(p)
    /\ UNCHANGED <<tables, edits, history>>

\* Mutant: the hash is not compared.
SameRevision(row, document) == row # None /\ row.revision = document.revision

\* The row was made from the same revision and the same title and text.
UpToDate(row, document) == row = document

\* A synchronisation that ends in good order with the document as it is makes up
\* for whatever was missed before, unless another holds an older one.
Settle(document) == calm' = (calm \/ (document = Now /\ NobodyHoldsAnother(Now)))

Query(p) ==
    /\ sync[p].step = "query"
    /\ \/ UpToDate(embedding, sync[p].document) /\ End(p) /\ Settle(sync[p].document)
       \/ ~UpToDate(embedding, sync[p].document) /\ Go(p, "generate") /\ UNCHANGED calm
    /\ UNCHANGED <<tables, edits, past, missed>>

\* Chunks of a revision that have a vector: the fallback.
Centroid(r) == cites[r] \cap vectors

\* The service answers, or it fails and the chunks take its place: both give a vector,
\* that of the chunks always as long as their column.  Or it fails and there are none,
\* or the setting is not the column's length: the row stays what it was.  Or it answers with a
\* vector of another length, or with no data, which raises: nothing takes its place.
Generate(p) ==
    /\ sync[p].step = "generate"
    /\ \/ fits /\ Go(p, "write") /\ UNCHANGED <<calm, missed>>
       \/ /\ ~fits \/ Centroid(sync[p].document.revision) = {}
          /\ End(p) /\ calm' = FALSE /\ UNCHANGED missed
       \/ fits /\ End(p) /\ calm' = FALSE /\ missed' = TRUE
    /\ UNCHANGED <<tables, edits, past>>

\* Mutant: the revision is the one that is current by now.
WriteLatest(p) ==
    /\ sync[p].step = "write"
    /\ embedding' = [sync[p].document EXCEPT !.revision = current]
    /\ End(p) /\ Settle(sync[p].document)
    /\ UNCHANGED <<content, cites, vectors, edits, past, missed>>

Write(p) ==
    /\ sync[p].step = "write"
    /\ embedding' = sync[p].document
    /\ End(p) /\ Settle(sync[p].document)
    /\ UNCHANGED <<content, cites, vectors, edits, past, missed>>

\* The command that fills in missing embeddings has read the documents it will
\* come to long before it does.
Backfill(p) ==
    /\ sync[p].step = "idle" /\ Now # None
    /\ Hold(p)
    /\ UNCHANGED <<tables, edits, history>>

\* A program dies: what it has saved stays, what it would have synchronised is missed.
Crash(p) ==
    /\ sync[p].step # "idle"
    /\ End(p) /\ calm' = FALSE /\ missed' = TRUE
    /\ UNCHANGED <<tables, edits, past>>

-----------------------------------------------------------------------------
(* Saving. *)

Edit == edits < MaxEdits /\ edits' = edits + 1

\* The document has changed: a synchronisation that holds the old one may undo the
\* one that follows.
Follow ==
    /\ past' = past \cup ({Now'} \ {None})
    /\ calm' = (calm /\ NobodyHoldsAnother(Now'))
    /\ UNCHANGED missed

TrackedFields == {"current_revision", "title"}

\* A save of all columns of a document, or of some; the status is one of those
\* nothing here depends on.
SaveDocument(p) ==
    \E fields \in SUBSET {"current_revision", "title", "status"}, t \in Titles, r \in Revisions :
        /\ sync[p].step = "idle" /\ Edit
        /\ "current_revision" \in fields => Written(r)
        /\ title' = IF "title" \in fields THEN t ELSE title
        /\ current' = IF "current_revision" \in fields THEN r ELSE current
        /\ IF current' # None /\ fields \cap TrackedFields # {}
           THEN Receive(p, None)
           ELSE UNCHANGED sync
        /\ UNCHANGED <<text, cites, vectors, embedding>>
        /\ Follow

SaveRevision(p) ==
    \E r \in Revisions, x \in Texts :
        /\ sync[p].step = "idle" /\ Edit
        /\ text' = [text EXCEPT ![r] = x]
        /\ Receive(p, r)
        /\ UNCHANGED <<title, current, cites, vectors, embedding>>
        /\ Follow

\* A chunk becomes a source of a revision, or no longer is.
SaveSource(p) ==
    \E r \in Revisions, c \in Chunks :
        /\ sync[p].step = "idle" /\ Edit /\ Written(r)
        /\ \E new \in {cites[r] \cup {c}, cites[r] \ {c}} : cites' = [cites EXCEPT ![r] = new]
        /\ Receive(p, r)
        /\ UNCHANGED <<content, vectors, embedding, history>>

\* The vector of a chunk is saved, or deleted.
SaveVector(p) ==
    \E c \in Chunks :
        /\ sync[p].step = "idle" /\ Edit
        /\ vectors' \in {vectors \cup {c}, vectors \ {c}}
        /\ Receive(p, c)
        /\ UNCHANGED <<content, cites, embedding, history>>

\* The pipeline publishes a revision and moves the document to it.
Pipeline ==
    \E t \in Titles, x \in Texts, cited \in SUBSET Chunks :
        /\ Edit /\ ~Written(2)
        /\ title' = t /\ current' = 2
        /\ text' = [text EXCEPT ![2] = x] /\ cites' = [cites EXCEPT ![2] = cited]
        /\ vectors' = vectors \cup cited
        /\ past' = past \cup {Now'} /\ calm' = FALSE /\ missed' = TRUE
        /\ UNCHANGED <<embedding, sync>>

\* An administrator deletes a source.  The references to its chunks are set to NULL
\* before their vectors are deleted, so that the receivers of the deletion find no
\* document that rests on them.
DeleteSource ==
    \E gone \in SUBSET Chunks :
        /\ Edit /\ gone # {}
        /\ cites' = [r \in Revisions |-> cites[r] \ gone]
        /\ vectors' = vectors \ gone
        /\ UNCHANGED <<content, embedding, sync, history>>

-----------------------------------------------------------------------------
(* The seed command: one transaction, with every save followed by its receiver. *)

\* The documents the receivers find one after the other: as it was, when the vectors
\* of chunks it cites are saved; with its new title; with revision 1 rewritten, if
\* that is the current one; with revision 1 as the current one, once and again for
\* each of its sources.  fallback: whether they find vectors even if the service fails.
Stages(known, mock) ==
    LET Stage(document, sources) == [document |-> document, fallback |-> sources \cap known # {}]
        retitled == [Now EXCEPT !.title = SeedTitle]
        rewritten == [retitled EXCEPT !.text = SeedText]
        seeded == [title |-> SeedTitle, revision |-> 1, text |-> SeedText]
    IN (IF mock /\ Now # None /\ cites[current] # {} THEN <<Stage(Now, cites[current])>> ELSE <<>>)
       \o (IF Now # None THEN <<Stage(retitled, cites[current])>> ELSE <<>>)
       \o (IF current = 1 THEN <<Stage(rewritten, cites[1])>> ELSE <<>>)
       \o <<Stage(seeded, cites[1]), Stage(seeded, Chunks)>>

\* The row is that of the last stage with a vector of the right length.  The whole transaction is one
\* step: what another synchronisation commits while it runs, it may as well commit
\* just before or just after.
Seed ==
    \E mock \in BOOLEAN :
        LET known == IF mock THEN vectors \cup Chunks ELSE vectors
            stages == Stages(known, mock)
        IN \E last \in 0..Len(stages) :
            /\ Edit
            /\ ~fits => last = 0
            /\ missed' = (missed \/ (fits /\ \E i \in last + 1..Len(stages) : stages[i].fallback))
            /\ title' = SeedTitle /\ current' = 1
            /\ text' = [text EXCEPT ![1] = SeedText]
            /\ cites' = [cites EXCEPT ![1] = @ \cup Chunks]
            /\ vectors' = known
            /\ embedding' = IF last = 0 THEN embedding ELSE stages[last].document
            /\ past' = past \cup {Now'} \cup {stage.document : stage \in ToSet(stages)}
            /\ calm' = ((last = Len(stages) \/ UpToDate(embedding', Now')) /\ NobodyHoldsAnother(Now'))
            /\ UNCHANGED sync

-----------------------------------------------------------------------------
Next ==
    /\ \/ \E p \in Syncs :
              \/ SaveDocument(p) \/ SaveRevision(p) \/ SaveSource(p) \/ SaveVector(p)
              \/ Backfill(p)
              \/ Check(p) \/ Read(p) \/ Query(p) \/ Generate(p) \/ Write(p) \/ Crash(p)
       \/ Pipeline \/ DeleteSource \/ Seed
    /\ UNCHANGED fits

Spec == Init /\ [][Next]_vars

-----------------------------------------------------------------------------
(* Properties. *)

TypeOK ==
    /\ title \in Titles /\ current \in Revisions \cup {None}
    /\ text \in [Revisions -> Texts \cup {None}]
    /\ cites \in [Revisions -> SUBSET Chunks] /\ vectors \subseteq Chunks
    /\ embedding \in Row \cup {None}
    /\ sync \in [Syncs -> [step : Steps, cause : Revisions \cup Chunks \cup {None},
                           document : Snapshot \cup {None}]]
    /\ edits \in 0..MaxEdits /\ past \subseteq Snapshot
    /\ calm \in BOOLEAN /\ missed \in BOOLEAN /\ fits \in BOOLEAN
    /\ current # None => Written(current)

\* The row of a document puts together a revision, a title and a text that were the
\* document's at one time, however slow the service was and whatever was saved while
\* it was asked (sync_wiki_document_embedding keeps to the objects it began with).
RowDescribesDocument == embedding # None => embedding \in past

\* When nobody is synchronising, the row is that of the document as it is: unless a
\* change was not followed (saved past the models, or by a program that died), found
\* no vector of the right length, or was overtaken by a synchronisation that held the older document; and
\* the next synchronisation that ends undisturbed makes up for all of it.
CurrentWhenCalm ==
    (calm /\ Now # None /\ \A p \in Syncs : sync[p].step = "idle") => embedding = Now

\* Where WIKI_EMBEDDING_DIM fits, a document that has a source with a vector has a row,
\* however long the service takes and whether or not it fails: the save that makes the
\* last piece complete, be it the document, the revision, the source or the vector, is
\* followed (signals.py), unless it went past the models, its program died or raised, or
\* the service answered with a vector that has not the length asked for.
EmbeddedWhenPossible ==
    (fits /\ ~missed /\ current # None /\ Centroid(current) # {}
     /\ \A p \in Syncs : sync[p].step = "idle") => embedding # None

=============================================================================
