-------------------------- MODULE IngestionConsole --------------------------
(***************************************************************************)
(* Sources, their documents and the documents' jobs, as administrators see *)
(* and change them while the ingestion pipeline, a program of its own that *)
(* shares the database, reports on them.  An edit reads a source and later *)
(* saves every column of it.  A deletion reads the documents it will take  *)
(* along, and deletes in one transaction; the foreign keys are checked     *)
(* when it commits.                                                        *)
(***************************************************************************)
EXTENDS Naturals, FiniteSets

CONSTANTS Sources, Documents,  \* ids, handed out once
          Requests,            \* administrators' requests that may overlap
          Reports,             \* what the pipeline writes into a source
          None                 \* no such row

\* last_error_message is NULL, empty or a text.
NoReport == [failures |-> 0, message |-> "null"]

ASSUME ReportsAssumption ==
    /\ NoReport \in Reports
    /\ Reports \subseteq [failures : Nat, message : {"null", "", "text"}]

VARIABLES source,     \* source[s]: the row
          document,   \* document[d]: the row
          job,        \* job[d]: the status of the job of document d
          issued,     \* the ids handed out so far
          req,        \* req[r]: the request in slot r
          reported,   \* reported[s]: what the pipeline last said of s (history)
          removed,    \* sources deleted (history)
          overtaken   \* sources that an edit saved without having read the
                      \* last report or the deletion (history)

rows == <<source, document, job>>
history == <<reported, removed, overtaken>>
vars == <<rows, issued, req, history>>

Row == [enabled : BOOLEAN, report : Reports]
Document == [source : Sources, fetch : {"PENDING", "FETCHED", "FAILED"}]
Status == {"QUEUED", "STARTED", "COMPLETED", "FAILED"}

ASSUME IdsAssumption ==
    /\ Sources \cap Documents = {}
    /\ None \notin Row \cup Document \cup Status

Idle == [step |-> "idle"]
Request ==
    {Idle}
    \cup [step : {"edit"}, source : Sources, read : Reports]
    \cup [step : {"collected", "cleared"}, source : Sources,
          documents : SUBSET Documents, jobs : SUBSET Documents, late : SUBSET Documents]

DocumentsOf(s) == {d \in Documents : document[d] # None /\ document[d].source = s}
Fetched(s, status) == {d \in DocumentsOf(s) : document[d].fetch = status}
Jobs(s, status) == {d \in DocumentsOf(s) : job[d] = status}

-----------------------------------------------------------------------------

\* _classify_source_health; an empty or missing message is false.
Troubled(s) ==
    \/ source[s].report.failures > 0
    \/ Fetched(s, "FAILED") # {}
    \/ Jobs(s, "FAILED") # {}
    \/ source[s].report.message \notin {"null", ""}

Waiting(s) == Fetched(s, "PENDING") # {} \/ Jobs(s, "QUEUED") # {}

Health(s) ==
    IF ~source[s].enabled THEN "paused"
    ELSE IF Troubled(s) THEN "failing"
    ELSE IF Waiting(s) THEN "warning" ELSE "healthy"

\* Mutation: the filters know a missing message, not an empty one.
MessageNull(s) == source[s].report.message = "null"

\* The conditions of the filters, in SQL.
NoMessage(s) == source[s].report.message = "null" \/ source[s].report.message = ""

Selects(health, s) ==
    \/ /\ health = "healthy"
       /\ source[s].enabled
       /\ source[s].report.failures = 0
       /\ Fetched(s, "FAILED") = {} /\ Jobs(s, "FAILED") = {}
       /\ Fetched(s, "PENDING") = {} /\ Jobs(s, "QUEUED") = {}
       /\ NoMessage(s)
    \/ /\ health = "warning"
       /\ source[s].enabled
       /\ source[s].report.failures = 0
       /\ Fetched(s, "FAILED") = {} /\ Jobs(s, "FAILED") = {}
       /\ NoMessage(s)
       /\ Fetched(s, "PENDING") # {} \/ Jobs(s, "QUEUED") # {}
    \/ /\ health = "failing"
       /\ source[s].enabled
       /\ \/ source[s].report.failures > 0
          \/ Fetched(s, "FAILED") # {}
          \/ Jobs(s, "FAILED") # {}
          \/ source[s].report.message # "null" /\ source[s].report.message # ""
    \/ health = "paused" /\ ~source[s].enabled

\* What the page lists when a class of health is selected.
Listed(health) == {s \in Sources : source[s] # None /\ Selects(health, s)}

-----------------------------------------------------------------------------

\* Every document has its source, and every job its document.
ForeignKeys(src, doc, jb) ==
    \A d \in Documents :
        /\ doc[d] # None => src[doc[d].source] # None
        /\ jb[d] # None => doc[d] # None

Init ==
    /\ source = [s \in Sources |-> None]
    /\ document = [d \in Documents |-> None]
    /\ job = [d \in Documents |-> None]
    /\ issued = {}
    /\ req = [r \in Requests |-> Idle]
    /\ reported = [s \in Sources |-> NoReport]
    /\ removed = {}
    /\ overtaken = {}

CreateSource(s, enabled) ==
    /\ s \notin issued
    /\ source' = [source EXCEPT ![s] = [enabled |-> enabled, report |-> NoReport]]
    /\ issued' = issued \cup {s}
    /\ UNCHANGED <<document, job, req, history>>

\* Of what an edit reads, the columns its form does not overwrite.
ReadToEdit(r, s) ==
    /\ req[r] = Idle /\ source[s] # None
    /\ req' = [req EXCEPT ![r] = [step |-> "edit", source |-> s, read |-> source[s].report]]
    /\ UNCHANGED <<rows, issued, history>>

\* save() writes the form's columns and, beside them, those it has read; it
\* inserts the row when there is none to update.
SaveAs(r, row) ==
    /\ req[r].step = "edit"
    /\ LET s == req[r].source IN
       /\ source' = [source EXCEPT ![s] = row]
       /\ overtaken' = IF req[r].read # reported[s] \/ s \in removed
                       THEN overtaken \cup {s} ELSE overtaken
    /\ req' = [req EXCEPT ![r] = Idle]
    /\ UNCHANGED <<document, job, issued, reported, removed>>

\* Mutation: an edit begins the report anew.
SaveAnew(r, enabled) == SaveAs(r, [enabled |-> enabled, report |-> NoReport])

SaveEdit(r, enabled) == SaveAs(r, [enabled |-> enabled, report |-> req[r].read])

\* The collector reads what the deletion has to take along.  Here begins, in
\* "late", the history of what the pipeline adds behind its back.
CollectToDelete(r, s) ==
    /\ req[r] = Idle /\ source[s] # None
    /\ req' = [req EXCEPT ![r] = [step |-> "collected", source |-> s,
                                  documents |-> DocumentsOf(s), jobs |-> {}, late |-> {}]]
    /\ UNCHANGED <<rows, issued, history>>

\* The jobs whose rows a deletion has locked.
Locked == UNION {req[r].jobs : r \in {q \in Requests : req[q].step = "cleared"}}

\* Deletes jobs of the documents, in the transaction that ends with CommitDelete,
\* RefuseDelete or Die.
Clear(r, jobs) ==
    /\ req[r].step = "collected"
    /\ req[r].documents \cap Locked = {}
    /\ req' = [req EXCEPT ![r] = [req[r] EXCEPT !.step = "cleared", !.jobs = jobs]]
    /\ UNCHANGED <<rows, issued, history>>

\* Mutation: jobs under way are left to finish.
ClearUnstarted(r) == Clear(r, {d \in req[r].documents : job[d] \notin {None, "STARTED"}})

ClearJobs(r) == Clear(r, {d \in req[r].documents : job[d] # None})

Without(table, ids) == [id \in DOMAIN table |-> IF id \in ids THEN None ELSE table[id]]

\* The transaction leaves a document or a job without what it belongs to.
Orphans(r) ==
    ~ForeignKeys(Without(source, {req[r].source}), Without(document, req[r].documents),
                 Without(job, req[r].jobs))

\* Deletes documents and source; the keys hold when it commits.
CommitDelete(r) ==
    /\ req[r].step = "cleared" /\ ~Orphans(r)
    /\ source' = Without(source, {req[r].source})
    /\ document' = Without(document, req[r].documents)
    /\ job' = Without(job, req[r].jobs)
    /\ removed' = removed \cup {req[r].source}
    /\ overtaken' = overtaken \ {req[r].source}
    /\ req' = [req EXCEPT ![r] = Idle]
    /\ UNCHANGED <<issued, reported>>

\* IntegrityError, which nothing catches: the transaction is undone and the
\* administrator gets an error page.
RefuseDelete(r) ==
    /\ req[r].step = "cleared" /\ Orphans(r)
    /\ req' = [req EXCEPT ![r] = Idle]
    /\ UNCHANGED <<rows, issued, history>>

\* A request dies, and its transaction with it.
Die(r) ==
    /\ req[r] # Idle
    /\ req' = [req EXCEPT ![r] = Idle]
    /\ UNCHANGED <<rows, issued, history>>

-----------------------------------------------------------------------------

\* The pipeline, as far as its rows can tell.  Its UPDATE may find no row.
PipelineReport(s, report) ==
    IF source[s] = None THEN UNCHANGED vars
    ELSE /\ source' = [source EXCEPT ![s].report = report]
         /\ reported' = [reported EXCEPT ![s] = report]
         /\ overtaken' = IF s \in removed THEN overtaken ELSE overtaken \ {s}
         /\ UNCHANGED <<document, job, issued, req, removed>>

\* The requests, when deletions have missed what is added for document d.
Missed(d, missing) ==
    [r \in Requests |-> IF r \in missing THEN [req[r] EXCEPT !.late = @ \cup {d}] ELSE req[r]]

\* The deletions that have read the documents of s, and those of them that
\* have deleted the jobs of document d.
Collected(s) == {r \in Requests : req[r].step \in {"collected", "cleared"} /\ req[r].source = s}
Cleared(d) == {r \in Requests : req[r].step = "cleared" /\ d \in req[r].documents}

PipelineCollect(d, s) ==
    /\ d \notin issued /\ source[s] # None
    /\ document' = [document EXCEPT ![d] = [source |-> s, fetch |-> "PENDING"]]
    /\ issued' = issued \cup {d}
    /\ req' = Missed(d, Collected(s))
    /\ UNCHANGED <<source, job, history>>

PipelineFetch(d, fetch) ==
    /\ document[d] # None
    /\ document' = [document EXCEPT ![d].fetch = fetch]
    /\ UNCHANGED <<source, job, issued, req, history>>

\* Queues the job of a document, or moves it on.
PipelineJob(d, status) ==
    /\ document[d] # None /\ d \notin Locked
    /\ job[d] = None => status = "QUEUED"
    /\ job' = [job EXCEPT ![d] = status]
    /\ req' = IF job[d] = None THEN Missed(d, Cleared(d)) ELSE req
    /\ UNCHANGED <<source, document, issued, history>>

Administration ==
    \/ \E s \in Sources, enabled \in BOOLEAN : CreateSource(s, enabled)
    \/ \E r \in Requests, s \in Sources : ReadToEdit(r, s) \/ CollectToDelete(r, s)
    \/ \E r \in Requests, enabled \in BOOLEAN : SaveEdit(r, enabled)
    \/ \E r \in Requests : ClearJobs(r) \/ CommitDelete(r) \/ RefuseDelete(r) \/ Die(r)

Pipeline ==
    \/ \E s \in Sources, report \in Reports : PipelineReport(s, report)
    \/ \E d \in Documents, s \in Sources : PipelineCollect(d, s)
    \/ \E d \in Documents, fetch \in {"PENDING", "FETCHED", "FAILED"} : PipelineFetch(d, fetch)
    \/ \E d \in Documents, status \in Status : PipelineJob(d, status)

Next == Administration \/ Pipeline

Spec == Init /\ [][Next]_vars

-----------------------------------------------------------------------------

\* The rows have their types, and no document is without its source and no job
\* without its document, although a deletion takes along only what it has read
\* and the pipeline adds documents and jobs meanwhile (admin_source_edit_modal).
TypeOK ==
    /\ source \in [Sources -> Row \cup {None}]
    /\ document \in [Documents -> Document \cup {None}]
    /\ job \in [Documents -> Status \cup {None}]
    /\ issued \subseteq Sources \cup Documents
    /\ req \in [Requests -> Request]
    /\ reported \in [Sources -> Reports]
    /\ removed \subseteq issued /\ overtaken \subseteq issued
    /\ ForeignKeys(source, document, job)

\* The deletion of a source fails exactly when there still is a document the
\* pipeline collected after the deletion read them, or one whose job it queued
\* after the jobs were deleted: everything older is taken along, whatever other
\* deletions and edits of the source do meanwhile, and nothing newer is
\* (source.delete() in admin_source_edit_modal, which promises as much).
FailsOnlyForLateRows ==
    \A r \in Requests : req[r].step = "cleared" =>
        (Orphans(r) <=> \E d \in req[r].late : document[d] # None)

\* A source is listed under the health its badge shows and under no other: the
\* filters of admin_ingestion_management, written in SQL, put every source in
\* the class _classify_source_health gives it.
FilterMatchesBadge ==
    \A s \in Sources, health \in {"healthy", "warning", "failing", "paused"} :
        source[s] # None => (s \in Listed(health) <=> Health(s) = health)

\* A source shows what the pipeline last reported of it, and is gone once
\* deleted, unless an edit that had read it before saves it after
\* (SourceForm's save writes every column, admin_source_edit_modal).
ShowsLastReport ==
    \A s \in (issued \cap Sources) \ overtaken :
        IF s \in removed THEN source[s] = None
        ELSE source[s] # None /\ source[s].report = reported[s]

=============================================================================
