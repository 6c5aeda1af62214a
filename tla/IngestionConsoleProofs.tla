----------------------- MODULE IngestionConsoleProofs -----------------------
(***************************************************************************)
(* Proofs about IngestionConsole, for any number of sources, documents and *)
(* requests in flight, and whatever the pipeline reports.                  *)
(***************************************************************************)
EXTENDS IngestionConsole, TLAPS

\* Rows and requests name sources that were issued, and before that nothing
\* has been reported.
IssuedOK ==
    /\ \A s \in Sources : source[s] # None => s \in issued
    /\ \A d \in Documents : document[d] # None => d \in issued
    /\ \A s \in Sources : s \notin issued => reported[s] = NoReport
    /\ \A r \in Requests : req[r] # Idle => req[r].source \in issued

\* A deletion has read every document of its source, but for those that are late; those
\* it read are that source's still, or are gone.
ReadsAll(r) ==
    req[r].step \in {"collected", "cleared"} =>
        /\ req[r].documents \subseteq issued /\ req[r].late \subseteq issued
        /\ req[r].jobs \subseteq req[r].documents
        /\ \A d \in Documents : document[d] # None =>
               /\ d \in req[r].documents => document[d].source = req[r].source
               /\ document[d].source = req[r].source => d \in req[r].documents \cup req[r].late
               /\ d \in req[r].late \ req[r].documents => document[d].source = req[r].source

\* It has deleted the jobs of these documents, but for those queued since.
ClearsAll(r) ==
    /\ req[r].step = "collected" => req[r].documents \cap req[r].late = {}
    /\ req[r].step = "cleared" =>
          \A d \in req[r].documents :
              /\ job[d] # None => d \in req[r].jobs \cup req[r].late
              /\ d \in req[r].late => d \notin req[r].jobs
              /\ d \in req[r].late /\ document[d] # None => job[d] # None

TakesAll == \A r \in Requests : ReadsAll(r) /\ ClearsAll(r)

Inv == TypeOK /\ IssuedOK /\ ShowsLastReport /\ TakesAll

\* What a request is, by its step.
LEMMA RequestByStep ==
    ASSUME NEW q \in Request
    PROVE  /\ q.step = "edit" => q \in [step : {"edit"}, source : Sources, read : Reports]
           /\ q.step \in {"collected", "cleared"} =>
                 q \in [step : {"collected", "cleared"}, source : Sources,
                        documents : SUBSET Documents, jobs : SUBSET Documents,
                        late : SUBSET Documents]
           /\ q # Idle => q.source \in Sources
           /\ q.step \in {"edit", "collected", "cleared"} => q # Idle
BY DEF Request, Idle

LEMMA NewRow ==
    ASSUME NEW enabled \in BOOLEAN, NEW report \in Reports
    PROVE  /\ [enabled |-> enabled, report |-> report] \in Row
           /\ [enabled |-> enabled, report |-> report] # None
BY IdsAssumption DEF Row

\* What a deletion has to take stays what it was when documents and jobs only go, and a
\* job goes with its document.
LEMMA TakesOn ==
    ASSUME NEW r \in Requests, ReadsAll(r), ClearsAll(r),
           req'[r] = req[r], issued \subseteq issued',
           req[r].step \in {"collected", "cleared"} => req[r].documents \subseteq Documents,
           \A d \in Documents : document'[d] # None =>
               document[d] # None /\ document'[d].source = document[d].source,
           \A d \in Documents : /\ job'[d] # None => job[d] # None
                                /\ document'[d] # None /\ job[d] # None => job'[d] # None
    PROVE  ReadsAll(r)' /\ ClearsAll(r)'
<1>1. ReadsAll(r)'
    BY DEF ReadsAll
<1>2. ClearsAll(r)'
    BY DEF ClearsAll
<1> QED
    BY <1>1, <1>2

LEMMA DocumentsTyped ==
    ASSUME TypeOK, NEW r \in Requests
    PROVE  req[r].step \in {"collected", "cleared"} => req[r].documents \subseteq Documents
BY RequestByStep DEF TypeOK

\* No deletion, nothing to take.
LEMMA TakesNothing ==
    ASSUME NEW r \in Requests, req'[r].step \notin {"collected", "cleared"}
    PROVE  ReadsAll(r)' /\ ClearsAll(r)'
BY DEF ReadsAll, ClearsAll

\* Rows of documents and jobs that stay what they were.
LEMMA TakesAllOn ==
    ASSUME TypeOK, TakesAll, UNCHANGED <<document, job>>, issued \subseteq issued',
           \A r \in Requests : req'[r] = req[r] \/ req'[r].step \notin {"collected", "cleared"}
    PROVE  TakesAll'
<1> SUFFICES ASSUME NEW r \in Requests PROVE ReadsAll(r)' /\ ClearsAll(r)'
    BY DEF TakesAll
<1>1. CASE req'[r] = req[r]
    BY <1>1, TakesOn, DocumentsTyped DEF TakesAll
<1>2. CASE req'[r].step \notin {"collected", "cleared"}
    BY <1>2, TakesNothing
<1> QED
    BY <1>1, <1>2

\* What the pipeline adds is noted with deletions, and changes no more of them.
LEMMA MissedRequests ==
    ASSUME req \in [Requests -> Request], NEW d \in Documents, NEW missing \in SUBSET Requests,
           \A r \in missing : req[r].step \in {"collected", "cleared"},
           req' = Missed(d, missing)
    PROVE  /\ req' \in [Requests -> Request]
           /\ \A r \in Requests : /\ r \notin missing => req'[r] = req[r]
                                  /\ req'[r] # Idle => req[r] # Idle
                                  /\ req'[r].source = req[r].source
           /\ \A r \in missing : /\ req'[r].step = req[r].step
                                 /\ req'[r].documents = req[r].documents
                                 /\ req'[r].jobs = req[r].jobs
                                 /\ req'[r].late = req[r].late \cup {d}
<1>1. ASSUME NEW r \in missing
      PROVE  /\ req'[r] \in Request /\ req[r] # Idle /\ req'[r].source = req[r].source
             /\ req'[r].step = req[r].step /\ req'[r].documents = req[r].documents
             /\ req'[r].jobs = req[r].jobs /\ req'[r].late = req[r].late \cup {d}
    <2>1. req[r] \in [step : {"collected", "cleared"}, source : Sources,
                      documents : SUBSET Documents, jobs : SUBSET Documents,
                      late : SUBSET Documents] /\ req[r] # Idle
        BY <1>1, RequestByStep
    <2>2. req'[r] = [req[r] EXCEPT !.late = @ \cup {d}]
        BY <1>1 DEF Missed
    <2> QED
        BY <2>1, <2>2 DEF Request
<1>2. ASSUME NEW r \in Requests, r \notin missing PROVE req'[r] = req[r]
    BY <1>2 DEF Missed
<1>3. req' = [r \in Requests |-> req'[r]]
    BY DEF Missed
<1> QED
    BY <1>1, <1>2, <1>3

LEMMA InitInv == Init => Inv
<1> SUFFICES ASSUME Init PROVE Inv
    OBVIOUS
<1>1. TypeOK
    BY ReportsAssumption DEF Init, TypeOK, ForeignKeys, Request
<1>2. IssuedOK /\ ShowsLastReport
    BY DEF Init, IssuedOK, ShowsLastReport
<1>3. TakesAll
    BY DEF Init, TakesAll, ReadsAll, ClearsAll, Idle
<1> QED
    BY <1>1, <1>2, <1>3 DEF Inv

LEMMA CreateInv ==
    ASSUME Inv, NEW s \in Sources, NEW enabled \in BOOLEAN, CreateSource(s, enabled)
    PROVE  Inv'
<1>1. source' \in [Sources -> Row \cup {None}] /\ source'[s] \in Row /\ source'[s] # None
    BY NewRow, ReportsAssumption DEF CreateSource, Inv, TypeOK
<1>2. \A t \in Sources : t # s => source'[t] = source[t]
    BY DEF CreateSource, Inv, TypeOK
<1>3. TypeOK'
    <2>1. ForeignKeys(source, document, job)'
        BY <1>1, <1>2 DEF CreateSource, Inv, TypeOK, ForeignKeys, Document
    <2> QED
        BY <1>1, <2>1 DEF CreateSource, Inv, TypeOK, history
<1>4. IssuedOK'
    BY <1>1, <1>2 DEF CreateSource, Inv, TypeOK, IssuedOK, history
<1>5. ShowsLastReport'
    <2>1. source'[s].report = NoReport /\ reported[s] = NoReport /\ s \notin removed
        BY DEF CreateSource, Inv, TypeOK, IssuedOK
    <2> QED
        BY <1>1, <1>2, <2>1 DEF CreateSource, Inv, TypeOK, ShowsLastReport, history
<1>6. TakesAll'
    BY TakesAllOn DEF CreateSource, Inv
<1> QED
    BY <1>3, <1>4, <1>5, <1>6 DEF Inv

LEMMA ReadInv ==
    ASSUME Inv, NEW r \in Requests, NEW s \in Sources, ReadToEdit(r, s) \/ CollectToDelete(r, s)
    PROVE  Inv'
<1>1. s \in issued
    BY DEF Inv, IssuedOK, ReadToEdit, CollectToDelete
<1>2. req' \in [Requests -> Request] /\ req'[r].source = s
    <2>1. CASE ReadToEdit(r, s)
        <3>1. source[s] \in Row
            BY <2>1 DEF Inv, TypeOK, ReadToEdit
        <3>2. [step |-> "edit", source |-> s, read |-> source[s].report] \in Request
            BY <3>1 DEF Request, Row
        <3> QED
            BY <2>1, <3>2 DEF Inv, TypeOK, ReadToEdit
    <2>2. CASE CollectToDelete(r, s)
        <3>1. [step |-> "collected", source |-> s, documents |-> DocumentsOf(s),
               jobs |-> {}, late |-> {}] \in Request
            BY DEF Request, DocumentsOf
        <3> QED
            BY <2>2, <3>1 DEF Inv, TypeOK, CollectToDelete
    <2> QED
        BY <2>1, <2>2
<1>3. \A q \in Requests : q # r => req'[q] = req[q]
    BY DEF Inv, TypeOK, ReadToEdit, CollectToDelete
<1>4. UNCHANGED <<source, document, job, issued, reported, removed, overtaken>>
    BY DEF ReadToEdit, CollectToDelete, rows, history
<1>5. TypeOK' /\ ShowsLastReport'
    BY <1>2, <1>4 DEF Inv, TypeOK, ShowsLastReport, ForeignKeys
<1>6. IssuedOK'
    BY <1>1, <1>2, <1>3, <1>4 DEF Inv, IssuedOK
<1>7. TakesAll'
    <2> SUFFICES ASSUME NEW q \in Requests PROVE ReadsAll(q)' /\ ClearsAll(q)'
        BY DEF TakesAll
    <2>1. CASE q # r
        BY <1>3, <1>4, <2>1, TakesOn, DocumentsTyped DEF Inv, TakesAll
    <2>2. CASE q = r /\ ReadToEdit(r, s)
        <3>1. req'[r].step = "edit"
            BY <2>2 DEF Inv, TypeOK, ReadToEdit
        <3> QED
            BY <2>2, <3>1, TakesNothing
    <2>3. CASE q = r /\ CollectToDelete(r, s)
        <3>1. req'[r] = [step |-> "collected", source |-> s, documents |-> DocumentsOf(s),
                         jobs |-> {}, late |-> {}]
            BY <2>3 DEF Inv, TypeOK, CollectToDelete
        <3>2. DocumentsOf(s) \subseteq issued
            BY DEF DocumentsOf, Inv, IssuedOK
        <3>3. ReadsAll(r)'
            BY <1>4, <3>1, <3>2 DEF ReadsAll, DocumentsOf
        <3>4. ClearsAll(r)'
            BY <1>4, <3>1 DEF ClearsAll
        <3> QED
            BY <2>3, <3>3, <3>4
    <2> QED
        BY <2>1, <2>2, <2>3
<1> QED
    BY <1>5, <1>6, <1>7 DEF Inv

LEMMA SaveInv ==
    ASSUME Inv, NEW r \in Requests, NEW enabled \in BOOLEAN, SaveEdit(r, enabled)
    PROVE  Inv'
<1> DEFINE s == req[r].source
<1>1. req[r] \in [step : {"edit"}, source : Sources, read : Reports] /\ s \in issued
    BY RequestByStep DEF Inv, TypeOK, IssuedOK, SaveEdit, SaveAs
<1> HIDE DEF s
<1>2. /\ source' = [source EXCEPT ![s] = [enabled |-> enabled, report |-> req[r].read]]
      /\ overtaken' = IF req[r].read # reported[s] \/ s \in removed
                      THEN overtaken \cup {s} ELSE overtaken
      /\ req' = [req EXCEPT ![r] = Idle]
      /\ UNCHANGED <<document, job, issued, reported, removed>>
    BY DEF SaveEdit, SaveAs, s
<1>3. s \in Sources /\ req[r].read \in Reports
    BY <1>1 DEF s
<1>4. /\ source' \in [Sources -> Row \cup {None}]
      /\ source'[s] # None /\ source'[s].report = req[r].read
      /\ \A t \in Sources : t # s => source'[t] = source[t]
    BY <1>2, <1>3, NewRow DEF Inv, TypeOK
<1>5. TypeOK'
    <2>1. ForeignKeys(source, document, job)'
        BY <1>2, <1>4 DEF Inv, TypeOK, ForeignKeys, Document
    <2>2. Idle \in Request
        BY DEF Request
    <2> QED
        BY <1>1, <1>2, <1>4, <2>1, <2>2 DEF Inv, TypeOK
<1>6. IssuedOK'
    BY <1>1, <1>2, <1>3, <1>4 DEF Inv, TypeOK, IssuedOK
<1>7. ShowsLastReport'
    BY <1>2, <1>3, <1>4 DEF Inv, ShowsLastReport
<1>8. TakesAll'
    <2>1. \A q \in Requests : req'[q] = req[q] \/ req'[q].step = "idle"
        BY <1>2 DEF Inv, TypeOK, Idle
    <2> QED
        BY <1>2, <2>1, TakesAllOn DEF Inv
<1> QED
    BY <1>5, <1>6, <1>7, <1>8 DEF Inv

LEMMA ClearInv ==
    ASSUME Inv, NEW r \in Requests, ClearJobs(r)
    PROVE  Inv'
<1> DEFINE jobs == {d \in req[r].documents : job[d] # None}
           cleared == [req[r] EXCEPT !.step = "cleared", !.jobs = jobs]
<1>1. /\ req[r] \in [step : {"collected", "cleared"}, source : Sources,
                     documents : SUBSET Documents, jobs : SUBSET Documents,
                     late : SUBSET Documents]
      /\ req[r].source \in issued /\ req[r].step = "collected"
    BY RequestByStep DEF Inv, TypeOK, IssuedOK, ClearJobs, Clear
<1>2. /\ cleared \in Request /\ cleared.step = "cleared" /\ cleared.source = req[r].source
      /\ cleared.documents = req[r].documents /\ cleared.late = req[r].late
      /\ cleared.jobs = jobs
    BY <1>1 DEF Request
<1>3. req' = [req EXCEPT ![r] = cleared]
    BY DEF ClearJobs, Clear
<1> HIDE DEF cleared
<1>4. req' \in [Requests -> Request] /\ req'[r] = cleared
      /\ \A q \in Requests : q # r => req'[q] = req[q]
    BY <1>2, <1>3 DEF Inv, TypeOK
<1>5. UNCHANGED <<source, document, job, issued, reported, removed, overtaken>>
    BY DEF ClearJobs, Clear, rows, history
<1>6. TypeOK' /\ ShowsLastReport'
    BY <1>4, <1>5 DEF Inv, TypeOK, ShowsLastReport, ForeignKeys
<1>7. IssuedOK'
    BY <1>1, <1>2, <1>4, <1>5 DEF Inv, IssuedOK
<1>8. TakesAll'
    <2> SUFFICES ASSUME NEW q \in Requests PROVE ReadsAll(q)' /\ ClearsAll(q)'
        BY DEF TakesAll
    <2>1. CASE q # r
        BY <1>4, <1>5, <2>1, TakesOn, DocumentsTyped DEF Inv, TakesAll
    <2>2. CASE q = r
        <3>1. ReadsAll(r) /\ ClearsAll(r)
            BY DEF Inv, TakesAll
        <3>2. ReadsAll(r)'
            BY <1>1, <1>2, <1>4, <1>5, <3>1 DEF ReadsAll
        <3>3. req[r].documents \cap req[r].late = {}
            BY <1>1, <3>1 DEF ClearsAll
        <3>4. ClearsAll(r)'
            BY <1>2, <1>4, <1>5, <3>3 DEF ClearsAll
        <3> QED
            BY <2>2, <3>2, <3>4
    <2> QED
        BY <2>1, <2>2
<1> QED
    BY <1>6, <1>7, <1>8 DEF Inv

\* The keys hold after a deletion unless something late is still there.
LEMMA OrphansAreLate == Inv => FailsOnlyForLateRows
<1> SUFFICES ASSUME Inv, NEW r \in Requests, req[r].step = "cleared"
             PROVE  Orphans(r) <=> \E d \in req[r].late : document[d] # None
    BY DEF FailsOnlyForLateRows
<1> DEFINE s == req[r].source
           taken == req[r].documents
           jobs == req[r].jobs
           late == req[r].late
<1>1. s \in Sources /\ taken \subseteq Documents /\ jobs \subseteq taken /\ late \subseteq Documents
    BY RequestByStep DEF Inv, TypeOK, TakesAll, ReadsAll
<1>2. \A d \in Documents : document[d] # None =>
          /\ document[d].source = s => d \in taken \cup late
          /\ d \in late \ taken => document[d].source = s
          /\ document[d].source \in Sources /\ source[document[d].source] # None
    BY DEF Inv, TakesAll, ReadsAll, TypeOK, ForeignKeys, Document
<1>3. \A d \in taken : /\ job[d] # None => d \in jobs \cup late
                       /\ d \in late => d \notin jobs
                       /\ d \in late /\ document[d] # None => job[d] # None
    BY DEF Inv, TakesAll, ClearsAll
<1>4. \A d \in Documents : job[d] # None => document[d] # None
    BY DEF Inv, TypeOK, ForeignKeys
<1> HIDE DEF s, taken, jobs, late
<1>5. /\ \A t \in Sources : Without(source, {s})[t] = IF t = s THEN None ELSE source[t]
      /\ \A d \in Documents :
             /\ Without(document, taken)[d] = IF d \in taken THEN None ELSE document[d]
             /\ Without(job, jobs)[d] = IF d \in jobs THEN None ELSE job[d]
    BY DEF Without, Inv, TypeOK
<1>6. Orphans(r) <=> \E d \in Documents :
          \/ d \notin taken /\ document[d] # None /\ document[d].source = s
          \/ d \notin jobs /\ job[d] # None /\ d \in taken
    <2>1. Orphans(r) <=> ~ForeignKeys(Without(source, {s}), Without(document, taken), Without(job, jobs))
        BY DEF Orphans, s, taken, jobs
    <2>2. \A d \in Documents :
              /\ (Without(document, taken)[d] # None /\
                  Without(source, {s})[Without(document, taken)[d].source] = None)
                 <=> (d \notin taken /\ document[d] # None /\ document[d].source = s)
              /\ (Without(job, jobs)[d] # None /\ Without(document, taken)[d] = None)
                 <=> (d \notin jobs /\ job[d] # None /\ d \in taken)
        BY <1>1, <1>2, <1>4, <1>5
    <2> QED
        BY <2>1, <2>2 DEF ForeignKeys
<1>7. Orphans(r) => \E d \in late : document[d] # None
    BY <1>1, <1>2, <1>3, <1>4, <1>6
<1>8. (\E d \in late : document[d] # None) => Orphans(r)
    BY <1>1, <1>2, <1>3, <1>6
<1> QED
    BY <1>7, <1>8 DEF late

LEMMA DeleteInv ==
    ASSUME Inv, NEW r \in Requests, CommitDelete(r)
    PROVE  Inv'
<1> DEFINE s == req[r].source
<1>1. s \in Sources /\ s \in issued /\ req[r].documents \subseteq Documents
    BY RequestByStep DEF Inv, TypeOK, IssuedOK, CommitDelete
<1> HIDE DEF s
<1>2. /\ source' = Without(source, {s})
      /\ document' = Without(document, req[r].documents)
      /\ job' = Without(job, req[r].jobs)
      /\ removed' = removed \cup {s}
      /\ overtaken' = overtaken \ {s}
      /\ req' = [req EXCEPT ![r] = Idle]
      /\ UNCHANGED <<issued, reported>>
    BY DEF CommitDelete, s
<1>3. /\ source' \in [Sources -> Row \cup {None}]
      /\ source'[s] = None
      /\ \A t \in Sources : t # s => source'[t] = source[t]
    BY <1>1, <1>2 DEF Inv, TypeOK, Without
<1>4. TypeOK'
    <2>1. /\ document' \in [Documents -> Document \cup {None}]
          /\ job' \in [Documents -> Status \cup {None}]
        BY <1>2 DEF Inv, TypeOK, Without
    <2>2. req' \in [Requests -> Request]
        BY <1>2 DEF Inv, TypeOK, Request
    <2>3. ForeignKeys(source', document', job')
        BY <1>2 DEF CommitDelete, Orphans, s
    <2> QED
        BY <1>1, <1>2, <1>3, <2>1, <2>2, <2>3 DEF Inv, TypeOK, ForeignKeys
<1>5. IssuedOK'
    BY <1>1, <1>2, <1>3 DEF Inv, TypeOK, IssuedOK, Without
<1>6. ShowsLastReport'
    BY <1>1, <1>2, <1>3 DEF Inv, ShowsLastReport
<1>7. TakesAll'
    <2> SUFFICES ASSUME NEW q \in Requests PROVE ReadsAll(q)' /\ ClearsAll(q)'
        BY DEF TakesAll
    <2>1. req[r].jobs \subseteq req[r].documents
        BY DEF Inv, TakesAll, ReadsAll, CommitDelete
    <2>2. \A d \in Documents :
              /\ document'[d] = IF d \in req[r].documents THEN None ELSE document[d]
              /\ job'[d] = IF d \in req[r].jobs THEN None ELSE job[d]
        BY <1>2 DEF Without, Inv, TypeOK
    <2>3. CASE q # r
        <3>1. req'[q] = req[q]
            BY <1>2, <2>3 DEF Inv, TypeOK
        <3> QED
            BY <1>2, <2>1, <2>2, <3>1, TakesOn, DocumentsTyped DEF Inv, TakesAll
    <2>4. CASE q = r
        <3>1. req'[q].step = "idle"
            BY <1>2, <2>4 DEF Inv, TypeOK, Idle
        <3> QED
            BY <3>1, TakesNothing
    <2> QED
        BY <2>3, <2>4
<1> QED
    BY <1>4, <1>5, <1>6, <1>7 DEF Inv

LEMMA UndoneInv ==
    ASSUME Inv, NEW r \in Requests, RefuseDelete(r) \/ Die(r)
    PROVE  Inv'
<1>1. /\ Idle \in Request /\ req' = [req EXCEPT ![r] = Idle]
      /\ UNCHANGED <<source, document, job, issued, reported, removed, overtaken>>
    BY DEF Request, RefuseDelete, Die, rows, history
<1>2. TypeOK' /\ ShowsLastReport'
    BY <1>1 DEF Inv, TypeOK, ShowsLastReport, ForeignKeys
<1>3. IssuedOK'
    BY <1>1 DEF Inv, TypeOK, IssuedOK
<1>4. \A q \in Requests : req'[q] = req[q] \/ req'[q].step = "idle"
    BY <1>1 DEF Inv, TypeOK, Idle
<1>5. TakesAll'
    BY <1>1, <1>4, TakesAllOn DEF Inv
<1> QED
    BY <1>2, <1>3, <1>5 DEF Inv

LEMMA ReportInv ==
    ASSUME Inv, NEW s \in Sources, NEW report \in Reports, PipelineReport(s, report)
    PROVE  Inv'
<1>1. CASE source[s] = None
    BY <1>1 DEF PipelineReport, vars, rows, history, Inv, TypeOK, IssuedOK, ShowsLastReport,
                ForeignKeys, TakesAll, ReadsAll, ClearsAll
<1>2. CASE source[s] # None
    <2>1. /\ source' = [source EXCEPT ![s].report = report]
          /\ reported' = [reported EXCEPT ![s] = report]
          /\ overtaken' = IF s \in removed THEN overtaken ELSE overtaken \ {s}
          /\ UNCHANGED <<document, job, issued, req, removed>>
        BY <1>2 DEF PipelineReport
    <2>2. source[s] \in Row /\ s \in issued
        BY <1>2 DEF Inv, TypeOK, IssuedOK
    <2>3. /\ [source[s] EXCEPT !.report = report] \in Row
          /\ [source[s] EXCEPT !.report = report] # None
          /\ [source[s] EXCEPT !.report = report].report = report
        BY <2>2, IdsAssumption DEF Row
    <2>4. /\ source' \in [Sources -> Row \cup {None}]
          /\ source'[s] # None /\ source'[s].report = report
          /\ \A t \in Sources : t # s => source'[t] = source[t]
        BY <2>1, <2>3 DEF Inv, TypeOK
    <2>5. TypeOK'
        <3>1. ForeignKeys(source, document, job)'
            BY <2>1, <2>4 DEF Inv, TypeOK, ForeignKeys, Document
        <3> QED
            BY <2>1, <2>4, <3>1 DEF Inv, TypeOK
    <2>6. IssuedOK'
        BY <2>1, <2>2, <2>4 DEF Inv, TypeOK, IssuedOK
    <2>7. ShowsLastReport'
        BY <1>2, <2>1, <2>4 DEF Inv, TypeOK, ShowsLastReport
    <2>8. TakesAll'
        BY <2>1, TakesAllOn DEF Inv
    <2> QED
        BY <2>5, <2>6, <2>7, <2>8 DEF Inv
<1> QED
    BY <1>1, <1>2

LEMMA DocumentInv ==
    ASSUME Inv, NEW d \in Documents,
           \/ \E s \in Sources : PipelineCollect(d, s)
           \/ \E fetch \in {"PENDING", "FETCHED", "FAILED"} : PipelineFetch(d, fetch)
           \/ \E status \in Status : PipelineJob(d, status)
    PROVE  Inv'
<1>1. ASSUME NEW s \in Sources, PipelineCollect(d, s)
      PROVE  Inv'
    <2>1. [source |-> s, fetch |-> "PENDING"] \in Document
        BY DEF Document
    <2>2. /\ document' \in [Documents -> Document \cup {None}]
          /\ document'[d].source = s /\ document'[d] # None
          /\ \A e \in Documents : e # d => document'[e] = document[e]
        BY <1>1, <2>1, IdsAssumption DEF PipelineCollect, Inv, TypeOK
    <2>3. /\ d \notin issued /\ issued' = issued \cup {d} /\ d \notin Sources /\ source[s] # None
          /\ UNCHANGED <<source, job, reported, removed, overtaken>>
        BY <1>1, IdsAssumption DEF PipelineCollect, history
    <2>4. /\ req' \in [Requests -> Request]
          /\ \A r \in Requests : /\ r \notin Collected(s) => req'[r] = req[r]
                                 /\ req'[r] # Idle => req[r] # Idle
                                 /\ req'[r].source = req[r].source
          /\ \A r \in Collected(s) : /\ req'[r].step = req[r].step
                                     /\ req'[r].documents = req[r].documents
                                     /\ req'[r].jobs = req[r].jobs
                                     /\ req'[r].late = req[r].late \cup {d}
        <3>1. Collected(s) \in SUBSET Requests
              /\ \A r \in Collected(s) : req[r].step \in {"collected", "cleared"}
            BY DEF Collected
        <3>2. req \in [Requests -> Request] /\ req' = Missed(d, Collected(s))
            BY <1>1 DEF PipelineCollect, Inv, TypeOK
        <3> QED
            BY <3>1, <3>2, MissedRequests
    <2>5. TypeOK'
        BY <2>2, <2>3, <2>4 DEF Inv, TypeOK, ForeignKeys
    <2>6. IssuedOK' /\ ShowsLastReport'
        BY <2>2, <2>3, <2>4 DEF Inv, IssuedOK, ShowsLastReport
    <2>7. TakesAll'
        <3> SUFFICES ASSUME NEW r \in Requests PROVE ReadsAll(r)' /\ ClearsAll(r)'
            BY DEF TakesAll
        <3>1. ReadsAll(r) /\ ClearsAll(r) /\ document[d] = None /\ job[d] = None
            BY <2>3 DEF Inv, TakesAll, IssuedOK, TypeOK, ForeignKeys
        <3>2. CASE r \in Collected(s)
            <4>0. /\ req[r].step \in {"collected", "cleared"} /\ req[r].source = s
                  /\ d \notin req[r].documents
                BY <2>3, <3>1, <3>2 DEF Collected, ReadsAll
            <4>1. ReadsAll(r)'
                BY <2>2, <2>3, <2>4, <3>1, <3>2, <4>0 DEF ReadsAll
            <4>2. \A e \in req[r].documents : document'[e] = document[e]
                BY <2>2, <4>0, DocumentsTyped DEF Inv
            <4>3. ClearsAll(r)'
                BY <2>3, <2>4, <3>1, <3>2, <4>0, <4>2 DEF ClearsAll
            <4> QED
                BY <4>1, <4>3
        <3>3. CASE r \notin Collected(s)
            <4>0. req'[r] = req[r]
                BY <2>4, <3>3
            <4>1. req[r].step \in {"collected", "cleared"} =>
                      req[r].source # s /\ d \notin req[r].documents /\ d \notin req[r].late
                BY <2>3, <3>1, <3>3 DEF Collected, ReadsAll
            <4>2. ReadsAll(r)'
                BY <2>2, <2>3, <3>1, <4>0, <4>1 DEF ReadsAll
            <4>3. req[r].step \in {"collected", "cleared"} =>
                      \A e \in req[r].documents : document'[e] = document[e]
                BY <2>2, <4>1, DocumentsTyped DEF Inv
            <4>4. ClearsAll(r)'
                BY <2>3, <3>1, <4>0, <4>3 DEF ClearsAll
            <4> QED
                BY <4>2, <4>4
        <3> QED
            BY <3>2, <3>3
    <2> QED
        BY <2>5, <2>6, <2>7 DEF Inv
<1>2. ASSUME NEW fetch \in {"PENDING", "FETCHED", "FAILED"}, PipelineFetch(d, fetch)
      PROVE  Inv'
    <2>1. document[d] \in Document
        BY <1>2 DEF PipelineFetch, Inv, TypeOK
    <2>2. /\ [document[d] EXCEPT !.fetch = fetch] \in Document
          /\ [document[d] EXCEPT !.fetch = fetch].source = document[d].source
        BY <2>1 DEF Document
    <2>3. /\ document' \in [Documents -> Document \cup {None}]
          /\ document'[d].source = document[d].source /\ document[d] # None
          /\ \A e \in Documents : e # d => document'[e] = document[e]
        BY <1>2, <2>2 DEF PipelineFetch, Inv, TypeOK
    <2>4. document'[d] # None
        BY <1>2, <2>2, IdsAssumption DEF PipelineFetch, Inv, TypeOK
    <2>5. UNCHANGED <<source, job, issued, req, reported, removed, overtaken>>
        BY <1>2 DEF PipelineFetch, history
    <2>6. TypeOK'
        BY <2>3, <2>4, <2>5 DEF Inv, TypeOK, ForeignKeys
    <2>7. IssuedOK' /\ ShowsLastReport'
        BY <2>3, <2>5 DEF Inv, IssuedOK, ShowsLastReport
    <2>8. TakesAll'
        <3> SUFFICES ASSUME NEW r \in Requests PROVE ReadsAll(r)' /\ ClearsAll(r)'
            BY DEF TakesAll
        <3>1. \A e \in Documents : document'[e] # None =>
                  document[e] # None /\ document'[e].source = document[e].source
            BY <2>3
        <3> QED
            BY <2>5, <3>1, TakesOn, DocumentsTyped DEF Inv, TakesAll
    <2> QED
        BY <2>6, <2>7, <2>8 DEF Inv
<1>3. ASSUME NEW status \in Status, PipelineJob(d, status)
      PROVE  Inv'
    <2> DEFINE missing == IF job[d] = None THEN Cleared(d) ELSE {}
    <2>1. /\ job' = [job EXCEPT ![d] = status] /\ document[d] # None /\ d \notin Locked
          /\ UNCHANGED <<source, document, issued, reported, removed, overtaken>>
        BY <1>3 DEF PipelineJob, history
    <2>2. /\ job' \in [Documents -> Status \cup {None}] /\ job'[d] # None
          /\ \A e \in Documents : e # d => job'[e] = job[e]
        BY <2>1, IdsAssumption DEF Inv, TypeOK
    <2>3. req' = Missed(d, missing)
        <3>1. job[d] = None => req' = Missed(d, Cleared(d))
            BY <1>3 DEF PipelineJob
        <3>2. job[d] # None => req' = req
            BY <1>3 DEF PipelineJob
        <3>3. req = [r \in Requests |-> req[r]]
            BY DEF Inv, TypeOK
        <3>4. req = Missed(d, {})
            BY <3>3 DEF Missed
        <3> QED
            BY <3>1, <3>2, <3>4
    <2>4. missing \in SUBSET Requests /\ \A r \in missing : req[r].step = "cleared"
        BY DEF Cleared
    <2>5. \A r \in Requests : /\ r \in missing => job[d] = None
                              /\ job[d] = None /\ r \notin missing /\ req[r].step = "cleared"
                                   => d \notin req[r].documents
                              /\ r \in missing => d \in req[r].documents
                              /\ req[r].step = "cleared" => d \notin req[r].jobs
        BY <2>1 DEF Cleared, Locked
    <2> HIDE DEF missing
    <2>6. /\ req' \in [Requests -> Request]
          /\ \A r \in Requests : /\ r \notin missing => req'[r] = req[r]
                                 /\ req'[r] # Idle => req[r] # Idle
                                 /\ req'[r].source = req[r].source
          /\ \A r \in missing : /\ req'[r].step = req[r].step
                                /\ req'[r].documents = req[r].documents
                                /\ req'[r].jobs = req[r].jobs
                                /\ req'[r].late = req[r].late \cup {d}
        BY <2>3, <2>4, MissedRequests DEF Inv, TypeOK
    <2>7. TypeOK'
        BY <2>1, <2>2, <2>6 DEF Inv, TypeOK, ForeignKeys
    <2>8. IssuedOK' /\ ShowsLastReport'
        BY <2>1, <2>6 DEF Inv, IssuedOK, ShowsLastReport
    <2>9. TakesAll'
        <3> SUFFICES ASSUME NEW r \in Requests PROVE ReadsAll(r)' /\ ClearsAll(r)'
            BY DEF TakesAll
        <3>1. ReadsAll(r) /\ ClearsAll(r)
            BY DEF Inv, TakesAll
        <3>2. d \in issued
            BY <2>1 DEF Inv, IssuedOK
        <3>3. CASE r \in missing
            <4>1. ReadsAll(r)'
                BY <2>1, <2>4, <2>5, <2>6, <3>1, <3>2, <3>3 DEF ReadsAll
            <4>2. req[r].documents \subseteq Documents
                BY <2>4, <3>3, DocumentsTyped DEF Inv
            <4>3. ClearsAll(r)'
                BY <2>1, <2>2, <2>4, <2>5, <2>6, <3>1, <3>3, <4>2 DEF ClearsAll
            <4> QED
                BY <4>1, <4>3
        <3>4. CASE r \notin missing
            <4>0. req'[r] = req[r]
                BY <2>6, <3>4
            <4>1. ReadsAll(r)'
                BY <2>1, <3>1, <4>0 DEF ReadsAll
            <4>2. req[r].step \in {"collected", "cleared"} => req[r].documents \subseteq Documents
                BY DocumentsTyped DEF Inv
            <4>3. ClearsAll(r)'
                BY <2>1, <2>2, <2>5, <3>1, <3>4, <4>0, <4>2 DEF ClearsAll
            <4> QED
                BY <4>1, <4>3
        <3> QED
            BY <3>3, <3>4
    <2> QED
        BY <2>7, <2>8, <2>9 DEF Inv
<1> QED
    BY <1>1, <1>2, <1>3

LEMMA NextInv == Inv /\ [Next]_vars => Inv'
<1> SUFFICES ASSUME Inv, [Next]_vars PROVE Inv'
    OBVIOUS
<1>1. CASE Administration
    BY <1>1, CreateInv, ReadInv, SaveInv, ClearInv, DeleteInv, UndoneInv DEF Administration
<1>2. CASE Pipeline
    BY <1>2, ReportInv, DocumentInv DEF Pipeline
<1>3. CASE UNCHANGED vars
    BY <1>3 DEF vars, rows, history, Inv, TypeOK, IssuedOK, ShowsLastReport, ForeignKeys,
                TakesAll, ReadsAll, ClearsAll
<1> QED
    BY <1>1, <1>2, <1>3 DEF Next

THEOREM Invariance == Spec => []Inv
<1>1. Init => Inv
    BY InitInv
<1>2. Inv /\ [Next]_vars => Inv'
    BY NextInv
<1> QED
    BY <1>1, <1>2, PTL DEF Spec

\* Rows keep their types, and the deletion of a source (admin_source_edit_modal)
\* leaves no document and no job without what it belongs to.
THEOREM TypeCorrect == Spec => []TypeOK
<1>1. Inv => TypeOK
    BY DEF Inv
<1> QED
    BY <1>1, Invariance, PTL

\* admin_source_edit_modal fails to delete a source exactly when the pipeline has added to
\* it, since the deletion read, something that is still there, however many deletions,
\* edits and reports of it overlap: with all that is older, the source goes.
THEOREM DeletionsFailForCause == Spec => []FailsOnlyForLateRows
<1> QED
    BY OrphansAreLate, Invariance, PTL

LEMMA Positive == ASSUME NEW n \in Nat PROVE n > 0 <=> n # 0
OBVIOUS

\* The filters of admin_ingestion_management and _classify_source_health put
\* every source in the same class, whatever its row, documents and jobs.
THEOREM FiltersMatchBadges == Spec => []FilterMatchesBadge
<1>1. TypeOK => FilterMatchesBadge
    <2> SUFFICES ASSUME TypeOK, NEW s \in Sources, source[s] # None,
                        NEW health \in {"healthy", "warning", "failing", "paused"}
                 PROVE  s \in Listed(health) <=> Health(s) = health
        BY DEF FilterMatchesBadge
    <2> DEFINE failures == source[s].report.failures
               message == source[s].report.message
    <2>1. failures \in Nat /\ message \in {"null", "", "text"}
        BY ReportsAssumption DEF TypeOK, Row
    <2>2. Troubled(s) <=> \/ failures # 0 \/ ~NoMessage(s)
                          \/ Fetched(s, "FAILED") # {} \/ Jobs(s, "FAILED") # {}
        <3>1. failures > 0 <=> failures # 0
            BY <2>1, Positive
        <3> QED
            BY <2>1, <3>1 DEF Troubled, NoMessage
    <2>3. s \in Listed(health) <=> Selects(health, s)
        BY DEF Listed
    <2>4. Selects("failing", s) <=> source[s].enabled /\ Troubled(s)
        BY DEF Selects, Troubled
    <2>5. Selects("healthy", s) <=> source[s].enabled /\ ~Troubled(s) /\ ~Waiting(s)
        BY <2>2 DEF Selects, Waiting
    <2>6. Selects("warning", s) <=> source[s].enabled /\ ~Troubled(s) /\ Waiting(s)
        BY <2>2 DEF Selects, Waiting
    <2>7. Selects("paused", s) <=> ~source[s].enabled
        BY DEF Selects
    <2> QED
        BY <2>3, <2>4, <2>5, <2>6, <2>7 DEF Health
<1> QED
    BY <1>1, TypeCorrect, PTL

\* A source shows what the pipeline last reported, and stays deleted, unless an
\* edit that had read it before (SourceForm) saves it after.
THEOREM LastReportIsShown == Spec => []ShowsLastReport
<1>1. Inv => ShowsLastReport
    BY DEF Inv
<1> QED
    BY <1>1, Invariance, PTL

=============================================================================
