------------------------------ MODULE MCPages ------------------------------
(***************************************************************************)
(* Nine parts that share no state, in one model: part says which of them  *)
(* runs, and the variables of the others are None.  Where parts have       *)
(* a variable of the same name, it serves whichever runs.                  *)
(***************************************************************************)
EXTENDS Naturals, TLC

CONSTANTS Requests, None,
          Titles, Texts, SeedTitle, SeedText,      \* of wiki documents
          Chunks, Syncs, MaxEdits,                 \* WikiEmbeddings
          Timeout, MaxDelay,                       \* WikiPages
          Pages, Self, Latest, Limit,              \* RelatedPages
          Posts, Users, Author, MaxComments,       \* CommentThreads
          TTL, MaxTime,                            \* Readiness
          MaxMarks,                                \* Listings
          l1,                                      \* a request of Listings
          Documents, MaxChips, MaxMoves,           \* ComposeForm
          Attempts, WindowSeconds, TicksPerSecond, \* LoginRateLimit
          Names, CaseKey, SlugFor, MaxAttempts, MaxNames, Entered,  \* Tags
          g0, g1, g2, g3, o1, o2, u1, u2, u3,      \* pages, posts and users
          n1, N1, n2, n3, s1, s2, s3               \* names and slugs of tags

MCLatest == <<g0, g1, g2, g3>>
MCAuthor == [post \in {o1, o2} |-> u1]

\* Two spellings of one name, another name with the same slug, and a name whose slug is
\* the second attempt of theirs.
MCNames == {n1, N1, n2, n3}
MCCaseKey == [n \in MCNames |-> IF n = N1 THEN n1 ELSE n]
MCSlugFor == [n \in MCNames |-> IF n = n3 THEN <<s2, s3>> ELSE <<s1, s2>>]

\* A name that exists under another slug, and a slug submissions attempt.
MCEntered == {[name |-> N1, slug |-> s3], [name |-> n2, slug |-> s2]}

VARIABLES part,
          title, current, text, request, calm, status, comment,    \* of several parts
          cites, vectors, embedding, sync, edits, past, missed, fits,  \* WikiEmbeddings
          render, edited,                                          \* WikiPages
          listed, near, shared, ids, found, step, always,          \* RelatedPages
          told,                                                    \* CommentThreads
          clock, database, cache, probe, kept, turned, alone,      \* Readiness
          deleted, wiki, marks,                                    \* Listings
          open, row, page, chips, target, shown, ticked,
          search, moved, stale, moves,                             \* ComposeForm
          req,                                                     \* of the last two
          entry, recent,                                           \* LoginRateLimit
          tags, administered                                       \* Tags

ofEmbeddings == <<cites, vectors, embedding, sync, edits, past, missed, fits>>
ofWiki == <<render, edited>>
ofRelated == <<listed, near, shared, ids, found, step, always>>
ofThreads == <<told>>
ofHealth == <<clock, database, cache, probe, kept, turned, alone>>
ofLists == <<deleted, wiki, marks>>
ofCompose == <<open, row, page, chips, target, shown, ticked, search, moved, stale, moves>>
ofLogins == <<entry, recent>>
ofTags == <<tags, administered>>
ofDocument == <<title, current, text>>
vars == <<part, request, calm, status, comment, ofEmbeddings, ofWiki, ofRelated, ofThreads,
          ofHealth, ofLists, ofCompose, ofDocument, req, ofLogins, ofTags>>

Embeddings == INSTANCE WikiEmbeddings
Wiki == INSTANCE WikiPages
Related == INSTANCE RelatedPages
Threads == INSTANCE CommentThreads
Health == INSTANCE Readiness
Lists == INSTANCE Listings WITH Requests <- {l1}, Users <- {u1, u2}
Compose == INSTANCE ComposeForm
Logins == INSTANCE LoginRateLimit WITH Limit <- Attempts
Tagging == INSTANCE Tags

\* What the parts ask of their constants.
ASSUME PartsAssumption ==
    /\ Embeddings!EmbeddingAssumption
    /\ Wiki!PagesAssumption
    /\ Related!RelatedAssumption
    /\ Threads!ThreadsAssumption
    /\ Health!ReadinessAssumption
    /\ Lists!ListingsAssumption
    /\ Compose!ComposeAssumption
    /\ Logins!LimitAssumption
    /\ Tagging!TagsAssumption

EmbeddingsOff == cites = None /\ vectors = None /\ embedding = None /\ sync = None
              /\ edits = None /\ past = None /\ missed = None /\ fits = None
WikiOff == render = None /\ edited = None
RelatedOff == listed = None /\ near = None /\ shared = None /\ ids = None
           /\ found = None /\ step = None /\ always = None
ThreadsOff == told = None
HealthOff == clock = None /\ database = None /\ cache = None /\ probe = None
          /\ kept = None /\ turned = None /\ alone = None
ListsOff == deleted = None /\ wiki = None /\ marks = None
ComposeOff == open = None /\ row = None /\ page = None /\ chips = None /\ target = None /\ shown = None
           /\ ticked = None /\ search = None /\ moved = None /\ stale = None /\ moves = None
LoginsOff == entry = None /\ recent = None
TagsOff == tags = None /\ administered = None
DocumentOff == title = None /\ current = None /\ text = None

Init ==
    \/ /\ part = "embeddings" /\ Embeddings!Init
       /\ WikiOff /\ RelatedOff /\ ThreadsOff /\ HealthOff /\ ListsOff
       /\ ComposeOff /\ request = None /\ status = None /\ comment = None
       /\ req = None /\ LoginsOff /\ TagsOff
    \/ /\ part = "pages" /\ Wiki!Init
       /\ EmbeddingsOff /\ RelatedOff /\ ThreadsOff /\ HealthOff /\ ListsOff
       /\ ComposeOff /\ calm = None /\ comment = None
       /\ req = None /\ LoginsOff /\ TagsOff
    \/ /\ part = "related" /\ Related!Init
       /\ EmbeddingsOff /\ WikiOff /\ ThreadsOff /\ HealthOff /\ ListsOff
       /\ ComposeOff /\ DocumentOff /\ request = None /\ status = None /\ comment = None
       /\ req = None /\ LoginsOff /\ TagsOff
    \/ /\ part = "threads" /\ Threads!Init
       /\ EmbeddingsOff /\ WikiOff /\ RelatedOff /\ HealthOff /\ ListsOff
       /\ ComposeOff /\ DocumentOff /\ calm = None /\ status = None
       /\ req = None /\ LoginsOff /\ TagsOff
    \/ /\ part = "health" /\ Health!Init
       /\ EmbeddingsOff /\ WikiOff /\ RelatedOff /\ ThreadsOff /\ ListsOff
       /\ ComposeOff /\ DocumentOff /\ calm = None /\ status = None /\ comment = None
       /\ req = None /\ LoginsOff /\ TagsOff
    \/ /\ part = "lists" /\ Lists!Init
       /\ EmbeddingsOff /\ WikiOff /\ RelatedOff /\ ThreadsOff /\ HealthOff
       /\ ComposeOff /\ DocumentOff /\ calm = None
       /\ req = None /\ LoginsOff /\ TagsOff
    \/ /\ part = "compose" /\ Compose!Init
       /\ EmbeddingsOff /\ WikiOff /\ RelatedOff /\ ThreadsOff /\ HealthOff
       /\ ListsOff /\ DocumentOff /\ calm = None /\ status = None /\ comment = None
       /\ req = None /\ LoginsOff /\ TagsOff
    \/ /\ part = "logins" /\ Logins!Init
       /\ EmbeddingsOff /\ WikiOff /\ RelatedOff /\ ThreadsOff /\ HealthOff /\ ListsOff
       /\ ComposeOff /\ DocumentOff /\ request = None /\ status = None /\ comment = None
       /\ TagsOff
    \/ /\ part = "tags" /\ Tagging!Init
       /\ EmbeddingsOff /\ WikiOff /\ RelatedOff /\ ThreadsOff /\ HealthOff /\ ListsOff
       /\ ComposeOff /\ DocumentOff /\ request = None /\ calm = None /\ status = None
       /\ comment = None /\ LoginsOff

Next ==
    \/ /\ part = "embeddings" /\ Embeddings!Next
       /\ UNCHANGED <<part, request, status, comment, ofWiki, ofRelated, ofThreads, ofHealth,
                       ofLists, ofCompose, req, ofLogins, ofTags>>
    \/ /\ part = "pages" /\ Wiki!Next
       /\ UNCHANGED <<part, calm, comment, ofEmbeddings, ofRelated, ofThreads, ofHealth,
                       ofLists, ofCompose, req, ofLogins, ofTags>>
    \/ /\ part = "related" /\ Related!Next
       /\ UNCHANGED <<part, request, status, comment, ofEmbeddings, ofWiki, ofThreads,
                       ofHealth, ofLists, ofCompose, ofDocument, req, ofLogins, ofTags>>
    \/ /\ part = "threads" /\ Threads!Next
       /\ UNCHANGED <<part, calm, status, ofEmbeddings, ofWiki, ofRelated, ofHealth, ofLists,
                       ofCompose, ofDocument, req, ofLogins, ofTags>>
    \/ /\ part = "health" /\ Health!Next
       /\ UNCHANGED <<part, calm, status, comment, ofEmbeddings, ofWiki, ofRelated, ofThreads,
                       ofLists, ofCompose, ofDocument, req, ofLogins, ofTags>>
    \/ /\ part = "lists" /\ Lists!Next
       /\ UNCHANGED <<part, calm, ofEmbeddings, ofWiki, ofRelated, ofThreads, ofHealth,
                       ofCompose, ofDocument, req, ofLogins, ofTags>>
    \/ /\ part = "compose" /\ Compose!Next
       /\ UNCHANGED <<part, calm, status, comment, ofEmbeddings, ofWiki, ofRelated, ofThreads,
                       ofHealth, ofLists, ofDocument, req, ofLogins, ofTags>>
    \/ /\ part = "logins" /\ Logins!Next
       /\ UNCHANGED <<part, request, status, comment, ofEmbeddings, ofWiki, ofRelated,
                       ofThreads, ofHealth, ofLists, ofCompose, ofDocument, ofTags>>
    \/ /\ part = "tags" /\ Tagging!Next
       /\ UNCHANGED <<part, request, calm, status, comment, ofEmbeddings, ofWiki, ofRelated,
                       ofThreads, ofHealth, ofLists, ofCompose, ofDocument, ofLogins>>

Spec == Init /\ [][Next]_vars

Symmetry == Permutations(Requests) \cup Permutations({u2, u3}) \cup Permutations(Posts)

-----------------------------------------------------------------------------
(* The types and the properties of the parts, each of the part that runs. *)

TypeOK ==
    /\ part = "embeddings" => Embeddings!TypeOK
    /\ part = "pages" => Wiki!TypeOK
    /\ part = "threads" => Threads!TypeOK
    /\ part = "health" => Health!TypeOK
    /\ part = "lists" => Lists!TypeOK
    /\ part = "compose" => Compose!TypeOK
    /\ part = "logins" => Logins!TypeOK
    /\ part = "tags" => Tagging!TypeOK

\* The row of a document puts together what was the document's at one time.
RowDescribesDocument == part = "embeddings" => Embeddings!RowDescribesDocument

\* The row is that of the document as it is, unless a change was not followed.
CurrentWhenCalm == part = "embeddings" => Embeddings!CurrentWhenCalm

\* A document that has a source with a vector has a row, where the dimensions fit.
EmbeddedWhenPossible == part = "embeddings" => Embeddings!EmbeddedWhenPossible

\* A wiki page shows its revision, as it was a week and two requests ago at most.
ShowsItsRevision == part = "pages" => Wiki!ShowsItsRevision

\* While nothing changes, the recommended pages are the best there are; whatever changes,
\* they are distinct, others, and as many as can be.
ListIsRight == part = "related" => Related!ListsBest /\ Related!ListIsSound

\* A comment that is shown is shown with its ancestors, and looking for them ends; threads
\* opened by hand show what the whole tree shows.
ThreadsAreWhole == part = "threads" => Threads!FocusIsOpen /\ Threads!SameThreads

\* Those concerned by a comment are told of it, once each.
EachHearsOnce == part = "threads" => Threads!EachHearsOnce

\* A check finds a healthy cache out of order only while another check is under way, and
\* what is reported of the database was so less than the time to live before.
ReportsForCause == part = "health" => Health!FalseAlarmNeedsCompany /\ Health!ReportsAreRecent

\* What is listed opens, what was marked is found again, numbers are those of the lists.
ListsShowWhatOpens == part = "lists" => Lists!ListsShowWhatOpens

\* More documents than a post may have: one more, in two ways.
AtMostOneTooMany == part = "compose" => Compose!AtMostOneTooMany

\* The labels of a search follow the form, but for documents that moved during the search.
LabelsFollowChips == part = "compose" => Compose!LabelsFollowChips

\* While logins follow one another, wrong passwords are limited, and lockouts have cause.
LimitIsKept == part = "logins" => Logins!LimitIsKept

\* A lockout is over with the window it was announced for, give or take the rounding.
EntryEndsWithWindow == part = "logins" => Logins!EntryEndsWithWindow

\* No two tags have one name, until an administrator enters one.
NamesUnique == part = "tags" => Tagging!NamesUnique

\* A submission gives up only when tags of other names have all its slugs.
GivesUpForCause == [][part = "tags" => Tagging!GivesUpForCause]_vars

\* A post is not written over by a form of the draft it was, nor linked to what was closed.
SavesAreSound == [][part = "compose" => Compose!SavesAreSound]_vars

=============================================================================
