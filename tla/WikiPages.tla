----------------------------- MODULE WikiPages -----------------------------
(***************************************************************************)
(* The page of a wiki document: who may see it, and the rendered text of   *)
(* its current revision, which is kept in the cache for a week.            *)
(*                                                                         *)
(* The key of a rendered text is that of the revision, as if revisions and *)
(* titles never changed.  But the seed command rewrites the title, the     *)
(* summary and revision 1 in place, and nothing deletes the entry.         *)
(*                                                                         *)
(* Time is counted in steps of which Timeout make up the week; a request   *)
(* takes MaxDelay of them at most.                                         *)
(***************************************************************************)
EXTENDS Naturals

CONSTANTS Titles, Texts,
          SeedTitle, SeedText,
          Requests,
          Timeout,  \* REVISION_RENDER_CACHE_TIMEOUT
          MaxDelay, \* bound: steps of time a request takes
          None

\* The seed command writes revision 1, the pipeline adds another.
Revisions == 1..2

VARIABLES status, title, current, \* the document
          text,                   \* text[r]: of revision r
          render,                 \* render[r]: the rendered text in the cache
          request,
          edited                  \* edited[r]: the time since r or the title changed (history)

document == <<status, title, current, text>>
vars == <<document, render, request, edited>>

Statuses == {"published", "archived", "deleted"}
Actions == {"publish", "archive", "delete"}

Page == [title : Titles, text : Texts]
Rendered == [page : Page, left : 1..Timeout]

\* What is asked of the constants.
PagesAssumption ==
    /\ SeedTitle \in Titles /\ SeedText \in Texts
    /\ Timeout \in Nat \ {0} /\ MaxDelay \in Nat
    /\ None \notin Titles \cup Texts \cup Revisions \cup Page \cup Rendered

Request == [step : {"idle", "look", "fill", "shown", "act"}, revision : Revisions \cup {None},
            page : Page \cup {None}, status : Statuses \cup {None}, age : 0..MaxDelay]
Idle == [step |-> "idle", revision |-> None, page |-> None, status |-> None, age |-> 0]

\* The longest an entry may outlive what it was made from, seen by a slow request.
Horizon == Timeout + 2 * MaxDelay

Written(r) == text[r] # None
PageOf(r) == [title |-> title, text |-> text[r]]

End(q) == request' = [request EXCEPT ![q] = Idle]

Init ==
    /\ status = "published" /\ title \in Titles /\ current = None
    /\ text = [r \in Revisions |-> None]
    /\ render = [r \in Revisions |-> None]
    /\ request = [q \in Requests |-> Idle]
    /\ edited = [r \in Revisions |-> Horizon]

-----------------------------------------------------------------------------
(* The page. *)

\* Published and with a revision, or not found; both are read in one statement.
Open(q) ==
    /\ request[q].step = "idle"
    /\ status = "published" /\ current # None
    /\ request' = [request EXCEPT ![q] = [Idle EXCEPT !.step = "look", !.revision = current,
                                                      !.page = PageOf(current)]]
    /\ UNCHANGED <<document, render, edited>>

\* Mutant: one entry for the document.
KeyOfDocument(r) == 1
Key(r) == r

\* What is in the cache is shown whatever was read; else that is rendered.
Look(q) ==
    LET entry == render[Key(request[q].revision)]
    IN /\ request[q].step = "look"
       /\ request' = [request EXCEPT ![q].step = IF entry = None THEN "fill" ELSE "shown",
                                     ![q].page = IF entry = None THEN @ ELSE entry.page]
       /\ UNCHANGED <<document, render, edited>>

Fill(q) ==
    /\ request[q].step = "fill"
    /\ render' = [render EXCEPT ![Key(request[q].revision)] = [page |-> request[q].page, left |-> Timeout]]
    /\ request' = [request EXCEPT ![q].step = "shown"]
    /\ UNCHANGED <<document, edited>>

Close(q) ==
    /\ request[q].step = "shown"
    /\ End(q)
    /\ UNCHANGED <<document, render, edited>>

-----------------------------------------------------------------------------
(* The administrators' actions: decided on the document as read, saved without *)
(* reading it again, the status alone.                                          *)

ActRead(q) ==
    /\ request[q].step = "idle"
    /\ request' = [request EXCEPT ![q] = [Idle EXCEPT !.step = "act", !.status = status,
                                                      !.revision = current]]
    /\ UNCHANGED <<document, render, edited>>

Allowed(action, seen) ==
    \/ action = "publish" /\ seen.status # "published" /\ seen.revision # None
    \/ action = "archive" /\ seen.status # "archived"
    \/ action = "delete" /\ seen.status # "deleted"

Result(action) == CASE action = "publish" -> "published"
                    [] action = "archive" -> "archived"
                    [] action = "delete" -> "deleted"

\* Refused, the request ends with a message.
ActWrite(q) ==
    /\ request[q].step = "act"
    /\ \E action \in Actions :
           status' = IF Allowed(action, request[q]) THEN Result(action) ELSE status
    /\ End(q)
    /\ UNCHANGED <<title, current, text, render, edited>>

-----------------------------------------------------------------------------
(* Other programs, and time. *)

Seed ==
    /\ status' = "published" /\ title' = SeedTitle /\ current' = 1
    /\ text' = [text EXCEPT ![1] = SeedText]
    /\ edited' = [r \in Revisions |->
                      IF title' # title \/ text'[r] # text[r] THEN 0 ELSE edited[r]]
    /\ UNCHANGED <<render, request>>

\* The pipeline publishes another revision, or takes the document back to one.
Pipeline ==
    /\ \/ \E r \in Revisions, x \in Texts :
              ~Written(r) /\ current' = r /\ text' = [text EXCEPT ![r] = x]
       \/ \E r \in Revisions : Written(r) /\ current' = r /\ UNCHANGED text
    /\ UNCHANGED <<status, title, render, request, edited>>

\* The cache drops an entry before its time.
Evict ==
    /\ \E r \in Revisions : render[r] # None /\ render' = [render EXCEPT ![r] = None]
    /\ UNCHANGED <<document, request, edited>>

Age(entry) == IF entry = None \/ entry.left = 1 THEN None ELSE [entry EXCEPT !.left = @ - 1]

Tick ==
    /\ \A q \in Requests : request[q].step # "idle" => request[q].age < MaxDelay
    /\ request' = [q \in Requests |-> IF request[q].step = "idle" THEN Idle
                                      ELSE [request[q] EXCEPT !.age = @ + 1]]
    /\ render' = [r \in Revisions |-> Age(render[r])]
    /\ edited' = [r \in Revisions |-> IF edited[r] = Horizon THEN Horizon ELSE edited[r] + 1]
    /\ UNCHANGED document

Next ==
    \/ \E q \in Requests : Open(q) \/ Look(q) \/ Fill(q) \/ Close(q) \/ ActRead(q) \/ ActWrite(q)
    \/ Seed \/ Pipeline \/ Evict \/ Tick

Spec == Init /\ [][Next]_vars

-----------------------------------------------------------------------------
(* Properties. *)

TypeOK ==
    /\ status \in Statuses /\ title \in Titles /\ current \in Revisions \cup {None}
    /\ text \in [Revisions -> Texts \cup {None}]
    /\ render \in [Revisions -> Rendered \cup {None}]
    /\ request \in [Requests -> Request]
    /\ edited \in [Revisions -> 0..Horizon]

\* A page shows its revision, under its title, as they are or were at most a week and
\* two requests ago: a move to another revision shows at once, and what the seed
\* command rewrites in place shows when the entry has run out, for a fill that had
\* read the old text may still have been under way (get_cached_revision_render).
ShowsItsRevision ==
    \A q \in Requests :
        request[q].step = "shown" =>
            \/ request[q].page = PageOf(request[q].revision)
            \/ edited[request[q].revision] < Horizon

=============================================================================
