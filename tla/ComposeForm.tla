---------------------------- MODULE ComposeForm ----------------------------
(***************************************************************************)
(* The form a post is composed in, in one tab of the browser: the wiki     *)
(* documents it links are chips, which come from the page, from a draft    *)
(* that is loaded, and from a search whose answers show which documents    *)
(* are chips already.  On the other side are the server, which checks and  *)
(* saves what is submitted, the administrators, who publish and withdraw   *)
(* documents, and another tab of the same user.                            *)
(*                                                                         *)
(* One stored post is modelled, the draft; texts and tags are left out,    *)
(* and so are the query of a search and its eight results: every open      *)
(* document is found.  A page is read in one step.                         *)
(***************************************************************************)
EXTENDS Naturals, FiniteSets

CONSTANTS Documents,
          MaxChips,  \* chips a post may have, 10 in the code
          MaxMoves,  \* bound on what administrators and the other tab do
          None

\* What is asked of the constants.
ComposeAssumption == IsFiniteSet(Documents) /\ MaxChips \in Nat \ {0} /\ MaxMoves \in Nat

VARIABLES open,     \* the published documents
          row,      \* the stored post: status and documents, or None
          page,     \* what the page was rendered with, None while there is none
          chips,    \* the documents of the form
          target,   \* the form says that it continues the draft
          shown,    \* documents in the search results
          ticked,   \* those whose label says that they are chips
          search,   \* the documents a search under way has for chips, or None
          request,  \* the submission under way, or None
          moved,    \* history: documents that were opened or closed, added or removed, in a search
          stale,    \* history: those of the search whose results are shown
          moves     \* what others have done so far

form == <<chips, target>>
results == <<shown, ticked, search, moved, stale>>
vars == <<open, row, page, form, results, request, moves>>

IsDraft == row # None /\ row.status = "draft"

\* The page has its chips; it offers the draft as it is stored, withdrawn documents included.
Render(locked, docs, continues) ==
    /\ page' = [locked |-> locked, initial |-> docs \cap open, continues |-> continues,
                payload |-> IF IsDraft THEN row.docs ELSE None]
    /\ chips' = docs \cap open /\ target' = continues
    /\ shown' = open /\ ticked' = docs \cap open
    /\ search' = None /\ moved' = {} /\ stale' = {}

\* There may be a draft already.
Init ==
    /\ open = Documents
    /\ row = None \/ \E docs \in SUBSET Documents : /\ Cardinality(docs) <= MaxChips
                                                  /\ row = [status |-> "draft", docs |-> docs]
    /\ page = None /\ request = None
    /\ chips = {} /\ target = FALSE
    /\ shown = {} /\ ticked = {} /\ search = None /\ moved = {} /\ stale = {}
    /\ moves = 0

-----------------------------------------------------------------------------
(* The browser.                                                            *)

\* The community's page or that of a document, which is locked into the form.  (To leave a
\* page and load another comes to the same as not to have loaded the first.)
Load(locked, continues) ==
    /\ page = None /\ request = None
    /\ locked \subseteq open /\ Cardinality(locked) <= 1
    /\ continues => IsDraft
    /\ Render(locked, IF continues THEN row.docs \cup locked ELSE locked, continues)
    /\ UNCHANGED <<open, row, request, moves>>

\* During a search, documents that move are noted.
Note(docs) == moved' = IF search = None THEN moved ELSE moved \cup docs

\* Mutant: the labels of the search results are forgotten.
ApplyToChips(docs, continues) ==
    LET kept == chips \cap page.locked
        next == kept \cup (docs \ page.locked)
    IN  /\ chips' = next /\ target' = continues
        /\ Note((chips \ next) \cup (next \ chips)) /\ stale' = stale \ shown
        /\ UNCHANGED <<ticked, shown, search>>

\* A draft is loaded, or the form is put back: whatever is not locked is replaced.
Apply(docs, continues) ==
    LET kept == chips \cap page.locked
        next == kept \cup (docs \ page.locked)
    IN  /\ chips' = next /\ target' = continues
        /\ ticked' = (ticked \cap page.locked) \cup (shown \cap (docs \ page.locked))
        /\ Note((chips \ next) \cup (next \ chips)) /\ stale' = stale \ shown
        /\ UNCHANGED <<shown, search>>

LoadDraft ==
    /\ page # None /\ page.payload # None
    /\ Apply(page.payload, TRUE)
    /\ UNCHANGED <<open, row, page, request, moves>>

Close ==
    /\ page # None
    /\ Apply(page.initial, page.continues)
    /\ UNCHANGED <<open, row, page, request, moves>>

Remove(d) ==
    /\ page # None /\ d \in chips \ page.locked
    /\ chips' = chips \ {d} /\ ticked' = ticked \ {d}
    /\ Note({d}) /\ stale' = stale \ {d}
    /\ UNCHANGED <<open, row, page, target, shown, search, request, moves>>

\* Mutant: the limit is off by one.
AddOneMore(d) ==
    /\ page # None /\ d \in shown \ chips
    /\ Cardinality(chips) <= MaxChips
    /\ chips' = chips \cup {d} /\ ticked' = ticked \cup {d}
    /\ Note({d}) /\ stale' = stale \ {d}
    /\ UNCHANGED <<open, row, page, target, shown, search, request, moves>>

\* The button of a result; that of a chip removes it.
Add(d) ==
    /\ page # None /\ d \in shown \ chips
    /\ Cardinality(chips) < MaxChips
    /\ chips' = chips \cup {d} /\ ticked' = ticked \cup {d}
    /\ Note({d}) /\ stale' = stale \ {d}
    /\ UNCHANGED <<open, row, page, target, shown, search, request, moves>>

\* The search goes out with the chips there are.
Ask ==
    /\ page # None /\ search = None
    /\ search' = [chips |-> chips, known |-> FALSE] /\ moved' = {}
    /\ UNCHANGED <<open, row, page, form, shown, ticked, stale, request, moves>>

\* The picker's first query is for the open documents among them...
PickerKnows ==
    /\ page # None /\ search # None /\ ~search.known
    /\ search' = [chips |-> search.chips \cap open, known |-> TRUE]
    /\ UNCHANGED <<open, row, page, form, shown, ticked, moved, stale, request, moves>>

\* ... its second for the results, which replace those shown.
PickerAnswers ==
    /\ page # None /\ search # None /\ search.known
    /\ shown' = open /\ ticked' = open \cap search.chips
    /\ search' = None /\ stale' = moved /\ moved' = {}
    /\ UNCHANGED <<open, row, page, form, request, moves>>

-----------------------------------------------------------------------------
(* The server.                                                             *)

\* The form is sent, and the page left.  past: the draft was a post then; withdrawn: the
\* documents closed since.
Submit ==
    /\ page # None
    /\ request' = [step |-> "check", past |-> row # None /\ ~IsDraft, withdrawn |-> {}]
    /\ page' = None
    /\ shown' = {} /\ ticked' = {} /\ search' = None /\ moved' = {} /\ stale' = {}
    /\ UNCHANGED <<open, row, form, moves>>

\* Mutant: documents are not looked for among the published ones.
Countable == Cardinality(chips) <= MaxChips

\* PostForm's documents are among the published ones, and not too many.
Valid == chips \subseteq open /\ Cardinality(chips) <= MaxChips

Check ==
    /\ request # None /\ request.step = "check" /\ Valid
    /\ request' = [request EXCEPT !.step = "find"]
    /\ UNCHANGED <<open, row, page, form, results, moves>>

\* The page comes back with the form, and nothing is locked any more.
Refuse ==
    /\ request # None /\ request.step = "check" /\ ~Valid
    /\ Render({}, chips, target)
    /\ request' = None
    /\ UNCHANGED <<open, row, moves>>

\* Mutant: whichever post has the number is continued.
Continued == target /\ row # None

Continues == target /\ IsDraft

Find ==
    /\ request # None /\ request.step = "find"
    /\ request' = [request EXCEPT !.step = IF Continues THEN "update" ELSE "insert"]
    /\ UNCHANGED <<open, row, page, form, results, moves>>

\* The row is written whatever has become of it, with the status in the form; of the new
\* posts one is the row.
Save(as) ==
    /\ request # None /\ request.step \in {"update", "insert"}
    /\ row' = IF request.step = "update" \/ row = None
              THEN [status |-> as, docs |-> chips] ELSE row
    /\ request' = None /\ chips' = {} /\ target' = FALSE
    /\ UNCHANGED <<open, page, results, moves>>

-----------------------------------------------------------------------------
(* The others.                                                             *)

Moderate(d) ==
    /\ moves < MaxMoves /\ moves' = moves + 1
    /\ open' = IF d \in open THEN open \ {d} ELSE open \cup {d}
    /\ Note({d})
    /\ request' = IF request = None \/ d \notin open THEN request
                  ELSE [request EXCEPT !.withdrawn = @ \cup {d}]
    /\ UNCHANGED <<row, page, form, shown, ticked, search, stale>>

\* The other tab submits the draft.
OtherTab(as, docs) ==
    /\ moves < MaxMoves /\ moves' = moves + 1
    /\ IsDraft /\ docs \subseteq open /\ Cardinality(docs) <= MaxChips
    /\ row' = [status |-> as, docs |-> docs]
    /\ UNCHANGED <<open, page, form, results, request>>

Statuses == {"draft", "published"}

Next ==
    \/ \E locked \in SUBSET Documents, continues \in BOOLEAN : Load(locked, continues)
    \/ LoadDraft \/ Close \/ Ask \/ PickerKnows \/ PickerAnswers
    \/ Check \/ Refuse \/ Find \/ Submit
    \/ \E d \in Documents : Add(d) \/ Remove(d) \/ Moderate(d)
    \/ \E as \in Statuses : Save(as) \/ \E docs \in SUBSET Documents : OtherTab(as, docs)

Spec == Init /\ [][Next]_vars

-----------------------------------------------------------------------------

TypeOK ==
    /\ open \subseteq Documents /\ chips \subseteq Documents
    /\ shown \subseteq Documents /\ ticked \subseteq shown
    /\ moved \subseteq Documents /\ stale \subseteq Documents
    /\ target \in BOOLEAN /\ moves \in 0..MaxMoves

\* More documents than a post may have, one more at most, come in two ways only: with the
\* page, or with a draft that is loaded beside the document the page is about.
AtMostOneTooMany ==
    page # None /\ Cardinality(chips) > MaxChips =>
        /\ Cardinality(chips) = MaxChips + 1
        /\ chips = page.initial \/ \E d \in page.locked : page.payload = chips \ {d}

\* A result's label says whether its document is a chip, except for documents that were
\* opened or closed, added or removed, while the search was under way.
LabelsFollowChips ==
    page # None =>
        \A d \in shown \ (page.locked \cup stale) : d \in ticked <=> d \in chips

\* What was a post when a form was sent that continues it as a draft is left alone; and
\* a row gets links to closed documents only when they were closed after it was sent.
SavesAreSound ==
    (row' # row /\ request' # request) =>
        ~request.past /\ chips \ open \subseteq request.withdrawn

=============================================================================
