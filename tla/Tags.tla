-------------------------------- MODULE Tags --------------------------------
(***************************************************************************)
(* Tags made on the way by submissions of posts (_get_or_create_tag), and  *)
(* tags made and changed by administrators (TagForm).  A submission is a   *)
(* transaction: it looks for each of its tag names in turn and inserts the *)
(* ones it does not find, under the slug of the name or, when that is      *)
(* taken, under the slug with a number behind it.  Only slugs are unique   *)
(* in the table; an INSERT waits for the transaction that has inserted the *)
(* same slug and not committed.                                            *)
(***************************************************************************)
EXTENDS Naturals, Sequences

CONSTANTS Names,        \* tag names as typed
          CaseKey,      \* CaseKey[n]: n in lower case, what iexact compares
          SlugFor,      \* SlugFor[n][i]: the slug attempt i gives n; attempts of
                        \* different names may meet ("C++" and "c", "c-2" and "c")
          MaxAttempts,  \* twenty in the code
          MaxNames,     \* tag names in one submission (five in the code)
          Requests,
          Entered       \* the tags administrators enter

\* What is asked of the constants: slugify ignores case.
TagsAssumption ==
    /\ {MaxAttempts, MaxNames} \subseteq Nat \ {0}
    /\ \A n \in Names : DOMAIN SlugFor[n] = 1 .. MaxAttempts
    /\ \A m, n \in Names : CaseKey[m] = CaseKey[n] => SlugFor[m] = SlugFor[n]
    /\ Entered \subseteq [name : Names, slug : UNION {{SlugFor[n][i] : i \in 1 .. MaxAttempts} : n \in Names}]

ASSUME ConstantsAssumption == TagsAssumption

VARIABLES tags,         \* the committed rows
          req,          \* req[r]: the submission in slot r
          administered  \* an administrator has made or changed a tag (history)

vars == <<tags, req, administered>>

Slugs == {SlugFor[n][i] : n \in Names, i \in 1 .. MaxAttempts}
Tag == [name : Names, slug : Slugs]

Request == [step : {"idle", "look", "insert", "again", "commit"},
            todo : UNION {[1 .. k -> Names] : k \in 0 .. MaxNames},
            suffix : 1 .. MaxAttempts, made : SUBSET Tag]

Idle == [step |-> "idle", todo |-> <<>>, suffix |-> 1, made |-> {}]

Attempted(n) == {SlugFor[n][i] : i \in 1 .. MaxAttempts}

Name(r) == Head(req[r].todo)
Slug(r) == SlugFor[Name(r)][req[r].suffix]

\* What transaction r sees: the committed rows and its own.
Seen(r) == tags \cup req[r].made

\* name__iexact
SameName(m, n) == CaseKey[m] = CaseKey[n]

Found(r) == \E t \in Seen(r) : SameName(t.name, Name(r))

SlugTaken(rows, slug) == \E t \in rows : t.slug = slug

\* The transactions an INSERT of the slug would wait for.
Holders(slug) == {s \in Requests : SlugTaken(req[s].made, slug)}

WellFormed(rows) ==
    \A t, u \in rows : t # u => t.slug # u.slug /\ CaseKey[t.name] # CaseKey[u.name]

\* Tables submissions have left behind; administrators come later.
Init ==
    /\ tags \in {rows \in SUBSET {t \in Tag : t.slug \in Attempted(t.name)} : WellFormed(rows)}
    /\ req = [r \in Requests |-> Idle]
    /\ administered = FALSE

-----------------------------------------------------------------------------

\* clean_tag_names: each name once, whatever its case.
Begin(r, names) ==
    /\ req[r].step = "idle"
    /\ names # <<>>
    /\ \A i, j \in DOMAIN names : SameName(names[i], names[j]) => i = j
    /\ req' = [req EXCEPT ![r] = [Idle EXCEPT !.step = "look", !.todo = names]]
    /\ UNCHANGED tags

\* The request once its first name has a tag, with the rows it has made so far.
NextName(r, made) ==
    [req EXCEPT ![r] = [Idle EXCEPT !.step = IF Len(req[r].todo) = 1 THEN "commit" ELSE "look",
                                    !.todo = Tail(req[r].todo), !.made = made]]

Look(r) ==
    /\ req[r].step = "look"
    /\ req' = IF Found(r) THEN NextName(r, req[r].made)
              ELSE [req EXCEPT ![r].step = "insert", ![r].suffix = 1]
    /\ UNCHANGED tags

\* Mutation: the table has no unique index on slug.
InsertAny(r) ==
    /\ req[r].step = "insert"
    /\ req' = NextName(r, req[r].made \cup {[name |-> Name(r), slug |-> Slug(r)]})
    /\ UNCHANGED tags

\* Tag.objects.create in a savepoint; IntegrityError when the slug is taken.
Insert(r) ==
    /\ req[r].step = "insert"
    /\ Holders(Slug(r)) \subseteq {r}
    /\ req' = IF SlugTaken(Seen(r), Slug(r)) THEN [req EXCEPT ![r].step = "again"]
              ELSE NextName(r, req[r].made \cup {[name |-> Name(r), slug |-> Slug(r)]})
    /\ UNCHANGED tags

\* Mutation: one attempt too few.
AgainTooFew(r) ==
    /\ req[r].step = "again"
    /\ req' = IF Found(r) THEN NextName(r, req[r].made)
              ELSE IF req[r].suffix + 1 < MaxAttempts
              THEN [req EXCEPT ![r].step = "insert", ![r].suffix = @ + 1]
              ELSE [req EXCEPT ![r] = Idle]
    /\ UNCHANGED tags

\* Somebody was faster: its tag is taken if it has this name, otherwise the next
\* suffix is tried.  After the last one the whole submission fails.
Again(r) ==
    /\ req[r].step = "again"
    /\ req' = IF Found(r) THEN NextName(r, req[r].made)
              ELSE IF req[r].suffix < MaxAttempts
              THEN [req EXCEPT ![r].step = "insert", ![r].suffix = @ + 1]
              ELSE [req EXCEPT ![r] = Idle]
    /\ UNCHANGED tags

Commit(r) ==
    /\ req[r].step = "commit"
    /\ tags' = tags \cup req[r].made
    /\ req' = [req EXCEPT ![r] = Idle]

\* Mutation: a failed submission keeps the tags it has made.
AbortHalf(r) ==
    /\ req[r].step # "idle"
    /\ req' = [req EXCEPT ![r] = [Idle EXCEPT !.made = req[r].made]]
    /\ UNCHANGED tags

\* The connection is lost or the process dies: what was made is rolled back.
Abort(r) ==
    /\ req[r].step # "idle"
    /\ req' = [req EXCEPT ![r] = Idle]
    /\ UNCHANGED tags

-----------------------------------------------------------------------------

\* admin_tag_management: the form has found the slug free, and so does the
\* INSERT.  The name is not looked for.
AdminMake(t) ==
    /\ ~SlugTaken(tags, t.slug)
    /\ Holders(t.slug) = {}
    /\ tags' = tags \cup {t}
    /\ UNCHANGED req

\* admin_tag_edit_modal: name and slug of a tag become what the form says.
AdminChange(old, new) ==
    /\ old # new
    /\ ~SlugTaken(tags \ {old}, new.slug)
    /\ Holders(new.slug) = {}
    /\ tags' = (tags \ {old}) \cup {new}
    /\ UNCHANGED req

\* The transactions r waits for.
WaitsFor(r) == IF req[r].step = "insert" THEN Holders(Slug(r)) \ {r} ELSE {}

\* Two submissions that make the same tags in another order wait for each other:
\* PostgreSQL ends one of them (OperationalError, which nothing catches).
DeadlockVictim(r) ==
    /\ \E S \in SUBSET Requests :
          /\ r \in S
          /\ \A s \in S : WaitsFor(s) \cap S # {}
          /\ S \subseteq UNION {WaitsFor(s) : s \in S}
    /\ req' = [req EXCEPT ![r] = Idle]
    /\ UNCHANGED tags

Statement(r) == Look(r) \/ Insert(r) \/ Again(r) \/ Commit(r)

Submission(r) ==
    \/ \E k \in 1 .. MaxNames : \E names \in [1 .. k -> Names] : Begin(r, names)
    \/ Statement(r) \/ Abort(r) \/ DeadlockVictim(r)

\* Bound: an administrator makes or changes one tag.
Administer ==
    /\ ~administered
    /\ \/ \E t \in Entered : AdminMake(t)
       \/ \E old \in tags, new \in Entered : AdminChange(old, new)

Next ==
    \/ (\E r \in Requests : Submission(r)) /\ UNCHANGED administered
    \/ Administer /\ administered' = TRUE

\* Waiting INSERTs are woken in order, and the deadlock detector runs.
Spec ==
    /\ Init /\ [][Next]_vars
    /\ \A r \in Requests : /\ SF_vars(Statement(r) /\ UNCHANGED administered)
                           /\ WF_vars(DeadlockVictim(r) /\ UNCHANGED administered)

-----------------------------------------------------------------------------

\* The shapes of the state; a slot without a submission holds no row, so that
\* nobody waits for it.
TypeOK ==
    /\ tags \subseteq Tag
    /\ req \in [Requests -> Request]
    /\ \A r \in Requests : req[r].step = "idle" => req[r] = Idle
    /\ administered \in BOOLEAN

\* No two tags have the same name in any case, though no index says so: two
\* submissions that make the same tag meet on its slug.  True until an
\* administrator, whose form does not look for names, makes or changes one.
NamesUnique ==
    ~administered =>
        \A t, u \in tags \cup UNION {req[r].made : r \in Requests} :
            SameName(t.name, u.name) => t = u

\* A submission gives up ("conflicts repeat") only when every suffix of the slug
\* is in use by tags of other names, until an administrator changes slugs.
GivesUpForCause ==
    \A r \in Requests :
        /\ ~administered
        /\ req[r].step = "again" /\ Again(r) /\ req'[r].step = "idle"
        => \A slug \in Attempted(Name(r)) :
              \E t \in Seen(r) : t.slug = slug /\ ~SameName(t.name, Name(r))

\* Every submission ends, however many make the same tags in whatever order.
EverySubmissionEnds ==
    \A r \in Requests : req[r].step # "idle" ~> req[r].step = "idle"

=============================================================================
