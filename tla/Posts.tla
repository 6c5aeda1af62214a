-------------------------------- MODULE Posts --------------------------------
(***************************************************************************)
(* The posts of the community board: one author composes, drafts and edits *)
(* in several tabs, and administrators delete and restore.  PostForm.save  *)
(* is a transaction that updates the row first, which holds it, and then   *)
(* replaces the labels (tags and linked wiki documents) by comparing them  *)
(* with those it finds.  A moderation is one UPDATE of a row read earlier. *)
(*                                                                         *)
(* A text stands for a whole submission: LabelsOf[t] are the labels that   *)
(* come with it.  The tags themselves are in Tags.                         *)
(***************************************************************************)
CONSTANTS Posts,     \* ids of posts
          Texts,
          Labels,
          LabelsOf,  \* LabelsOf[t]: the tags and documents submitted with t
          Requests,
          None       \* no text, no post, nobody

ASSUME ConstantsAssumption ==
    /\ LabelsOf \in [Texts -> SUBSET Labels]
    /\ None \notin Posts \cup Texts \cup Requests

VARIABLES post,    \* post[p]: the committed row, with its labels
          lock,    \* lock[p]: the transaction that holds the row
          req,     \* req[r]: the request in slot r
          crossed  \* a moderation and a submission have overlapped (history)

vars == <<post, lock, req, crossed>>

Statuses == {"draft", "published"}

\* searched: the text body_markdown_cache and the other cached columns were
\* made from (sync_cached_content_fields).
Post == [status : Statuses \cup {"absent"}, deleted : BOOLEAN, text : Texts \cup {None},
         searched : Texts \cup {None}, labels : SUBSET Labels]

Absent == [status |-> "absent", deleted |-> FALSE, text |-> None, searched |-> None,
           labels |-> {}]

Submitting == {"update", "link", "commit"}

Request == [step : {"idle", "moderate"} \cup Submitting,
            post : Posts \cup {None}, text : Texts \cup {None},
            status : Statuses \cup {None}, action : {"delete", "restore", None},
            add : SUBSET Labels, remove : SUBSET Labels]

Idle == [step |-> "idle", post |-> None, text |-> None, status |-> None, action |-> None,
         add |-> {}, remove |-> {}]

Exists(p) == post[p].status # "absent"
Shown(p) == Exists(p) /\ ~post[p].deleted

\* Ids no row has and no request has drawn.
FreshIds == {p \in Posts : ~Exists(p) /\ \A r \in Requests : req[r].post # p}

End(r) ==
    /\ req' = [req EXCEPT ![r] = Idle]
    /\ lock' = [p \in Posts |-> IF lock[p] = r THEN None ELSE lock[p]]

Init ==
    /\ post \in [Posts -> {Absent} \cup
          {[status |-> status, deleted |-> deleted, text |-> t, searched |-> t,
            labels |-> LabelsOf[t]] : status \in Statuses, deleted \in BOOLEAN, t \in Texts}]
    /\ lock = [p \in Posts |-> None]
    /\ req = [r \in Requests |-> Idle]
    /\ crossed = FALSE

-----------------------------------------------------------------------------
(* The author                                                              *)

Submit(r, p, t, status) ==
    /\ req' = [req EXCEPT ![r] = [Idle EXCEPT !.step = "update", !.post = p, !.text = t,
                                              !.status = status]]
    /\ UNCHANGED <<post, lock>>

\* community_list, POST: the draft d the form names, if it still is one, is
\* saved; otherwise the submission becomes a new post.
Compose(r, d, t, status) ==
    /\ req[r].step = "idle"
    /\ \E p \in IF Shown(d) /\ post[d].status = "draft" THEN {d} ELSE FreshIds :
          Submit(r, p, t, status)

\* community_post_edit: a published post, or a draft, that is not deleted.
Edit(r, p, t, status) ==
    /\ req[r].step = "idle"
    /\ Shown(p)
    /\ Submit(r, p, t, status)

\* Mutation: save() is not a transaction, the row is not held.
UpdateUnheld(r) ==
    /\ req[r].step = "update"
    /\ req' = [req EXCEPT ![r].step = "link"]
    /\ UNCHANGED <<post, lock>>

\* The transaction begins with the UPDATE (or INSERT) of the row.
Update(r) ==
    LET p == req[r].post IN
    /\ req[r].step = "update"
    /\ lock[p] = None
    /\ lock' = [lock EXCEPT ![p] = r]
    /\ req' = [req EXCEPT ![r].step = "link"]
    /\ UNCHANGED post

\* tags.set and wiki_documents.set: what is missing is added, what is too much
\* is removed.
Link(r) ==
    LET has == post[req[r].post].labels
        wanted == LabelsOf[req[r].text] IN
    /\ req[r].step = "link"
    /\ req' = [req EXCEPT ![r].step = "commit", ![r].add = wanted \ has,
                          ![r].remove = has \ wanted]
    /\ UNCHANGED <<post, lock>>

\* Mutation: the cached columns are not among the columns saved.
CommitNoCache(r) ==
    /\ req[r].step = "commit"
    /\ post' = [post EXCEPT ![req[r].post].status = req[r].status,
                            ![req[r].post].text = req[r].text,
                            ![req[r].post].labels = (@ \ req[r].remove) \cup req[r].add]
    /\ End(r)

\* Mutation: every column is saved, deleted_at as it was when it was read.
CommitAsRead(r) ==
    /\ req[r].step = "commit"
    /\ post' = [post EXCEPT ![req[r].post] =
          [status |-> req[r].status, deleted |-> FALSE, text |-> req[r].text,
           searched |-> req[r].text, labels |-> (@.labels \ req[r].remove) \cup req[r].add]]
    /\ End(r)

\* author_user, content_markdown, status and the cached columns are written,
\* deleted_at is not.
Commit(r) ==
    LET p == req[r].post IN
    /\ req[r].step = "commit"
    /\ post' = [post EXCEPT ![p].status = req[r].status,
                            ![p].text = req[r].text,
                            ![p].searched = req[r].text,
                            ![p].labels = (@ \ req[r].remove) \cup req[r].add]
    /\ End(r)

\* A tag cannot be made, the connection is lost, the process dies: the
\* transaction is rolled back.
Abort(r) ==
    /\ req[r].step \in Submitting
    /\ End(r)
    /\ UNCHANGED post

-----------------------------------------------------------------------------
(* Moderation                                                              *)

\* admin_post_action reads the whole row; the text it reads stays with it.
ModerateRead(r, p, action) ==
    /\ req[r].step = "idle"
    /\ Exists(p)
    /\ post[p].deleted <=> action = "restore"
    /\ req' = [req EXCEPT ![r] = [Idle EXCEPT !.step = "moderate", !.post = p,
                                              !.text = post[p].text, !.action = action]]
    /\ UNCHANGED <<post, lock>>

\* save(update_fields=["deleted_at", "updated_at"]): Post.save adds the cached
\* columns, made from the text that was read.
Moderate(r) ==
    LET p == req[r].post IN
    /\ req[r].step = "moderate"
    /\ lock[p] = None
    /\ post' = [post EXCEPT ![p].deleted = (req[r].action = "delete"),
                            ![p].searched = req[r].text]
    /\ End(r)

-----------------------------------------------------------------------------

Step ==
    \E r \in Requests :
        \/ \E p \in Posts, t \in Texts, status \in Statuses :
              Compose(r, p, t, status) \/ Edit(r, p, t, status)
        \/ Update(r) \/ Link(r) \/ Commit(r) \/ Abort(r)
        \/ \E p \in Posts, action \in {"delete", "restore"} : ModerateRead(r, p, action)
        \/ Moderate(r)

Overlap ==
    \E r, s \in Requests : req[r].step = "moderate" /\ req[s].step \in Submitting

Next == Step /\ crossed' = (crossed \/ Overlap')

Spec == Init /\ [][Next]_vars

-----------------------------------------------------------------------------

\* Rows, locks and requests have the shapes declared above, and a post that
\* exists has a text and a text the search knows it by.
TypeOK ==
    /\ post \in [Posts -> Post]
    /\ \A p \in Posts : /\ Exists(p) => None \notin {post[p].text, post[p].searched}
                        /\ ~Exists(p) => post[p] = Absent
    /\ lock \in [Posts -> Requests \cup {None}]
    /\ req \in [Requests -> Request]

\* Whatever tabs save one post at once, its text and its labels come from the
\* same submission: the row, written first, is held until the labels are in
\* (@transaction.atomic on PostForm.save).
WholeSubmission ==
    \A p \in Posts : Exists(p) => post[p].labels = LabelsOf[post[p].text]

\* The search finds a post by the text it shows (body_markdown_cache), as long
\* as no administrator's action has been under way together with a submission.
\* After that it may not: the action writes the cached columns of the text it
\* had read.
SearchFindsText ==
    ~crossed => \A p \in Posts : post[p].searched = post[p].text

\* The columns the board shows, the cached ones aside.
Public ==
    [p \in Posts |-> [status |-> post[p].status, text |-> post[p].text,
                      labels |-> post[p].labels, deleted |-> post[p].deleted]]

Board == INSTANCE PostBoard WITH board <- Public

\* A submission is one step that leaves deleted_at alone, a moderation one that
\* leaves the author's columns alone: no edit in flight brings a deleted post
\* back, and no moderation undoes an edit.
ImplementsBoard == Board!Spec

=============================================================================
