----------------------------- MODULE PostsProofs -----------------------------
(***************************************************************************)
(* Proofs about Posts, for any number of posts, texts, labels and requests *)
(* in flight: a submission is whole because the row is held from its first *)
(* statement to its last.                                                  *)
(***************************************************************************)
EXTENDS Posts, TLAPS

\* A row nobody has written, or a whole submission.
RowOK(p) ==
    \/ post[p] = Absent
    \/ /\ post[p].status \in Statuses
       /\ post[p].text \in Texts
       /\ post[p].searched \in Texts
       /\ post[p].labels = LabelsOf[post[p].text]

\* What a request holds at each of its steps.
RequestOK(r) ==
    /\ req[r].step \in Submitting =>
          req[r].post \in Posts /\ req[r].text \in Texts /\ req[r].status \in Statuses
    /\ req[r].step = "moderate" =>
          /\ req[r].post \in Posts /\ Exists(req[r].post)
          /\ req[r].text \in Texts /\ req[r].action \in {"delete", "restore"}
    /\ req[r].step \in {"link", "commit"} => lock[req[r].post] = r
    /\ req[r].step = "commit" =>
          (post[req[r].post].labels \ req[r].remove) \cup req[r].add = LabelsOf[req[r].text]

Shapes ==
    /\ post \in [Posts -> Post]
    /\ lock \in [Posts -> Requests \cup {None}]
    /\ req \in [Requests -> Request]

Inv ==
    /\ Shapes
    /\ \A p \in Posts : RowOK(p)
    /\ \A r \in Requests : RequestOK(r)

LEMMA InitInv == Init => Inv
<1> SUFFICES ASSUME Init PROVE Inv
    OBVIOUS
<1> USE ConstantsAssumption
<1> DEFINE Written == {[status |-> status, deleted |-> deleted, text |-> t, searched |-> t,
                        labels |-> LabelsOf[t]] :
                          status \in Statuses, deleted \in BOOLEAN, t \in Texts}
<1>a. ASSUME NEW row \in Written
      PROVE  /\ row \in Post
             /\ row.status \in Statuses /\ row.text \in Texts /\ row.searched \in Texts
             /\ row.labels = LabelsOf[row.text]
    BY DEF Post
<1>b. Absent \in Post
    BY DEF Absent, Post
<1>c. post \in [Posts -> {Absent} \cup Written]
    BY DEF Init
<1>1. Shapes
    <2> HIDE DEF Written
    <2>1. post \in [Posts -> Post]
        BY <1>a, <1>b, <1>c
    <2>2. Idle \in Request
        BY DEF Idle, Request
    <2> QED
        BY <2>1, <2>2 DEF Init, Shapes
<1>2. \A p \in Posts : RowOK(p)
    <2> HIDE DEF Written
    <2> QED
        BY <1>a, <1>c DEF RowOK
<1>3. \A r \in Requests : RequestOK(r)
    BY DEF Init, RequestOK, Idle, Submitting
<1> QED
    BY <1>1, <1>2, <1>3 DEF Inv

\* The end of a request releases what it held and nothing else.
LEMMA Released ==
    ASSUME Shapes, NEW r \in Requests, End(r)
    PROVE  /\ lock' \in [Posts -> Requests \cup {None}]
           /\ req' \in [Requests -> Request]
           /\ req'[r] = Idle
           /\ \A s \in Requests \ {r} : req'[s] = req[s]
           /\ \A p \in Posts : lock[p] # r => lock'[p] = lock[p]
<1> USE ConstantsAssumption
<1>1. Idle \in Request
    BY DEF Idle, Request
<1> QED
    BY <1>1 DEF Shapes, End

\* A request that begins, holding nothing yet.
LEMMA Begun ==
    ASSUME Shapes, NEW r \in Requests, NEW p \in Posts, NEW t \in Texts,
           NEW status \in Statuses, Submit(r, p, t, status)
    PROVE  /\ req' \in [Requests -> Request]
           /\ req'[r].step = "update" /\ req'[r].post = p
           /\ req'[r].text = t /\ req'[r].status = status
           /\ \A s \in Requests \ {r} : req'[s] = req[s]
<1> DEFINE new == [Idle EXCEPT !.step = "update", !.post = p, !.text = t, !.status = status]
<1>1. new \in Request
    BY DEF Idle, Request, Submitting
<1>2. new.step = "update" /\ new.post = p /\ new.text = t /\ new.status = status
    BY DEF Idle
<1>3. req' = [req EXCEPT ![r] = new]
    BY DEF Submit
<1> HIDE DEF new
<1> QED
    BY <1>1, <1>2, <1>3 DEF Shapes

LEMMA SubmitInv ==
    ASSUME Inv, NEW r \in Requests, NEW p \in Posts, NEW t \in Texts,
           NEW status \in Statuses, Submit(r, p, t, status)
    PROVE  Inv'
<1>1. post' = post /\ lock' = lock
    BY DEF Submit
<1>2. Shapes'
    BY <1>1, Begun DEF Inv, Shapes
<1>3. ASSUME NEW q \in Posts PROVE RowOK(q)'
    BY <1>1, <1>3 DEF Inv, RowOK
<1>4. ASSUME NEW s \in Requests PROVE RequestOK(s)'
    <2>1. CASE s = r
        BY <1>1, <2>1, Begun DEF Inv, RequestOK, Submitting
    <2>2. CASE s # r
        BY <1>1, <2>2, Begun DEF Inv, RequestOK, Submitting, Exists
    <2> QED
        BY <2>1, <2>2
<1> QED
    BY <1>2, <1>3, <1>4 DEF Inv

LEMMA UpdateInv ==
    ASSUME Inv, NEW r \in Requests, Update(r)
    PROVE  Inv'
<1> USE ConstantsAssumption
<1> DEFINE p == req[r].post
<1>1. /\ req[r].step = "update" /\ p \in Posts /\ lock[p] = None
      /\ post' = post
      /\ lock' = [lock EXCEPT ![p] = r]
      /\ req' = [req EXCEPT ![r].step = "link"]
    BY DEF Update, Inv, RequestOK, Submitting
<1>2. req' \in [Requests -> Request]
    BY <1>1 DEF Inv, Shapes, Request, Submitting
<1>3. lock' \in [Posts -> Requests \cup {None}]
    BY <1>1 DEF Inv, Shapes
<1>4. ASSUME NEW q \in Posts PROVE RowOK(q)'
    BY <1>1, <1>4 DEF Inv, RowOK
<1>5. ASSUME NEW s \in Requests PROVE RequestOK(s)'
    <2>1. CASE s = r
        <3>1. req[r] \in Request
            BY DEF Inv, Shapes
        <3>2. /\ req'[r].step = "link" /\ req'[r].post = p
              /\ req'[r].text = req[r].text /\ req'[r].status = req[r].status
            BY <1>1, <3>1 DEF Inv, Shapes, Request
        <3>3. lock'[p] = r
            BY <1>1 DEF Inv, Shapes
        <3> QED
            BY <2>1, <1>1, <3>2, <3>3 DEF Inv, RequestOK, Submitting
    <2>2. CASE s # r
        <3>1. req'[s] = req[s]
            BY <1>1, <2>2 DEF Inv, Shapes
        <3>2. \A q \in Posts : lock[q] = s => lock'[q] = s
            BY <1>1 DEF Inv, Shapes
        <3>3. RequestOK(s)
            BY DEF Inv
        <3> QED
            BY <1>1, <3>1, <3>2, <3>3 DEF RequestOK, Submitting, Exists
    <2> QED
        BY <2>1, <2>2
<1> QED
    BY <1>1, <1>2, <1>3, <1>4, <1>5 DEF Inv, Shapes

LEMMA LinkInv ==
    ASSUME Inv, NEW r \in Requests, Link(r)
    PROVE  Inv'
<1> DEFINE p == req[r].post
           has == post[p].labels
           wanted == LabelsOf[req[r].text]
<1>1. /\ req[r].step = "link" /\ p \in Posts /\ req[r].text \in Texts
      /\ post' = post /\ lock' = lock
      /\ req' = [req EXCEPT ![r].step = "commit", ![r].add = wanted \ has,
                            ![r].remove = has \ wanted]
    BY DEF Link, Inv, RequestOK, Submitting
<1>2. req[r] \in Request /\ has \in SUBSET Labels /\ wanted \in SUBSET Labels
    BY <1>1, ConstantsAssumption DEF Inv, Shapes, Post
<1> HIDE DEF has, wanted
<1>3. /\ req' \in [Requests -> Request]
      /\ req'[r].step = "commit" /\ req'[r].post = p
      /\ req'[r].text = req[r].text /\ req'[r].status = req[r].status
      /\ req'[r].add = wanted \ has /\ req'[r].remove = has \ wanted
      /\ \A s \in Requests \ {r} : req'[s] = req[s]
    BY <1>1, <1>2 DEF Inv, Shapes, Request, Submitting
<1>4. ASSUME NEW q \in Posts PROVE RowOK(q)'
    BY <1>1, <1>4 DEF Inv, RowOK
<1>5. ASSUME NEW s \in Requests PROVE RequestOK(s)'
    <2>1. CASE s = r
        <3>1. (has \ (has \ wanted)) \cup (wanted \ has) = wanted
            OBVIOUS
        <3>2. (post[p].labels \ req'[r].remove) \cup req'[r].add = LabelsOf[req[r].text]
            BY <1>3, <3>1 DEF has, wanted
        <3> QED
            BY <2>1, <1>1, <1>3, <3>2 DEF Inv, RequestOK, Submitting
    <2>2. CASE s # r
        BY <1>1, <1>3, <2>2 DEF Inv, RequestOK, Submitting, Exists
    <2> QED
        BY <2>1, <2>2
<1> QED
    BY <1>1, <1>3, <1>4, <1>5 DEF Inv, Shapes

\* What a commit leaves in the row.
LEMMA Committed ==
    ASSUME Inv, NEW r \in Requests, Commit(r)
    PROVE  /\ req[r].post \in Posts /\ req[r].step = "commit"
           /\ req[r].text \in Texts /\ req[r].status \in Statuses
           /\ post' = [post EXCEPT ![req[r].post] =
                 [status |-> req[r].status, deleted |-> post[req[r].post].deleted,
                  text |-> req[r].text, searched |-> req[r].text,
                  labels |-> LabelsOf[req[r].text]]]
<1> DEFINE p == req[r].post
           t == req[r].text
           status == req[r].status
           labels == (post[p].labels \ req[r].remove) \cup req[r].add
<1>1. req[r].step = "commit" /\ p \in Posts /\ t \in Texts /\ status \in Statuses
    BY DEF Commit, Inv, RequestOK, Submitting
<1>2. labels = LabelsOf[t]
    BY <1>1 DEF Inv, RequestOK
<1>3. post[p] \in Post
    BY <1>1 DEF Inv, Shapes
<1>4. post' = [post EXCEPT ![p].status = status, ![p].text = t, ![p].searched = t,
                           ![p].labels = labels]
    BY DEF Commit
<1> HIDE DEF labels
<1>5. post'[p] = [status |-> status, deleted |-> post[p].deleted, text |-> t,
                  searched |-> t, labels |-> labels]
    <2> HIDE DEF t, status, p
    <2>1. labels \in SUBSET Labels /\ post'[p] \in Post
        BY <1>1, <1>2, <1>3, <1>4, ConstantsAssumption DEF Inv, Shapes, Post
    <2>2. /\ post'[p].status = status /\ post'[p].deleted = post[p].deleted
          /\ post'[p].text = t /\ post'[p].searched = t /\ post'[p].labels = labels
        BY <1>1, <1>3, <1>4 DEF Inv, Shapes, Post
    <2>3. ASSUME NEW row \in Post
          PROVE  row = [status |-> row.status, deleted |-> row.deleted, text |-> row.text,
                        searched |-> row.searched, labels |-> row.labels]
        BY DEF Post
    <2> QED
        BY <2>1, <2>2, <2>3
<1>6. post' = [post EXCEPT ![p] =
          [status |-> status, deleted |-> post[p].deleted, text |-> t, searched |-> t,
           labels |-> labels]]
    <2>1. /\ \A q \in Posts \ {p} : post'[q] = post[q]
          /\ post' = [q \in Posts |-> post'[q]]
        BY <1>1, <1>4 DEF Inv, Shapes
    <2> QED
        BY <1>1, <1>5, <2>1 DEF Inv, Shapes
<1> QED
    BY <1>1, <1>2, <1>6

LEMMA CommitInv ==
    ASSUME Inv, NEW r \in Requests, Commit(r)
    PROVE  Inv'
<1> USE ConstantsAssumption
<1> DEFINE p == req[r].post
           new == [status |-> req[r].status, deleted |-> post[p].deleted,
                   text |-> req[r].text, searched |-> req[r].text,
                   labels |-> LabelsOf[req[r].text]]
<1>1. /\ req[r].step = "commit" /\ p \in Posts
      /\ post' = [post EXCEPT ![p] = new]
      /\ lock[p] = r
    BY Committed DEF Inv, RequestOK
<1>2. /\ new \in Post /\ new.status \in Statuses
      /\ new.text \in Texts /\ new.searched \in Texts /\ new.labels = LabelsOf[new.text]
    <2>1. post[p] \in Post
        BY <1>1 DEF Inv, Shapes
    <2> QED
        BY <2>1, Committed DEF Post
<1>3. End(r)
    BY DEF Commit
<1>4. /\ lock' \in [Posts -> Requests \cup {None}]
      /\ req' \in [Requests -> Request]
      /\ req'[r] = Idle
      /\ \A s \in Requests \ {r} : req'[s] = req[s]
      /\ \A q \in Posts : lock[q] # r => lock'[q] = lock[q]
    BY <1>3, Released DEF Inv
<1> HIDE DEF new
<1>5. post' \in [Posts -> Post]
    BY <1>1, <1>2 DEF Inv, Shapes
<1>6. ASSUME NEW q \in Posts PROVE RowOK(q)'
    BY <1>1, <1>2, <1>6 DEF Inv, Shapes, RowOK
<1>7. ASSUME NEW s \in Requests PROVE RequestOK(s)'
    <2>1. CASE s = r
        BY <2>1, <1>4 DEF RequestOK, Idle, Submitting
    <2>2. CASE s # r
        <3>1. req'[s] = req[s]
            BY <1>4, <2>2
        <3>2. \A q \in Posts : lock[q] = s => lock'[q] = s /\ post'[q] = post[q]
            BY <1>1, <1>4, <2>2 DEF Inv, Shapes
        <3>3. \A q \in Posts : Exists(q) => Exists(q)'
            BY <1>1, <1>2 DEF Inv, Shapes, Exists, Statuses
        <3> QED
            BY <3>1, <3>2, <3>3 DEF Inv, RequestOK, Submitting
    <2> QED
        BY <2>1, <2>2
<1> QED
    BY <1>4, <1>5, <1>6, <1>7 DEF Inv, Shapes

LEMMA AbortInv ==
    ASSUME Inv, NEW r \in Requests, Abort(r)
    PROVE  Inv'
<1>1. post' = post /\ End(r)
    BY DEF Abort
<1>2. /\ lock' \in [Posts -> Requests \cup {None}]
      /\ req' \in [Requests -> Request]
      /\ req'[r] = Idle
      /\ \A s \in Requests \ {r} : req'[s] = req[s]
      /\ \A q \in Posts : lock[q] # r => lock'[q] = lock[q]
    BY <1>1, Released DEF Inv
<1>3. ASSUME NEW q \in Posts PROVE RowOK(q)'
    BY <1>1, <1>3 DEF Inv, RowOK
<1>4. ASSUME NEW s \in Requests PROVE RequestOK(s)'
    <2>1. CASE s = r
        BY <2>1, <1>2 DEF RequestOK, Idle, Submitting
    <2>2. CASE s # r
        BY <1>1, <1>2, <2>2 DEF Inv, RequestOK, Submitting, Exists
    <2> QED
        BY <2>1, <2>2
<1> QED
    BY <1>1, <1>2, <1>3, <1>4 DEF Inv, Shapes

LEMMA ModerateReadInv ==
    ASSUME Inv, NEW r \in Requests, NEW p \in Posts, NEW action \in {"delete", "restore"},
           ModerateRead(r, p, action)
    PROVE  Inv'
<1> DEFINE new == [Idle EXCEPT !.step = "moderate", !.post = p, !.text = post[p].text,
                               !.action = action]
<1>1. Exists(p) /\ post' = post /\ lock' = lock /\ req' = [req EXCEPT ![r] = new]
    BY DEF ModerateRead
<1>2. post[p].text \in Texts
    BY <1>1 DEF Inv, RowOK, Exists, Absent
<1>3. /\ new \in Request
      /\ new.step = "moderate" /\ new.post = p /\ new.text = post[p].text
      /\ new.action = action
    BY <1>2 DEF Idle, Request
<1> HIDE DEF new
<1>4. /\ req' \in [Requests -> Request]
      /\ req'[r] = new
      /\ \A s \in Requests \ {r} : req'[s] = req[s]
    BY <1>1, <1>3 DEF Inv, Shapes
<1>5. ASSUME NEW q \in Posts PROVE RowOK(q)'
    BY <1>1, <1>5 DEF Inv, RowOK
<1>6. ASSUME NEW s \in Requests PROVE RequestOK(s)'
    <2>1. CASE s = r
        BY <2>1, <1>1, <1>2, <1>3, <1>4 DEF RequestOK, Submitting, Exists
    <2>2. CASE s # r
        BY <2>2, <1>1, <1>4 DEF Inv, RequestOK, Submitting, Exists
    <2> QED
        BY <2>1, <2>2
<1> QED
    BY <1>1, <1>4, <1>5, <1>6 DEF Inv, Shapes

\* What a moderation leaves of the row: everything but deleted and searched.
LEMMA Moderated ==
    ASSUME Inv, NEW r \in Requests, Moderate(r)
    PROVE  /\ req[r].post \in Posts /\ Exists(req[r].post) /\ req[r].text \in Texts
           /\ post' \in [Posts -> Post]
           /\ \A q \in Posts \ {req[r].post} : post'[q] = post[q]
           /\ \A q \in Posts : /\ post'[q].status = post[q].status
                             /\ post'[q].text = post[q].text
                             /\ post'[q].labels = post[q].labels
           /\ post'[req[r].post].searched = req[r].text
           /\ post'[req[r].post].deleted = (req[r].action = "delete")
<1> DEFINE p == req[r].post
<1>1. /\ p \in Posts /\ Exists(p) /\ req[r].text \in Texts
      /\ post' = [post EXCEPT ![p].deleted = (req[r].action = "delete"),
                              ![p].searched = req[r].text]
    BY DEF Moderate, Inv, RequestOK
<1>2. (req[r].action = "delete") \in BOOLEAN
    OBVIOUS
<1>3. post \in [Posts -> Post] /\ post[p] \in Post
    BY <1>1 DEF Inv, Shapes
<1> HIDE DEF p
<1>4. post' \in [Posts -> Post]
    BY <1>1, <1>2, <1>3 DEF Post
<1> QED
    BY <1>1, <1>3, <1>4 DEF Post, p

LEMMA ModerateInv ==
    ASSUME Inv, NEW r \in Requests, Moderate(r)
    PROVE  Inv'
<1> DEFINE p == req[r].post
<1>1. End(r)
    BY DEF Moderate
<1>2. /\ lock' \in [Posts -> Requests \cup {None}]
      /\ req' \in [Requests -> Request]
      /\ req'[r] = Idle
      /\ \A s \in Requests \ {r} : req'[s] = req[s]
      /\ \A q \in Posts : lock[q] # r => lock'[q] = lock[q]
    BY <1>1, Released DEF Inv
<1>3. ASSUME NEW q \in Posts PROVE RowOK(q)'
    <2>1. CASE q = p
        <3>1. /\ post[p].status \in Statuses /\ post[p].text \in Texts
              /\ post[p].labels = LabelsOf[post[p].text]
            <4>1. p \in Posts /\ Exists(p)
                BY Moderated
            <4> HIDE DEF p
            <4> QED
                BY <4>1 DEF Inv, RowOK, Exists, Absent
        <3>2. /\ post'[p].status = post[p].status /\ post'[p].text = post[p].text
              /\ post'[p].labels = post[p].labels /\ post'[p].searched \in Texts
            BY Moderated
        <3> QED
            BY <2>1, <3>1, <3>2 DEF RowOK
    <2>2. CASE q # p
        BY <2>2, Moderated DEF Inv, RowOK
    <2> QED
        BY <2>1, <2>2
<1>4. ASSUME NEW s \in Requests PROVE RequestOK(s)'
    <2>1. CASE s = r
        BY <2>1, <1>2 DEF RequestOK, Idle, Submitting
    <2>2. CASE s # r
        <3>1. req'[s] = req[s] /\ RequestOK(s)
            BY <1>2, <2>2 DEF Inv
        <3>2. \A q \in Posts : lock[q] = s => lock'[q] = s
            BY <1>2, <2>2
        <3>3. \A q \in Posts : post'[q].labels = post[q].labels /\ (Exists(q) => Exists(q)')
            BY Moderated DEF Exists
        <3> QED
            BY <3>1, <3>2, <3>3 DEF RequestOK, Submitting
    <2> QED
        BY <2>1, <2>2
<1> QED
    BY <1>2, <1>3, <1>4, Moderated DEF Inv, Shapes

LEMMA StepInv == Inv /\ [Next]_vars => Inv'
<1> SUFFICES ASSUME Inv, [Next]_vars PROVE Inv'
    OBVIOUS
<1>1. CASE Step
    <2>1. ASSUME NEW r \in Requests, NEW p \in Posts, NEW t \in Texts,
                 NEW status \in Statuses, Compose(r, p, t, status) \/ Edit(r, p, t, status)
          PROVE  Inv'
        <3>1. \E q \in Posts : Submit(r, q, t, status)
            BY <2>1 DEF Compose, Edit, FreshIds
        <3> QED
            BY <3>1, SubmitInv
    <2>2. ASSUME NEW r \in Requests, Update(r) PROVE Inv'
        BY <2>2, UpdateInv
    <2>3. ASSUME NEW r \in Requests, Link(r) PROVE Inv'
        BY <2>3, LinkInv
    <2>4. ASSUME NEW r \in Requests, Commit(r) PROVE Inv'
        BY <2>4, CommitInv
    <2>5. ASSUME NEW r \in Requests, Abort(r) PROVE Inv'
        BY <2>5, AbortInv
    <2>6. ASSUME NEW r \in Requests, NEW p \in Posts, NEW action \in {"delete", "restore"},
                 ModerateRead(r, p, action)
          PROVE  Inv'
        BY <2>6, ModerateReadInv
    <2>7. ASSUME NEW r \in Requests, Moderate(r) PROVE Inv'
        BY <2>7, ModerateInv
    <2> QED
        BY <1>1, <2>1, <2>2, <2>3, <2>4, <2>5, <2>6, <2>7 DEF Step
<1>2. CASE UNCHANGED vars
    <2>1. post' = post /\ lock' = lock /\ req' = req
        BY <1>2 DEF vars
    <2>2. ASSUME NEW p \in Posts PROVE RowOK(p)'
        BY <2>1, <2>2 DEF Inv, RowOK
    <2>3. ASSUME NEW r \in Requests PROVE RequestOK(r)'
        BY <2>1, <2>3 DEF Inv, RequestOK, Exists
    <2> QED
        BY <2>1, <2>2, <2>3 DEF Inv, Shapes
<1>3. Next => Step
    BY DEF Next
<1> QED
    BY <1>1, <1>2, <1>3

\* Whatever requests overlap, the invariant holds.
THEOREM Invariance == Spec => []Inv
<1> QED
    BY InitInv, StepInv, PTL DEF Spec

\* Rows, locks and requests keep their shapes, and a post that exists has a text
\* and one the search knows it by (Post, sync_cached_content_fields).
THEOREM TypeCorrect == Spec => []TypeOK
<1>1. Inv => TypeOK
    <2> SUFFICES ASSUME Inv PROVE TypeOK
        OBVIOUS
    <2>1. ASSUME NEW p \in Posts
          PROVE  /\ Exists(p) => None \notin {post[p].text, post[p].searched}
                 /\ ~Exists(p) => post[p] = Absent
        <3>1. CASE post[p] = Absent
            BY <3>1 DEF Exists, Absent
        <3>2. CASE post[p] # Absent
            BY <3>2, ConstantsAssumption DEF Inv, RowOK, Exists, Statuses
        <3> QED
            BY <3>1, <3>2
    <2> QED
        BY <2>1 DEF Inv, Shapes, TypeOK
<1> QED
    BY <1>1, Invariance, PTL

\* Text and labels of a post come from one submission, however many tabs save it
\* at once (@transaction.atomic on PostForm.save).
THEOREM SubmissionsAreWhole == Spec => []WholeSubmission
<1>1. Inv => WholeSubmission
    BY DEF Inv, WholeSubmission, RowOK, Exists, Absent
<1> QED
    BY <1>1, Invariance, PTL

-----------------------------------------------------------------------------

\* Until a moderation has overlapped with a submission, what a moderation will
\* write to the cached columns is made from the text the row has.
InStep ==
    /\ Overlap => crossed
    /\ ~crossed => /\ \A p \in Posts : post[p].searched = post[p].text
                   /\ \A r \in Requests :
                         req[r].step = "moderate" => req[r].text = post[req[r].post].text

LEMMA InitInStep == Init => InStep
<1> SUFFICES ASSUME Init PROVE InStep
    OBVIOUS
<1>1. ~Overlap
    BY DEF Init, Overlap, Idle
<1>2. ASSUME NEW p \in Posts PROVE post[p].searched = post[p].text
    <2>1. CASE post[p] = Absent
        BY <2>1 DEF Absent
    <2>2. CASE post[p] # Absent
        <3>1. \E status \in Statuses, deleted \in BOOLEAN, t \in Texts :
                 post[p] = [status |-> status, deleted |-> deleted, text |-> t,
                            searched |-> t, labels |-> LabelsOf[t]]
            BY <2>2 DEF Init
        <3> QED
            BY <3>1
    <2> QED
        BY <2>1, <2>2
<1>3. \A r \in Requests : req[r].step # "moderate"
    BY DEF Init, Idle
<1> QED
    BY <1>1, <1>2, <1>3 DEF InStep

LEMMA StepInStep == Inv /\ InStep /\ [Next]_vars => InStep'
<1> SUFFICES ASSUME Inv, InStep, [Next]_vars PROVE InStep'
    OBVIOUS
<1>1. CASE UNCHANGED vars
    BY <1>1 DEF vars, InStep, Overlap
<1>2. CASE Next
    <2>1. Step /\ crossed' = (crossed \/ Overlap')
        BY <1>2 DEF Next
    <2>2. Overlap' => crossed'
        BY <2>1
    <2> SUFFICES ASSUME ~crossed', ~crossed
                 PROVE  /\ \A p \in Posts : post'[p].searched = post'[p].text
                        /\ \A r \in Requests : req'[r].step = "moderate" =>
                              req'[r].text = post'[req'[r].post].text
        BY <2>1, <2>2 DEF InStep
    <2>3. /\ \A p \in Posts : post[p].searched = post[p].text
          /\ \A r \in Requests :
                req[r].step = "moderate" => req[r].text = post[req[r].post].text
          /\ ~Overlap
        BY DEF InStep
    <2>4. ASSUME NEW r \in Requests, NEW p \in Posts, NEW t \in Texts,
                 NEW status \in Statuses, Submit(r, p, t, status)
          PROVE  /\ post' = post /\ req'[r].step = "update"
                 /\ \A s \in Requests \ {r} : req'[s] = req[s]
        BY <2>4, Begun DEF Submit, Inv
    <2>5. ASSUME NEW r \in Requests, Update(r) \/ Link(r)
          PROVE  /\ post' = post /\ req'[r].step # "moderate"
                 /\ \A s \in Requests \ {r} : req'[s] = req[s]
        BY <2>5 DEF Update, Link, Inv, Shapes, Request
    <2>6. ASSUME NEW r \in Requests, End(r)
          PROVE  /\ req'[r].step # "moderate"
                 /\ \A s \in Requests \ {r} : req'[s] = req[s]
        BY <2>6, Released DEF Inv, Idle
    <2>7. ASSUME NEW r \in Requests, Commit(r)
          PROVE  /\ \A p \in Posts : post'[p].searched = post'[p].text
                 /\ \A s \in Requests : req[s].step # "moderate"
        <3> DEFINE new == [status |-> req[r].status, deleted |-> post[req[r].post].deleted,
                           text |-> req[r].text, searched |-> req[r].text,
                           labels |-> LabelsOf[req[r].text]]
        <3>a. post' = [post EXCEPT ![req[r].post] = new]
            BY <2>7, Committed
        <3>b. new.searched = new.text
            OBVIOUS
        <3>1. \A p \in Posts : post'[p].searched = post'[p].text
            <4> HIDE DEF new
            <4> QED
                BY <2>3, <3>a, <3>b DEF Inv, Shapes
        <3>2. \A s \in Requests : req[s].step # "moderate"
            BY <2>3, <2>7, Committed DEF Overlap, Submitting
        <3> QED
            BY <3>1, <3>2
    <2>8. ASSUME NEW r \in Requests, NEW p \in Posts, NEW action \in {"delete", "restore"},
                 ModerateRead(r, p, action)
          PROVE  /\ post' = post /\ req'[r].post = p /\ req'[r].text = post[p].text
                 /\ \A s \in Requests \ {r} : req'[s] = req[s]
        BY <2>8 DEF ModerateRead, Inv, Shapes, Idle
    <2>9. ASSUME NEW r \in Requests, Moderate(r)
          PROVE  /\ \A p \in Posts : post'[p].searched = post'[p].text
                 /\ \A p \in Posts : post'[p].text = post[p].text
        <3>1. req[r].step = "moderate"
            BY <2>9 DEF Moderate
        <3> QED
            BY <2>3, <2>9, <3>1, Moderated
    <2> QED
        <3>1. ASSUME NEW r \in Requests, NEW p \in Posts, NEW t \in Texts,
                     NEW status \in Statuses, Compose(r, p, t, status) \/ Edit(r, p, t, status)
              PROVE  \E q \in Posts : Submit(r, q, t, status)
            BY <3>1 DEF Compose, Edit, FreshIds
        <3>2. CASE \E r \in Requests, p \in Posts, t \in Texts, status \in Statuses :
                      Submit(r, p, t, status)
            BY <2>3, <2>4, <3>2
        <3>3. CASE \E r \in Requests : Update(r) \/ Link(r)
            BY <2>3, <2>5, <3>3
        <3>4. CASE \E r \in Requests : Commit(r)
            BY <2>6, <2>7, <3>4 DEF Commit
        <3>5. CASE \E r \in Requests : Abort(r)
            BY <2>3, <2>6, <3>5 DEF Abort
        <3>6. CASE \E r \in Requests, p \in Posts, action \in {"delete", "restore"} :
                      ModerateRead(r, p, action)
            BY <2>3, <2>8, <3>6
        <3>7. CASE \E r \in Requests : Moderate(r)
            <4> PICK r \in Requests : Moderate(r)
                BY <3>7
            <4>1. End(r)
                BY DEF Moderate
            <4>2. ASSUME NEW s \in Requests, req'[s].step = "moderate"
                  PROVE  req'[s].text = post'[req'[s].post].text
                <5>1. s # r /\ req'[s] = req[s] /\ req[s].post \in Posts
                    BY <2>6, <4>1, <4>2 DEF Inv, RequestOK
                <5> QED
                    BY <2>3, <2>9, <4>2, <5>1
            <4> QED
                BY <2>9, <4>2
        <3> QED
            BY <2>1, <3>1, <3>2, <3>3, <3>4, <3>5, <3>6, <3>7 DEF Step
<1> QED
    BY <1>1, <1>2

\* The search knows every post by the text it shows, until an administrator's
\* action and a submission have been under way together (Post.save adds the
\* cached columns to the columns an action saves).
THEOREM SearchKnowsTheText == Spec => []SearchFindsText
<1>1. Inv /\ InStep => SearchFindsText
    BY DEF InStep, SearchFindsText
<1> QED
    BY <1>1, InitInStep, StepInStep, InitInv, Invariance, PTL DEF Spec

-----------------------------------------------------------------------------

LEMMA InitBoard == Init => Board!Init
<1> SUFFICES ASSUME Init, NEW p \in Posts PROVE Board!Whole(p)
    BY DEF Board!Init
<1>1. CASE post[p] = Absent
    <2>1. Public[p] = [status |-> "absent", text |-> None, labels |-> {}, deleted |-> FALSE]
        <3>1. Public[p] = [status |-> post[p].status, text |-> post[p].text,
                           labels |-> post[p].labels, deleted |-> post[p].deleted]
            BY DEF Public
        <3>2. /\ post[p].status = "absent" /\ post[p].text = None
              /\ post[p].labels = {} /\ post[p].deleted = FALSE
            BY <1>1 DEF Absent
        <3> QED
            BY <3>1, <3>2
    <2> QED
        BY <2>1 DEF Board!Whole
<1>2. CASE post[p] # Absent
    <2>1. PICK status \in Statuses, deleted \in BOOLEAN, t \in Texts :
             post[p] = [status |-> status, deleted |-> deleted, text |-> t,
                        searched |-> t, labels |-> LabelsOf[t]]
        BY <1>2 DEF Init
    <2>2. Public[p] = [status |-> status, text |-> t, labels |-> LabelsOf[t],
                       deleted |-> deleted]
        BY <2>1 DEF Public
    <2> QED
        BY <2>2 DEF Board!Whole, Board!Statuses, Statuses
<1> QED
    BY <1>1, <1>2

\* A step that leaves the rows alone is one the board does not show.
LEMMA Hidden == post' = post => Public' = Public
    BY DEF Public

LEMMA CommitSubmits ==
    ASSUME Inv, NEW r \in Requests, Commit(r)
    PROVE  Board!Submit(req[r].post, req[r].text, req[r].status)
<1> DEFINE p == req[r].post
           new == [status |-> req[r].status, deleted |-> post[p].deleted,
                   text |-> req[r].text, searched |-> req[r].text,
                   labels |-> LabelsOf[req[r].text]]
           seen == [status |-> req[r].status, text |-> req[r].text,
                    labels |-> LabelsOf[req[r].text], deleted |-> Public[p].deleted]
<1>1. p \in Posts /\ post \in [Posts -> Post] /\ post' = [post EXCEPT ![p] = new]
    BY Committed DEF Inv, Shapes
<1>2. Public[p].deleted = post[p].deleted
    BY <1>1 DEF Public
<1>3. \A q \in Posts : Public'[q] = IF q = p THEN seen ELSE Public[q]
    <2>1. ASSUME NEW q \in Posts, q # p PROVE Public'[q] = Public[q]
        BY <1>1, <2>1 DEF Public
    <2>2. post'[p] = new
        BY <1>1
    <2>3. Public'[p] = [status |-> post'[p].status, text |-> post'[p].text,
                        labels |-> post'[p].labels, deleted |-> post'[p].deleted]
        BY <1>1 DEF Public
    <2>4. Public'[p] = seen
        BY <1>2, <2>2, <2>3
    <2> QED
        BY <2>1, <2>4
<1>4. Public' = [q \in Posts |-> Public'[q]] /\ Public = [q \in Posts |-> Public[q]]
    BY DEF Public
<1> HIDE DEF seen
<1>5. Public' = [Public EXCEPT ![p] = seen]
    BY <1>3, <1>4
<1> QED
    BY <1>5 DEF Board!Submit, seen

LEMMA ModerateShows ==
    ASSUME Inv, NEW r \in Requests, Moderate(r)
    PROVE  Board!Remove(req[r].post) \/ Board!Restore(req[r].post)
<1> DEFINE p == req[r].post
           gone == req[r].action = "delete"
<1>1. /\ p \in Posts /\ Exists(p) /\ post \in [Posts -> Post] /\ post' \in [Posts -> Post]
      /\ \A q \in Posts \ {p} : post'[q] = post[q]
      /\ post'[p].status = post[p].status /\ post'[p].text = post[p].text
      /\ post'[p].labels = post[p].labels /\ post'[p].deleted = gone
    BY Moderated DEF Inv, Shapes
<1> HIDE DEF p, gone
<1>2. \A q \in Posts \ {p} : Public'[q] = Public[q]
    BY <1>1 DEF Public
<1>3. Public'[p] = [Public[p] EXCEPT !.deleted = gone]
    <2>1. Public[p] = [status |-> post[p].status, text |-> post[p].text,
                       labels |-> post[p].labels, deleted |-> post[p].deleted]
        BY <1>1 DEF Public
    <2>2. Public'[p] = [status |-> post[p].status, text |-> post[p].text,
                        labels |-> post[p].labels, deleted |-> gone]
        BY <1>1 DEF Public
    <2> QED
        BY <2>1, <2>2
<1>4. Public' = [q \in Posts |-> Public'[q]] /\ Public = [q \in Posts |-> Public[q]]
    BY DEF Public
<1>5. Public' = [Public EXCEPT ![p].deleted = gone]
    BY <1>1, <1>2, <1>3, <1>4
<1>6. Public[p].status # "absent"
    BY <1>1 DEF Public, Exists
<1>7. gone = TRUE \/ gone = FALSE
    BY DEF gone
<1> QED
    BY <1>5, <1>6, <1>7 DEF Board!Remove, Board!Restore, p

\* Statement by statement, submissions and moderations implement PostBoard: a
\* commit is a submission of the author, the UPDATE of an administrator a removal
\* or a restoration, and everything else does not show.
THEOREM PostsImplementBoard == Spec => ImplementsBoard
<1>1. Inv /\ [Next]_vars => [Board!Next]_Public
    <2> SUFFICES ASSUME Inv, [Next]_vars PROVE [Board!Next]_Public
        OBVIOUS
    <2>1. ASSUME NEW r \in Requests, Commit(r) PROVE Board!Next
        <3>1. req[r].post \in Posts /\ req[r].text \in Texts /\ req[r].status \in Board!Statuses
            BY <2>1, Committed DEF Statuses, Board!Statuses
        <3> QED
            BY <2>1, <3>1, CommitSubmits DEF Board!Next
    <2>2. ASSUME NEW r \in Requests, Moderate(r) PROVE Board!Next
        BY <2>2, Moderated, ModerateShows DEF Board!Next
    <2>3. CASE UNCHANGED vars
        BY <2>3, Hidden DEF vars
    <2>4. CASE Step
        BY <2>1, <2>2, <2>4, Hidden
           DEF Step, Compose, Edit, Submit, Update, Link, Abort, ModerateRead
    <2>5. Next => Step
        BY DEF Next
    <2> QED
        BY <2>3, <2>4, <2>5
<1> QED
    BY <1>1, InitBoard, Invariance, PTL DEF Spec, ImplementsBoard, Board!Spec

=============================================================================
