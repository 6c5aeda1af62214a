--------------------------- MODULE CommentThreads ---------------------------
(***************************************************************************)
(* The comments of posts: a reply names its parent, a page shows the whole *)
(* tree at once when it is opened for a reply, an edit or a notification,  *)
(* and the top level alone otherwise, whose replies are loaded on demand.  *)
(* Who is told of a comment is decided when it is made.                    *)
(*                                                                         *)
(* Comments are numbered as they are created, which is the order in which  *)
(* they are shown.  Nothing in the program deletes a comment, but every    *)
(* query leaves out those whose deleted_at is set: it is set by another    *)
(* program, or by hand.                                                    *)
(***************************************************************************)
EXTENDS Naturals, Sequences

CONSTANTS Posts, Users,
          Author,      \* Author[p]: of the post p
          Requests,
          MaxComments, \* bound
          None

\* What is asked of the constants.
ThreadsAssumption ==
    /\ Author \in [Posts -> Users]
    /\ MaxComments \in Nat
    /\ None \notin Users \cup Posts \cup Nat

VARIABLES comment,  \* the rows of comments
          request,
          told      \* the notifications sent

vars == <<comment, request, told>>

Ids == 1..Len(comment)
Comment == [post : Posts, parent : 1..MaxComments \cup {None}, author : Users, deleted : BOOLEAN]
Types == {"COMMENT_REPLIED", "POST_COMMENTED"}

\* What a request holds: the row it found or will insert, and whom it will tell.
Request == [step : {"idle", "save", "notify", "edit"}, row : Comment \cup {None},
            id : 1..MaxComments \cup {None}, recipients : SUBSET (Users \X Types)]
Idle == [step |-> "idle", row |-> None, id |-> None, recipients |-> {}]

Live(c) == ~comment[c].deleted
In(p) == {c \in Ids : comment[c].post = p /\ Live(c)}

End(r) == request' = [request EXCEPT ![r] = Idle]

Init ==
    /\ comment = <<>>
    /\ request = [r \in Requests |-> Idle]
    /\ told = {}

-----------------------------------------------------------------------------
(* community_comment_create.  Which posts may be seen is the business of Posts. *)

\* Mutant: a parent of another post is found as well.
AnyParent(p) == {None} \cup {c \in Ids : Live(c)}

Parents(p) == {None} \cup In(p)

CreateRead(r) ==
    \E p \in Posts, u \in Users : \E parent \in Parents(p) :
        /\ request[r].step = "idle"
        /\ request' = [request EXCEPT ![r] = [Idle EXCEPT
               !.step = "save",
               !.row = [post |-> p, parent |-> parent, author |-> u, deleted |-> FALSE]]]
        /\ UNCHANGED <<comment, told>>

\* Mutant: the author of the post is told even of a reply to itself.
RecipientsTwice(row) ==
    LET replied == IF row.parent = None THEN {} ELSE {comment[row.parent].author}
    IN (replied \ {row.author}) \X {"COMMENT_REPLIED"}
       \cup ({Author[row.post]} \ {row.author}) \X {"POST_COMMENTED"}

\* The author of the parent, and that of the post unless it is the same; never oneself.
Recipients(row) ==
    LET replied == IF row.parent = None THEN {} ELSE {comment[row.parent].author}
    IN (replied \ {row.author}) \X {"COMMENT_REPLIED"}
       \cup ({Author[row.post]} \ (replied \cup {row.author})) \X {"POST_COMMENTED"}

CreateSave(r) ==
    /\ request[r].step = "save" /\ Len(comment) < MaxComments
    /\ comment' = Append(comment, request[r].row)
    /\ request' = [request EXCEPT ![r].step = "notify", ![r].id = Len(comment'),
                                  ![r].recipients = Recipients(request[r].row)]
    /\ UNCHANGED told

\* Nothing equal was sent before, since the comment is new.
Notify(r) ==
    /\ request[r].step = "notify"
    /\ told' = told \cup {[id |-> request[r].id, user |-> one[1], type |-> one[2]] :
                               one \in request[r].recipients}
    /\ End(r)
    /\ UNCHANGED comment

-----------------------------------------------------------------------------
(* community_comment_edit: by the author; saves the text and the time, which are left *)
(* out, whatever has become of the rest of the row.                                   *)

EditRead(r) ==
    \E c \in Ids :
        /\ Live(c)
        /\ request[r].step = "idle"
        /\ request' = [request EXCEPT ![r] = [Idle EXCEPT !.step = "edit", !.id = c]]
        /\ UNCHANGED <<comment, told>>

EditSave(r) ==
    /\ request[r].step = "edit"
    /\ End(r)
    /\ UNCHANGED <<comment, told>>

\* Another program marks a comment as deleted.
SoftDelete ==
    /\ \E c \in Ids : Live(c) /\ comment' = [comment EXCEPT ![c].deleted = TRUE]
    /\ UNCHANGED <<request, told>>

Next ==
    \/ \E r \in Requests :
           CreateRead(r) \/ CreateSave(r) \/ Notify(r) \/ EditRead(r) \/ EditSave(r)
    \/ SoftDelete

Spec == Init /\ [][Next]_vars

-----------------------------------------------------------------------------
(* The page of a post. *)

TopLevel(p) == {c \in In(p) : comment[c].parent = None}

\* In the tree of the post, and as loaded on demand, whatever post they are of.
InTree(p) == [c \in Ids |-> {k \in In(p) : comment[k].parent = c}]
Children == [c \in Ids |-> {k \in Ids : comment[k].parent = c /\ Live(k)}]

\* The comments somebody sees who opens threads n deep, and who opens every thread.
Levels(p, replies) ==
    LET level[n \in 0..MaxComments] ==
            IF n = 0 THEN TopLevel(p)
            ELSE LET above == level[n - 1] IN above \cup UNION {replies[c] : c \in above}
    IN level
Opened(p, replies) == Levels(p, replies)[MaxComments]

\* From a comment upwards, as far as parents are among the comments of the page:
\* the last one may have been deleted.  It is None when the walk has ended.
Walk(p, c) ==
    LET up[n \in 0..MaxComments + 1] ==
            IF n = 0 THEN c
            ELSE LET below == up[n - 1]
                 IN IF below \in In(p) THEN comment[below].parent ELSE None
    IN up

Expanded(p, c) == LET walk == Walk(p, c) IN {walk[n] : n \in 0..MaxComments} \ {None}

-----------------------------------------------------------------------------
(* Properties. *)

TypeOK ==
    /\ comment \in Seq(Comment) /\ Len(comment) <= MaxComments
    /\ request \in [Requests -> Request]
    /\ told \subseteq [id : Ids, user : Users, type : Types]

\* Opening every thread by hand shows the same comments as the whole tree, although
\* the query for the replies of a comment asks for no post (_get_child_comments).
SameThreads ==
    \A p \in Posts : Opened(p, InTree(p)) = Opened(p, Children)

\* The walk from a comment to its ancestors ends, and a comment that is shown at all
\* has all the threads around it expanded (_get_comment_ancestor_ids).
FocusIsOpen ==
    \A p \in Posts :
        \A c \in In(p) :
            LET open == Expanded(p, c)
            IN /\ Walk(p, c)[MaxComments + 1] = None
               /\ c \in Opened(p, InTree(p)) =>
                      \A k \in open : comment[k].parent \in open \cup {None}

\* Of every comment, the author of the post and that of the parent are told, once each
\* and nobody else, and never of their own
\* (notify_comment_created).
EachHearsOnce ==
    \A c \in Ids :
        LET by == comment[c].author
            concerned == {Author[comment[c].post]}
                         \cup {comment[k].author : k \in {comment[c].parent} \ {None}}
            sent == {one \in told : one.id = c}
        IN /\ {one.user : one \in sent} \subseteq concerned \ {by}
           /\ \A one, other \in sent : one.user = other.user => one = other
           /\ (\A r \in Requests : request[r].step = "notify" => request[r].id # c)
                  => {one.user : one \in sent} = concerned \ {by}

=============================================================================
