------------------------------ MODULE Listings ------------------------------
(***************************************************************************)
(* Where posts and wiki pages are listed, and for whom they open.  Each    *)
(* list has a query of its own: the feed, the posts that are hot or        *)
(* related, those that refer to a wiki page, the searches, the dashboard,  *)
(* and the lists of one's own activity, which start from the likes and     *)
(* bookmarks that were given while there was something to be seen.         *)
(*                                                                         *)
(* Limits, orders and queries are left out: a list is the set it is taken  *)
(* from.  How a post is written is the business of Posts; of the wiki      *)
(* pages there is one.                                                     *)
(***************************************************************************)
EXTENDS Naturals, FiniteSets

CONSTANTS Users, Posts,
          Author,    \* Author[p]: of the post p
          Requests,
          MaxMarks,  \* bound: no more likes and bookmarks are given once there are as many
          None       \* a visitor who is not logged in; no post yet

\* What is asked of the constants.
ListingsAssumption ==
    /\ Author \in [Posts -> Users]
    /\ MaxMarks \in Nat
    /\ None \notin Users \cup Posts

VARIABLES status,   \* status[p], None while there is no post
          deleted,  \* posts with deleted_at
          comment,  \* comment[p]: the comment on p, deleted or not, None while there is none
          wiki,     \* whether the wiki page is published, and whether it has a revision
          marks,    \* the rows of post_likes, post_bookmarks, comment_likes, wiki_bookmarks
          request   \* request[r]: the toggle under way

posts == <<status, deleted, comment>>
vars == <<posts, wiki, marks, request>>

Kinds == {"like", "bookmark", "comment"}
Mark == [user : Users, kind : Kinds, post : Posts] \cup [user : Users, kind : {"wiki"}, post : {None}]

Published == {p \in Posts : status[p] = "published"} \ deleted
Drafts(u) == {p \in Posts : status[p] = "draft" /\ Author[p] = u} \ deleted

\* community_detail, for a user or a visitor; everything that is done to a post asks it.
Opens(u) == Published \cup Drafts(u)
Commented == {p \in Posts : comment[p] = "live"}

\* wiki_detail, and the toggle of the bookmark.
WikiOpens == wiki.published /\ wiki.revised

Init ==
    /\ status = [p \in Posts |-> None]
    /\ deleted = {}
    /\ comment = [p \in Posts |-> None]
    /\ wiki = [published |-> TRUE, revised |-> FALSE]
    /\ marks = {}
    /\ request = [r \in Requests |-> None]

-----------------------------------------------------------------------------

\* A post is composed, or edited by its author: the form says what it is from now on.
Submit(p, as) ==
    /\ status[p] = None \/ p \in Opens(Author[p])
    /\ status' = [status EXCEPT ![p] = as]
    /\ UNCHANGED <<deleted, comment, wiki, marks, request>>

\* The administrators' delete and restore.
Moderate(p) ==
    /\ status[p] # None
    /\ deleted' = IF p \in deleted THEN deleted \ {p} ELSE deleted \cup {p}
    /\ UNCHANGED <<status, comment, wiki, marks, request>>

Comment(u, p) ==
    /\ p \in Opens(u) /\ comment[p] = None
    /\ comment' = [comment EXCEPT ![p] = "live"]
    /\ UNCHANGED <<status, deleted, wiki, marks, request>>

\* By another program.
DeleteComment(p) ==
    /\ p \in Commented
    /\ comment' = [comment EXCEPT ![p] = "deleted"]
    /\ UNCHANGED <<status, deleted, wiki, marks, request>>

\* The administrators publish a page that has a revision and withdraw one; another program
\* writes the first revision.
WikiChanges ==
    /\ \/ ~wiki.published /\ wiki.revised /\ wiki' = [wiki EXCEPT !.published = TRUE]
       \/ wiki.published /\ wiki' = [wiki EXCEPT !.published = FALSE]
       \/ ~wiki.revised /\ wiki' = [wiki EXCEPT !.revised = TRUE]
    /\ UNCHANGED <<posts, marks, request>>

\* A toggle begins: the post, and the comment, are read for the one who is logged in.
Begin(r, mark) ==
    /\ request[r] = None
    /\ Cardinality(marks) < MaxMarks \/ mark \in marks
    /\ request' = [request EXCEPT ![r] = mark]
    /\ UNCHANGED <<posts, wiki, marks>>

ToggleRead(r, u, kind, p) ==
    /\ p \in Opens(u)
    /\ kind = "comment" => p \in Commented
    /\ Begin(r, [user |-> u, kind |-> kind, post |-> p])

WikiToggleRead(r, u) == WikiOpens /\ Begin(r, [user |-> u, kind |-> "wiki", post |-> None])

\* The row is deleted, or inserted, whatever has become of the post meanwhile.
Toggle(r) ==
    /\ request[r] # None
    /\ marks' = IF request[r] \in marks THEN marks \ {request[r]}
                ELSE marks \cup {request[r]}
    /\ request' = [request EXCEPT ![r] = None]
    /\ UNCHANGED <<posts, wiki>>

Next ==
    \/ \E p \in Posts : \/ \E as \in {"draft", "published"} : Submit(p, as)
                        \/ \E u \in Users : Comment(u, p)
                        \/ Moderate(p) \/ DeleteComment(p)
    \/ \E r \in Requests : \/ \E u \in Users, kind \in Kinds, p \in Posts : ToggleRead(r, u, kind, p)
                           \/ \E u \in Users : WikiToggleRead(r, u)
                           \/ Toggle(r)
    \/ WikiChanges

Spec == Init /\ [][Next]_vars

-----------------------------------------------------------------------------
(* The lists.                                                              *)

\* Lists of posts for everybody.
Feed == Published                  \* community_list, without one's drafts
PublicMain == Published
Hot == Published
Search == Published
Referring == Published
ReferringCount == Cardinality({p \in Posts : status[p] = "published" /\ p \notin deleted})
Related(p) == Hot \ {p}
PostCount == Cardinality({p \in Posts : status[p] = "published" /\ p \notin deleted})

\* Lists of posts of a user's own; DraftList is that of the form to compose in.
Dashboard(u) == Opens(u)
DraftList(u) == Drafts(u)
Authored(u) == {p \in Posts : status[p] # None /\ Author[p] = u} \ deleted
AuthoredCount(u) == Cardinality({p \in Posts : status[p] # None /\ Author[p] = u /\ p \notin deleted})

Marked(u, kind) == {p \in Posts : [user |-> u, kind |-> kind, post |-> p] \in marks}

ProfileVisible(u) ==
    {p \in Posts : \/ status[p] = "published"
                   \/ status[p] = "draft" /\ Author[p] = u}

Liked(u) == (Marked(u, "like") \cap ProfileVisible(u)) \ deleted

\* Mutant: the drafts of others are listed as well.
BookmarkedAny(u) == Marked(u, "bookmark") \ deleted

Bookmarked(u) == (Marked(u, "bookmark") \cap ProfileVisible(u)) \ deleted

LikedComments(u) == (Marked(u, "comment") \cap Commented \cap ProfileVisible(u)) \ deleted

\* mypage, whose lists are previews of those on pages of their own.
Activity(u) == Authored(u) \cup Liked(u) \cup Bookmarked(u) \cup LikedComments(u)

\* Whether the wiki page is listed: among the cards, and in the searches; for a user who has
\* bookmarked it.
WikiCards == wiki.published /\ wiki.revised
WikiFound == wiki.published /\ wiki.revised
WikiHome == WikiFound
WikiMarked(u) == [user |-> u, kind |-> "wiki", post |-> None] \in marks
WikiBookmarked(u) == WikiMarked(u) /\ wiki.revised /\ wiki.published

-----------------------------------------------------------------------------

TypeOK ==
    /\ status \in [Posts -> {"draft", "published", None}]
    /\ deleted \subseteq Posts
    /\ comment \in [Posts -> {"live", "deleted", None}]
    /\ wiki \in [published : BOOLEAN, revised : BOOLEAN]
    /\ marks \subseteq Mark
    /\ request \in [Requests -> Mark \cup {None}]

\* What is listed opens for the one it is listed for, although each list has a query of its
\* own and a like or a bookmark outlives the post's being seen.
ListedOpens ==
    /\ Feed \cup PublicMain \cup Hot \cup Search \cup Referring \cup UNION {Related(p) : p \in Posts} \subseteq Opens(None)
    /\ \A u \in Users : Dashboard(u) \cup DraftList(u) \cup Activity(u) \subseteq Opens(u)
    /\ WikiCards \/ WikiHome \/ (\E u \in Users : WikiBookmarked(u)) => WikiOpens

\* And a mark can be found again, to be taken back, as long as its post opens; the
\* numbers shown are those of the lists.
MarksAreListed ==
    /\ \A u \in Users :
           /\ Marked(u, "like") \cap Opens(u) \subseteq Liked(u)
           /\ Marked(u, "bookmark") \cap Opens(u) \subseteq Bookmarked(u)
           /\ (Marked(u, "comment") \cap Commented \cap Opens(u)) \subseteq LikedComments(u)
           /\ WikiMarked(u) /\ WikiOpens => WikiBookmarked(u)
           /\ AuthoredCount(u) = Cardinality(Authored(u))
    /\ PostCount = Cardinality(Feed) /\ ReferringCount = Cardinality(Referring)

ListsShowWhatOpens == ListedOpens /\ MarksAreListed

=============================================================================
