--------------------------- MODULE Notifications ---------------------------
(***************************************************************************)
(* The notifications of one user (the author): what sends them, what holds *)
(* them back, and the number of unread ones shown on every page.           *)
(*                                                                         *)
(* A reader toggles its like of the author's post: each click adds or      *)
(* removes a row, and adding it notifies the author.  Equal notifications  *)
(* are held back for half a minute, first by a key in the cache, then by a *)
(* look at the table.  A comment notifies once: its id is in the key, which *)
(* is always free.  Liking a comment is the code of liking a post with     *)
(* other names; a bookmark is the same row without the notification.       *)
(*                                                                         *)
(* The number is counted in the table and kept in the cache for a minute;  *)
(* every writer deletes it after its own commit, and a page that misses    *)
(* counts first and caches later.  Requests interleave at each call of the *)
(* cache or the database.                                                  *)
(***************************************************************************)
EXTENDS Naturals, FiniteSets

CONSTANTS Notices,   \* ids of the notifications that may be unread or in use
          Requests,
          Timeout,   \* UNREAD_NOTIFICATION_COUNT_TTL, in ticks
          Dedupe,    \* NOTIFICATION_DEDUPE_TTL, in ticks
          MaxDelay,  \* ticks a request may take once it has the dedupe key
          Never,     \* no notification of the like yet
          None       \* nothing in the cache; no notification

\* A request is assumed to be over well within half a minute.
ASSUME ConstantsAssumption ==
    /\ IsFiniteSet(Notices)
    /\ {Timeout, Dedupe, MaxDelay} \subseteq Nat
    /\ Timeout > 0
    /\ MaxDelay < Dedupe
    /\ Never \notin Nat
    /\ None \notin Notices

VARIABLES likes,      \* rows of post_likes for the post and the reader
          key,        \* ticks the like's dedupe key has left, 0 when absent
          latest,     \* age of the like's latest notification, to LongAgo
          unread,     \* the author's unread notifications
          cached,     \* the cached number, with the ticks it has left
          req,        \* req[r]: the call request r is about to make
          fresh,      \* ticks since the number last changed (history, to Timeout)
          overlapped, \* two requests have used the number at once (history)
          crashed     \* a request has died (history)

table == <<likes, latest, unread>>
history == <<overlapped, crashed>>
vars == <<table, key, cached, req, fresh, history>>

Steps == {"idle", "delete", "create", "add", "look", "insert",
          "count", "fill", "save", "invalidate"}
Request == [step : Steps, waited : 0 .. MaxDelay,
            count : 0 .. Cardinality(Notices), target : Notices \cup {None}]
Idle == [step |-> "idle", waited |-> 0, count |-> 0, target |-> None]
LongAgo == 2 * Dedupe

Goto(r, step) == req' = [req EXCEPT ![r].step = step]
End(r) == req' = [req EXCEPT ![r] = Idle]

Number == Cardinality(unread)

\* A write of the notifications; the number may be another from now on.
Write(new) ==
    /\ unread' = new
    /\ fresh' = IF Number' = Number THEN fresh ELSE 0

\* An id for a new row.  Read notifications are kept by nothing else, so that an
\* id is used again once no request holds it.
Unused == Notices \ (unread \cup {req[r].target : r \in Requests})

\* Bound: a request that may insert begins only where an id is left for it.
Room == Cardinality(Unused) >
    Cardinality({r \in Requests : req[r].step \in {"create", "add", "look", "insert"}})

Init ==
    /\ likes \in {0, 1}
    /\ key = 0
    /\ latest = Never
    /\ unread \in SUBSET Notices
    /\ cached = None
    /\ req = [r \in Requests |-> Idle]
    /\ fresh = Timeout
    /\ overlapped = FALSE
    /\ crashed = FALSE

-----------------------------------------------------------------------------
(* community_post_like_toggle                                              *)

\* like.exists()
Click(r) ==
    /\ req[r].step = "idle"
    /\ Room
    /\ Goto(r, IF likes > 0 THEN "delete" ELSE "create")
    /\ UNCHANGED <<table, key, cached, fresh>>

Delete(r) ==
    /\ req[r].step = "delete"
    /\ likes' = 0
    /\ End(r)
    /\ UNCHANGED <<key, latest, unread, cached, fresh>>

\* An INSERT; post_likes_post_id_user_id_key fails the slower of two requests.
Create(r) ==
    /\ req[r].step = "create"
    /\ IF likes > 0 THEN End(r) /\ UNCHANGED likes
       ELSE likes' = 1 /\ Goto(r, "add")
    /\ UNCHANGED <<key, latest, unread, cached, fresh>>

-----------------------------------------------------------------------------
(* create_notification                                                     *)

\* cache.add: only where there is no key.
Add(r) ==
    /\ req[r].step = "add"
    /\ IF key > 0 THEN End(r) /\ UNCHANGED key
       ELSE key' = Dedupe /\ Goto(r, "look")
    /\ UNCHANGED <<table, cached, fresh>>

\* Mutation: the cache is asked, the table is not.
LookAway(r) ==
    /\ req[r].step = "look"
    /\ Goto(r, "insert")
    /\ UNCHANGED <<table, key, cached, fresh>>

\* An equal notification created_at >= now - NOTIFICATION_DEDUPE_TTL.
Look(r) ==
    /\ req[r].step = "look"
    /\ IF latest # Never /\ latest <= Dedupe THEN End(r) ELSE Goto(r, "insert")
    /\ UNCHANGED <<table, key, cached, fresh>>

Insert(r) ==
    /\ req[r].step = "insert"
    /\ \E n \in Unused : Write(unread \cup {n})
    /\ latest' = 0
    /\ req' = [req EXCEPT ![r] = [Idle EXCEPT !.step = "invalidate"]]
    /\ UNCHANGED <<likes, key, cached>>

\* notify_comment_created: key and table hold nothing equal, the row is inserted.
Comment(r) ==
    /\ req[r].step = "idle"
    /\ Room
    /\ \E n \in Unused : Write(unread \cup {n})
    /\ Goto(r, "invalidate")
    /\ UNCHANGED <<likes, latest, key, cached>>

-----------------------------------------------------------------------------
(* The author's pages                                                      *)

\* A page whose number is in the cache is answered with it: nothing changes.
Get(r) ==
    /\ req[r].step = "idle"
    /\ cached = None
    /\ Goto(r, "count")
    /\ UNCHANGED <<table, key, cached, fresh>>

Count(r) ==
    /\ req[r].step = "count"
    /\ req' = [req EXCEPT ![r].step = "fill", ![r].count = Number]
    /\ UNCHANGED <<table, key, cached, fresh>>

Fill(r) ==
    /\ req[r].step = "fill"
    /\ cached' = [count |-> req[r].count, ttl |-> Timeout]
    /\ End(r)
    /\ UNCHANGED <<table, key, fresh>>

\* notification_mark_read_view reads the row; one already read is left alone.
MarkRead(r, n) ==
    /\ req[r].step = "idle"
    /\ n \in unread
    /\ req' = [req EXCEPT ![r].step = "save", ![r].target = n]
    /\ UNCHANGED <<table, key, cached, fresh>>

SaveRead(r) ==
    /\ req[r].step = "save"
    /\ Write(unread \ {req[r].target})
    /\ req' = [req EXCEPT ![r] = [Idle EXCEPT !.step = "invalidate"]]
    /\ UNCHANGED <<likes, latest, key, cached>>

\* Mutation: marking them all leaves the cached number.
MarkAllOnly(r) ==
    /\ req[r].step = "idle"
    /\ Write({})
    /\ UNCHANGED <<likes, latest, key, cached, req>>

\* mark_all_notifications_read: one UPDATE of the unread rows.
MarkAllRead(r) ==
    /\ req[r].step = "idle"
    /\ Write({})
    /\ Goto(r, "invalidate")
    /\ UNCHANGED <<likes, latest, key, cached>>

\* invalidate_unread_notification_count, the last call of each writer.
Invalidate(r) ==
    /\ req[r].step = "invalidate"
    /\ cached' = None
    /\ End(r)
    /\ UNCHANGED <<table, key, fresh>>

-----------------------------------------------------------------------------

HasKey(r) == req[r].step \in {"look", "insert"}

OlderReq == [r \in Requests |-> IF HasKey(r) THEN [req[r] EXCEPT !.waited = @ + 1] ELSE req[r]]

\* Mutation: the dedupe key is added without a timeout.
TickKeepsKey ==
    /\ \A r \in Requests : HasKey(r) => req[r].waited < MaxDelay
    /\ latest' = IF latest = Never \/ latest = LongAgo THEN latest ELSE latest + 1
    /\ cached' = IF cached = None \/ cached.ttl = 1 THEN None ELSE [cached EXCEPT !.ttl = @ - 1]
    /\ fresh' = IF fresh = Timeout THEN fresh ELSE fresh + 1
    /\ req' = OlderReq
    /\ UNCHANGED <<likes, key, unread>>

\* Mutation: the number is cached without a timeout.
TickKeepsNumber ==
    /\ \A r \in Requests : HasKey(r) => req[r].waited < MaxDelay
    /\ key' = IF key = 0 THEN 0 ELSE key - 1
    /\ latest' = IF latest = Never \/ latest = LongAgo THEN latest ELSE latest + 1
    /\ fresh' = IF fresh = Timeout THEN fresh ELSE fresh + 1
    /\ req' = OlderReq
    /\ UNCHANGED <<likes, unread, cached>>

\* A tick passes; the cache drops what has run out.
Tick ==
    /\ \A r \in Requests : HasKey(r) => req[r].waited < MaxDelay
    /\ key' = IF key = 0 THEN 0 ELSE key - 1
    /\ latest' = IF latest = Never \/ latest = LongAgo THEN latest ELSE latest + 1
    /\ cached' = IF cached = None \/ cached.ttl = 1 THEN None ELSE [cached EXCEPT !.ttl = @ - 1]
    /\ fresh' = IF fresh = Timeout THEN fresh ELSE fresh + 1
    /\ req' = OlderReq
    /\ UNCHANGED <<likes, unread>>

\* The process dies, or the cache or the database fails; what is committed stays.
Crash(r) ==
    /\ req[r].step # "idle"
    /\ End(r)
    /\ crashed' = TRUE
    /\ UNCHANGED <<table, key, cached, fresh>>

Begin(r) ==
    \/ Click(r) \/ Comment(r) \/ Get(r) \/ MarkAllRead(r)
    \/ \E n \in Notices : MarkRead(r, n)

Step(r) ==
    \/ Delete(r) \/ Create(r) \/ Add(r) \/ Look(r) \/ Insert(r)
    \/ Count(r) \/ Fill(r) \/ SaveRead(r) \/ Invalidate(r)

UsesNumber(r) == req[r].step \in {"count", "fill", "save", "invalidate"}
Remember == overlapped' = (overlapped \/
                \E r, s \in Requests : r # s /\ UsesNumber(r)' /\ UsesNumber(s)')

Next ==
    \/ ((\E r \in Requests : Begin(r) \/ Step(r)) \/ Tick) /\ Remember /\ UNCHANGED crashed
    \/ \E r \in Requests : Crash(r) /\ UNCHANGED overlapped

\* Time passes, and a request that has begun is carried on.
Spec == Init /\ [][Next]_vars /\ WF_vars(Tick /\ Remember /\ UNCHANGED crashed)
        /\ \A r \in Requests : WF_vars(Step(r) /\ Remember /\ UNCHANGED crashed)

-----------------------------------------------------------------------------

\* The shapes of the state; a reader likes a post once, however often and however
\* fast it clicks, and a cached number has a timeout to run out.
TypeOK ==
    /\ likes \in {0, 1}
    /\ key \in 0 .. Dedupe
    /\ latest \in (0 .. LongAgo) \cup {Never}
    /\ unread \subseteq Notices
    /\ cached = None \/ cached \in [count : 0 .. Cardinality(Notices), ttl : 1 .. Timeout]
    /\ req \in [Requests -> Request]
    /\ fresh \in 0 .. Timeout
    /\ overlapped \in BOOLEAN
    /\ crashed \in BOOLEAN

Wrong == cached # None /\ cached.count # Number

\* As long as requests that use the number follow one another, the cached number is
\* wrong only while one of them is under way, or after one has died before it deleted
\* the number (test_notification_unread_count_cache_is_invalidated_on_read); and then a
\* page shows it for a minute at most after the notifications changed, since it was
\* cached before.
WrongForCause ==
    ~overlapped /\ Wrong =>
        /\ crashed \/ \E r \in Requests : UsesNumber(r)
        /\ fresh + cached.ttl <= Timeout

\* Whatever overlaps and whatever crashes, once the notifications have stopped
\* changing the number shown becomes right and stays so.
CountSettles == <>[][UNCHANGED unread]_vars => <>[]~Wrong

\* Two equal notifications are more than NOTIFICATION_DEDUPE_TTL apart, however
\* the requests overlap (test_create_notification_deduplicates_recent_identical_events).
NoticesApart ==
    [][\A r \in Requests : Insert(r) => latest = Never \/ latest > Dedupe]_vars

\* As long as no request has died an event is held back only if an equal
\* notification is less than two timeouts old or on its way: a key without a
\* notification never silences the ones to come.
HeldForCause ==
    [][~crashed' => \A r \in Requests :
        req[r].step \in {"add", "look"} /\ req'[r].step = "idle"
            => \/ latest # Never /\ latest < LongAgo
               \/ \E s \in Requests \ {r} : HasKey(s)]_vars

=============================================================================
