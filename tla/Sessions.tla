------------------------------ MODULE Sessions ------------------------------
(***************************************************************************)
(* Logged-in sessions in the cache, and the per-user index of their keys   *)
(* that suspending or deleting an account uses to end them.  The index is  *)
(* a cached list updated by read, modify and write at every request of a   *)
(* logged-in user, at login and at logout; requests interleave at each     *)
(* cache or database call.                                                 *)
(*                                                                         *)
(* The rows are reduced to their status (UserLifecycle has the rest); an   *)
(* admin action reads and saves it in one step here.                       *)
(***************************************************************************)
CONSTANTS Users, Keys, Requests,
          None,     \* no session, no key
          MayCrash  \* may a request stop between two steps (error, cache outage)

ASSUME ConstantsAssumption == None \notin Users \cup Keys /\ MayCrash \in BOOLEAN

VARIABLES status,  \* status[u]: the committed status of user u
          store,   \* store[k]: the user the session under key k is logged in as
          index,   \* index[u]: hivewiki:user-sessions:<u>, the tracked keys
          req,     \* req[r]: the request in slot r
          calm     \* no two requests have overlapped and none has died (history)

vars == <<status, store, index, req, calm>>

\* Where a request is: each name is the call it is about to make.
Steps == {"idle", "readRow", "readIndex", "track", "view", "unregister", "untrack",
          "flush", "saveCheck", "save", "create", "purge", "kill", "drop", "commit"}
PurgeSteps == {"purge", "kill", "drop", "commit"}

\* A page is served to the session's user, a visit to nobody: the session is that of
\* an account that is not active.
Request == [step : Steps, kind : {"none", "page", "visit", "login", "suspend", "delete"},
            user : Users \cup {None}, key : Keys \cup {None}, keys : SUBSET Keys]

Idle == [step |-> "idle", kind |-> "none", user |-> None, key |-> None, keys |-> {}]

\* The transaction of _apply_admin_user_action's delete holds the row of u.
RowLocked(u) == \E s \in Requests : req[s].kind = "delete" /\ req[s].user = u

\* A key nobody has heard of: session keys are random and never drawn twice.
Unused(k) ==
    /\ store[k] = None
    /\ \A u \in Users : k \notin index[u]
    /\ \A s \in Requests : req[s].key # k /\ k \notin req[s].keys

Init ==
    /\ status \in [Users -> {"active", "suspended", "deleted"}]
    /\ store = [k \in Keys |-> None]
    /\ index = [u \in Users |-> {}]
    /\ req = [r \in Requests |-> Idle]
    /\ calm = TRUE

Goto(r, step) == req' = [req EXCEPT ![r].step = step]
End(r) == req' = [req EXCEPT ![r] = Idle]

-----------------------------------------------------------------------------
(* Every request with a session cookie: CurrentUserMiddleware              *)

LoadSession(r, k) ==
    /\ req[r].step = "idle"
    /\ store[k] # None
    /\ req' = [req EXCEPT ![r] = [Idle EXCEPT !.step = "readRow", !.kind = "page",
                                              !.user = store[k], !.key = k]]
    /\ UNCHANGED <<status, store, index>>

\* get_current_user: only an active row counts; the visitor is anonymous otherwise,
\* and the session is left alone.
ReadRow(r) ==
    /\ req[r].step = "readRow"
    /\ IF status[req[r].user] = "active" THEN Goto(r, "readIndex")
       ELSE req' = [req EXCEPT ![r].step = "view", ![r].kind = "visit"]
    /\ UNCHANGED <<status, store, index>>

\* register_user_session, also the last call of login_user.
ReadIndex(r) ==
    /\ req[r].step = "readIndex"
    /\ req' = [req EXCEPT ![r].keys = index[req[r].user] \cup {req[r].key},
                          ![r].step = "track"]
    /\ UNCHANGED <<status, store, index>>

Track(r) ==
    /\ req[r].step = "track"
    /\ index' = [index EXCEPT ![req[r].user] = req[r].keys]
    /\ req' = [req EXCEPT ![r].step = IF req[r].kind = "login" THEN "saveCheck" ELSE "view",
                          ![r].keys = {}]
    /\ UNCHANGED <<status, store>>

\* A view that does not touch the session.
Serve(r) ==
    /\ req[r].step = "view"
    /\ End(r)
    /\ UNCHANGED <<status, store, index>>

\* set_browser_timezone puts a value in the session, saved with the response.
SetTimezone(r) ==
    /\ req[r].step = "view"
    /\ Goto(r, "saveCheck")
    /\ UNCHANGED <<status, store, index>>

\* SessionMiddleware saves a modified session: it looks whether the key is still
\* there (the request fails if not), then sets it.
SaveCheck(r) ==
    /\ req[r].step = "saveCheck"
    /\ IF store[req[r].key] = None THEN End(r) ELSE Goto(r, "save")
    /\ UNCHANGED <<status, store, index>>

Save(r) ==
    /\ req[r].step = "save"
    /\ store' = [store EXCEPT ![req[r].key] = req[r].user]
    /\ End(r)
    /\ UNCHANGED <<status, index>>

-----------------------------------------------------------------------------
(* Login and logout                                                        *)

\* authenticate_user, create_user or the profile of a provider name an active u, and
\* the browser has no session.
Authenticate(r, u) ==
    /\ req[r].step = "idle"
    /\ status[u] = "active"
    /\ req' = [req EXCEPT ![r] = [Idle EXCEPT !.step = "create", !.kind = "login", !.user = u]]
    /\ UNCHANGED <<status, store, index>>

\* The same over the session the browser has.  login_view and signup_view turn away a
\* current user; oauth_callback_view and oauth_confirm_existing_account_view do not,
\* and u may well be another user.
AuthenticateOver(r, u) ==
    /\ req[r].step = "view"
    /\ status[u] = "active"
    /\ req' = [req EXCEPT ![r].step = "create", ![r].kind = "login", ![r].user = u]
    /\ UNCHANGED <<status, store, index>>

\* Mutation: login_user stores the user in the session the browser has.
CreateInPlace(r, k) ==
    /\ req[r].step = "create"
    /\ Unused(k)
    /\ LET key == IF req[r].key = None THEN k ELSE req[r].key IN
          /\ store' = [store EXCEPT ![key] = req[r].user]
          /\ req' = [req EXCEPT ![r].key = key, ![r].step = "readIndex"]
    /\ UNCHANGED <<status, index>>

\* login_user: flush the old session, store the user under a new key.  The index of
\* the user who was logged in keeps the old key.
CreateSession(r, k) ==
    /\ req[r].step = "create"
    /\ Unused(k)
    /\ store' = [j \in Keys |-> IF j = k THEN req[r].user
                                ELSE IF j = req[r].key THEN None ELSE store[j]]
    /\ req' = [req EXCEPT ![r].key = k, ![r].step = "readIndex"]
    /\ UNCHANGED <<status, index>>

\* logout_user asks for the current user, which a visit looks up again.
Logout(r) ==
    /\ req[r].step = "view"
    /\ Goto(r, IF req[r].kind = "page" \/ status[req[r].user] = "active"
               THEN "unregister" ELSE "flush")
    /\ UNCHANGED <<status, store, index>>

\* unregister_user_session leaves a key alone it does not find.
Unregister(r) ==
    /\ req[r].step = "unregister"
    /\ LET tracked == index[req[r].user] IN
       IF req[r].key \in tracked
       THEN req' = [req EXCEPT ![r].step = "untrack", ![r].keys = tracked \ {req[r].key}]
       ELSE Goto(r, "flush")
    /\ UNCHANGED <<status, store, index>>

Untrack(r) ==
    /\ req[r].step = "untrack"
    /\ index' = [index EXCEPT ![req[r].user] = req[r].keys]
    /\ req' = [req EXCEPT ![r].step = "flush", ![r].keys = {}]
    /\ UNCHANGED <<status, store>>

Flush(r) ==
    /\ req[r].step = "flush"
    /\ store' = [store EXCEPT ![req[r].key] = None]
    /\ End(r)
    /\ UNCHANGED <<status, index>>

-----------------------------------------------------------------------------
(* Suspending, deleting and activating an account                          *)

\* Mutation: suspending saves the status and no more.
SuspendOnly(r, u) ==
    /\ req[r].step = "idle"
    /\ status[u] = "active"
    /\ ~RowLocked(u)
    /\ status' = [status EXCEPT ![u] = "suspended"]
    /\ UNCHANGED <<store, index, req>>

\* The status is saved first, the sessions are purged after.
Suspend(r, u) ==
    /\ req[r].step = "idle"
    /\ status[u] = "active"
    /\ ~RowLocked(u)
    /\ status' = [status EXCEPT ![u] = "suspended"]
    /\ req' = [req EXCEPT ![r] = [Idle EXCEPT !.step = "purge", !.kind = "suspend", !.user = u]]
    /\ UNCHANGED <<store, index>>

\* The sessions are purged inside the transaction that will set the status.
Delete(r, u) ==
    /\ req[r].step = "idle"
    /\ status[u] # "deleted"
    /\ ~RowLocked(u)
    /\ req' = [req EXCEPT ![r] = [Idle EXCEPT !.step = "purge", !.kind = "delete", !.user = u]]
    /\ UNCHANGED <<status, store, index>>

AfterPurge(r) == IF req[r].kind = "delete" THEN Goto(r, "commit") ELSE End(r)

\* purge_user_sessions reads the index once ...
PurgeRead(r) ==
    /\ req[r].step = "purge"
    /\ IF index[req[r].user] = {} THEN AfterPurge(r)
       ELSE req' = [req EXCEPT ![r].keys = index[req[r].user], ![r].step = "kill"]
    /\ UNCHANGED <<status, store, index>>

\* ... deletes the sessions it names, one by one ...
PurgeKill(r, k) ==
    /\ req[r].step = "kill"
    /\ k \in req[r].keys
    /\ store' = [store EXCEPT ![k] = None]
    /\ req' = [req EXCEPT ![r].keys = @ \ {k},
                          ![r].step = IF req[r].keys = {k} THEN "drop" ELSE "kill"]
    /\ UNCHANGED <<status, index>>

\* ... and deletes the index, whatever has been added to it meanwhile.
PurgeDrop(r) ==
    /\ req[r].step = "drop"
    /\ index' = [index EXCEPT ![req[r].user] = {}]
    /\ AfterPurge(r)
    /\ UNCHANGED <<status, store>>

Commit(r) ==
    /\ req[r].step = "commit"
    /\ status' = [status EXCEPT ![req[r].user] = "deleted"]
    /\ End(r)
    /\ UNCHANGED <<store, index>>

Activate(r, u) ==
    /\ req[r].step = "idle"
    /\ status[u] = "suspended"
    /\ ~RowLocked(u)
    /\ status' = [status EXCEPT ![u] = "active"]
    /\ UNCHANGED <<store, index, req>>

-----------------------------------------------------------------------------

\* SESSION_COOKIE_AGE runs out.  The index has the same timeout and is written
\* after the sessions it names, so that it outlives them; a request that has just
\* written it does not see it go.  Only a session that visits keep alive, of an
\* account that is not active and not being purged, may outlive its index.
ExpireSession(k) ==
    /\ store[k] # None
    /\ store' = [store EXCEPT ![k] = None]
    /\ UNCHANGED <<status, index, req>>

ExpireIndex(u) ==
    /\ index[u] # {}
    /\ \/ \A k \in Keys : store[k] # u
       \/ status[u] # "active" /\ \A r \in Requests : req[r].user = u => req[r].kind = "visit"
    /\ \A r \in Requests : req[r].user = u /\ req[r].kind # "visit" =>
          req[r].step \notin {"view", "saveCheck", "save"}
    /\ index' = [index EXCEPT ![u] = {}]
    /\ UNCHANGED <<status, store, req>>

\* The process dies or the cache fails: a suspension keeps its saved status, the
\* transaction of a deletion rolls back.
Crash(r) ==
    /\ MayCrash
    /\ req[r].step # "idle"
    /\ End(r)
    /\ UNCHANGED <<status, store, index>>

Step ==
    \/ \E r \in Requests :
        \/ \E k \in Keys : LoadSession(r, k) \/ CreateSession(r, k) \/ PurgeKill(r, k)
        \/ ReadRow(r) \/ ReadIndex(r) \/ Track(r)
        \/ Serve(r) \/ SetTimezone(r) \/ SaveCheck(r) \/ Save(r)
        \/ \E u \in Users : Authenticate(r, u) \/ AuthenticateOver(r, u)
        \/ Logout(r) \/ Unregister(r) \/ Untrack(r) \/ Flush(r)
        \/ \E u \in Users : Suspend(r, u) \/ Delete(r, u) \/ Activate(r, u)
        \/ PurgeRead(r) \/ PurgeDrop(r) \/ Commit(r)
    \/ \E k \in Keys : ExpireSession(k)
    \/ \E u \in Users : ExpireIndex(u)

Overlap == \E r, s \in Requests : r # s /\ req[r].step # "idle" /\ req[s].step # "idle"

Next ==
    \/ Step /\ calm' = (calm /\ ~Overlap')
    \/ \E r \in Requests : Crash(r) /\ calm' = FALSE

Spec == Init /\ [][Next]_vars

-----------------------------------------------------------------------------

\* The cache, the rows and the requests have the shapes declared above, and a
\* request that tracks, saves or ends a session has one: register_user_session
\* is never reached without a session key.
TypeOK ==
    /\ status \in [Users -> {"active", "suspended", "deleted"}]
    /\ store \in [Keys -> Users \cup {None}]
    /\ index \in [Users -> SUBSET Keys]
    /\ req \in [Requests -> Request]
    /\ \A r \in Requests :
          req[r].kind \in {"page", "visit", "login"} /\ req[r].step # "create" => req[r].key # None

Quiet == \A r \in Requests : req[r].step = "idle"

\* The index of a user, and any copy of it a request holds, names sessions of
\* this user or none.
IndexIsOwn ==
    /\ \A u \in Users : \A k \in index[u] : store[k] \in {u, None}
    /\ \A r \in Requests : \A k \in req[r].keys : store[k] \in {req[r].user, None}

\* Every session in the cache is in the index of its user, where a purge finds it.
EverySessionTracked == \A k \in Keys : store[k] # None => k \in index[store[k]]

\* Whatever interleaves, purging one account never logs another one out, not even
\* when a browser has changed from one account to another; and as long as requests
\* follow one another and none dies, between two of them no session is missing from
\* its index (register_user_session, unregister_user_session, login_user's flush and
\* cycle_key).
IndexIsRight == IndexIsOwn /\ (calm /\ Quiet => EverySessionTracked)

\* Suspending or deleting an account ends its sessions: once the request is
\* over, none is left for the day the account is activated again
\* (test_admin_suspend_purges_user_session).
InactiveHasNoSession ==
    Quiet => \A k \in Keys : store[k] # None => status[store[k]] = "active"

\* The same, as long as requests follow one another and none dies: login,
\* tracking and purge are in an order that leaves no session behind.
PurgeIsComplete == calm => InactiveHasNoSession

=============================================================================
