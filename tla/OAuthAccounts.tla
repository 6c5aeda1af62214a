--------------------------- MODULE OAuthAccounts ---------------------------
(***************************************************************************)
(* The oauth_accounts table and the three transactions that change it:     *)
(* get_or_create_user_from_oauth_profile (login through a provider),       *)
(* link_oauth_account_to_user, and the delete action of the user           *)
(* management page.  They run at READ COMMITTED: a transaction sees what   *)
(* others have committed, SELECT ... FOR UPDATE, UPDATE and DELETE take    *)
(* the rows they touch and wait for those another transaction holds, and   *)
(* a unique index makes an INSERT wait for an uncommitted equal key.  What *)
(* a transaction has written becomes visible at its commit.                *)
(*                                                                         *)
(* All other writers of the users table are reduced to OtherWrite.         *)
(***************************************************************************)
CONSTANTS Users,     \* ids of accounts
          Emails,
          Ids,       \* accounts at the providers: (provider, provider_user_id)
          Providers,
          Provider,  \* Provider[i]: where i is an account
          Requests,  \* transactions in flight
          None

ASSUME ConstantsAssumption ==
    /\ Provider \in [Ids -> Providers]
    /\ None \notin Users \cup Emails \cup Ids \cup Requests

VARIABLES row,       \* row[u]: committed row of users
          accounts,  \* committed rows of oauth_accounts
          userLock,  \* userLock[u]: the transaction that holds the row of u
          idLock,    \* idLock[i]: the one that holds the row, or index key, of i
          req        \* req[r]: the transaction of request r

vars == <<row, accounts, userLock, idLock, req>>

Row == [status : {"absent", "active", "suspended", "deleted"}, email : Emails \cup {None}]
Account == [owner : Users, id : Ids]

\* Where a transaction is: each name is the statement it is about to make.
Steps == {"idle", "lockUser", "lockId", "lockOwner", "byEmail", "insertUser",
          "checkProvider", "insertId", "deleteIds", "commit"}

Request == [step : Steps, kind : {"none", "link", "login", "delete"},
            user : Users \cup {None}, id : Ids \cup {None}, email : Emails \cup {None}]

Idle == [step |-> "idle", kind |-> "none", user |-> None, id |-> None, email |-> None]

OwnedBy(u) == {a \in accounts : a.owner = u}
Owner(i) == CHOOSE u \in Users : [owner |-> u, id |-> i] \in accounts
Linked(i) == \E a \in accounts : a.id = i
InUse(e) == \E u \in Users : row[u].email = e

Goto(r, step) == req' = [req EXCEPT ![r].step = step]

\* Commit, rollback or error: the transaction gives up its locks.
End(r) ==
    /\ req' = [req EXCEPT ![r] = Idle]
    /\ userLock' = [u \in Users |-> IF userLock[u] = r THEN None ELSE userLock[u]]
    /\ idLock' = [i \in Ids |-> IF idLock[i] = r THEN None ELSE idLock[i]]

Init ==
    /\ row \in [Users -> [status : {"active"}, email : Emails]
                         \cup {[status |-> "absent", email |-> None]}]
    /\ \A u, v \in Users : u # v /\ row[u].email # None => row[u].email # row[v].email
    /\ accounts = {}
    /\ userLock = [u \in Users |-> None]
    /\ idLock = [i \in Ids |-> None]
    /\ req = [r \in Requests |-> Idle]

-----------------------------------------------------------------------------
(* The transactions begin                                                  *)

\* link_oauth_account_to_user, for the current user or the one who confirmed.
LinkBegin(r, u, i, e) ==
    /\ req[r].step = "idle"
    /\ row[u].status = "active"
    /\ req' = [req EXCEPT ![r] = [step |-> "lockUser", kind |-> "link",
                                  user |-> u, id |-> i, email |-> e]]
    /\ UNCHANGED <<row, accounts, userLock, idLock>>

LoginBegin(r, i, e) ==
    /\ req[r].step = "idle"
    /\ req' = [req EXCEPT ![r] = [step |-> "lockId", kind |-> "login",
                                  user |-> None, id |-> i, email |-> e]]
    /\ UNCHANGED <<row, accounts, userLock, idLock>>

\* The admin action has read the row and found it not deleted.
DeleteBegin(r, u) ==
    /\ req[r].step = "idle"
    /\ row[u].status \in {"active", "suspended"}
    /\ req' = [req EXCEPT ![r] = [step |-> "lockUser", kind |-> "delete",
                                  user |-> u, id |-> None, email |-> None]]
    /\ UNCHANGED <<row, accounts, userLock, idLock>>

-----------------------------------------------------------------------------
(* The statements                                                          *)

\* The checks of link_oauth_account_to_user on the user it has locked.
Refused(r) ==
    LET u == req[r].user IN
    req[r].kind = "link" /\ (row[u].status # "active" \/ row[u].email # req[r].email)

\* Mutation: the link reads the user without FOR UPDATE.
ReadUser(r) ==
    /\ req[r].step = "lockUser"
    /\ req[r].kind = "delete" => userLock[req[r].user] = None
    /\ ~Refused(r)
    /\ userLock' = IF req[r].kind = "link" THEN userLock
                   ELSE [userLock EXCEPT ![req[r].user] = r]
    /\ Goto(r, IF req[r].kind = "link" THEN "lockId" ELSE "deleteIds")
    /\ UNCHANGED <<row, accounts, idLock>>

\* Mutation: a refused link leaves its transaction open.
LockUserAndLeave(r) ==
    /\ req[r].step = "lockUser"
    /\ userLock[req[r].user] = None
    /\ userLock' = [userLock EXCEPT ![req[r].user] = r]
    /\ IF Refused(r) THEN req' = [req EXCEPT ![r] = Idle]
       ELSE Goto(r, IF req[r].kind = "link" THEN "lockId" ELSE "deleteIds")
    /\ UNCHANGED <<row, accounts, idLock>>

\* link: SELECT ... FOR UPDATE and its checks on the row as it is now.
\* delete: the UPDATE, which overwrites whatever the row has become, or fails
\* when the name or email it writes is somebody's.
LockUser(r) ==
    LET u == req[r].user IN
    /\ req[r].step = "lockUser"
    /\ userLock[u] = None
    /\ \/ /\ req[r].kind = "link" => Refused(r)
          /\ End(r)
       \/ /\ ~Refused(r)
          /\ userLock' = [userLock EXCEPT ![u] = r]
          /\ Goto(r, IF req[r].kind = "link" THEN "lockId" ELSE "deleteIds")
          /\ UNCHANGED idLock
    /\ UNCHANGED <<row, accounts>>

\* SELECT account JOIN user FOR UPDATE, the account first.  A link that finds
\* its own account refreshes it and is done: its user row is already held.
LockId(r) ==
    LET i == req[r].id IN
    /\ req[r].step = "lockId"
    /\ IF ~Linked(i)
       THEN /\ Goto(r, IF req[r].kind = "link" THEN "checkProvider" ELSE "byEmail")
            /\ UNCHANGED <<userLock, idLock>>
       ELSE /\ idLock[i] = None
            /\ IF req[r].kind = "link" /\ Owner(i) = req[r].user THEN End(r)
               ELSE /\ idLock' = [idLock EXCEPT ![i] = r]
                    /\ Goto(r, "lockOwner")
                    /\ UNCHANGED userLock
    /\ UNCHANGED <<row, accounts>>

\* ... then the row of its owner.  A login refreshes the account, or fails when
\* the owner is not active; a link fails: the account is somebody else's.
LockOwner(r) ==
    /\ req[r].step = "lockOwner"
    /\ userLock[Owner(req[r].id)] = None
    /\ End(r)
    /\ UNCHANGED <<row, accounts>>

\* login: SELECT the user with this email FOR UPDATE.  Any user found is an
\* error; one whose row is held may have given the email up when it is free.
ByEmail(r) ==
    /\ req[r].step = "byEmail"
    /\ IF InUse(req[r].email)
       THEN /\ \E u \in Users : row[u].email = req[r].email /\ userLock[u] = None
            /\ End(r)
       ELSE Goto(r, "insertUser") /\ UNCHANGED <<userLock, idLock>>
    /\ UNCHANGED <<row, accounts>>

\* Who has inserted a user with email e and not committed yet.
Inserting(e) == {s \in Requests : req[s].kind = "login" /\ req[s].email = e
                                  /\ req[s].step \in {"insertId", "commit"}}

\* Ids that no user has and no transaction has drawn.
FreshIds == {u \in Users : row[u].status = "absent" /\ \A s \in Requests : req[s].user # u}

\* login: INSERT the user under a fresh id; IntegrityError when the email exists.
\* (With all ids of the model used up the login fails as well.)
InsertUser(r) ==
    /\ req[r].step = "insertUser"
    /\ Inserting(req[r].email) = {}
    /\ IF InUse(req[r].email) \/ FreshIds = {} THEN End(r)
       ELSE /\ \E u \in FreshIds : req' = [req EXCEPT ![r].step = "insertId", ![r].user = u]
            /\ UNCHANGED <<userLock, idLock>>
    /\ UNCHANGED <<row, accounts>>

\* link: no second account at the same provider.
CheckProvider(r) ==
    /\ req[r].step = "checkProvider"
    /\ IF \E a \in OwnedBy(req[r].user) : Provider[a.id] = Provider[req[r].id]
       THEN End(r)
       ELSE Goto(r, "insertId") /\ UNCHANGED <<userLock, idLock>>
    /\ UNCHANGED <<row, accounts>>

\* INSERT the account; IntegrityError when the identity is taken.
InsertId(r) ==
    LET i == req[r].id IN
    /\ req[r].step = "insertId"
    /\ idLock[i] = None
    /\ IF Linked(i) THEN End(r)
       ELSE /\ idLock' = [idLock EXCEPT ![i] = r]
            /\ Goto(r, "commit")
            /\ UNCHANGED userLock
    /\ UNCHANGED <<row, accounts>>

\* delete: DELETE the accounts of the user, each row taken.
DeleteIds(r) ==
    LET mine == {a.id : a \in OwnedBy(req[r].user)} IN
    /\ req[r].step = "deleteIds"
    /\ \A i \in mine : idLock[i] = None
    /\ idLock' = [i \in Ids |-> IF i \in mine THEN r ELSE idLock[i]]
    /\ Goto(r, "commit")
    /\ UNCHANGED <<row, accounts, userLock>>

Commit(r) ==
    LET u == req[r].user
        new == [owner |-> u, id |-> req[r].id] IN
    /\ req[r].step = "commit"
    /\ \/ /\ req[r].kind = "link"
          /\ accounts' = accounts \cup {new}
          /\ UNCHANGED row
       \/ /\ req[r].kind = "login"
          /\ accounts' = accounts \cup {new}
          /\ row' = [row EXCEPT ![u] = [status |-> "active", email |-> req[r].email]]
       \/ /\ req[r].kind = "delete"
          /\ accounts' = accounts \ OwnedBy(u)
          /\ row' = [row EXCEPT ![u] = [status |-> "deleted", email |-> None]]
    /\ End(r)

-----------------------------------------------------------------------------
(* The database                                                            *)

\* A suspension, an activation, a profile edit: one UPDATE that commits at once
\* and waits for the row.  Decided on a row read earlier, it may take any
\* account, a deleted one too, to either status (see UserLifecycle).
OtherWrite(u) ==
    /\ row[u].status # "absent"
    /\ userLock[u] = None
    /\ \E status \in {"active", "suspended"}, e \in Emails \cup {row[u].email} :
          /\ \A v \in Users \ {u} : e # None => row[v].email # e
          /\ \A s \in Inserting(e) : FALSE
          /\ row' = [row EXCEPT ![u] = [status |-> status, email |-> e]]
    /\ UNCHANGED <<accounts, userLock, idLock, req>>

\* The transactions r waits for.
WaitsFor(r) ==
    LET held(u) == {userLock[u]}
        i == req[r].id IN
    (CASE req[r].step = "lockUser"  -> held(req[r].user)
       [] req[r].step = "lockId"    -> IF Linked(i) THEN {idLock[i]} ELSE {}
       [] req[r].step = "lockOwner" -> held(Owner(i))
       [] req[r].step = "byEmail"   -> UNION {held(u) : u \in {v \in Users : row[v].email = req[r].email}}
       [] req[r].step = "insertUser" -> Inserting(req[r].email)
       [] req[r].step = "insertId"  -> {idLock[i]}
       [] req[r].step = "deleteIds" -> {idLock[a.id] : a \in OwnedBy(req[r].user)}
       [] OTHER -> {}) \ {None}

\* PostgreSQL finds transactions that wait for each other in a circle and rolls
\* one of them back; the request fails (OperationalError is not caught).
DeadlockVictim(r) ==
    /\ \E S \in SUBSET Requests :
          /\ r \in S
          /\ \A s \in S : WaitsFor(s) \cap S # {}
          /\ S \subseteq UNION {WaitsFor(s) : s \in S}
    /\ End(r)
    /\ UNCHANGED <<row, accounts>>

Statement(r) ==
    \/ LockUser(r) \/ LockId(r) \/ LockOwner(r) \/ ByEmail(r) \/ CheckProvider(r)
    \/ InsertUser(r) \/ InsertId(r) \/ DeleteIds(r) \/ Commit(r)

Begin(r) ==
    \/ \E u \in Users, i \in Ids, e \in Emails : LinkBegin(r, u, i, e)
    \/ \E i \in Ids, e \in Emails : LoginBegin(r, i, e)
    \/ \E u \in Users : DeleteBegin(r, u)

Next ==
    \/ \E r \in Requests : Begin(r) \/ Statement(r) \/ DeadlockVictim(r)
    \/ \E u \in Users : OtherWrite(u)

\* The queue of a row lock is served in order, so that no statement waits for
\* ever while others come and go; the deadlock detector runs after a second.
Spec ==
    /\ Init /\ [][Next]_vars
    /\ \A r \in Requests : SF_vars(Statement(r)) /\ WF_vars(DeadlockVictim(r))

-----------------------------------------------------------------------------

\* Rows, locks and transactions have the shapes declared above, and an account
\* row names a user and an identity that exist.
TypeOK ==
    /\ row \in [Users -> Row]
    /\ accounts \subseteq Account
    /\ userLock \in [Users -> Requests \cup {None}]
    /\ idLock \in [Ids -> Requests \cup {None}]
    /\ req \in [Requests -> Request]

\* A deleted user keeps no provider account, whatever link, login or deletion
\* was under way when it went (the delete action removes them, and a link holds
\* the user's row from its status check to its commit).
DeletedOwnsNothing ==
    \A a \in accounts : row[a.owner].status \in {"active", "suspended"}

\* A user has at most one account at each provider.  Only the row lock taken by
\* link_oauth_account_to_user keeps this: no constraint of the table does.
OneAccountPerProvider ==
    \A a, b \in accounts : a.owner = b.owner /\ Provider[a.id] = Provider[b.id] => a = b

\* Both hold however linking, logging in and deleting overlap.
LinksAreSound == DeletedOwnsNothing /\ OneAccountPerProvider

\* An identity logs in one user (uq_oauth_accounts_provider_user).
OneOwnerPerId == \A a, b \in accounts : a.id = b.id => a = b

\* Every transaction ends, though two of them can wait for each other: a link
\* or a deletion takes the user before the account, a login the account first.
EveryTransactionEnds ==
    \A r \in Requests : req[r].step # "idle" ~> req[r].step = "idle"

\* However the statements interleave, linking, signing up through a provider
\* and deleting are single steps that act on the tables as they are.
Links == INSTANCE AccountLinks
ImplementsLinks == Links!Spec

=============================================================================
