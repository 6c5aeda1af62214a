--------------------------- MODULE UserLifecycle ---------------------------
(***************************************************************************)
(* The rows of the users table and the requests that write them: signup,   *)
(* by form or through a provider, profile edit, password change and the    *)
(* five actions of the user management page.  Every writer is a read, a    *)
(* decision made in Python on the value it read, and an UPDATE of some     *)
(* columns, with nothing between them: no row lock and no version check.   *)
(* A request in flight therefore holds the row as it was when it read it.  *)
(*                                                                         *)
(* Requests interleave between their reads and their writes.  The history  *)
(* variable overtaken tells whether a write has ever landed while another  *)
(* request was under way: until then the site behaves as if it handled one *)
(* request at a time.                                                      *)
(***************************************************************************)
CONSTANTS Users,     \* the ids of the accounts that may ever exist
          Names,     \* usernames; an email behaves alike
          Requests,  \* slots for the requests in flight
          CaseKey,   \* CaseKey[n]: n in lower case, what iexact compares
          Tombstone, \* Tombstone[u]: the name a deletion gives to u
          Nobody,    \* no user
          NoName     \* no username: the row does not exist

\* _deleted_username_value keeps eight digits of the id: a name that anybody may
\* have typed, and that two ids may share.
ASSUME ConstantsAssumption ==
    /\ CaseKey \in [Names -> Names]
    /\ Tombstone \in [Users -> Names]
    /\ NoName \notin Names
    /\ Nobody \notin Users

VARIABLES row,  \* row[u]: the committed row of user u
          req,  \* req[r]: the request in slot r
          overtaken  \* history: a request was under way when another wrote

vars == <<row, req, overtaken>>

Roles == {"user", "admin"}
Statuses == {"active", "suspended", "deleted"}
AdminActions == {"promote_admin", "demote_admin", "suspend", "activate", "delete"}
Joins == {"signup", "oauth"}
Writes == AdminActions \cup Joins \cup {"profile", "password"}

Row == [status : Statuses \cup {"absent"}, role : Roles,
        name : Names \cup {NoName}, password : BOOLEAN]

Absent == [status |-> "absent", role |-> "user", name |-> NoName, password |-> FALSE]

\* "view": the middleware has read the actor; "write": every check passed.
Request == [step : {"idle", "view", "write"}, action : Writes \cup {"none"},
            actor : Users \cup {Nobody}, target : Users \cup {Nobody},
            found : Row, name : Names \cup {NoName}]

Idle == [step |-> "idle", action |-> "none", actor |-> Nobody, target |-> Nobody,
         found |-> Absent, name |-> NoName]

Exists(u) == row[u].status # "absent"
Live(u) == row[u].status \in {"active", "suspended"}

\* Mutation: the forms compare letter for letter.
TakenAsTyped(n, self) == \E v \in Users \ {self} : row[v].name = n

\* username__iexact=n, the row of the user itself excluded.
TakenIgnoringCase(n, self) ==
    \E v \in Users \ {self} : Exists(v) /\ CaseKey[row[v].name] = CaseKey[n]

\* unique=True on users.username: the UPDATE or INSERT fails.
UniqueViolation(n, self) == \E v \in Users \ {self} : row[v].name = n

\* Mutation: an administrator may act on itself.
AllowedOnSelf(actor, target, t, action) ==
    CASE action = "promote_admin" -> t.role # "admin"
      [] action = "demote_admin"  -> t.role = "admin"
      [] action = "suspend"       -> t.status = "active"
      [] action = "activate"      -> t.status = "suspended"
      [] action = "delete"        -> t.status # "deleted"

\* Mutation: suspend and activate look at the status they write only.
AllowedOnDeleted(actor, target, t, action) ==
    /\ actor = target => action \notin {"demote_admin", "suspend", "delete"}
    /\ CASE action = "promote_admin" -> t.role # "admin"
         [] action = "demote_admin"  -> t.role = "admin"
         [] action = "suspend"       -> t.status # "suspended"
         [] action = "activate"      -> t.status # "active"
         [] action = "delete"        -> t.status # "deleted"

\* The checks _apply_admin_user_action makes on the row t it was given.
Allowed(actor, target, t, action) ==
    /\ actor = target => action \notin {"demote_admin", "suspend", "delete"}
    /\ CASE action = "promote_admin" -> t.role # "admin"
         [] action = "demote_admin"  -> t.role = "admin"
         [] action = "suspend"       -> t.status = "active"
         [] action = "activate"      -> t.status = "suspended"
         [] action = "delete"        -> t.status # "deleted"

\* Mutation: a deletion forgets the password.
AppliedKeepsPassword(t, u, action) ==
    CASE action = "promote_admin" -> [t EXCEPT !.role = "admin"]
      [] action = "demote_admin"  -> [t EXCEPT !.role = "user"]
      [] action = "suspend"       -> [t EXCEPT !.status = "suspended"]
      [] action = "activate"      -> [t EXCEPT !.status = "active"]
      [] action = "delete"        -> [t EXCEPT !.status = "deleted", !.role = "user",
                                               !.name = Tombstone[u]]

\* save(update_fields=...): the columns each action writes, the rest kept.
Applied(t, u, action) ==
    CASE action = "promote_admin" -> [t EXCEPT !.role = "admin"]
      [] action = "demote_admin"  -> [t EXCEPT !.role = "user"]
      [] action = "suspend"       -> [t EXCEPT !.status = "suspended"]
      [] action = "activate"      -> [t EXCEPT !.status = "active"]
      [] action = "delete"        -> [t EXCEPT !.status = "deleted", !.role = "user",
                                               !.password = FALSE, !.name = Tombstone[u]]

-----------------------------------------------------------------------------

InitialRow(u) ==
    {Absent, [status |-> "deleted", role |-> "user", name |-> Tombstone[u], password |-> FALSE]}
    \cup [status : {"active", "suspended"}, role : Roles, name : Names, password : BOOLEAN]

Init ==
    /\ row \in [Users -> UNION {InitialRow(u) : u \in Users}]
    /\ \A u \in Users : row[u] \in InitialRow(u)
    /\ \A u, v \in Users : u # v /\ Exists(u) => row[u].name # row[v].name
    /\ \A u, v \in Users :
          u # v /\ Live(u) /\ Live(v) => CaseKey[row[u].name] # CaseKey[row[v].name]
    /\ \E u \in Users : row[u].status = "active" /\ row[u].role = "admin"
    /\ req = [r \in Requests |-> Idle]
    /\ overtaken = FALSE

\* CurrentUserMiddleware: the session's user, if its row is active.  The view
\* works on this copy (all its columns but the password, read when needed).
Begin(r, u) ==
    /\ req[r].step = "idle"
    /\ row[u].status = "active"
    /\ req' = [req EXCEPT ![r] = [Idle EXCEPT !.step = "view", !.actor = u,
                                              !.target = u, !.found = row[u]]]
    /\ UNCHANGED row

\* A page that writes no user, or a form or an action whose checks fail.
Finish(r) ==
    /\ req[r].step = "view"
    /\ req' = [req EXCEPT ![r] = Idle]
    /\ UNCHANGED row

\* admin_required looks at the copy; get_object_or_404 reads the target.
AdminRead(r, t, action) ==
    /\ req[r].step = "view"
    /\ req[r].found.role = "admin"
    /\ Exists(t)
    /\ Allowed(req[r].actor, t, row[t], action)
    /\ req' = [req EXCEPT ![r].step = "write", ![r].action = action,
                          ![r].target = t, ![r].found = row[t]]
    /\ UNCHANGED row

\* save(update_fields=...).  A deletion fails when the name is not free.
AdminWrite(r) ==
    LET u == req[r].target IN
    /\ req[r].step = "write"
    /\ req[r].action \in AdminActions
    /\ row' = IF req[r].action = "delete" /\ UniqueViolation(Tombstone[u], u) THEN row
              ELSE [row EXCEPT ![u] = Applied(@, u, req[r].action)]
    /\ req' = [req EXCEPT ![r] = Idle]

\* ProfileEditForm.is_valid: clean_username on the table as it is now.
ProfileValidate(r, n) ==
    /\ req[r].step = "view"
    /\ ~TakenIgnoringCase(n, req[r].actor)
    /\ req' = [req EXCEPT ![r].step = "write", ![r].action = "profile", ![r].name = n]
    /\ UNCHANGED row

\* form.save() writes every column the copy has loaded: the edited ones, and
\* role and status as they were when the middleware read them.
ProfileSave(r) ==
    LET u == req[r].actor IN
    /\ req[r].step = "write"
    /\ req[r].action = "profile"
    /\ row' = IF UniqueViolation(req[r].name, u) THEN row
              ELSE [row EXCEPT ![u].name = req[r].name,
                               ![u].role = req[r].found.role,
                               ![u].status = req[r].found.status]
    /\ req' = [req EXCEPT ![r] = Idle]

\* password_hash was deferred by the middleware: read and checked here.
PasswordValidate(r) ==
    /\ req[r].step = "view"
    /\ row[req[r].actor].password
    /\ req' = [req EXCEPT ![r].step = "write", ![r].action = "password"]
    /\ UNCHANGED row

PasswordSave(r) ==
    /\ req[r].step = "write"
    /\ req[r].action = "password"
    /\ row' = [row EXCEPT ![req[r].actor].password = TRUE]
    /\ req' = [req EXCEPT ![r] = Idle]

\* SignUpForm.is_valid, for a visitor who is not logged in; or the first login
\* through a provider, where _build_unique_username makes a name in lower case
\* that is not taken.  The id of the row to come is a fresh uuid: one no row has
\* and no other signup drew.
SignupValidate(r, n, u, action) ==
    /\ req[r].step = "idle"
    /\ action = "oauth" => CaseKey[n] = n
    /\ ~TakenIgnoringCase(n, Nobody)
    /\ ~Exists(u)
    /\ \A s \in Requests : req[s].target # u
    /\ req' = [req EXCEPT ![r] = [Idle EXCEPT !.step = "write", !.action = action,
                                              !.target = u, !.name = n]]
    /\ UNCHANGED row

\* The row is inserted, or the unique index refuses it.
SignupSave(r) ==
    LET u == req[r].target IN
    /\ req[r].step = "write"
    /\ req[r].action \in Joins
    /\ row' = IF UniqueViolation(req[r].name, u) THEN row
              ELSE [row EXCEPT ![u] = [status |-> "active", role |-> "user",
                                       name |-> req[r].name,
                                       password |-> req[r].action = "signup"]]
    /\ req' = [req EXCEPT ![r] = Idle]

Step(r) ==
    \/ \E u \in Users : Begin(r, u)
    \/ Finish(r)
    \/ \E t \in Users, action \in AdminActions : AdminRead(r, t, action)
    \/ AdminWrite(r)
    \/ \E n \in Names : ProfileValidate(r, n)
    \/ ProfileSave(r)
    \/ PasswordValidate(r)
    \/ PasswordSave(r)
    \/ \E n \in Names, u \in Users, action \in Joins : SignupValidate(r, n, u, action)
    \/ SignupSave(r)

\* The step of r changes the table while another request holds what it read.
Overtakes(r) == row' # row /\ \E s \in Requests \ {r} : req[s].step # "idle"

Next ==
    \E r \in Requests : Step(r) /\ overtaken' = (overtaken \/ Overtakes(r))

Spec == Init /\ [][Next]_vars

-----------------------------------------------------------------------------

\* Rows and requests have the shapes declared above.  A row that exists has a
\* name: users.username is NOT NULL, whatever the actions write to it.
RowsOK ==
    /\ row \in [Users -> Row]
    /\ req \in [Requests -> Request]
    /\ \A u \in Users : Exists(u) <=> row[u].name # NoName

\* Every variable has its type, and every row of users has a name.
TypeOK == RowsOK /\ overtaken \in BOOLEAN

\* No two accounts hold the same username, letter for letter, whatever signups,
\* renames and deletions interleave, a deletion included that wants a name
\* somebody has typed (HiveUser.username, unique).
NamesUnique ==
    \A u, v \in Users : u # v /\ Exists(u) => row[u].name # row[v].name

\* The forms refuse a name that differs from another account's in case only
\* (username__iexact).  As long as no write has landed between another request's
\* read and its write no two accounts in use ever do, though the index would
\* allow it and a deletion does not ask.
NamesUniqueIgnoringCase ==
    overtaken \/ \A u, v \in Users :
        u # v /\ Live(u) /\ Live(v) => CaseKey[row[u].name] # CaseKey[row[v].name]

\* The guard "not your own admin rights, not your own account" of
\* _apply_admin_user_action keeps somebody able to open the admin pages.  The
\* site loses its last active administrator only after a write has landed
\* while another request was under way, as when two of them demote each other.
AtLeastOneActiveAdmin ==
    overtaken \/ \E u \in Users : row[u].status = "active" /\ row[u].role = "admin"

\* "A removed user cannot be activated again" (the error of the activate
\* action): the status of a deleted account never changes.
DeletedIsTerminal ==
    [][\A u \in Users : row[u].status = "deleted" => row'[u].status = "deleted"]_vars

\* A deleted account has given up its username and its password, and until a
\* write overtakes a request nothing gives it another.
DeletedIsScrubbed ==
    overtaken \/ \A u \in Users : row[u].status = "deleted" =>
        row[u].name = Tombstone[u] /\ ~row[u].password

\* Role and status of an existing account change by an admin action that was
\* aimed at it and found allowed, and by nothing else: not by the owner's own
\* profile edit or password change, unless an admin action overtook it.
RoleAndStatusByAdminOnly ==
    [][\A u \in Users :
        Exists(u) /\ (row'[u].role # row[u].role \/ row'[u].status # row[u].status)
            => \/ overtaken
               \/ \E r \in Requests : req[r].target = u /\ req[r].action \in AdminActions]_vars

\* However many requests interleave, an account leaves the deleted status only
\* by the write of a request that read its row before the deletion: no request
\* that began afterwards can bring it back.
ReturnNeedsStaleRead ==
    [][\A u \in Users :
        row[u].status = "deleted" /\ row'[u].status # "deleted"
            => \E r \in Requests : /\ req[r].step = "write"
                                   /\ req[r].target = u
                                   /\ req[r].found.status # "deleted"]_vars

\* Until a write overtakes a request, every handler is a single step of the
\* directory: the row it decides on is the row it writes.
Directory == INSTANCE AccountDirectory WITH account <- row
ImplementsDirectory == Directory!Init /\ [][overtaken \/ [Directory!Next]_row]_vars

=============================================================================
