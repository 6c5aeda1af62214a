------------------------ MODULE UserLifecycleProofs ------------------------
(***************************************************************************)
(* What UserLifecycle guarantees for every number of accounts, names and   *)
(* requests in flight, and what it guarantees besides until a write        *)
(* overtakes another request.                                              *)
(***************************************************************************)
EXTENDS UserLifecycle, TLAPS

-----------------------------------------------------------------------------
(* Any number of requests in flight                                        *)

\* What a request in flight knows that no other request can make false: the
\* rows it is about to write exist, except the one a signup will insert, and
\* the checks it made hold of the row it read.
RequestOK(r) ==
    /\ req[r].step = "view" =>
          /\ req[r].actor \in Users
          /\ req[r].target = req[r].actor
          /\ Exists(req[r].actor)
          /\ req[r].found.status = "active"
    /\ req[r].step = "write" => req[r].action \in Writes
    /\ req[r].step = "write" /\ req[r].action \in AdminActions =>
          /\ req[r].target \in Users
          /\ Exists(req[r].target)
          /\ Allowed(req[r].actor, req[r].target, req[r].found, req[r].action)
    /\ req[r].step = "write" /\ req[r].action \in {"profile", "password"} =>
          /\ req[r].actor \in Users
          /\ req[r].target = req[r].actor
          /\ Exists(req[r].actor)
          /\ req[r].found.status = "active"
    /\ req[r].step = "write" /\ req[r].action = "profile" => req[r].name \in Names
    /\ req[r].step = "write" /\ req[r].action \in Joins =>
          /\ req[r].target \in Users
          /\ ~Exists(req[r].target)
          /\ req[r].name \in Names

\* Two signups never draw the same id.
FreshIds ==
    \A r, s \in Requests :
        /\ r # s
        /\ req[r].step = "write" /\ req[r].action \in Joins
        /\ req[s].step = "write" /\ req[s].action \in Joins
        => req[r].target # req[s].target

IInv ==
    /\ RowsOK
    /\ NamesUnique
    /\ FreshIds
    /\ \A r \in Requests : RequestOK(r)

USE DEF Roles, Statuses, AdminActions, Writes, Joins

LEMMA InitIInv == Init => IInv
  <1> SUFFICES ASSUME Init PROVE IInv
    OBVIOUS
  <1> USE ConstantsAssumption
  <1>1. ASSUME NEW u \in Users
        PROVE  /\ row[u] \in Row
               /\ Exists(u) <=> row[u].name # NoName
    <2>1. row[u] \in InitialRow(u)
      BY DEF Init
    <2>2. CASE row[u] = Absent
      BY <2>2 DEF Row, Absent, Exists
    <2>3. CASE row[u] = [status |-> "deleted", role |-> "user", name |-> Tombstone[u], password |-> FALSE]
      BY <2>3 DEF Row, Exists
    <2>4. CASE row[u] \in [status : {"active", "suspended"}, role : Roles,
                           name : Names, password : BOOLEAN]
      BY <2>4 DEF Row, Exists
    <2> QED
      BY <2>1, <2>2, <2>3, <2>4 DEF InitialRow
  <1>2. Absent \in Row /\ Idle \in Request
    BY DEF Absent, Row, Idle, Request
  <1>3. row = [u \in Users |-> row[u]]
    BY DEF Init
  <1>4. RowsOK
    BY <1>1, <1>2, <1>3 DEF RowsOK, Init
  <1>6. NamesUnique
    BY DEF NamesUnique, Init
  <1>7. FreshIds /\ \A r \in Requests : RequestOK(r)
    BY DEF Init, FreshIds, RequestOK, Idle
  <1> QED
    BY <1>4, <1>6, <1>7 DEF IInv

\* A step that only moves one request on keeps the invariant.
LEMMA ReadStep ==
  ASSUME IInv, NEW r \in Requests, NEW q \in Request,
         UNCHANGED row, req' = [req EXCEPT ![r] = q], RequestOK(r)',
         q.step = "write" /\ q.action \in Joins =>
             \A s \in Requests : req[s].target # q.target
  PROVE  IInv'
  <1>1. RowsOK' /\ NamesUnique'
    BY DEF IInv, RowsOK, NamesUnique, Exists
  <1>2. FreshIds'
    BY DEF IInv, RowsOK, FreshIds
  <1>3. ASSUME NEW s \in Requests PROVE RequestOK(s)'
    <2>1. CASE s = r
      BY <2>1
    <2>2. CASE s # r
      <3>1. RequestOK(s) /\ req'[s] = req[s]
        BY <2>2 DEF IInv, RowsOK
      <3> QED
        BY <3>1 DEF RequestOK, Exists
    <2> QED
      BY <2>1, <2>2
  <1> QED
    BY <1>1, <1>2, <1>3 DEF IInv

\* A step that ends a request and writes one row keeps it, when the row exists
\* or is the one the request inserts, and no other row has its name.
LEMMA WriteStep ==
  ASSUME IInv, NEW r \in Requests, NEW u \in Users, NEW t \in Row,
         row' = [row EXCEPT ![u] = t], req' = [req EXCEPT ![r] = Idle],
         t.status # "absent", t.name \in Names,
         \A v \in Users \ {u} : row[v].name # t.name,
         \/ Exists(u)
         \/ req[r].step = "write" /\ req[r].action \in Joins /\ req[r].target = u
  PROVE  IInv'
  <1> USE ConstantsAssumption
  <1>1. Idle \in Request
    BY DEF Idle, Request, Absent, Row
  <1>2. RowsOK' /\ NamesUnique'
    <2>1. RowsOK'
      BY <1>1 DEF IInv, RowsOK, Exists
    <2>2. NamesUnique'
      BY DEF IInv, RowsOK, NamesUnique, Exists
    <2> QED
      BY <2>1, <2>2
  <1>3. FreshIds'
    BY DEF IInv, RowsOK, FreshIds, Idle
  <1>4. ASSUME NEW s \in Requests PROVE RequestOK(s)'
    <2>1. CASE s = r
      BY <2>1 DEF IInv, RowsOK, RequestOK, Idle
    <2>2. CASE s # r
      <3>1. RequestOK(s) /\ req'[s] = req[s]
        BY <2>2 DEF IInv, RowsOK
      <3>2. \A v \in Users : Exists(v) => Exists(v)'
        BY DEF IInv, RowsOK, Exists
      <3>3. req[s].step = "write" /\ req[s].action \in Joins => ~Exists(req[s].target)'
        BY <2>2, <3>1 DEF IInv, RowsOK, Exists, FreshIds, RequestOK
      <3> QED
        BY <3>1, <3>2, <3>3 DEF RequestOK
    <2> QED
      BY <2>1, <2>2
  <1> QED
    BY <1>2, <1>3, <1>4 DEF IInv

LEMMA NextIInv == IInv /\ [Next]_vars => IInv'
  <1> SUFFICES ASSUME IInv, [Next]_vars PROVE IInv'
    OBVIOUS
  <1> USE ConstantsAssumption
  <1>idle. Idle \in Request /\ Absent \in Row
    BY DEF Idle, Request, Absent, Row
  <1>1. ASSUME NEW r \in Requests, NEW u \in Users, Begin(r, u) PROVE IInv'
    <2> DEFINE q == [Idle EXCEPT !.step = "view", !.actor = u, !.target = u, !.found = row[u]]
    <2>1. q \in Request
      BY <1>idle DEF IInv, RowsOK, Idle, Request
    <2>2. RequestOK(r)'
      BY <1>1 DEF Begin, RequestOK, Idle, IInv, RowsOK, Exists
    <2> QED
      BY <1>1, <2>1, <2>2, ReadStep DEF Begin, Idle
  <1>2. ASSUME NEW r \in Requests, Finish(r) PROVE IInv'
    BY <1>2, <1>idle, ReadStep DEF Finish, RequestOK, Idle, IInv, RowsOK
  <1>3. ASSUME NEW r \in Requests, NEW t \in Users, NEW action \in AdminActions,
               AdminRead(r, t, action)
        PROVE  IInv'
    <2> DEFINE q == [req[r] EXCEPT !.step = "write", !.action = action,
                                   !.target = t, !.found = row[t]]
    <2>1. req[r] \in Request /\ row[t] \in Row
      BY DEF IInv, RowsOK
    <2>2. q \in Request
      BY <2>1 DEF Request
    <2>3. req' = [req EXCEPT ![r] = q] /\ UNCHANGED row
      BY <1>3 DEF AdminRead
    <2>4. RequestOK(r)'
      BY <1>3, <2>1, <2>3 DEF AdminRead, RequestOK, IInv, RowsOK, Request, Exists
    <2> QED
      BY <2>1, <2>2, <2>3, <2>4, ReadStep DEF Request
  <1>4. ASSUME NEW r \in Requests, AdminWrite(r) PROVE IInv'
    <2> DEFINE u == req[r].target
               t == Applied(row[u], u, req[r].action)
    <2>1. u \in Users /\ Exists(u) /\ row[u] \in Row
      BY <1>4 DEF AdminWrite, IInv, RowsOK, RequestOK
    <2>2. CASE req[r].action = "delete" /\ UniqueViolation(Tombstone[u], u)
      <3>1. UNCHANGED row /\ req' = [req EXCEPT ![r] = Idle]
        BY <1>4, <2>2 DEF AdminWrite
      <3>2. RequestOK(r)'
        BY <3>1 DEF RequestOK, Idle, IInv, RowsOK
      <3> QED
        BY <1>idle, <3>1, <3>2, ReadStep DEF Idle
    <2>3. CASE ~(req[r].action = "delete" /\ UniqueViolation(Tombstone[u], u))
      <3>1. /\ t \in Row
            /\ t.status # "absent"
            /\ t.name = IF req[r].action = "delete" THEN Tombstone[u] ELSE row[u].name
        BY <1>4, <2>1 DEF AdminWrite, Applied, Row, Exists
      <3>2. t.name \in Names /\ \A v \in Users \ {u} : row[v].name # t.name
        BY <2>1, <2>3, <3>1 DEF IInv, RowsOK, NamesUnique, UniqueViolation, Row
      <3>3. row' = [row EXCEPT ![u] = t] /\ req' = [req EXCEPT ![r] = Idle]
        BY <1>4, <2>3 DEF AdminWrite
      <3> HIDE DEF t
      <3> QED
        BY <2>1, <3>1, <3>2, <3>3, WriteStep
    <2> QED
      BY <2>2, <2>3
  <1>5. ASSUME NEW r \in Requests, NEW n \in Names, ProfileValidate(r, n) PROVE IInv'
    <2> DEFINE q == [req[r] EXCEPT !.step = "write", !.action = "profile", !.name = n]
    <2>1. req[r] \in Request
      BY DEF IInv, RowsOK
    <2>2. q \in Request
      BY <2>1 DEF Request
    <2>3. req' = [req EXCEPT ![r] = q] /\ UNCHANGED row
      BY <1>5 DEF ProfileValidate
    <2>4. RequestOK(r)'
      BY <1>5, <2>1, <2>3 DEF ProfileValidate, RequestOK, IInv, RowsOK, Request, Exists
    <2> QED
      BY <2>1, <2>2, <2>3, <2>4, ReadStep DEF Request
  <1>6. ASSUME NEW r \in Requests, ProfileSave(r) PROVE IInv'
    <2> DEFINE u == req[r].actor
               t == [row[u] EXCEPT !.name = req[r].name, !.role = req[r].found.role,
                                   !.status = req[r].found.status]
    <2>1. /\ u \in Users /\ Exists(u) /\ row[u] \in Row
          /\ req[r].found \in Row /\ req[r].found.status = "active" /\ req[r].name \in Names
      BY <1>6 DEF ProfileSave, IInv, RowsOK, RequestOK, Request
    <2>2. CASE UniqueViolation(req[r].name, u)
      <3>1. UNCHANGED row /\ req' = [req EXCEPT ![r] = Idle]
        BY <1>6, <2>2 DEF ProfileSave
      <3>2. RequestOK(r)'
        BY <3>1 DEF RequestOK, Idle, IInv, RowsOK
      <3> QED
        BY <1>idle, <3>1, <3>2, ReadStep DEF Idle
    <2>3. CASE ~UniqueViolation(req[r].name, u)
      <3>1. t \in Row /\ t.status # "absent" /\ t.name \in Names
        BY <2>1 DEF Row
      <3>2. \A v \in Users \ {u} : row[v].name # t.name
        BY <2>1, <2>3 DEF UniqueViolation, Row
      <3>3. row' = [row EXCEPT ![u] = t] /\ req' = [req EXCEPT ![r] = Idle]
        BY <1>6, <2>3 DEF ProfileSave
      <3> HIDE DEF t
      <3> QED
        BY <2>1, <3>1, <3>2, <3>3, WriteStep
    <2> QED
      BY <2>2, <2>3
  <1>7. ASSUME NEW r \in Requests, PasswordValidate(r) PROVE IInv'
    <2> DEFINE q == [req[r] EXCEPT !.step = "write", !.action = "password"]
    <2>1. req[r] \in Request
      BY DEF IInv, RowsOK
    <2>2. q \in Request
      BY <2>1 DEF Request
    <2>3. req' = [req EXCEPT ![r] = q] /\ UNCHANGED row
      BY <1>7 DEF PasswordValidate
    <2>4. RequestOK(r)'
      BY <1>7, <2>1, <2>3 DEF PasswordValidate, RequestOK, IInv, RowsOK, Request, Exists
    <2> QED
      BY <2>1, <2>2, <2>3, <2>4, ReadStep DEF Request
  <1>8. ASSUME NEW r \in Requests, PasswordSave(r) PROVE IInv'
    <2> DEFINE u == req[r].actor
               t == [row[u] EXCEPT !.password = TRUE]
    <2>1. u \in Users /\ Exists(u) /\ row[u] \in Row
      BY <1>8 DEF PasswordSave, IInv, RowsOK, RequestOK
    <2>2. t \in Row /\ t.status # "absent" /\ t.name = row[u].name
      BY <2>1 DEF Row, Exists
    <2>3. t.name \in Names /\ \A v \in Users \ {u} : row[v].name # t.name
      BY <2>1, <2>2 DEF IInv, RowsOK, NamesUnique, Row
    <2>4. row' = [row EXCEPT ![u] = t] /\ req' = [req EXCEPT ![r] = Idle]
      BY <1>8 DEF PasswordSave
    <2> HIDE DEF t
    <2> QED
      BY <2>1, <2>2, <2>3, <2>4, WriteStep
  <1>9. ASSUME NEW r \in Requests, NEW n \in Names, NEW u \in Users, NEW action \in Joins,
               SignupValidate(r, n, u, action)
        PROVE  IInv'
    <2> DEFINE q == [Idle EXCEPT !.step = "write", !.action = action,
                                 !.target = u, !.name = n]
    <2>1. q \in Request
      BY <1>idle DEF Idle, Request
    <2>2. RequestOK(r)'
      BY <1>9 DEF SignupValidate, RequestOK, Idle, IInv, RowsOK, Exists
    <2>3. req' = [req EXCEPT ![r] = q] /\ UNCHANGED row
      BY <1>9 DEF SignupValidate
    <2>4. \A s \in Requests : req[s].target # q.target
      BY <1>9 DEF SignupValidate, Idle
    <2> QED
      BY <2>1, <2>2, <2>3, <2>4, ReadStep
  <1>10. ASSUME NEW r \in Requests, SignupSave(r) PROVE IInv'
    <2> DEFINE u == req[r].target
               t == [status |-> "active", role |-> "user", name |-> req[r].name,
                     password |-> req[r].action = "signup"]
    <2>1. u \in Users /\ req[r].name \in Names
      BY <1>10 DEF SignupSave, IInv, RequestOK
    <2>2. CASE UniqueViolation(req[r].name, u)
      <3>1. UNCHANGED row /\ req' = [req EXCEPT ![r] = Idle]
        BY <1>10, <2>2 DEF SignupSave
      <3>2. RequestOK(r)'
        BY <3>1 DEF RequestOK, Idle, IInv, RowsOK
      <3> QED
        BY <1>idle, <3>1, <3>2, ReadStep DEF Idle
    <2>3. CASE ~UniqueViolation(req[r].name, u)
      <3>1. t \in Row /\ t.status # "absent" /\ t.name \in Names
        BY <2>1 DEF Row
      <3>2. \A v \in Users \ {u} : row[v].name # t.name
        BY <2>3 DEF UniqueViolation
      <3>3. row' = [row EXCEPT ![u] = t] /\ req' = [req EXCEPT ![r] = Idle]
        BY <1>10, <2>3 DEF SignupSave
      <3>4. req[r].step = "write" /\ req[r].action \in Joins
        BY <1>10 DEF SignupSave
      <3> HIDE DEF t
      <3> QED
        BY <2>1, <3>1, <3>2, <3>3, <3>4, WriteStep
    <2> QED
      BY <2>2, <2>3
  <1>11. CASE UNCHANGED vars
    BY <1>11 DEF vars, IInv, RowsOK, NamesUnique, FreshIds, RequestOK, Exists
  <1> QED
    BY <1>1, <1>2, <1>3, <1>4, <1>5, <1>6, <1>7, <1>8, <1>9, <1>10, <1>11 DEF Next, Step

LEMMA Invariance == Spec => []IInv
  BY InitIInv, NextIInv, PTL DEF Spec

\* Every row and request keeps its declared shape, and every row that exists
\* has a username (users.username is NOT NULL), for any number of requests.
THEOREM TypeCorrect == Spec => []TypeOK
  <1>1. Init => overtaken \in BOOLEAN
    BY DEF Init
  <1>2. overtaken \in BOOLEAN /\ [Next]_vars => (overtaken \in BOOLEAN)'
    BY DEF Next, vars
  <1>3. IInv /\ overtaken \in BOOLEAN => TypeOK
    BY DEF IInv, TypeOK
  <1> QED
    BY <1>1, <1>2, <1>3, Invariance, PTL DEF Spec

\* No two accounts ever hold the same username, letter for letter, however many
\* signups, profile edits and deletions interleave.
THEOREM UsernamesAreUnique == Spec => []NamesUnique
  <1>1. IInv => NamesUnique
    BY DEF IInv
  <1> QED
    BY <1>1, Invariance, PTL

\* However many requests interleave, a deleted account is brought back only by
\* the write of a request that had read its row before the deletion.
THEOREM OnlyStaleReadsResurrect == Spec => ReturnNeedsStaleRead
  <1> DEFINE A == \A u \in Users :
                    row[u].status = "deleted" /\ row'[u].status # "deleted"
                      => \E r \in Requests : /\ req[r].step = "write"
                                             /\ req[r].target = u
                                             /\ req[r].found.status # "deleted"
  <1>1. IInv /\ [Next]_vars => [A]_vars
    <2> SUFFICES ASSUME IInv, Next, NEW u \in Users,
                        row[u].status = "deleted", row'[u].status # "deleted"
                 PROVE  \E r \in Requests : /\ req[r].step = "write"
                                            /\ req[r].target = u
                                            /\ req[r].found.status # "deleted"
      OBVIOUS
    <2>1. PICK r \in Requests : AdminWrite(r) \/ ProfileSave(r) \/ PasswordSave(r)
                                \/ SignupSave(r)
      BY DEF Next, Step, Begin, Finish, AdminRead, ProfileValidate, PasswordValidate, SignupValidate
    <2>2. RequestOK(r) /\ row \in [Users -> Row] /\ row[u] \in Row
      BY DEF IInv, RowsOK
    <2>3. CASE AdminWrite(r)
      <3>1. req[r].target = u /\ req[r].step = "write" /\ req[r].action \in AdminActions
        BY <2>2, <2>3 DEF AdminWrite
      <3>2. req[r].action \in {"suspend", "activate"}
        BY <2>2, <2>3, <3>1 DEF AdminWrite, Applied, Row
      <3>3. req[r].found.status # "deleted"
        BY <2>2, <3>1, <3>2 DEF RequestOK, Allowed
      <3> QED
        BY <3>1, <3>3
    <2>4. CASE ProfileSave(r)
      BY <2>2, <2>4 DEF ProfileSave, RequestOK
    <2>5. CASE PasswordSave(r)
      BY <2>2, <2>5 DEF PasswordSave, RequestOK, Row
    <2>6. CASE SignupSave(r)
      BY <2>2, <2>6 DEF SignupSave, RequestOK, Exists
    <2> QED
      BY <2>1, <2>3, <2>4, <2>5, <2>6
  <1> QED
    BY <1>1, Invariance, PTL DEF Spec, ReturnNeedsStaleRead

-----------------------------------------------------------------------------
(* Until a write overtakes another request                                 *)

\* What a request that was not overtaken has read is what the table holds, and
\* the checks it made are true now.
Fresh(r) ==
    /\ req[r].step = "view" => req[r].found = row[req[r].actor]
    /\ req[r].step = "write" /\ req[r].action \in AdminActions =>
          /\ req[r].found = row[req[r].target]
          /\ req[r].actor \in Users
          /\ Directory!Admin(req[r].actor)
    /\ req[r].step = "write" /\ req[r].action \in {"profile", "password"} =>
          req[r].found = row[req[r].actor]
    /\ req[r].step = "write" /\ req[r].action = "profile" =>
          ~TakenIgnoringCase(req[r].name, req[r].actor)
    /\ req[r].step = "write" /\ req[r].action = "password" => row[req[r].actor].password
    /\ req[r].step = "write" /\ req[r].action \in Joins =>
          ~TakenIgnoringCase(req[r].name, Nobody)

\* Requests hold fresh rows, and the accounts are what a directory keeps:
\* somebody can administer them, names differ in every spelling, removed accounts
\* are anonymous.
SInv ==
    /\ IInv
    /\ overtaken \/ (/\ \A r \in Requests : Fresh(r)
                    /\ Directory!Init)

\* A step of another request that changes no row, or that begins while r is
\* idle, leaves what r has read fresh.
LEMMA OthersStep ==
  ASSUME RowsOK, NEW r \in Requests, NEW s \in Requests, s # r, Step(s), Fresh(r),
         ~Overtakes(s)
  PROVE  Fresh(r)'
  <1>1. req'[r] = req[r]
    BY DEF RowsOK, Step, Begin, Finish, AdminRead, AdminWrite, ProfileValidate, ProfileSave,
           PasswordValidate, PasswordSave, SignupValidate, SignupSave
  <1>2. CASE UNCHANGED row
    BY <1>1, <1>2 DEF Fresh, TakenIgnoringCase, Exists, Directory!Admin
  <1>3. CASE row' # row
    BY <1>1, <1>3 DEF Overtakes, Fresh
  <1> QED
    BY <1>2, <1>3

\* The step of r itself: what it reads is fresh, what it wrote is done with.
LEMMA OwnStep ==
  ASSUME IInv, NEW r \in Requests, Step(r), Fresh(r) PROVE Fresh(r)'
  <1> USE ConstantsAssumption
  <1>0. /\ RequestOK(r)
        /\ row \in [Users -> Row] /\ req \in [Requests -> Request]
        /\ req[r] \in Request
    BY DEF IInv, RowsOK
  <1>1. ASSUME NEW u \in Users, Begin(r, u) PROVE Fresh(r)'
    BY <1>0, <1>1 DEF Begin, Fresh, Idle
  <1>2. ASSUME AdminWrite(r) \/ ProfileSave(r) \/ PasswordSave(r) \/ SignupSave(r) \/ Finish(r)
        PROVE Fresh(r)'
    BY <1>0, <1>2 DEF AdminWrite, ProfileSave, PasswordSave, SignupSave, Finish, Fresh, Idle
  <1>3. ASSUME NEW t \in Users, NEW action \in AdminActions, AdminRead(r, t, action)
        PROVE  Fresh(r)'
    BY <1>0, <1>3 DEF AdminRead, Fresh, RequestOK, Request, Directory!Admin
  <1>4. ASSUME NEW n \in Names, ProfileValidate(r, n) PROVE Fresh(r)'
    BY <1>0, <1>4 DEF ProfileValidate, Fresh, Request, RequestOK, TakenIgnoringCase, Exists
  <1>5. ASSUME PasswordValidate(r) PROVE Fresh(r)'
    BY <1>0, <1>5 DEF PasswordValidate, Fresh, Request, RequestOK
  <1>6. ASSUME NEW n \in Names, NEW u \in Users, NEW action \in Joins,
               SignupValidate(r, n, u, action)
        PROVE  Fresh(r)'
    BY <1>0, <1>6 DEF SignupValidate, Fresh, Idle, TakenIgnoringCase, Exists
  <1> QED
    BY <1>1, <1>2, <1>3, <1>4, <1>5, <1>6 DEF Step

LEMMA InitDirectory == Init => Directory!Init
  <1> SUFFICES ASSUME Init PROVE Directory!Init
    OBVIOUS
  <1>1. ASSUME NEW u \in Users, NEW v \in Users, u # v, Directory!Live(u), Directory!Live(v)
        PROVE  CaseKey[row[u].name] # CaseKey[row[v].name]
    BY <1>1 DEF Init, Live, Directory!Live
  <1>2. ASSUME NEW u \in Users, row[u].status = "deleted"
        PROVE  row[u].name = Tombstone[u] /\ ~row[u].password
    BY <1>2 DEF Init, InitialRow, Absent
  <1>3. \E a \in Users : Directory!Admin(a)
    BY DEF Init, Directory!Admin
  <1> QED
    BY <1>1, <1>2, <1>3 DEF Directory!Init

\* Every write of a fresh request is one step of the directory, and every other
\* step of it leaves the accounts alone.
LEMMA NextDirectory ==
  ASSUME IInv, \A r \in Requests : Fresh(r), [Next]_vars PROVE [Directory!Next]_row
  <1> USE ConstantsAssumption
  <1>1. CASE UNCHANGED row
    BY <1>1
  <1>2. CASE \E r \in Requests : AdminWrite(r) \/ ProfileSave(r) \/ PasswordSave(r) \/ SignupSave(r)
    <2>1. PICK r \in Requests : AdminWrite(r) \/ ProfileSave(r) \/ PasswordSave(r) \/ SignupSave(r)
      BY <1>2
    <2>2. /\ Fresh(r) /\ RequestOK(r)
          /\ row \in [Users -> Row] /\ req[r] \in Request
      BY DEF IInv, RowsOK
    <2>3. CASE AdminWrite(r) /\ ~UNCHANGED row
      <3> DEFINE a == req[r].actor
                 u == req[r].target
                 t == Applied(row[u], u, req[r].action)
      <3>1. /\ a \in Users /\ u \in Users /\ row[u] \in Row /\ req[r].action \in AdminActions
            /\ Directory!Admin(a) /\ Directory!Known(u)
            /\ Allowed(a, u, row[u], req[r].action)
        BY <2>2, <2>3 DEF AdminWrite, Fresh, RequestOK, Exists, Directory!Known
      <3>2. row' = [row EXCEPT ![u] = t]
        BY <2>2, <2>3 DEF AdminWrite
      <3>3. CASE req[r].action = "promote_admin"
        <4>1. t = [row[u] EXCEPT !.role = "admin"]
          BY <3>3 DEF Applied
        <4> QED
          BY <3>1, <3>2, <4>1 DEF Directory!Next, Directory!Grant
      <3>4. CASE req[r].action = "demote_admin"
        <4>1. t = [row[u] EXCEPT !.role = "user"] /\ a # u
          BY <3>1, <3>4 DEF Applied, Allowed
        <4> QED
          BY <3>1, <3>2, <4>1 DEF Directory!Next, Directory!Revoke
      <3>5. CASE req[r].action = "suspend"
        <4>1. t = [row[u] EXCEPT !.status = "suspended"] /\ a # u /\ row[u].status = "active"
          BY <3>1, <3>5 DEF Applied, Allowed
        <4> QED
          BY <3>1, <3>2, <4>1 DEF Directory!Next, Directory!Suspend
      <3>6. CASE req[r].action = "activate"
        <4>1. t = [row[u] EXCEPT !.status = "active"] /\ row[u].status = "suspended"
          BY <3>1, <3>6 DEF Applied, Allowed
        <4> QED
          BY <3>1, <3>2, <4>1 DEF Directory!Next, Directory!Reinstate
      <3>7. CASE req[r].action = "delete"
        <4>1. t = [status |-> "deleted", role |-> "user", name |-> Tombstone[u],
                    password |-> FALSE]
          BY <3>1, <3>7 DEF Applied, Row
        <4>2. a # u /\ Directory!Live(u)
          BY <3>1, <3>7 DEF Allowed, Row, Directory!Known, Directory!Live
        <4> HIDE DEF t
        <4>3. Directory!Remove(a, u)
          BY <3>1, <3>2, <4>1, <4>2 DEF Directory!Remove
        <4> QED
          BY <3>1, <4>3 DEF Directory!Next
      <3> QED
        BY <3>1, <3>3, <3>4, <3>5, <3>6, <3>7
    <2>4. CASE ProfileSave(r) /\ ~UNCHANGED row
      <3> DEFINE u == req[r].actor
                 n == req[r].name
      <3>1. u \in Users /\ n \in Names /\ row[u] \in Row /\ row[u].status = "active"
        BY <2>2, <2>4 DEF ProfileSave, RequestOK, Fresh
      <3>2. Directory!Free(n, u)
        BY <2>2, <2>4 DEF ProfileSave, Fresh, TakenIgnoringCase, Exists, Directory!Free, Directory!Known
      <3>3. row' = [row EXCEPT ![u].name = n]
        BY <2>2, <2>4 DEF ProfileSave, Fresh, Row
      <3> QED
        BY <3>1, <3>2, <3>3 DEF Directory!Next, Directory!Rename
    <2>5. CASE PasswordSave(r)
      <3> DEFINE u == req[r].actor
      <3>1. u \in Users /\ row[u] \in Row /\ row[u].password
        BY <2>2, <2>5 DEF PasswordSave, RequestOK, Fresh
      <3>2. row[u].password = TRUE
        BY <3>1 DEF Row
      <3>3. [row[u] EXCEPT !.password = TRUE] = row[u]
        BY <3>1, <3>2 DEF Row
      <3>4. UNCHANGED row
        BY <2>2, <2>5, <3>1, <3>3 DEF PasswordSave
      <3> QED
        BY <3>4
    <2>6. CASE SignupSave(r) /\ ~UNCHANGED row
      <3> DEFINE u == req[r].target
                 n == req[r].name
      <3>1. u \in Users /\ n \in Names /\ ~Directory!Known(u)
        BY <2>2, <2>6 DEF SignupSave, RequestOK, Exists, Directory!Known
      <3>2. Directory!Free(n, u)
        BY <2>2, <2>6 DEF SignupSave, Fresh, TakenIgnoringCase, Exists, Directory!Free, Directory!Known
      <3>3. Directory!Register(u, n, req[r].action = "signup")
        BY <2>6, <3>1, <3>2 DEF SignupSave, Directory!Register
      <3> QED
        BY <3>1, <3>3 DEF Directory!Next
    <2> QED
      BY <2>1, <2>3, <2>4, <2>5, <2>6, <1>1
  <1>3. UNCHANGED row \/ \E r \in Requests :
            AdminWrite(r) \/ ProfileSave(r) \/ PasswordSave(r) \/ SignupSave(r)
    BY DEF Next, Step, vars, Begin, Finish, AdminRead, ProfileValidate, PasswordValidate,
           SignupValidate
  <1> QED
    BY <1>1, <1>2, <1>3

LEMMA NextDirectoryInv ==
  ASSUME row \in [Users -> Row], Directory!Init, [Directory!Next]_row PROVE Directory!Init'
  <1> USE ConstantsAssumption DEF Row, Directory!Init, Directory!Admin, Directory!Known,
          Directory!Live
  <1>1. ASSUME NEW a \in Users, NEW u \in Users, Directory!Grant(a, u) PROVE Directory!Init'
    BY <1>1 DEF Directory!Grant
  <1>2. ASSUME NEW a \in Users, NEW u \in Users, Directory!Revoke(a, u) PROVE Directory!Init'
    BY <1>2 DEF Directory!Revoke
  <1>3. ASSUME NEW a \in Users, NEW u \in Users, Directory!Suspend(a, u) PROVE Directory!Init'
    BY <1>3 DEF Directory!Suspend
  <1>4. ASSUME NEW a \in Users, NEW u \in Users, Directory!Reinstate(a, u) PROVE Directory!Init'
    BY <1>4 DEF Directory!Reinstate
  <1>5. ASSUME NEW a \in Users, NEW u \in Users, Directory!Remove(a, u) PROVE Directory!Init'
    BY <1>5 DEF Directory!Remove
  <1>6. ASSUME NEW u \in Users, NEW n \in Names, Directory!Rename(u, n) PROVE Directory!Init'
    BY <1>6 DEF Directory!Rename, Directory!Free
  <1>7. ASSUME NEW u \in Users, NEW n \in Names, NEW password \in BOOLEAN,
               Directory!Register(u, n, password)
        PROVE  Directory!Init'
    BY <1>7 DEF Directory!Register, Directory!Free
  <1>8. CASE UNCHANGED row
    BY <1>8
  <1> QED
    BY <1>1, <1>2, <1>3, <1>4, <1>5, <1>6, <1>7, <1>8 DEF Directory!Next

LEMMA NextSInv == SInv /\ [Next]_vars => SInv'
  <1> SUFFICES ASSUME SInv, [Next]_vars PROVE SInv'
    OBVIOUS
  <1>1. IInv'
    BY NextIInv DEF SInv
  <1>2. CASE overtaken'
    BY <1>1, <1>2 DEF SInv
  <1>3. CASE ~overtaken'
    <2>1. ~overtaken /\ IInv /\ (\A r \in Requests : Fresh(r)) /\ Directory!Init
      <3>1. CASE UNCHANGED vars
        <4>1. overtaken' = overtaken
          BY <3>1 DEF vars
        <4>2. ~overtaken
          BY <1>3, <4>1
        <4> QED
          BY <4>2 DEF SInv
      <3>2. CASE Next
        <4>1. PICK r \in Requests : overtaken' = (overtaken \/ Overtakes(r))
          BY <3>2 DEF Next
        <4>2. ~overtaken
          BY <1>3, <4>1
        <4> QED
          BY <4>2 DEF SInv
      <3> QED
        BY <3>1, <3>2
    <2>2. Directory!Init'
      <3>1. [Directory!Next]_row
        BY <2>1, NextDirectory
      <3> QED
        BY <2>1, <3>1, NextDirectoryInv DEF IInv, RowsOK
    <2>3. ASSUME NEW r \in Requests PROVE Fresh(r)'
      <3>1. CASE UNCHANGED vars
        BY <2>1, <3>1 DEF vars, Fresh, TakenIgnoringCase, Exists, Directory!Admin
      <3>2. CASE Next
        <4>1. PICK s \in Requests : Step(s) /\ ~Overtakes(s)
          BY <1>3, <3>2 DEF Next
        <4>2. CASE s = r
          BY <2>1, <4>1, <4>2, OwnStep
        <4>3. CASE s # r
          BY <2>1, <4>1, <4>3, OthersStep DEF IInv
        <4> QED
          BY <4>2, <4>3
      <3> QED
        BY <3>1, <3>2
    <2> QED
      BY <1>1, <2>2, <2>3 DEF SInv
  <1> QED
    BY <1>2, <1>3

LEMMA SInvariance == Spec => []SInv
  <1>1. Init => SInv
    BY InitIInv, InitDirectory DEF SInv, Init, Fresh, Idle
  <1> QED
    BY <1>1, NextSInv, PTL DEF Spec

\* As long as no write overtakes another request the site implements the
\* directory: every account change is one atomic step decided on current rows.
THEOREM ImplementsDirectoryUntilOvertaken == Spec => ImplementsDirectory
  <1>1. SInv /\ [Next]_vars => [overtaken \/ [Directory!Next]_row]_vars
    BY NextDirectory DEF SInv
  <1> QED
    BY <1>1, SInvariance, InitDirectory, PTL DEF Spec, ImplementsDirectory

\* Until a write overtakes another request, the self-action guard of the user
\* management page is enough: somebody can still administer the site.
THEOREM KeepsAnAdmin == Spec => []AtLeastOneActiveAdmin
  <1>1. SInv => AtLeastOneActiveAdmin
    BY DEF SInv, AtLeastOneActiveAdmin, Directory!Init, Directory!Admin
  <1> QED
    BY <1>1, SInvariance, PTL

\* Until then the forms' username__iexact checks keep usernames distinct in
\* every spelling, which the database constraint does not.
THEOREM NamesApartInEverySpelling == Spec => []NamesUniqueIgnoringCase
  <1>1. SInv => NamesUniqueIgnoringCase
    BY DEF SInv, NamesUniqueIgnoringCase, Directory!Init, Directory!Live, Live
  <1> QED
    BY <1>1, SInvariance, PTL

\* Until then a deleted account never gets a name or a password back.
THEOREM DeletedStaysScrubbed == Spec => []DeletedIsScrubbed
  <1>1. SInv => DeletedIsScrubbed
    BY DEF SInv, DeletedIsScrubbed, Directory!Init
  <1> QED
    BY <1>1, SInvariance, PTL

\* Role and status change by an admin action aimed at the account: a profile or
\* password save writes them back unchanged unless it was overtaken.
THEOREM OnlyAdminsChangeRights == Spec => RoleAndStatusByAdminOnly
  <1> DEFINE A == \A u \in Users :
        Exists(u) /\ (row'[u].role # row[u].role \/ row'[u].status # row[u].status)
            => \/ overtaken
               \/ \E r \in Requests : req[r].target = u /\ req[r].action \in AdminActions
  <1>1. SInv /\ [Next]_vars => [A]_vars
    <2> SUFFICES ASSUME SInv, Next, ~overtaken, NEW u \in Users, Exists(u),
                        row'[u].role # row[u].role \/ row'[u].status # row[u].status
                 PROVE  \E r \in Requests : req[r].target = u /\ req[r].action \in AdminActions
      OBVIOUS
    <2>1. PICK r \in Requests : AdminWrite(r) \/ ProfileSave(r) \/ PasswordSave(r)
                                \/ SignupSave(r)
      BY DEF Next, Step, Begin, Finish, AdminRead, ProfileValidate, PasswordValidate, SignupValidate
    <2>2. RequestOK(r) /\ Fresh(r) /\ row \in [Users -> Row] /\ row[u] \in Row
      BY DEF SInv, IInv, RowsOK
    <2>3. CASE AdminWrite(r)
      BY <2>2, <2>3 DEF AdminWrite
    <2>4. CASE ProfileSave(r)
      BY <2>2, <2>4 DEF ProfileSave, RequestOK, Fresh, Row
    <2>5. CASE PasswordSave(r)
      BY <2>2, <2>5 DEF PasswordSave, RequestOK, Row
    <2>6. CASE SignupSave(r)
      BY <2>2, <2>6 DEF SignupSave, RequestOK
    <2> QED
      BY <2>1, <2>3, <2>4, <2>5, <2>6
  <1> QED
    BY <1>1, SInvariance, PTL DEF Spec, RoleAndStatusByAdminOnly

\* Until a write overtakes another request deletion is final, as the error of the
\* activate action says.
THEOREM DeletionIsFinal ==
  Spec => [][overtaken \/ \A u \in Users : row[u].status = "deleted"
                                              => row'[u].status = "deleted"]_vars
  <1> DEFINE A == \A u \in Users : row[u].status = "deleted" => row'[u].status = "deleted"
  <1>1. SInv /\ [Next]_vars => [overtaken \/ A]_vars
    <2> SUFFICES ASSUME SInv, [Next]_vars, ~overtaken PROVE A
      OBVIOUS
    <2>1. row \in [Users -> Row] /\ [Directory!Next]_row
      BY NextDirectory DEF SInv, IInv, RowsOK
    <2> QED
      BY <2>1 DEF Row, Directory!Next, Directory!Grant, Directory!Revoke, Directory!Suspend,
                  Directory!Reinstate, Directory!Remove, Directory!Live, Directory!Rename,
                  Directory!Register, Directory!Known
  <1> QED
    BY <1>1, SInvariance, PTL DEF Spec

=============================================================================
