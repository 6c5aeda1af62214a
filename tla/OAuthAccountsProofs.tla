------------------------ MODULE OAuthAccountsProofs ------------------------
(***************************************************************************)
(* The row locks of the provider-account transactions are enough: however  *)
(* many run at once, they implement AccountLinks, where each operation is  *)
(* a single step, and what AccountLinks keeps true stays true.             *)
(***************************************************************************)
EXTENDS OAuthAccounts, TLAPS

-----------------------------------------------------------------------------
(* The inductive invariant                                                 *)

\* From its status check on, a link holds the user's row, so that the user is
\* still active and gets no other account before the commit.
LinkOK(r) == req[r].kind = "link" =>
    /\ req[r].step \in {"lockUser", "lockId", "lockOwner", "checkProvider", "insertId", "commit"}
    /\ req[r].user \in Users /\ req[r].id \in Ids
    /\ req[r].step # "lockUser" =>
          userLock[req[r].user] = r /\ row[req[r].user].status = "active"
    /\ req[r].step \in {"insertId", "commit"} =>
          \A a \in accounts : a.owner = req[r].user => Provider[a.id] # Provider[req[r].id]

\* A login that has inserted its user owns the id and the email of that row.
LoginOK(r) == req[r].kind = "login" =>
    /\ req[r].step \in {"lockId", "lockOwner", "byEmail", "insertUser", "insertId", "commit"}
    /\ req[r].id \in Ids /\ req[r].email \in Emails
    /\ req[r].step \in {"insertId", "commit"} =>
          /\ req[r].user \in Users
          /\ row[req[r].user].status = "absent"
          /\ ~InUse(req[r].email)

DeleteOK(r) == req[r].kind = "delete" =>
    /\ req[r].step \in {"lockUser", "deleteIds", "commit"}
    /\ req[r].user \in Users
    /\ row[req[r].user].status # "absent"
    /\ req[r].step # "lockUser" => userLock[req[r].user] = r

\* An identity about to be committed is linked to nobody and its key is held.
InsertOK(r) == req[r].step = "commit" /\ req[r].kind # "delete" =>
    idLock[req[r].id] = r /\ ~Linked(req[r].id)

RequestOK(r) ==
    /\ req[r].kind = "none" => req[r].step = "idle"
    /\ LinkOK(r) /\ LoginOK(r) /\ DeleteOK(r) /\ InsertOK(r)

\* Two uncommitted users have different ids and different emails.
Inserted(r) == req[r].kind = "login" /\ req[r].step \in {"insertId", "commit"}

UsersApart ==
    \A r, s \in Requests : r # s /\ Inserted(r) /\ Inserted(s) =>
        req[r].user # req[s].user /\ req[r].email # req[s].email

IInv ==
    /\ TypeOK
    /\ DeletedOwnsNothing /\ OneAccountPerProvider /\ OneOwnerPerId
    /\ UsersApart
    /\ \A r \in Requests : RequestOK(r)

LEMMA InitIInv == Init => IInv
  <1> SUFFICES ASSUME Init PROVE IInv
    OBVIOUS
  <1> USE ConstantsAssumption
  <1>1. TypeOK
    <2>1. Idle \in Request
      BY DEF Idle, Request, Steps
    <2>2. row \in [Users -> Row]
      BY DEF Init, Row
    <2> QED
      BY <2>1, <2>2 DEF Init, TypeOK
  <1>2. DeletedOwnsNothing /\ OneAccountPerProvider /\ OneOwnerPerId
    BY DEF Init, DeletedOwnsNothing, OneAccountPerProvider, OneOwnerPerId
  <1>3. UsersApart /\ \A r \in Requests : RequestOK(r)
    BY DEF Init, Idle, UsersApart, Inserted, RequestOK, LinkOK, LoginOK, DeleteOK, InsertOK
  <1> QED
    BY <1>1, <1>2, <1>3 DEF IInv

\* Giving up locks and becoming idle disturbs nobody.
LEMMA EndStep ==
  ASSUME IInv, NEW r \in Requests, End(r), UNCHANGED <<row, accounts>>
  PROVE  IInv'
  <1> USE ConstantsAssumption
  <1>1. TypeOK'
    <2>1. Idle \in Request
      BY DEF Idle, Request, Steps
    <2> QED
      BY <2>1 DEF IInv, TypeOK, End
  <1>2. (DeletedOwnsNothing /\ OneAccountPerProvider /\ OneOwnerPerId)'
    BY DEF IInv, DeletedOwnsNothing, OneAccountPerProvider, OneOwnerPerId
  <1>3. UsersApart'
    BY DEF IInv, TypeOK, End, Idle, UsersApart, Inserted
  <1>4. ASSUME NEW s \in Requests PROVE RequestOK(s)'
    <2>1. CASE s = r
      BY <2>1 DEF IInv, TypeOK, End, Idle, RequestOK, LinkOK, LoginOK, DeleteOK, InsertOK
    <2>2. CASE s # r
      <3>1. RequestOK(s) /\ req'[s] = req[s] /\ req[s] \in Request
        BY <2>2 DEF IInv, TypeOK, End
      <3>2. \A u \in Users : userLock[u] = s => userLock'[u] = s
        BY <2>2 DEF End
      <3>3. \A i \in Ids : idLock[i] = s => idLock'[i] = s
        BY <2>2 DEF End
      <3> QED
        BY <3>1, <3>2, <3>3 DEF RequestOK, LinkOK, LoginOK, DeleteOK, InsertOK, InUse,
                                Linked, Request
    <2> QED
      BY <2>1, <2>2
  <1> QED
    BY <1>1, <1>2, <1>3, <1>4 DEF IInv

\* A statement that moves r on, perhaps takes locks nobody holds, and writes no
\* committed row.
LEMMA MoveStep ==
  ASSUME IInv, NEW r \in Requests, NEW q \in Request,
         UNCHANGED <<row, accounts>>, req' = [req EXCEPT ![r] = q],
         userLock' \in [Users -> Requests \cup {None}],
         \A u \in Users : userLock[u] # None => userLock'[u] = userLock[u],
         idLock' \in [Ids -> Requests \cup {None}],
         \A i \in Ids : idLock[i] # None => idLock'[i] = idLock[i],
         RequestOK(r)',
         \A s \in Requests \ {r} : Inserted(r)' /\ Inserted(s) =>
             q.user # req[s].user /\ q.email # req[s].email
  PROVE  IInv'
  <1> USE ConstantsAssumption
  <1>1. TypeOK'
    BY DEF IInv, TypeOK
  <1>2. (DeletedOwnsNothing /\ OneAccountPerProvider /\ OneOwnerPerId)'
    BY DEF IInv, DeletedOwnsNothing, OneAccountPerProvider, OneOwnerPerId
  <1>3. UsersApart'
    BY DEF IInv, TypeOK, UsersApart, Inserted
  <1>4. ASSUME NEW s \in Requests PROVE RequestOK(s)'
    <2>1. CASE s = r
      BY <2>1
    <2>2. CASE s # r
      <3>1. RequestOK(s) /\ req'[s] = req[s] /\ req[s] \in Request
        BY <2>2 DEF IInv, TypeOK
      <3>2. \A u \in Users : userLock[u] = s => userLock'[u] = s
        OBVIOUS
      <3>3. \A i \in Ids : idLock[i] = s => idLock'[i] = s
        OBVIOUS
      <3> QED
        BY <3>1, <3>2, <3>3 DEF RequestOK, LinkOK, LoginOK, DeleteOK, InsertOK, InUse,
                                Linked, Request
    <2> QED
      BY <2>1, <2>2
  <1> QED
    BY <1>1, <1>2, <1>3, <1>4 DEF IInv

LEMMA BeginIInv == ASSUME IInv, NEW r \in Requests, Begin(r) PROVE IInv'
  <1> USE ConstantsAssumption
  <1>0. TypeOK
    BY DEF IInv
  <1>1. ASSUME NEW u \in Users, NEW i \in Ids, NEW e \in Emails, LinkBegin(r, u, i, e)
        PROVE  IInv'
    <2> DEFINE q == [step |-> "lockUser", kind |-> "link", user |-> u, id |-> i, email |-> e]
    <2>1. q \in Request
      BY DEF Request, Steps
    <2>2. RequestOK(r)' /\ ~Inserted(r)'
      BY <1>0, <1>1 DEF LinkBegin, TypeOK, RequestOK, LinkOK, LoginOK, DeleteOK, InsertOK, Inserted
    <2> QED
      BY <1>0, <1>1, <2>1, <2>2, MoveStep DEF LinkBegin, TypeOK
  <1>2. ASSUME NEW i \in Ids, NEW e \in Emails, LoginBegin(r, i, e) PROVE IInv'
    <2> DEFINE q == [step |-> "lockId", kind |-> "login", user |-> None, id |-> i, email |-> e]
    <2>1. q \in Request
      BY DEF Request, Steps
    <2>2. RequestOK(r)' /\ ~Inserted(r)'
      BY <1>0, <1>2 DEF LoginBegin, TypeOK, RequestOK, LinkOK, LoginOK, DeleteOK, InsertOK, Inserted
    <2> QED
      BY <1>0, <1>2, <2>1, <2>2, MoveStep DEF LoginBegin, TypeOK
  <1>3. ASSUME NEW u \in Users, DeleteBegin(r, u) PROVE IInv'
    <2> DEFINE q == [step |-> "lockUser", kind |-> "delete", user |-> u, id |-> None, email |-> None]
    <2>1. q \in Request
      BY DEF Request, Steps
    <2>2. RequestOK(r)' /\ ~Inserted(r)'
      BY <1>0, <1>3 DEF DeleteBegin, TypeOK, RequestOK, LinkOK, LoginOK, DeleteOK, InsertOK, Inserted
    <2> QED
      BY <1>0, <1>3, <2>1, <2>2, MoveStep DEF DeleteBegin, TypeOK
  <1> QED
    BY <1>1, <1>2, <1>3 DEF Begin

LEMMA StatementIInv ==
  ASSUME IInv, NEW r \in Requests,
         \/ LockUser(r) \/ LockId(r) \/ LockOwner(r) \/ ByEmail(r) \/ CheckProvider(r)
         \/ InsertUser(r) \/ InsertId(r) \/ DeleteIds(r)
  PROVE  IInv'
  <1> USE ConstantsAssumption
  <1>0. TypeOK /\ RequestOK(r) /\ req[r] \in Request
    BY DEF IInv, TypeOK
  <1>a. ASSUME NEW step \in Steps PROVE [req[r] EXCEPT !.step = step] \in Request
    BY <1>0 DEF Request
  <1>1. CASE LockUser(r)
    <2>1. CASE End(r)
      BY <1>1, <2>1, EndStep DEF LockUser
    <2>2. CASE ~End(r)
      <3> DEFINE next == IF req[r].kind = "link" THEN "lockId" ELSE "deleteIds"
                 q == [req[r] EXCEPT !.step = next]
      <3>1. q \in Request
        BY <1>a DEF Steps
      <3>2. /\ req' = [req EXCEPT ![r] = q]
            /\ userLock' = [userLock EXCEPT ![req[r].user] = r]
            /\ userLock[req[r].user] = None
            /\ UNCHANGED <<row, accounts, idLock>>
            /\ req[r].step = "lockUser"
            /\ req[r].kind = "link" => row[req[r].user].status = "active"
        BY <1>1, <2>2 DEF LockUser, Refused, Goto
      <3>3. req[r].kind \in {"link", "delete"} /\ req[r].user \in Users
        BY <1>0, <3>2 DEF RequestOK, LinkOK, LoginOK, DeleteOK, Request
      <3>4. RequestOK(r)' /\ ~Inserted(r)'
        BY <1>0, <3>2, <3>3
           DEF TypeOK, RequestOK, LinkOK, LoginOK, DeleteOK, InsertOK, Inserted, Request
      <3>5. /\ userLock' \in [Users -> Requests \cup {None}]
            /\ \A u \in Users : userLock[u] # None => userLock'[u] = userLock[u]
        BY <1>0, <3>2, <3>3 DEF TypeOK
      <3> HIDE DEF q
      <3> QED
        BY <1>0, <3>1, <3>2, <3>4, <3>5, MoveStep DEF TypeOK
    <2> QED
      BY <2>1, <2>2
  <1>2. CASE LockId(r)
    <2>1. CASE End(r)
      BY <1>2, <2>1, EndStep DEF LockId
    <2>2. CASE ~End(r) /\ ~Linked(req[r].id)
      <3> DEFINE next == IF req[r].kind = "link" THEN "checkProvider" ELSE "byEmail"
                 q == [req[r] EXCEPT !.step = next]
      <3>1. q \in Request
        BY <1>a DEF Steps
      <3>2. /\ req' = [req EXCEPT ![r] = q] /\ req[r].step = "lockId"
            /\ UNCHANGED <<row, accounts, userLock, idLock>>
        BY <1>2, <2>2 DEF LockId, Goto
      <3>3. RequestOK(r)' /\ ~Inserted(r)'
        BY <1>0, <3>2
           DEF TypeOK, RequestOK, LinkOK, LoginOK, DeleteOK, InsertOK, Inserted, Request
      <3> HIDE DEF q
      <3> QED
        BY <1>0, <3>1, <3>2, <3>3, MoveStep DEF TypeOK
    <2>3. CASE ~End(r) /\ Linked(req[r].id)
      <3> DEFINE q == [req[r] EXCEPT !.step = "lockOwner"]
      <3>1. q \in Request
        BY <1>a DEF Steps
      <3>2. /\ req' = [req EXCEPT ![r] = q] /\ req[r].step = "lockId"
            /\ idLock' = [idLock EXCEPT ![req[r].id] = r]
            /\ idLock[req[r].id] = None
            /\ UNCHANGED <<row, accounts, userLock>>
        BY <1>2, <2>3 DEF LockId, Goto
      <3>3. req[r].id \in Ids
        BY <1>0, <3>2 DEF RequestOK, LinkOK, LoginOK, DeleteOK, Request
      <3>4. RequestOK(r)' /\ ~Inserted(r)'
        BY <1>0, <3>2
           DEF TypeOK, RequestOK, LinkOK, LoginOK, DeleteOK, InsertOK, Inserted, Request
      <3> HIDE DEF q
      <3> QED
        BY <1>0, <3>1, <3>2, <3>3, <3>4, MoveStep DEF TypeOK
    <2> QED
      BY <2>1, <2>2, <2>3
  <1>3. CASE LockOwner(r)
    BY <1>3, EndStep DEF LockOwner
  <1>4. CASE ByEmail(r)
    <2>1. CASE End(r)
      BY <1>4, <2>1, EndStep DEF ByEmail
    <2>2. CASE ~End(r)
      <3> DEFINE q == [req[r] EXCEPT !.step = "insertUser"]
      <3>1. q \in Request
        BY <1>a DEF Steps
      <3>2. /\ req' = [req EXCEPT ![r] = q] /\ req[r].step = "byEmail"
            /\ UNCHANGED <<row, accounts, userLock, idLock>>
        BY <1>4, <2>2 DEF ByEmail, Goto
      <3>3. RequestOK(r)' /\ ~Inserted(r)'
        BY <1>0, <3>2
           DEF TypeOK, RequestOK, LinkOK, LoginOK, DeleteOK, InsertOK, Inserted, Request
      <3> HIDE DEF q
      <3> QED
        BY <1>0, <3>1, <3>2, <3>3, MoveStep DEF TypeOK
    <2> QED
      BY <2>1, <2>2
  <1>5. CASE CheckProvider(r)
    <2>1. CASE End(r)
      BY <1>5, <2>1, EndStep DEF CheckProvider
    <2>2. CASE ~End(r)
      <3> DEFINE q == [req[r] EXCEPT !.step = "insertId"]
      <3>1. q \in Request
        BY <1>a DEF Steps
      <3>2. /\ req' = [req EXCEPT ![r] = q] /\ req[r].step = "checkProvider"
            /\ \A a \in OwnedBy(req[r].user) : Provider[a.id] # Provider[req[r].id]
            /\ UNCHANGED <<row, accounts, userLock, idLock>>
        BY <1>5, <2>2 DEF CheckProvider, Goto
      <3>3. RequestOK(r)' /\ ~Inserted(r)'
        BY <1>0, <3>2
           DEF TypeOK, RequestOK, LinkOK, LoginOK, DeleteOK, InsertOK, Inserted, Request, OwnedBy
      <3> HIDE DEF q
      <3> QED
        BY <1>0, <3>1, <3>2, <3>3, MoveStep DEF TypeOK
    <2> QED
      BY <2>1, <2>2
  <1>6. CASE InsertUser(r)
    <2>1. CASE End(r)
      BY <1>6, <2>1, EndStep DEF InsertUser
    <2>2. CASE ~End(r)
      <3>1. PICK u \in FreshIds : req' = [req EXCEPT ![r].step = "insertId", ![r].user = u]
        BY <1>6, <2>2 DEF InsertUser
      <3> DEFINE q == [req[r] EXCEPT !.step = "insertId", !.user = u]
      <3>2. u \in Users /\ row[u].status = "absent" /\ \A s \in Requests : req[s].user # u
        BY <3>1 DEF FreshIds
      <3>3. q \in Request
        BY <1>0, <3>2 DEF Request, Steps
      <3>4. /\ req' = [req EXCEPT ![r] = q] /\ req[r].step = "insertUser"
            /\ ~InUse(req[r].email) /\ Inserting(req[r].email) = {}
            /\ UNCHANGED <<row, accounts, userLock, idLock>>
        BY <1>6, <2>2, <3>1 DEF InsertUser
      <3>5. RequestOK(r)'
        BY <1>0, <3>2, <3>4
           DEF TypeOK, RequestOK, LinkOK, LoginOK, DeleteOK, InsertOK, Request, InUse
      <3>6. \A s \in Requests \ {r} : Inserted(s) => q.user # req[s].user /\ q.email # req[s].email
        BY <1>0, <3>2, <3>4 DEF Inserted, Inserting, Request
      <3> HIDE DEF q
      <3> QED
        BY <1>0, <3>3, <3>4, <3>5, <3>6, MoveStep DEF TypeOK
    <2> QED
      BY <2>1, <2>2
  <1>7. CASE InsertId(r)
    <2>1. CASE End(r)
      BY <1>7, <2>1, EndStep DEF InsertId
    <2>2. CASE ~End(r)
      <3> DEFINE q == [req[r] EXCEPT !.step = "commit"]
      <3>1. q \in Request
        BY <1>a DEF Steps
      <3>2. /\ req' = [req EXCEPT ![r] = q] /\ req[r].step = "insertId"
            /\ idLock' = [idLock EXCEPT ![req[r].id] = r]
            /\ idLock[req[r].id] = None /\ ~Linked(req[r].id)
            /\ UNCHANGED <<row, accounts, userLock>>
        BY <1>7, <2>2 DEF InsertId, Goto
      <3>3. req[r].id \in Ids /\ req[r].kind \in {"link", "login"}
        BY <1>0, <3>2 DEF RequestOK, LinkOK, LoginOK, DeleteOK, Request
      <3>4. RequestOK(r)'
        BY <1>0, <3>2, <3>3
           DEF TypeOK, RequestOK, LinkOK, LoginOK, DeleteOK, InsertOK, Request, InUse, Linked
      <3>5. \A s \in Requests \ {r} : Inserted(r)' /\ Inserted(s) =>
                q.user # req[s].user /\ q.email # req[s].email
        BY <1>0, <3>2 DEF IInv, TypeOK, UsersApart, Inserted, Request
      <3> HIDE DEF q
      <3> QED
        BY <1>0, <3>1, <3>2, <3>3, <3>4, <3>5, MoveStep DEF TypeOK
    <2> QED
      BY <2>1, <2>2
  <1>8. CASE DeleteIds(r)
    <2> DEFINE q == [req[r] EXCEPT !.step = "commit"]
               mine == {a.id : a \in OwnedBy(req[r].user)}
    <2>1. q \in Request
      BY <1>a DEF Steps
    <2>2. /\ req' = [req EXCEPT ![r] = q] /\ req[r].step = "deleteIds"
          /\ \A i \in mine : idLock[i] = None
          /\ idLock' = [i \in Ids |-> IF i \in mine THEN r ELSE idLock[i]]
          /\ UNCHANGED <<row, accounts, userLock>>
      BY <1>8 DEF DeleteIds, Goto
    <2>3. req[r].kind = "delete"
      BY <1>0, <2>2 DEF RequestOK, LinkOK, LoginOK, DeleteOK, Request
    <2>4. RequestOK(r)' /\ ~Inserted(r)'
      BY <1>0, <2>2, <2>3
         DEF TypeOK, RequestOK, LinkOK, LoginOK, DeleteOK, InsertOK, Inserted, Request
    <2>5. /\ idLock' \in [Ids -> Requests \cup {None}]
          /\ \A i \in Ids : idLock[i] # None => idLock'[i] = idLock[i]
      BY <1>0, <2>2 DEF TypeOK
    <2> HIDE DEF q
    <2> QED
      BY <1>0, <2>1, <2>2, <2>4, <2>5, MoveStep DEF TypeOK
  <1> QED
    BY <1>1, <1>2, <1>3, <1>4, <1>5, <1>6, <1>7, <1>8

\* A step of the users table alone that keeps locked and unborn rows, uncommitted
\* emails and the owners of accounts as the transactions need them.
LEMMA OtherWriteIInv == ASSUME IInv, NEW u \in Users, OtherWrite(u) PROVE IInv'
  <1> USE ConstantsAssumption
  <1>0. TypeOK /\ UNCHANGED <<accounts, userLock, idLock, req>>
    BY DEF IInv, OtherWrite
  <1>1. PICK status \in {"active", "suspended"}, e \in Emails \cup {row[u].email} :
          /\ \A s \in Inserting(e) : FALSE
          /\ row' = [row EXCEPT ![u] = [status |-> status, email |-> e]]
    BY DEF OtherWrite
  <1>2. TypeOK'
    BY <1>0, <1>1 DEF TypeOK, Row
  <1>3. (DeletedOwnsNothing /\ OneAccountPerProvider /\ OneOwnerPerId)'
    BY <1>0, <1>1 DEF IInv, TypeOK, Account, DeletedOwnsNothing, OneAccountPerProvider, OneOwnerPerId
  <1>4. UsersApart'
    BY <1>0 DEF IInv, UsersApart, Inserted
  <1>5. ASSUME NEW s \in Requests PROVE RequestOK(s)'
    <2>1. RequestOK(s) /\ req'[s] = req[s] /\ req[s] \in Request
      BY <1>0 DEF IInv, TypeOK
    <2>2. row[u].status # "absent" /\ userLock[u] = None
      BY DEF OtherWrite
    <2>3. LinkOK(s)'
      BY <1>0, <1>1, <2>1, <2>2 DEF TypeOK, RequestOK, LinkOK
    <2>4. LoginOK(s)'
      BY <1>0, <1>1, <2>1, <2>2 DEF TypeOK, RequestOK, LoginOK, InUse, Inserting
    <2>5. DeleteOK(s)' /\ InsertOK(s)'
      BY <1>0, <1>1, <2>1, <2>2 DEF TypeOK, RequestOK, DeleteOK, InsertOK, Linked
    <2> QED
      BY <1>0, <2>1, <2>3, <2>4, <2>5 DEF RequestOK
  <1> QED
    BY <1>2, <1>3, <1>4, <1>5 DEF IInv

LEMMA CommitIInv == ASSUME IInv, NEW r \in Requests, Commit(r) PROVE IInv'
  <1> USE ConstantsAssumption
  <1> DEFINE u == req[r].user
             i == req[r].id
             new == [owner |-> u, id |-> i]
  <1>0. /\ TypeOK /\ RequestOK(r) /\ req[r] \in Request
        /\ req[r].step = "commit" /\ End(r)
    BY DEF IInv, TypeOK, Commit
  <1>1. /\ req' \in [Requests -> Request] /\ userLock' \in [Users -> Requests \cup {None}]
        /\ idLock' \in [Ids -> Requests \cup {None}]
        /\ req'[r] = Idle
        /\ \A s \in Requests \ {r} : req'[s] = req[s]
        /\ \A s \in Requests \ {r} : \A v \in Users : userLock[v] = s => userLock'[v] = s
        /\ \A s \in Requests \ {r} : \A j \in Ids : idLock[j] = s => idLock'[j] = s
    <2>1. Idle \in Request
      BY DEF Idle, Request, Steps
    <2> QED
      BY <1>0, <2>1 DEF End, TypeOK
  <1>2. UsersApart'
    BY <1>1 DEF IInv, UsersApart, Inserted, Idle
  <1>3. RequestOK(r)'
    BY <1>1 DEF RequestOK, LinkOK, LoginOK, DeleteOK, InsertOK, Idle
  <1>4. CASE req[r].kind = "link"
    <2>1. /\ u \in Users /\ i \in Ids
          /\ userLock[u] = r /\ row[u].status = "active"
          /\ \A a \in accounts : a.owner = u => Provider[a.id] # Provider[i]
          /\ idLock[i] = r /\ ~Linked(i)
      BY <1>0, <1>4 DEF RequestOK, LinkOK, InsertOK
    <2>2. accounts' = accounts \cup {new} /\ UNCHANGED row
      BY <1>4 DEF Commit
    <2>3. TypeOK'
      BY <1>0, <1>1, <2>1, <2>2 DEF TypeOK, Account
    <2>4. (DeletedOwnsNothing /\ OneAccountPerProvider /\ OneOwnerPerId)'
      BY <2>1, <2>2 DEF IInv, DeletedOwnsNothing, OneAccountPerProvider, OneOwnerPerId, Linked
    <2>5. ASSUME NEW s \in Requests \ {r} PROVE RequestOK(s)'
      <3>1. RequestOK(s) /\ req'[s] = req[s] /\ req[s] \in Request
        BY <1>1 DEF IInv, TypeOK
      <3>2. LinkOK(s)'
        BY <1>1, <2>1, <2>2, <3>1 DEF RequestOK, LinkOK
      <3>3. LoginOK(s)' /\ DeleteOK(s)'
        BY <1>1, <2>2, <3>1 DEF RequestOK, LoginOK, DeleteOK, InUse
      <3>4. InsertOK(s)'
        BY <1>1, <2>1, <2>2, <3>1 DEF RequestOK, InsertOK, LinkOK, LoginOK, DeleteOK, Linked, Request
      <3> QED
        BY <3>1, <3>2, <3>3, <3>4 DEF RequestOK
    <2> QED
      BY <1>2, <1>3, <2>3, <2>4, <2>5 DEF IInv
  <1>5. CASE req[r].kind = "login"
    <2>1. /\ u \in Users /\ i \in Ids /\ req[r].email \in Emails
          /\ row[u].status = "absent" /\ idLock[i] = r /\ ~Linked(i)
      BY <1>0, <1>5 DEF RequestOK, LoginOK, InsertOK
    <2>2. /\ accounts' = accounts \cup {new}
          /\ row' = [row EXCEPT ![u] = [status |-> "active", email |-> req[r].email]]
      BY <1>5 DEF Commit
    <2>3. TypeOK'
      BY <1>0, <1>1, <2>1, <2>2 DEF TypeOK, Account, Row
    <2>4. \A a \in accounts : a.owner # u /\ a.owner \in Users
      BY <1>0, <2>1 DEF IInv, DeletedOwnsNothing, TypeOK, Account
    <2>5. (DeletedOwnsNothing /\ OneAccountPerProvider /\ OneOwnerPerId)'
      BY <1>0, <2>1, <2>2, <2>4
         DEF IInv, TypeOK, DeletedOwnsNothing, OneAccountPerProvider, OneOwnerPerId, Linked
    <2>6. ASSUME NEW s \in Requests \ {r} PROVE RequestOK(s)'
      <3>1. RequestOK(s) /\ req'[s] = req[s] /\ req[s] \in Request
        BY <1>1 DEF IInv, TypeOK
      <3>2. LinkOK(s)'
        BY <1>0, <1>1, <2>1, <2>2, <3>1 DEF TypeOK, RequestOK, LinkOK
      <3>3. LoginOK(s)'
        BY <1>0, <1>1, <1>5, <2>1, <2>2, <3>1
           DEF IInv, TypeOK, UsersApart, Inserted, RequestOK, LoginOK, InUse
      <3>4. DeleteOK(s)'
        BY <1>0, <1>1, <2>1, <2>2, <3>1 DEF TypeOK, RequestOK, DeleteOK
      <3>5. InsertOK(s)'
        BY <1>1, <2>1, <2>2, <3>1 DEF RequestOK, InsertOK, LinkOK, LoginOK, DeleteOK, Linked, Request
      <3> QED
        BY <3>1, <3>2, <3>3, <3>4, <3>5 DEF RequestOK
    <2> QED
      BY <1>2, <1>3, <2>3, <2>5, <2>6 DEF IInv
  <1>6. CASE req[r].kind = "delete"
    <2>1. u \in Users /\ row[u].status # "absent" /\ userLock[u] = r
      BY <1>0, <1>6 DEF RequestOK, DeleteOK
    <2>2. /\ accounts' = accounts \ OwnedBy(u)
          /\ row' = [row EXCEPT ![u] = [status |-> "deleted", email |-> None]]
      BY <1>6 DEF Commit
    <2>3. TypeOK'
      BY <1>0, <1>1, <2>1, <2>2 DEF TypeOK, Row
    <2>4. (DeletedOwnsNothing /\ OneAccountPerProvider /\ OneOwnerPerId)'
      BY <1>0, <2>1, <2>2 DEF IInv, TypeOK, DeletedOwnsNothing, OneAccountPerProvider,
                              OneOwnerPerId, OwnedBy, Account
    <2>5. ASSUME NEW s \in Requests \ {r} PROVE RequestOK(s)'
      <3>1. RequestOK(s) /\ req'[s] = req[s] /\ req[s] \in Request
        BY <1>1 DEF IInv, TypeOK
      <3>2. LinkOK(s)'
        BY <1>0, <1>1, <2>1, <2>2, <3>1 DEF TypeOK, RequestOK, LinkOK
      <3>3. LoginOK(s)'
        BY <1>0, <1>1, <2>1, <2>2, <3>1 DEF TypeOK, RequestOK, LoginOK, InUse
      <3>4. DeleteOK(s)'
        BY <1>0, <1>1, <2>1, <2>2, <3>1 DEF TypeOK, RequestOK, DeleteOK
      <3>5. InsertOK(s)'
        BY <1>1, <2>2, <3>1 DEF RequestOK, InsertOK, LinkOK, LoginOK, DeleteOK, Linked, Request
      <3> QED
        BY <3>1, <3>2, <3>3, <3>4, <3>5 DEF RequestOK
    <2> QED
      BY <1>2, <1>3, <2>3, <2>4, <2>5 DEF IInv
  <1> QED
    BY <1>4, <1>5, <1>6 DEF Commit

LEMMA NextIInv == IInv /\ [Next]_vars => IInv'
  <1> SUFFICES ASSUME IInv, [Next]_vars PROVE IInv'
    OBVIOUS
  <1>1. ASSUME NEW r \in Requests, Begin(r) PROVE IInv'
    BY <1>1, BeginIInv
  <1>2. ASSUME NEW r \in Requests, Statement(r) PROVE IInv'
    BY <1>2, StatementIInv, CommitIInv DEF Statement
  <1>3. ASSUME NEW r \in Requests, DeadlockVictim(r) PROVE IInv'
    BY <1>3, EndStep DEF DeadlockVictim
  <1>4. ASSUME NEW u \in Users, OtherWrite(u) PROVE IInv'
    BY <1>4, OtherWriteIInv
  <1>5. CASE UNCHANGED vars
    BY <1>5 DEF vars, IInv, TypeOK, DeletedOwnsNothing, OneAccountPerProvider, OneOwnerPerId,
                UsersApart, Inserted, RequestOK, LinkOK, LoginOK, DeleteOK, InsertOK, InUse, Linked
  <1> QED
    BY <1>1, <1>2, <1>3, <1>4, <1>5 DEF Next

LEMMA Invariance == Spec => []IInv
  <1>1. Spec => Init /\ [][Next]_vars
    BY PTL DEF Spec
  <1> QED
    BY <1>1, InitIInv, NextIInv, PTL

-----------------------------------------------------------------------------
(* The results                                                             *)

\* Rows, locks and transactions keep their shapes, for any number of each.
THEOREM TypeCorrect == Spec => []TypeOK
  <1>1. IInv => TypeOK
    BY DEF IInv
  <1> QED
    BY <1>1, Invariance, PTL

\* However many links, logins and deletions run at once, no deleted user keeps
\* or gains a provider account.
THEOREM DeletedUsersOwnNothing == Spec => []DeletedOwnsNothing
  <1>1. IInv => DeletedOwnsNothing
    BY DEF IInv
  <1> QED
    BY <1>1, Invariance, PTL

\* The row lock of link_oauth_account_to_user keeps a user at one account per
\* provider, for any number of users, identities and transactions.
THEOREM OneLinkPerProvider == Spec => []OneAccountPerProvider
  <1>1. IInv => OneAccountPerProvider
    BY DEF IInv
  <1> QED
    BY <1>1, Invariance, PTL

\* However linking, logging in and deleting overlap, both hold at once: the state of
\* accounts that link_oauth_account_to_user and the deletion of a user leave behind.
THEOREM OverlapsKeepLinksSound == Spec => []LinksAreSound
  <1>1. IInv => LinksAreSound
    BY DEF IInv, LinksAreSound
  <1> QED
    BY <1>1, Invariance, PTL

\* The transactions implement AccountLinks: each takes effect in one step, with
\* every check true of the committed tables at that step.
THEOREM TransactionsAreAtomic == Spec => ImplementsLinks
  <1> USE ConstantsAssumption
  <1>1. Init => Links!Init
    BY DEF Init, Links!Init, Links!EmailFree
  <1>2. IInv /\ [Next]_vars => [Links!Next]_<<row, accounts>>
    <2> SUFFICES ASSUME IInv, Next PROVE [Links!Next]_<<row, accounts>>
      BY DEF vars
    <2>1. ASSUME NEW r \in Requests, Commit(r) PROVE Links!Next
      <3> DEFINE u == req[r].user
                 i == req[r].id
      <3>0. TypeOK /\ RequestOK(r) /\ req[r].step = "commit"
        BY <2>1 DEF IInv, Commit
      <3>1. CASE req[r].kind = "link"
        <4>1. u \in Users /\ i \in Ids /\ Links!Link(u, i)
          BY <2>1, <3>0, <3>1
             DEF Commit, RequestOK, LinkOK, InsertOK, Linked, Links!Link, Links!Unlinked
        <4> QED
          BY <4>1 DEF Links!Next
      <3>2. CASE req[r].kind = "login"
        <4>1. u \in Users /\ i \in Ids /\ req[r].email \in Emails
          BY <3>0, <3>2 DEF RequestOK, LoginOK
        <4>2. Links!Join(u, i, req[r].email)
          BY <2>1, <3>0, <3>2, <4>1
             DEF Commit, RequestOK, LoginOK, InsertOK, Linked, InUse, Links!Join,
                 Links!Unlinked, Links!EmailFree
        <4> QED
          BY <4>1, <4>2 DEF Links!Next
      <3>3. CASE req[r].kind = "delete"
        <4>1. u \in Users /\ Links!Leave(u)
          BY <2>1, <3>0, <3>3 DEF Commit, RequestOK, DeleteOK, OwnedBy, Links!Leave
        <4> QED
          BY <4>1 DEF Links!Next
      <3> QED
        BY <2>1, <3>1, <3>2, <3>3 DEF Commit
    <2>2. ASSUME NEW u \in Users, OtherWrite(u) PROVE Links!Next
      <3>1. PICK status \in {"active", "suspended"}, e \in Emails \cup {row[u].email} :
              /\ \A v \in Users \ {u} : e # None => row[v].email # e
              /\ row' = [row EXCEPT ![u] = [status |-> status, email |-> e]]
        BY <2>2 DEF OtherWrite
      <3>2. e \in Emails \cup {None}
        BY DEF IInv, TypeOK, Row
      <3>3. Links!Change(u, status, e)
        BY <2>2, <3>1 DEF OtherWrite, Links!Change, Links!EmailFree
      <3> QED
        BY <3>2, <3>3 DEF Links!Next
    <2>3. ASSUME NEW r \in Requests, Begin(r) \/ (Statement(r) /\ ~Commit(r)) \/ DeadlockVictim(r)
          PROVE  UNCHANGED <<row, accounts>>
      BY <2>3 DEF Begin, LinkBegin, LoginBegin, DeleteBegin, Statement, LockUser, LockId,
                  LockOwner, ByEmail, CheckProvider, InsertUser, InsertId, DeleteIds, DeadlockVictim
    <2> QED
      BY <2>1, <2>2, <2>3 DEF Next
  <1>3. Spec => Init /\ [][Next]_vars
    BY PTL DEF Spec
  <1> QED
    BY <1>1, <1>2, <1>3, Invariance, PTL DEF ImplementsLinks, Links!Spec

=============================================================================
