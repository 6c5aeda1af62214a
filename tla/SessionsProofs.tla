--------------------------- MODULE SessionsProofs ---------------------------
(***************************************************************************)
(* What ties a session to its user stays right however requests and purges *)
(* interleave; as long as requests follow one another, the index has every *)
(* session and a purge leaves none.                                        *)
(***************************************************************************)
EXTENDS Sessions, TLAPS

\* The steps of each kind of request, and what a request carries at them.
Shape(q) ==
    /\ q.kind = "none" => q = Idle
    /\ q.step = "idle" => q = Idle
    /\ q.kind = "page" => q.step \in {"readRow", "readIndex", "track", "view", "unregister",
                                      "untrack", "flush", "saveCheck", "save"}
    /\ q.kind = "visit" => q.step \in {"view", "unregister", "untrack", "flush",
                                       "saveCheck", "save"}
    /\ q.kind = "login" => q.step \in {"create", "readIndex", "track", "saveCheck", "save"}
    /\ q.kind = "suspend" => q.step \in {"purge", "kill", "drop"}
    /\ q.kind = "delete" => q.step \in PurgeSteps
    /\ q.kind # "none" => q.user # None
    /\ q.kind \in {"page", "visit", "login"} /\ q.step # "create" => q.key # None
    /\ q.step = "track" => q.key \in q.keys
    /\ q.step \in {"readRow", "view"} => q.keys = {}

\* What ties a key to a user: the session, the index, a request that holds either.
Carries(q, k, u) == q.user = u /\ (k \in q.keys \/ (q.key = k /\ q.step # "create"))
Tied(k, u) ==
    \/ store[k] = u
    \/ k \in index[u]
    \/ \E r \in Requests : Carries(req[r], k, u)

OneUserPerKey == \A k \in Keys : \A u, w \in Users : Tied(k, u) /\ Tied(k, w) => u = w

\* A session that is not tracked is that of a request about to track it, or to end it.
Untracked(k) == \E r \in Requests :
    req[r].key = k /\ req[r].step \in {"readIndex", "track", "flush"}
Tracked(k) == store[k] # None => k \in index[store[k]] \/ Untracked(k)

\* A session whose user is not active is about to be purged.
Doomed(k) == \E r \in Requests :
    req[r].kind = "suspend" /\ req[r].user = store[k]
Alive(k) == store[k] # None => status[store[k]] = "active" \/ Doomed(k)

\* What a request relies on as long as no other interferes.
Holds(q) ==
    /\ q.step \in {"track", "kill"} => \A k \in Keys : store[k] = q.user => k \in q.keys
    /\ q.step = "untrack" => \A k \in Keys \ {q.key} : store[k] = q.user => k \in q.keys
    /\ q.step \in {"view", "saveCheck", "save"} => q.key \in index[q.user]
    /\ q.step \in {"drop", "commit"} => \A k \in Keys : store[k] # q.user
    /\ q.kind \in {"page", "login"} => status[q.user] = "active"
    /\ q.kind # "visit"

CalmInv == calm =>
    /\ ~Overlap
    /\ \A k \in Keys : Tracked(k) /\ Alive(k)
    /\ \A r \in Requests : Holds(req[r])

-----------------------------------------------------------------------------
(* Types, shapes and ties, whatever interleaves                            *)

StateInv == TypeOK /\ (\A r \in Requests : Shape(req[r])) /\ OneUserPerKey

LEMMA IdleShape == Idle \in Request /\ Shape(Idle)
BY ConstantsAssumption DEF Idle, Request, Steps, Shape, PurgeSteps

LEMMA Kinds ==
    ASSUME NEW q \in Request, Shape(q)
    PROVE  /\ q.step = "create" => q.kind = "login"
           /\ q.step = "readRow" => q.kind = "page"
           /\ q.step \in {"view", "unregister", "untrack", "flush"} => q.kind \in {"page", "visit"}
           /\ q.step \in {"readIndex", "track"} => q.kind \in {"page", "login"}
           /\ q.step \in {"saveCheck", "save"} => q.kind \in {"page", "visit", "login"}
           /\ q.step \in {"purge", "kill", "drop"} => q.kind \in {"suspend", "delete"}
           /\ q.step = "commit" => q.kind = "delete"
           /\ q.step # "idle" => q.user \in Users
           /\ q.kind \in {"page", "visit", "login"} /\ q.step # "create" => q.key \in Keys
<1>1. q.kind = "none" => q.step = "idle"
    BY DEF Shape, Idle
<1>2. q.step = "idle" => q.kind = "none"
    BY DEF Shape, Idle
<1>3. q.kind \in {"none", "page", "visit", "login", "suspend", "delete"}
    BY DEF Request
<1>4. q.step # "idle" => q.user \in Users
    BY <1>1, <1>3 DEF Shape, Request
<1>5. q.kind \in {"page", "visit", "login"} /\ q.step # "create" => q.key \in Keys
    BY DEF Shape, Request
<1> QED
    BY <1>1, <1>2, <1>3, <1>4, <1>5 DEF Shape, PurgeSteps

\* The step of one request keeps the invariant when what it carries from now on was tied to
\* its user before, and so was what is written.
LEMMA OneRequest ==
    ASSUME StateInv, NEW r \in Requests, NEW q \in Request, Shape(q),
           req' = [req EXCEPT ![r] = q],
           status' \in [Users -> {"active", "suspended", "deleted"}],
           store' \in [Keys -> Users \cup {None}],
           index' \in [Users -> SUBSET Keys],
           \A k \in Keys, u \in Users : Carries(q, k, u) => Tied(k, u),
           \A k \in Keys, u \in Users : store'[k] = u => Tied(k, u),
           \A k \in Keys, u \in Users : k \in index'[u] => Tied(k, u)
    PROVE  StateInv'
<1>1. /\ req' \in [Requests -> Request]
      /\ \A s \in Requests : req'[s] = IF s = r THEN q ELSE req[s]
    BY DEF StateInv, TypeOK
<1>2. \A s \in Requests : Shape(req'[s])
    BY <1>1 DEF StateInv
<1>3. TypeOK'
    BY <1>1, <1>2 DEF TypeOK, Shape
<1>4. \A k \in Keys, u \in Users : Tied(k, u)' => Tied(k, u)
    BY <1>1 DEF Tied
<1>5. OneUserPerKey'
    BY <1>4 DEF StateInv, OneUserPerKey
<1> QED
    BY <1>2, <1>3, <1>5 DEF StateInv

\* As long as the tables are left alone, or sessions and keys only go.
LEMMA OnlyLoses ==
    ASSUME StateInv, NEW r \in Requests, NEW q \in Request, Shape(q),
           req' = [req EXCEPT ![r] = q],
           status' \in [Users -> {"active", "suspended", "deleted"}],
           store' \in [Keys -> Users \cup {None}],
           index' \in [Users -> SUBSET Keys],
           \A k \in Keys : store'[k] \in {store[k], None},
           \A u \in Users : index'[u] \subseteq index[u],
           \A k \in Keys, u \in Users : Carries(q, k, u) => Tied(k, u)
    PROVE  StateInv'
<1>1. \A k \in Keys, u \in Users : store'[k] = u => Tied(k, u)
    BY ConstantsAssumption DEF Tied
<1>2. \A k \in Keys, u \in Users : k \in index'[u] => Tied(k, u)
    BY DEF Tied
<1> QED
    BY <1>1, <1>2, OneRequest

LEMMA EndState ==
    ASSUME StateInv, NEW r \in Requests, End(r),
           status' \in [Users -> {"active", "suspended", "deleted"}],
           store' \in [Keys -> Users \cup {None}],
           index' \in [Users -> SUBSET Keys],
           \A k \in Keys : store'[k] \in {store[k], None},
           \A u \in Users : index'[u] \subseteq index[u]
    PROVE  StateInv'
<1>1. \A k \in Keys, u \in Users : ~Carries(Idle, k, u)
    BY ConstantsAssumption DEF Carries, Idle
<1> QED
    BY <1>1, IdleShape, OnlyLoses DEF End

LEMMA PageState ==
    ASSUME StateInv, NEW r \in Requests,
           \/ \E k \in Keys : LoadSession(r, k)
           \/ ReadRow(r) \/ ReadIndex(r) \/ Serve(r) \/ SetTimezone(r) \/ SaveCheck(r)
           \/ Logout(r)
    PROVE  StateInv'
<1> USE ConstantsAssumption
<1> DEFINE q == req'[r]
<1>0. /\ req[r] \in Request /\ Shape(req[r])
      /\ status \in [Users -> {"active", "suspended", "deleted"}]
      /\ store \in [Keys -> Users \cup {None}] /\ index \in [Users -> SUBSET Keys]
      /\ req \in [Requests -> Request]
    BY DEF StateInv, TypeOK
<1>1. ASSUME NEW k \in Keys, LoadSession(r, k)
      PROVE  StateInv'
    <2>1. /\ q = [step |-> "readRow", kind |-> "page", user |-> store[k], key |-> k, keys |-> {}]
          /\ req' = [req EXCEPT ![r] = q]
        BY <1>0, <1>1 DEF LoadSession, Idle
    <2>2. q \in Request /\ Shape(q)
        BY <1>0, <1>1, <2>1 DEF LoadSession, Request, Steps, Shape
    <2>3. \A j \in Keys, u \in Users : Carries(q, j, u) => Tied(j, u)
        BY <2>1 DEF Carries, Tied
    <2> QED
        BY <1>0, <1>1, <2>1, <2>2, <2>3, OnlyLoses DEF LoadSession
<1>2. CASE End(r) /\ UNCHANGED <<status, store, index>>
    BY <1>0, <1>2, EndState
<1>3. ASSUME NEW step \in {"readIndex", "saveCheck", "save", "unregister", "flush"}, Goto(r, step),
             UNCHANGED <<status, store, index>>,
             step = "readIndex" => req[r].step = "readRow",
             step \in {"saveCheck", "unregister", "flush"} => req[r].step = "view",
             step = "save" => req[r].step = "saveCheck"
      PROVE  StateInv'
    <2>1. q = [req[r] EXCEPT !.step = step] /\ req' = [req EXCEPT ![r] = q]
        BY <1>0, <1>3 DEF Goto
    <2>2. q \in Request /\ Shape(q)
        BY <1>0, <1>3, <2>1 DEF Request, Steps, Shape, Idle, PurgeSteps
    <2>3. \A j \in Keys, u \in Users : Carries(q, j, u) => Carries(req[r], j, u)
        BY <1>0, <1>3, <2>1 DEF Carries, Request
    <2>4. \A j \in Keys, u \in Users : Carries(q, j, u) => Tied(j, u)
        BY <2>3 DEF Tied
    <2> QED
        BY <1>0, <1>3, <2>1, <2>2, <2>4, OnlyLoses
<1>4. CASE ReadIndex(r)
    <2>1. /\ q = [req[r] EXCEPT !.keys = index[req[r].user] \cup {req[r].key}, !.step = "track"]
          /\ req' = [req EXCEPT ![r] = q]
        BY <1>0, <1>4 DEF ReadIndex
    <2>2. req[r].user \in Users /\ req[r].key \in Keys
        BY <1>0, <1>4 DEF ReadIndex, Request, Shape, Idle, PurgeSteps
    <2>3. q \in Request /\ Shape(q)
        BY <1>0, <1>4, <2>1, <2>2 DEF ReadIndex, Request, Steps, Shape, Idle, PurgeSteps
    <2>4. \A j \in Keys, u \in Users : Carries(q, j, u) => j \in index[u] \/ Carries(req[r], j, u)
        BY <1>0, <1>4, <2>1 DEF ReadIndex, Carries, Request
    <2>5. \A j \in Keys, u \in Users : Carries(q, j, u) => Tied(j, u)
        BY <2>4 DEF Tied
    <2> QED
        BY <1>0, <1>4, <2>1, <2>3, <2>5, OnlyLoses DEF ReadIndex
<1>5. CASE req[r].step = "readRow" /\ UNCHANGED <<status, store, index>>
           /\ req' = [req EXCEPT ![r].step = "view", ![r].kind = "visit"]
    <2>1. q = [req[r] EXCEPT !.step = "view", !.kind = "visit"] /\ req' = [req EXCEPT ![r] = q]
        BY <1>0, <1>5
    <2>2. q \in Request /\ Shape(q)
        BY <1>0, <1>5, <2>1 DEF Request, Steps, Shape, Idle, PurgeSteps
    <2>3. \A j \in Keys, u \in Users : Carries(q, j, u) => Carries(req[r], j, u)
        BY <1>0, <1>5, <2>1 DEF Carries, Request
    <2>4. \A j \in Keys, u \in Users : Carries(q, j, u) => Tied(j, u)
        BY <2>3 DEF Tied
    <2> QED
        BY <1>0, <1>5, <2>1, <2>2, <2>4, OnlyLoses
<1> QED
    BY <1>1, <1>2, <1>3, <1>4, <1>5 DEF ReadRow, Serve, SetTimezone, SaveCheck, Logout

\* What a request holds is tied to its user, and may be written.
LEMMA TrackState ==
    ASSUME StateInv, NEW r \in Requests, Track(r) \/ Untrack(r)
    PROVE  StateInv'
<1> USE ConstantsAssumption
<1> DEFINE q == req'[r]
<1>0. /\ req[r] \in Request /\ Shape(req[r])
      /\ status \in [Users -> {"active", "suspended", "deleted"}]
      /\ store \in [Keys -> Users \cup {None}] /\ index \in [Users -> SUBSET Keys]
      /\ req \in [Requests -> Request]
    BY DEF StateInv, TypeOK
<1>a. PICK step \in {"saveCheck", "view", "flush"} :
          /\ req' = [req EXCEPT ![r].step = step, ![r].keys = {}]
          /\ \/ req[r].step = "track" /\ step = IF req[r].kind = "login" THEN "saveCheck" ELSE "view"
             \/ req[r].step = "untrack" /\ step = "flush"
    BY DEF Track, Untrack
<1>1. q = [req[r] EXCEPT !.step = step, !.keys = {}] /\ req' = [req EXCEPT ![r] = q]
    BY <1>0, <1>a
<1>b. /\ req[r].kind \in {"page", "visit", "login"} /\ req[r].user \in Users /\ req[r].key \in Keys
      /\ step = "flush" => req[r].kind \in {"page", "visit"}
      /\ step \in {"view", "saveCheck"} => req[r].kind \in {"page", "login"}
      /\ step # "create" /\ step # "track" /\ step # "idle"
    BY <1>0, <1>a, Kinds
<1>2. q \in Request /\ Shape(q) /\ req[r].user \in Users
    BY <1>0, <1>a, <1>b, <1>1 DEF Request, Steps, Shape
<1>3. index' = [index EXCEPT ![req[r].user] = req[r].keys] /\ UNCHANGED <<status, store>>
    BY DEF Track, Untrack
<1>4. index' \in [Users -> SUBSET Keys]
    BY <1>0, <1>2, <1>3 DEF Request
<1>5. \A k \in Keys, u \in Users : Carries(q, k, u) => Carries(req[r], k, u)
    BY <1>0, <1>a, <1>1 DEF Carries, Request
<1>6. \A k \in Keys, u \in Users : Carries(q, k, u) => Tied(k, u)
    BY <1>5 DEF Tied
<1>7. \A k \in Keys, u \in Users : k \in index'[u] => k \in index[u] \/ Carries(req[r], k, u)
    BY <1>0, <1>2, <1>3 DEF Carries
<1>8. \A k \in Keys, u \in Users : k \in index'[u] => Tied(k, u)
    BY <1>7 DEF Tied
<1>9. \A k \in Keys, u \in Users : store'[k] = u => Tied(k, u)
    BY <1>3 DEF Tied
<1> QED
    BY <1>0, <1>1, <1>2, <1>3, <1>4, <1>6, <1>8, <1>9, OneRequest

LEMMA SaveState ==
    ASSUME StateInv, NEW r \in Requests, Save(r)
    PROVE  StateInv'
<1> USE ConstantsAssumption
<1>0. /\ req[r] \in Request /\ Shape(req[r])
      /\ status \in [Users -> {"active", "suspended", "deleted"}]
      /\ store \in [Keys -> Users \cup {None}] /\ index \in [Users -> SUBSET Keys]
    BY DEF StateInv, TypeOK
<1>1. req[r].user \in Users /\ req[r].key \in Keys
    BY <1>0 DEF Save, Request, Shape, Idle, PurgeSteps
<1>2. store' = [store EXCEPT ![req[r].key] = req[r].user] /\ UNCHANGED <<status, index>>
    BY DEF Save
<1>3. store' \in [Keys -> Users \cup {None}]
    BY <1>0, <1>1, <1>2
<1>4. \A k \in Keys, u \in Users : store'[k] = u => store[k] = u \/ Carries(req[r], k, u)
    BY <1>0, <1>1, <1>2 DEF Save, Carries
<1>5. \A k \in Keys, u \in Users : store'[k] = u => Tied(k, u)
    BY <1>4 DEF Tied
<1>6. \A k \in Keys, u \in Users : ~Carries(Idle, k, u)
    BY DEF Carries, Idle
<1>7. \A k \in Keys, u \in Users : k \in index'[u] => Tied(k, u)
    BY <1>2 DEF Tied
<1> QED
    BY <1>0, <1>2, <1>3, <1>5, <1>6, <1>7, IdleShape, OneRequest DEF Save, End

\* The new key is tied to nobody before.
LEMMA LoginState ==
    ASSUME StateInv, NEW r \in Requests,
           \/ \E u \in Users : Authenticate(r, u) \/ AuthenticateOver(r, u)
           \/ \E k \in Keys : CreateSession(r, k)
    PROVE  StateInv'
<1> USE ConstantsAssumption
<1> DEFINE q == req'[r]
<1>0. /\ req[r] \in Request /\ Shape(req[r])
      /\ status \in [Users -> {"active", "suspended", "deleted"}]
      /\ store \in [Keys -> Users \cup {None}] /\ index \in [Users -> SUBSET Keys]
      /\ req \in [Requests -> Request]
    BY DEF StateInv, TypeOK
<1>1. ASSUME NEW u \in Users, Authenticate(r, u) \/ AuthenticateOver(r, u)
      PROVE  StateInv'
    <2>a. UNCHANGED <<status, store, index>>
        BY <1>1 DEF Authenticate, AuthenticateOver
    <2>1. PICK key \in Keys \cup {None} :
              /\ q = [step |-> "create", kind |-> "login", user |-> u, key |-> key, keys |-> {}]
              /\ req' = [req EXCEPT ![r] = q]
        <3>1. CASE Authenticate(r, u)
            BY <1>0, <3>1 DEF Authenticate, Idle
        <3>2. CASE AuthenticateOver(r, u)
            <4>1. /\ q = [req[r] EXCEPT !.step = "create", !.kind = "login", !.user = u]
                  /\ req' = [req EXCEPT ![r] = q]
                BY <1>0, <3>2 DEF AuthenticateOver
            <4>2. req[r].keys = {} /\ req[r].key \in Keys \cup {None}
                BY <1>0, <3>2 DEF AuthenticateOver, Shape, Request
            <4>3. q = [step |-> "create", kind |-> "login", user |-> u, key |-> req[r].key, keys |-> {}]
                BY <1>0, <4>1, <4>2 DEF Request
            <4> QED
                BY <4>1, <4>2, <4>3
        <3> QED
            BY <1>1, <3>1, <3>2
    <2>2. q \in Request
        BY <2>1 DEF Request, Steps
    <2>3. Shape(q)
        BY <1>0, <2>1 DEF Shape, PurgeSteps
    <2>4. \A j \in Keys, w \in Users : ~Carries(q, j, w)
        BY <2>1 DEF Carries
    <2> QED
        BY <1>0, <2>a, <2>1, <2>2, <2>3, <2>4, OnlyLoses
<1>2. ASSUME NEW k \in Keys, CreateSession(r, k)
      PROVE  StateInv'
    <2>1. /\ q = [req[r] EXCEPT !.key = k, !.step = "readIndex"]
          /\ req' = [req EXCEPT ![r] = q]
        BY <1>0, <1>2 DEF CreateSession
    <2>2. req[r].kind = "login" /\ req[r].user \in Users
        BY <1>0, <1>2, Kinds DEF CreateSession
    <2>3. q \in Request /\ Shape(q)
        BY <1>0, <2>1, <2>2 DEF Request, Steps, Shape, Idle, PurgeSteps
    <2>4. store' \in [Keys -> Users \cup {None}] /\ UNCHANGED <<status, index>>
        BY <1>0, <1>2, <2>2 DEF CreateSession
    <2>5. \A s \in Requests : req'[s] = IF s = r THEN q ELSE req[s]
        BY <1>0, <2>1
    <2>6. \A w \in Users : Tied(k, w)' => w = req[r].user
        <3> SUFFICES ASSUME NEW w \in Users, Tied(k, w)'
                     PROVE  w = req[r].user
            OBVIOUS
        <3>1. CASE store'[k] = w
            BY <1>2, <3>1 DEF CreateSession
        <3>2. k \notin index'[w]
            BY <1>2, <2>4 DEF CreateSession, Unused
        <3>3. ASSUME NEW s \in Requests, s # r
              PROVE  ~Carries(req'[s], k, w)
            <4>1. req'[s] = req[s]
                BY <2>5, <3>3
            <4>2. req[s].key # k /\ k \notin req[s].keys
                BY <1>2 DEF CreateSession, Unused
            <4> QED
                BY <4>1, <4>2 DEF Carries
        <3>4. CASE Carries(q, k, w)
            BY <1>0, <2>1, <3>4 DEF Carries, Request
        <3> QED
            BY <3>1, <3>2, <3>3, <3>4 DEF Tied
    <2>7. \A j \in Keys, w \in Users : j # k /\ Tied(j, w)' => Tied(j, w)
        <3> SUFFICES ASSUME NEW j \in Keys, NEW w \in Users, j # k, Tied(j, w)'
                     PROVE  Tied(j, w)
            OBVIOUS
        <3>1. CASE store'[j] = w
            BY <1>2, <3>1 DEF CreateSession, Tied
        <3>2. CASE j \in index'[w]
            BY <2>4, <3>2 DEF Tied
        <3>3. CASE \E s \in Requests : Carries(req'[s], j, w)
            <4>1. PICK s \in Requests : Carries(req'[s], j, w)
                BY <3>3
            <4>2. Carries(req[s], j, w)
                BY <1>0, <2>1, <2>5, <4>1 DEF Carries, Request
            <4> QED
                BY <4>2 DEF Tied
        <3> QED
            BY <3>1, <3>2, <3>3 DEF Tied
    <2>8. OneUserPerKey'
        BY <2>6, <2>7 DEF StateInv, OneUserPerKey
    <2>9. \A s \in Requests : req'[s] \in Request /\ Shape(req'[s])
        BY <2>3, <2>5 DEF StateInv, TypeOK
    <2>10. TypeOK'
        BY <1>0, <2>1, <2>4, <2>9 DEF TypeOK, Shape
    <2> QED
        BY <2>8, <2>9, <2>10 DEF StateInv
<1> QED
    BY <1>1, <1>2

LEMMA PurgeState ==
    ASSUME StateInv, NEW r \in Requests,
           \/ \E u \in Users : Suspend(r, u) \/ Delete(r, u)
           \/ \E k \in Keys : PurgeKill(r, k)
           \/ PurgeRead(r) \/ PurgeDrop(r)
    PROVE  StateInv'
<1> USE ConstantsAssumption
<1> DEFINE q == req'[r]
<1>0. /\ req[r] \in Request /\ Shape(req[r])
      /\ status \in [Users -> {"active", "suspended", "deleted"}]
      /\ store \in [Keys -> Users \cup {None}] /\ index \in [Users -> SUBSET Keys]
      /\ req \in [Requests -> Request]
    BY DEF StateInv, TypeOK
<1>1. ASSUME NEW u \in Users, Suspend(r, u) \/ Delete(r, u)
      PROVE  StateInv'
    <2>1. /\ q \in {[step |-> "purge", kind |-> kind, user |-> u, key |-> None, keys |-> {}] :
                       kind \in {"suspend", "delete"}}
          /\ req' = [req EXCEPT ![r] = q]
        BY <1>0, <1>1 DEF Suspend, Delete, Idle
    <2>2. q \in Request /\ Shape(q)
        BY <1>0, <1>1, <2>1 DEF Request, Steps, Shape, PurgeSteps
    <2>3. \A j \in Keys, w \in Users : ~Carries(q, j, w)
        BY <2>1 DEF Carries
    <2>4. status' \in [Users -> {"active", "suspended", "deleted"}]
        BY <1>0, <1>1 DEF Suspend, Delete
    <2> QED
        BY <1>0, <1>1, <2>1, <2>2, <2>3, <2>4, OnlyLoses DEF Suspend, Delete
<1>2. req[r].step \in PurgeSteps =>
          req[r].kind \in {"suspend", "delete"} /\ req[r].user \in Users
    BY <1>0 DEF Shape, Idle, Request, PurgeSteps
<1>3. ASSUME NEW k \in Keys, PurgeKill(r, k)
      PROVE  StateInv'
    <2>1. /\ q = [req[r] EXCEPT !.keys = req[r].keys \ {k}, !.step = q.step]
          /\ req' = [req EXCEPT ![r] = q]
          /\ q.step \in {"kill", "drop"} /\ req[r].step = "kill"
        BY <1>0, <1>3 DEF PurgeKill, Request
    <2>2. q \in Request /\ Shape(q)
        BY <1>0, <1>2, <2>1 DEF Request, Steps, Shape, Idle, PurgeSteps
    <2>3. \A j \in Keys, u \in Users : Carries(q, j, u) => Carries(req[r], j, u)
        BY <1>0, <2>1 DEF Carries, Request
    <2>4. \A j \in Keys, u \in Users : Carries(q, j, u) => Tied(j, u)
        BY <2>3 DEF Tied
    <2>5. /\ store' \in [Keys -> Users \cup {None}] /\ \A j \in Keys : store'[j] \in {store[j], None}
          /\ UNCHANGED <<status, index>>
        BY <1>0, <1>3 DEF PurgeKill
    <2> QED
        BY <1>0, <2>1, <2>2, <2>4, <2>5, OnlyLoses
<1>4. CASE PurgeRead(r) \/ PurgeDrop(r)
    <2>1. /\ index' \in [Users -> SUBSET Keys] /\ \A u \in Users : index'[u] \subseteq index[u]
          /\ UNCHANGED <<status, store>>
          /\ req[r].step \in PurgeSteps
        BY <1>0, <1>4 DEF PurgeRead, PurgeDrop, PurgeSteps
    <2>2. CASE End(r)
        BY <1>0, <2>1, <2>2, EndState
    <2>3. CASE Goto(r, "commit") /\ req[r].kind = "delete"
        <3>1. q = [req[r] EXCEPT !.step = "commit"] /\ req' = [req EXCEPT ![r] = q]
            BY <1>0, <2>3 DEF Goto
        <3>2. q \in Request /\ Shape(q)
            BY <1>0, <1>2, <2>1, <2>3, <3>1 DEF Request, Steps, Shape, Idle, PurgeSteps
        <3>3. \A j \in Keys, u \in Users : Carries(q, j, u) => Carries(req[r], j, u)
            BY <1>0, <2>1, <3>1 DEF Carries, Request, PurgeSteps
        <3>4. \A j \in Keys, u \in Users : Carries(q, j, u) => Tied(j, u)
            BY <3>3 DEF Tied
        <3> QED
            BY <1>0, <2>1, <3>1, <3>2, <3>4, OnlyLoses
    <2>4. CASE req' = [req EXCEPT ![r].keys = index[req[r].user], ![r].step = "kill"]
        <3>1. /\ q = [req[r] EXCEPT !.keys = index[req[r].user], !.step = "kill"]
              /\ req' = [req EXCEPT ![r] = q]
            BY <1>0, <2>4
        <3>2. q \in Request /\ Shape(q)
            BY <1>0, <1>2, <2>1, <3>1 DEF Request, Steps, Shape, Idle, PurgeSteps
        <3>3. \A j \in Keys, u \in Users : Carries(q, j, u) => j \in index[u] \/ Carries(req[r], j, u)
            BY <1>0, <2>1, <3>1 DEF Carries, Request, PurgeSteps
        <3>4. \A j \in Keys, u \in Users : Carries(q, j, u) => Tied(j, u)
            BY <3>3 DEF Tied
        <3> QED
            BY <1>0, <2>1, <3>1, <3>2, <3>4, OnlyLoses
    <2> QED
        BY <1>4, <2>2, <2>3, <2>4 DEF PurgeRead, PurgeDrop, AfterPurge
<1> QED
    BY <1>1, <1>3, <1>4

LEMMA InitState == Init => StateInv
<1> SUFFICES ASSUME Init PROVE StateInv
    OBVIOUS
<1>1. TypeOK /\ \A r \in Requests : Shape(req[r])
    BY IdleShape DEF Init, TypeOK, Idle
<1>2. \A k \in Keys, u \in Users : ~Tied(k, u)
    BY ConstantsAssumption DEF Init, Tied, Carries, Idle
<1> QED
    BY <1>1, <1>2 DEF StateInv, OneUserPerKey

LEMMA StateStep == StateInv /\ [Next]_vars => StateInv'
<1> SUFFICES ASSUME StateInv, [Next]_vars PROVE StateInv'
    OBVIOUS
<1>0. /\ status \in [Users -> {"active", "suspended", "deleted"}]
      /\ store \in [Keys -> Users \cup {None}] /\ index \in [Users -> SUBSET Keys]
    BY DEF StateInv, TypeOK
<1>1. ASSUME NEW r \in Requests, NEW k \in Keys,
             LoadSession(r, k) \/ CreateSession(r, k) \/ PurgeKill(r, k)
      PROVE  StateInv'
    BY <1>1, PageState, LoginState, PurgeState
<1>2. ASSUME NEW r \in Requests,
             \/ ReadRow(r) \/ ReadIndex(r) \/ Serve(r) \/ SetTimezone(r) \/ SaveCheck(r)
             \/ Logout(r) \/ Track(r) \/ Untrack(r) \/ Save(r) \/ PurgeRead(r) \/ PurgeDrop(r)
      PROVE  StateInv'
    BY <1>2, PageState, TrackState, SaveState, PurgeState
<1>3. ASSUME NEW r \in Requests, NEW u \in Users, Authenticate(r, u) \/ AuthenticateOver(r, u)
      PROVE  StateInv'
    BY <1>3, LoginState
<1>4. ASSUME NEW r \in Requests, Unregister(r)
      PROVE  StateInv'
    <2> DEFINE q == req'[r]
    <2>0. req[r] \in Request /\ Shape(req[r]) /\ req \in [Requests -> Request]
        BY DEF StateInv, TypeOK
    <2>1. req[r].kind \in {"page", "visit"} /\ req[r].user \in Users /\ req[r].key \in Keys
        BY <1>4, <2>0, Kinds DEF Unregister
    <2>2. PICK step \in {"untrack", "flush"}, keys \in SUBSET Keys :
              /\ req' = [req EXCEPT ![r].step = step, ![r].keys = keys]
              /\ keys \subseteq index[req[r].user] \cup req[r].keys
        <3>1. CASE req[r].key \in index[req[r].user]
            <4>1. req' = [req EXCEPT ![r].step = "untrack",
                                     ![r].keys = index[req[r].user] \ {req[r].key}]
                BY <1>4, <3>1 DEF Unregister
            <4>2. index[req[r].user] \ {req[r].key} \in SUBSET Keys
                BY <1>0, <2>1
            <4> QED
                BY <4>1, <4>2
        <3>2. CASE Goto(r, "flush")
            <4>1. req' = [req EXCEPT ![r].step = "flush", ![r].keys = req[r].keys]
                BY <2>0, <3>2 DEF Goto, Request
            <4> QED
                BY <2>0, <4>1 DEF Request
        <3> QED
            BY <1>4, <3>1, <3>2 DEF Unregister
    <2>3. q = [req[r] EXCEPT !.step = step, !.keys = keys] /\ req' = [req EXCEPT ![r] = q]
        BY <2>0, <2>2
    <2>4. q \in Request /\ Shape(q)
        BY <1>0, <2>0, <2>1, <2>3 DEF Request, Steps, Shape
    <2>5. \A k \in Keys, u \in Users : Carries(q, k, u) => k \in index[u] \/ Carries(req[r], k, u)
        BY <1>4, <2>0, <2>2, <2>3 DEF Unregister, Carries, Request
    <2>6. \A k \in Keys, u \in Users : Carries(q, k, u) => Tied(k, u)
        BY <2>5 DEF Tied
    <2> QED
        BY <1>0, <1>4, <2>3, <2>4, <2>6, OnlyLoses DEF Unregister
<1>5. ASSUME NEW r \in Requests, Flush(r) \/ Commit(r) \/ Crash(r)
      PROVE  StateInv'
    <2>1. /\ status' \in [Users -> {"active", "suspended", "deleted"}]
          /\ store' \in [Keys -> Users \cup {None}] /\ \A k \in Keys : store'[k] \in {store[k], None}
          /\ index' = index /\ End(r)
        BY <1>0, <1>5 DEF Flush, Commit, Crash
    <2> QED
        BY <1>0, <2>1, EndState
<1>6. ASSUME NEW r \in Requests, NEW u \in Users, Suspend(r, u) \/ Delete(r, u)
      PROVE  StateInv'
    BY <1>6, PurgeState
<1>7. CASE (\E r \in Requests, u \in Users : Activate(r, u)) \/ (\E k \in Keys : ExpireSession(k))
           \/ (\E u \in Users : ExpireIndex(u)) \/ UNCHANGED vars
    <2>1. /\ status' \in [Users -> {"active", "suspended", "deleted"}]
          /\ store' \in [Keys -> Users \cup {None}] /\ index' \in [Users -> SUBSET Keys]
          /\ \A k \in Keys : store'[k] \in {store[k], None}
          /\ \A u \in Users : index'[u] \subseteq index[u]
          /\ req' = req
        BY <1>0, <1>7 DEF Activate, ExpireSession, ExpireIndex, vars
    <2>2. TypeOK' /\ \A r \in Requests : Shape(req'[r])
        BY <2>1 DEF StateInv, TypeOK
    <2>3. \A k \in Keys, u \in Users : Tied(k, u)' => Tied(k, u)
        BY <2>1, ConstantsAssumption DEF Tied
    <2> QED
        BY <2>2, <2>3 DEF StateInv, OneUserPerKey
<1> QED
    BY <1>1, <1>2, <1>3, <1>4, <1>5, <1>6, <1>7 DEF Next, Step
-----------------------------------------------------------------------------
(* One request at a time                                                   *)

\* CalmInv for the only request that is not idle.
Lonely(r) == \A s \in Requests \ {r} : req[s] = Idle

Apart(r) ==
    /\ \A k \in Keys : store[k] # None =>
          /\ \/ k \in index[store[k]]
             \/ req[r].key = k /\ req[r].step \in {"readIndex", "track", "flush"}
          /\ \/ status[store[k]] = "active"
             \/ req[r].kind = "suspend" /\ req[r].user = store[k]
    /\ Holds(req[r])

LEMMA ApartSuffices ==
    ASSUME StateInv, CalmInv, calm, NEW r \in Requests, Lonely(r)
    PROVE  Apart(r)
<1>1. \A k \in Keys : Tracked(k) /\ Alive(k)
    BY DEF CalmInv
<1>2. \A k \in Keys : Untracked(k) =>
          req[r].key = k /\ req[r].step \in {"readIndex", "track", "flush"}
    BY DEF Untracked, Lonely, Idle
<1>3. \A k \in Keys : Doomed(k) => req[r].kind = "suspend" /\ req[r].user = store[k]
    BY DEF Doomed, Lonely, Idle
<1> QED
    BY <1>1, <1>2, <1>3 DEF CalmInv, Apart, Tracked, Alive

LEMMA ApartIsEnough ==
    ASSUME NEW r \in Requests, Lonely(r), Apart(r)
    PROVE  CalmInv
<1>1. ~Overlap
    BY DEF Lonely, Overlap, Idle
<1>2. Holds(Idle)
    BY DEF Holds, Idle
<1>3. \A s \in Requests : Holds(req[s])
    BY <1>2 DEF Lonely, Apart
<1>4. ASSUME NEW k \in Keys PROVE Tracked(k) /\ Alive(k)
    BY DEF Apart, Tracked, Alive, Untracked, Doomed
<1> QED
    BY <1>1, <1>3, <1>4 DEF CalmInv

LEMMA PageApart ==
    ASSUME StateInv, NEW r \in Requests, Apart(r),
           \/ \E k \in Keys : LoadSession(r, k)
           \/ ReadRow(r) \/ ReadIndex(r) \/ Track(r) \/ Serve(r) \/ SetTimezone(r)
           \/ SaveCheck(r) \/ Save(r) \/ Logout(r)
    PROVE  Apart(r)'
<1> USE ConstantsAssumption
<1>0. /\ req[r] \in Request /\ Shape(req[r])
      /\ status \in [Users -> {"active", "suspended", "deleted"}]
      /\ store \in [Keys -> Users \cup {None}] /\ index \in [Users -> SUBSET Keys]
      /\ req \in [Requests -> Request]
    BY DEF StateInv, TypeOK
<1>i. req[r].step = "idle" => req[r] = Idle
    BY <1>0 DEF Shape
<1>n. req[r].step = "idle" =>
          \A k \in Keys : store[k] # None => k \in index[store[k]] /\ status[store[k]] = "active"
    BY <1>0, <1>i DEF Apart, Idle
<1>k. /\ req[r].step = "readRow" => req[r].kind = "page"
      /\ req[r].step # "idle" => req[r].user \in Users
      /\ req[r].step \in {"readIndex", "track"} => req[r].kind \in {"page", "login"}
      /\ req[r].step \in {"readIndex", "track", "view", "saveCheck", "save"} =>
            req[r].kind \in {"page", "visit", "login"} /\ req[r].key \in Keys
    BY <1>0, Kinds
<1>1. ASSUME NEW k \in Keys, LoadSession(r, k)
      PROVE  Apart(r)'
    <2>1. req'[r] = [step |-> "readRow", kind |-> "page", user |-> store[k], key |-> k, keys |-> {}]
        BY <1>0, <1>1 DEF LoadSession, Idle
    <2>2. req[r].step = "idle" /\ UNCHANGED <<status, store, index>>
        BY <1>1 DEF LoadSession
    <2>3. status[store[k]] = "active"
        BY <1>n, <1>1, <2>2 DEF LoadSession
    <2>4. Holds(req[r])'
        BY <2>1, <2>2, <2>3 DEF Holds
    <2> QED
        BY <1>n, <2>1, <2>2, <2>4 DEF Apart
<1>2. CASE ReadRow(r)
    BY <1>0, <1>2, <1>k DEF ReadRow, Goto, End, Apart, Holds, Idle, Request
<1>3. CASE ReadIndex(r)
    BY <1>0, <1>3, <1>k DEF ReadIndex, Apart, Holds, Request
<1>4. CASE Track(r)
    BY <1>0, <1>4, <1>k DEF Track, Apart, Holds, Request, Shape
<1>5. CASE Serve(r)
    BY <1>0, <1>5, <1>k DEF Serve, End, Apart, Holds, Idle
<1>6. CASE SetTimezone(r)
    BY <1>0, <1>6, <1>k DEF SetTimezone, Goto, Apart, Holds, Request
<1>7. CASE SaveCheck(r)
    BY <1>0, <1>7, <1>k DEF SaveCheck, Goto, End, Apart, Holds, Idle, Request
<1>8. CASE Save(r)
    BY <1>0, <1>8, <1>k DEF Save, End, Apart, Holds, Idle
<1>9. CASE Logout(r)
    BY <1>0, <1>9, <1>k DEF Logout, Goto, Apart, Holds, Request
<1> QED
    BY <1>1, <1>2, <1>3, <1>4, <1>5, <1>6, <1>7, <1>8, <1>9

LEMMA LoginApart ==
    ASSUME StateInv, NEW r \in Requests, Apart(r),
           \/ \E u \in Users : Authenticate(r, u) \/ AuthenticateOver(r, u)
           \/ \E k \in Keys : CreateSession(r, k)
           \/ Unregister(r) \/ Untrack(r) \/ Flush(r)
    PROVE  Apart(r)'
<1> USE ConstantsAssumption
<1>0. /\ req[r] \in Request /\ Shape(req[r])
      /\ status \in [Users -> {"active", "suspended", "deleted"}]
      /\ store \in [Keys -> Users \cup {None}] /\ index \in [Users -> SUBSET Keys]
      /\ req \in [Requests -> Request]
    BY DEF StateInv, TypeOK
<1>i. req[r].step = "idle" => req[r] = Idle
    BY <1>0 DEF Shape
<1>n. req[r].step \in {"idle", "view"} =>
          \A k \in Keys : store[k] # None => k \in index[store[k]] /\ status[store[k]] = "active"
    BY <1>0, <1>i, Kinds DEF Apart, Idle
<1>k. /\ req[r].step = "create" => req[r].kind = "login"
      /\ req[r].step # "idle" => req[r].user \in Users
      /\ req[r].step \in {"view", "unregister", "untrack", "flush"} =>
            req[r].kind \in {"page", "visit"} /\ req[r].key \in Keys
    BY <1>0, Kinds
<1>1. ASSUME NEW u \in Users, Authenticate(r, u) \/ AuthenticateOver(r, u)
      PROVE  Apart(r)'
    <2>1. req'[r].step = "create" /\ req'[r].kind = "login" /\ req'[r].user = u
        <3>1. CASE Authenticate(r, u)
            BY <1>0, <3>1 DEF Authenticate, Idle
        <3>2. CASE AuthenticateOver(r, u)
            <4>1. req'[r] = [req[r] EXCEPT !.step = "create", !.kind = "login", !.user = u]
                BY <1>0, <3>2 DEF AuthenticateOver
            <4> QED
                BY <1>0, <4>1 DEF Request
        <3> QED
            BY <1>1, <3>1, <3>2
    <2>2. req[r].step \in {"idle", "view"} /\ status[u] = "active" /\ UNCHANGED <<status, store, index>>
        BY <1>1 DEF Authenticate, AuthenticateOver
    <2>3. Holds(req[r])'
        BY <2>1, <2>2 DEF Holds
    <2> QED
        BY <1>n, <2>1, <2>2, <2>3 DEF Apart
<1>2. ASSUME NEW k \in Keys, CreateSession(r, k)
      PROVE  Apart(r)'
    BY <1>0, <1>2, <1>k DEF CreateSession, Apart, Holds, Request
<1>3. CASE Unregister(r)
    BY <1>0, <1>3, <1>k DEF Unregister, Goto, Apart, Holds, Request
<1>4. CASE Untrack(r)
    BY <1>0, <1>4, <1>k DEF Untrack, Apart, Holds, Request
<1>5. CASE Flush(r)
    BY <1>0, <1>5, <1>k DEF Flush, End, Apart, Holds, Idle
<1> QED
    BY <1>1, <1>2, <1>3, <1>4, <1>5

LEMMA PurgeApart ==
    ASSUME StateInv, NEW r \in Requests, Apart(r),
           \/ \E u \in Users : Suspend(r, u) \/ Delete(r, u)
           \/ \E k \in Keys : PurgeKill(r, k)
           \/ PurgeRead(r) \/ PurgeDrop(r) \/ Commit(r)
    PROVE  Apart(r)'
<1> USE ConstantsAssumption
<1>0. /\ req[r] \in Request /\ Shape(req[r])
      /\ status \in [Users -> {"active", "suspended", "deleted"}]
      /\ store \in [Keys -> Users \cup {None}] /\ index \in [Users -> SUBSET Keys]
      /\ req \in [Requests -> Request]
    BY DEF StateInv, TypeOK
<1>i. req[r].step = "idle" => req[r] = Idle
    BY <1>0 DEF Shape
<1>n. req[r].step = "idle" =>
          \A k \in Keys : store[k] # None => k \in index[store[k]] /\ status[store[k]] = "active"
    BY <1>0, <1>i DEF Apart, Idle
<1>k. /\ req[r].step = "commit" => req[r].kind = "delete"
      /\ req[r].step # "idle" => req[r].user \in Users
      /\ req[r].step \in {"purge", "kill", "drop"} => req[r].kind \in {"suspend", "delete"}
    BY <1>0, Kinds
<1>1. ASSUME NEW u \in Users, Suspend(r, u)
      PROVE  Apart(r)'
    <2>1. req'[r] = [step |-> "purge", kind |-> "suspend", user |-> u, key |-> None, keys |-> {}]
        BY <1>0, <1>1 DEF Suspend, Idle
    <2>2. \A w \in Users : status'[w] = IF w = u THEN "suspended" ELSE status[w]
        BY <1>0, <1>1 DEF Suspend
    <2>3. req[r].step = "idle" /\ UNCHANGED <<store, index>>
        BY <1>1 DEF Suspend
    <2>4. Holds(req[r])'
        BY <2>1 DEF Holds
    <2> QED
        BY <1>0, <1>n, <2>1, <2>2, <2>3, <2>4 DEF Apart
<1>2. ASSUME NEW u \in Users, Delete(r, u)
      PROVE  Apart(r)'
    <2>1. req'[r] = [step |-> "purge", kind |-> "delete", user |-> u, key |-> None, keys |-> {}]
        BY <1>0, <1>2 DEF Delete, Idle
    <2>2. req[r].step = "idle" /\ UNCHANGED <<status, store, index>>
        BY <1>2 DEF Delete
    <2>3. Holds(req[r])'
        BY <2>1 DEF Holds
    <2> QED
        BY <1>n, <2>1, <2>2, <2>3 DEF Apart
<1>3. ASSUME NEW k \in Keys, PurgeKill(r, k)
      PROVE  Apart(r)'
    BY <1>0, <1>3, <1>k DEF PurgeKill, Apart, Holds, Request
<1>4. CASE PurgeRead(r)
    BY <1>0, <1>4, <1>k DEF PurgeRead, AfterPurge, Goto, End, Apart, Holds, Idle, Request
<1>5. CASE PurgeDrop(r)
    BY <1>0, <1>5, <1>k DEF PurgeDrop, AfterPurge, Goto, End, Apart, Holds, Idle, Request
<1>6. CASE Commit(r)
    BY <1>0, <1>6, <1>k DEF Commit, End, Apart, Holds, Idle
<1> QED
    BY <1>1, <1>2, <1>3, <1>4, <1>5, <1>6

\* Nothing that is not a request's does harm: activating an account, or what runs out.
LEMMA OthersCalm ==
    ASSUME StateInv, CalmInv, calm,
           \/ \E r \in Requests, u \in Users : Activate(r, u)
           \/ \E k \in Keys : ExpireSession(k)
           \/ \E u \in Users : ExpireIndex(u)
           \/ UNCHANGED vars
    PROVE  CalmInv'
<1>0. /\ status \in [Users -> {"active", "suspended", "deleted"}]
      /\ store \in [Keys -> Users \cup {None}] /\ index \in [Users -> SUBSET Keys]
      /\ None \notin Users
      /\ \A r \in Requests : req[r].step # "idle" => req[r].user \in Users
    BY Kinds, ConstantsAssumption DEF StateInv, TypeOK
<1>1. /\ req' = req
      /\ \A u \in Users : status'[u] = status[u] \/ status'[u] = "active"
      /\ \A k \in Keys : store'[k] \in {store[k], None}
      /\ \A u \in Users : \/ index'[u] = index[u]
                          \/ /\ \A k \in Keys : store'[k] # u
                             /\ \A r \in Requests : req[r].user = u /\ req[r].kind # "visit" =>
                                   req[r].step \notin {"view", "saveCheck", "save"}
    <2>1. CASE \E u \in Users : ExpireIndex(u)
        <3>1. PICK u \in Users : ExpireIndex(u)
            BY <2>1
        <3>2. ASSUME NEW k \in Keys, store[k] = u, status[u] # "active",
                     \A r \in Requests : req[r].user = u => req[r].kind = "visit"
              PROVE  FALSE
            <4>1. Alive(k) /\ store[k] # None
                BY <1>0, <3>2 DEF CalmInv
            <4> QED
                BY <3>2, <4>1 DEF Alive, Doomed
        <3>3. \A k \in Keys : store[k] # u
            BY <3>1, <3>2 DEF ExpireIndex
        <3> QED
            BY <1>0, <3>1, <3>3 DEF ExpireIndex
    <2>2. CASE ~\E u \in Users : ExpireIndex(u)
        BY <1>0, <2>2 DEF Activate, ExpireSession, vars
    <2> QED
        BY <2>1, <2>2
<1>2. ~Overlap'
    BY <1>1 DEF CalmInv, Overlap
<1>3. ASSUME NEW k \in Keys, store'[k] # None
      PROVE  Tracked(k)' /\ Alive(k)'
    <2>1. store'[k] = store[k] /\ store[k] \in Users
        BY <1>0, <1>1, <1>3
    <2>2. Tracked(k) /\ Alive(k)
        BY DEF CalmInv
    <2>3. index'[store[k]] = index[store[k]]
        BY <1>1, <2>1
    <2> QED
        BY <1>1, <1>3, <2>1, <2>2, <2>3 DEF Tracked, Untracked, Alive, Doomed
<1>4. ASSUME NEW r \in Requests PROVE Holds(req[r])'
    <2>1. Holds(req[r])
        BY DEF CalmInv
    <2>2. req[r].step \in {"view", "saveCheck", "save"} => index'[req[r].user] = index[req[r].user]
        BY <1>0, <1>1, <2>1 DEF Holds
    <2>3. req[r].kind \in {"page", "login"} => req[r].user \in Users
        BY ConstantsAssumption DEF StateInv, TypeOK, Request, Shape
    <2>4. \A k \in Keys : store'[k] = req[r].user /\ req[r].user # None => store[k] = req[r].user
        BY <1>1
    <2>5. req[r].step # "idle" => req[r].user # None
        BY <1>0
    <2>6. req[r].kind \in {"page", "login"} => status'[req[r].user] = "active"
        BY <1>1, <2>1, <2>3 DEF Holds
    <2> QED
        BY <1>1, <2>1, <2>2, <2>4, <2>5, <2>6 DEF Holds
<1> QED
    BY <1>2, <1>3, <1>4 DEF CalmInv, Tracked, Alive

IInv == StateInv /\ CalmInv

LEMMA InitIInv == Init => IInv
<1> SUFFICES ASSUME Init PROVE IInv
    OBVIOUS
<1>1. Holds(Idle)
    BY DEF Holds, Idle
<1>2. \A r \in Requests : req[r] = Idle
    BY DEF Init
<1>3. ~Overlap
    BY <1>2 DEF Overlap, Idle
<1>4. CalmInv
    BY <1>1, <1>2, <1>3 DEF Init, CalmInv, Tracked, Alive
<1> QED
    BY <1>4, InitState DEF IInv

LEMMA StepIInv == IInv /\ [Next]_vars => IInv'
<1> SUFFICES ASSUME IInv, [Next]_vars PROVE IInv'
    OBVIOUS
<1>1. StateInv /\ StateInv'
    BY StateStep DEF IInv
<1>2. ASSUME calm' PROVE CalmInv'
    <2>1. CASE UNCHANGED vars
        <3>1. calm
            BY <1>2, <2>1 DEF vars
        <3> QED
            BY <1>1, <2>1, <3>1, OthersCalm DEF IInv
    <2>2. CASE Next
        <3>1. Step /\ calm /\ ~Overlap'
            BY <1>2, <2>2 DEF Next
        <3>2. ~Overlap
            BY <3>1 DEF IInv, CalmInv
        <3>3. ASSUME NEW r \in Requests, req[r].step # "idle" \/ req'[r].step # "idle",
                     \A s \in Requests \ {r} : req'[s] = req[s]
              PROVE  Lonely(r) /\ Lonely(r)' /\ Apart(r)
            <4>1. \A s \in Requests \ {r} : req[s].step = "idle"
                BY <3>1, <3>2, <3>3 DEF Overlap
            <4>2. Lonely(r)
                BY <1>1, <4>1 DEF StateInv, Shape, Lonely
            <4> QED
                BY <1>1, <3>1, <3>3, <4>2, ApartSuffices DEF IInv, Lonely
        <3>4. ASSUME NEW r \in Requests,
                     \/ \E k \in Keys : LoadSession(r, k) \/ CreateSession(r, k) \/ PurgeKill(r, k)
                     \/ ReadRow(r) \/ ReadIndex(r) \/ Track(r)
                     \/ Serve(r) \/ SetTimezone(r) \/ SaveCheck(r) \/ Save(r)
                     \/ \E u \in Users : Authenticate(r, u) \/ AuthenticateOver(r, u)
                     \/ Logout(r) \/ Unregister(r) \/ Untrack(r) \/ Flush(r)
                     \/ \E u \in Users : Suspend(r, u) \/ Delete(r, u)
                     \/ PurgeRead(r) \/ PurgeDrop(r) \/ Commit(r)
              PROVE  CalmInv'
            <4>1. req[r].step # "idle" \/ req'[r].step # "idle"
                <5>0. req \in [Requests -> Request]
                    BY <1>1 DEF StateInv, TypeOK
                <5>1. CASE \/ \E k \in Keys : LoadSession(r, k)
                           \/ \E u \in Users : Authenticate(r, u)
                           \/ \E u \in Users : Suspend(r, u) \/ Delete(r, u)
                    BY <5>0, <5>1 DEF LoadSession, Authenticate, Suspend, Delete, Idle
                <5>2. CASE \/ \E k \in Keys : CreateSession(r, k) \/ PurgeKill(r, k)
                           \/ ReadRow(r) \/ ReadIndex(r) \/ Track(r)
                           \/ Serve(r) \/ SetTimezone(r) \/ SaveCheck(r) \/ Save(r)
                           \/ (\E u \in Users : AuthenticateOver(r, u))
                           \/ Logout(r) \/ Unregister(r) \/ Untrack(r) \/ Flush(r)
                           \/ PurgeRead(r) \/ PurgeDrop(r) \/ Commit(r)
                    BY <5>2 DEF CreateSession, PurgeKill, ReadRow, ReadIndex, Track, Serve,
                       SetTimezone, SaveCheck, Save, AuthenticateOver, Logout, Unregister, Untrack,
                       Flush, PurgeRead, PurgeDrop, Commit
                <5> QED
                    BY <3>4, <5>1, <5>2
            <4>2. \A s \in Requests \ {r} : req'[s] = req[s]
                BY <1>1, <3>4 DEF StateInv, TypeOK, LoadSession, CreateSession, PurgeKill, ReadRow,
                      ReadIndex, Track, Serve, SetTimezone, SaveCheck, Save, Authenticate,
                      AuthenticateOver, Logout, Unregister, Untrack, Flush, Suspend, Delete, PurgeRead, PurgeDrop, Commit, AfterPurge,
                      Goto, End
            <4>3. Lonely(r) /\ Lonely(r)' /\ Apart(r)
                BY <3>3, <4>1, <4>2
            <4>4. Apart(r)'
                BY <1>1, <3>4, <4>3, PageApart, LoginApart, PurgeApart
            <4>5. Lonely(r)' /\ Apart(r)' => CalmInv'
                BY ApartIsEnough, PTL
            <4> QED
                BY <4>3, <4>4, <4>5
        <3>5. CASE \/ \E r \in Requests, u \in Users : Activate(r, u)
                   \/ \E k \in Keys : ExpireSession(k)
                   \/ \E u \in Users : ExpireIndex(u)
            BY <1>1, <3>1, <3>5, OthersCalm DEF IInv
        <3> QED
            BY <3>1, <3>4, <3>5 DEF Step
    <2> QED
        BY <2>1, <2>2
<1>3. CalmInv'
    BY <1>2 DEF CalmInv
<1> QED
    BY <1>1, <1>3 DEF IInv

\* What holds of any interleaving, and what besides while requests follow one another.
THEOREM Invariance == Spec => []IInv
<1> QED
    BY InitIInv, StepIInv, PTL DEF Spec

\* Users, sessions, the index and requests keep their shapes: the index of a user holds keys,
\* a session the user it was created for.
THEOREM TypeCorrect == Spec => []TypeOK
<1>1. IInv => TypeOK
    BY DEF IInv, StateInv
<1> QED
    BY <1>1, Invariance, PTL

\* No interleaving of requests and purges logs out another account, and requests that follow
\* one another leave no session out of its index (accounts.services.register_user_session,
\* unregister_user_session, purge_user_sessions; CurrentUserMiddleware).
THEOREM IndexStaysRight == Spec => []IndexIsRight
<1>1. IInv => IndexIsRight
    <2> SUFFICES ASSUME IInv PROVE IndexIsRight
        OBVIOUS
    <2>0. store \in [Keys -> Users \cup {None}] /\ index \in [Users -> SUBSET Keys]
        BY DEF IInv, StateInv, TypeOK
    <2>1. ASSUME NEW u \in Users, NEW k \in index[u]
          PROVE  store[k] \in {u, None}
        <3>1. k \in Keys /\ Tied(k, u) /\ (store[k] \in Users => Tied(k, store[k]))
            BY <2>0 DEF Tied
        <3> QED
            BY <2>0, <3>1 DEF IInv, StateInv, OneUserPerKey
    <2>2. ASSUME NEW r \in Requests, NEW k \in req[r].keys
          PROVE  store[k] \in {req[r].user, None}
        <3>1. req[r] \in Request /\ Shape(req[r])
            BY DEF IInv, StateInv, TypeOK
        <3>2. req[r].user \in Users /\ k \in Keys
            BY <3>1, Kinds DEF Request, Shape, Idle
        <3>3. Tied(k, req[r].user) /\ (store[k] \in Users => Tied(k, store[k]))
            BY DEF Tied, Carries
        <3> QED
            BY <2>0, <3>2, <3>3 DEF IInv, StateInv, OneUserPerKey
    <2>3. calm /\ Quiet => EverySessionTracked
        BY DEF IInv, CalmInv, Quiet, EverySessionTracked, Tracked, Untracked
    <2> QED
        BY <2>1, <2>2, <2>3 DEF IndexIsRight, IndexIsOwn
<1> QED
    BY <1>1, Invariance, PTL

\* Requests that follow one another leave an inactive account no session (the purge of
\* core.views._apply_admin_user_action finds every one).
THEOREM PurgesAreComplete == Spec => []PurgeIsComplete
<1>1. IInv => PurgeIsComplete
    <2> SUFFICES ASSUME IInv, calm, Quiet, NEW k \in Keys, store[k] # None
                 PROVE  status[store[k]] = "active"
        BY DEF PurgeIsComplete, InactiveHasNoSession
    <2>1. ~Doomed(k)
        BY DEF IInv, StateInv, Quiet, Doomed, Shape, Idle
    <2> QED
        BY <2>1 DEF IInv, CalmInv, Alive
<1> QED
    BY <1>1, Invariance, PTL

=============================================================================
