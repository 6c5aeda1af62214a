-------------------------- MODULE AccountDirectory --------------------------
(***************************************************************************)
(* What the account pages promise, with no requests in it: every change of *)
(* an account is one step, taken by somebody entitled to it on the         *)
(* accounts as they are at that moment.  UserLifecycle implements this     *)
(* directory when it handles one request at a time, and does not when      *)
(* requests interleave.                                                    *)
(***************************************************************************)
CONSTANTS Users, Names, CaseKey, Tombstone

VARIABLE account

\* Somebody who may use the user management page.
Admin(a) == account[a].status = "active" /\ account[a].role = "admin"

Known(u) == account[u].status # "absent"

Live(u) == account[u].status \in {"active", "suspended"}

\* n, in any spelling, is the name of no account but u.
Free(n, u) ==
    \A v \in Users \ {u} : Known(v) => CaseKey[account[v].name] # CaseKey[n]

Init ==
    /\ \A u, v \in Users :
          u # v /\ Live(u) /\ Live(v) => CaseKey[account[u].name] # CaseKey[account[v].name]
    /\ \A u \in Users : account[u].status = "deleted" =>
           account[u].name = Tombstone[u] /\ ~account[u].password
    /\ \E a \in Users : Admin(a)

Grant(a, u) ==
    /\ Admin(a)
    /\ Known(u)
    /\ account' = [account EXCEPT ![u].role = "admin"]

\* Nobody takes the last administrator away: the one who acts remains.
Revoke(a, u) ==
    /\ Admin(a)
    /\ a # u
    /\ Known(u)
    /\ account' = [account EXCEPT ![u].role = "user"]

Suspend(a, u) ==
    /\ Admin(a)
    /\ a # u
    /\ account[u].status = "active"
    /\ account' = [account EXCEPT ![u].status = "suspended"]

Reinstate(a, u) ==
    /\ Admin(a)
    /\ account[u].status = "suspended"
    /\ account' = [account EXCEPT ![u].status = "active"]

\* A removed account keeps its id, gives up its name and password, and has no
\* action left that returns it to use.
Remove(a, u) ==
    /\ Admin(a)
    /\ a # u
    /\ Live(u)
    /\ account' = [account EXCEPT ![u] = [status |-> "deleted", role |-> "user",
                                          name |-> Tombstone[u], password |-> FALSE]]

Rename(u, n) ==
    /\ account[u].status = "active"
    /\ Free(n, u)
    /\ account' = [account EXCEPT ![u].name = n]

Register(u, n, password) ==
    /\ ~Known(u)
    /\ Free(n, u)
    /\ account' = [account EXCEPT ![u] = [status |-> "active", role |-> "user",
                                          name |-> n, password |-> password]]

Next ==
    \/ \E a, u \in Users :
          Grant(a, u) \/ Revoke(a, u) \/ Suspend(a, u) \/ Reinstate(a, u) \/ Remove(a, u)
    \/ \E u \in Users, n \in Names :
          Rename(u, n) \/ \E password \in BOOLEAN : Register(u, n, password)

Spec == Init /\ [][Next]_account

=============================================================================
