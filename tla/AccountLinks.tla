---------------------------- MODULE AccountLinks ----------------------------
(***************************************************************************)
(* What the provider accounts promise, without transactions: who may be    *)
(* linked to whom, checked and done in one step.                           *)
(***************************************************************************)
CONSTANTS Users, Emails, Ids, Provider, None

VARIABLES row, accounts

Unlinked(i) == \A a \in accounts : a.id # i
EmailFree(e, u) == e # None => \A v \in Users \ {u} : row[v].email # e

Init ==
    /\ accounts = {}
    /\ \A u \in Users : EmailFree(row[u].email, u)

\* An active user takes an identity nobody has, at a provider where it has none.
Link(u, i) ==
    /\ row[u].status = "active"
    /\ Unlinked(i)
    /\ \A a \in accounts : a.owner = u => Provider[a.id] # Provider[i]
    /\ accounts' = accounts \cup {[owner |-> u, id |-> i]}
    /\ UNCHANGED row

\* A new user comes with its identity, under an email nobody uses.
Join(u, i, e) ==
    /\ row[u].status = "absent"
    /\ EmailFree(e, u)
    /\ Unlinked(i)
    /\ row' = [row EXCEPT ![u] = [status |-> "active", email |-> e]]
    /\ accounts' = accounts \cup {[owner |-> u, id |-> i]}

\* A user leaves with all its identities, and its email becomes free.
Leave(u) ==
    /\ row[u].status # "absent"
    /\ row' = [row EXCEPT ![u] = [status |-> "deleted", email |-> None]]
    /\ accounts' = {a \in accounts : a.owner # u}

\* Anything else the site does to a user.
Change(u, status, e) ==
    /\ row[u].status # "absent"
    /\ EmailFree(e, u)
    /\ row' = [row EXCEPT ![u] = [status |-> status, email |-> e]]
    /\ UNCHANGED accounts

Next ==
    \E u \in Users :
        \/ \E i \in Ids : Link(u, i) \/ \E e \in Emails : Join(u, i, e)
        \/ Leave(u)
        \/ \E status \in {"active", "suspended"}, e \in Emails \cup {None} : Change(u, status, e)

Spec == Init /\ [][Next]_<<row, accounts>>

=============================================================================
