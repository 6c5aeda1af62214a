-------------------------- MODULE MCUserLifecycle --------------------------
(* Small instances of UserLifecycle.  Two names differ in case only; the    *)
(* names that deletions give can be typed as well, one of them in another   *)
(* case.                                                                    *)
EXTENDS UserLifecycle, TLC

CONSTANTS u1, u2,                     \* users
          bob, Bob, del1, Del1, del2  \* names

MCUsers == {u1, u2}
MCNames == {bob, Bob, del1, Del1, del2}
MCCaseKey == [n \in MCNames |-> CASE n = Bob -> bob [] n = Del1 -> del1 [] OTHER -> n]
MCTombstone == [u \in MCUsers |-> IF u = u1 THEN del1 ELSE del2]

\* Tombstone tells users and names apart: only the requests are alike.
Symmetry == Permutations(Requests)

=============================================================================
