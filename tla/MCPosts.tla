------------------------------- MODULE MCPosts -------------------------------
(* Two submissions with a label each and one they share. *)
EXTENDS Posts, TLC

CONSTANTS t1, t2, a, b, c

MCTexts == {t1, t2}
MCLabels == {a, b, c}
MCLabelsOf == t1 :> {a, c} @@ t2 :> {b, c}

Symmetry == Permutations(Posts) \cup Permutations(Requests)

=============================================================================
