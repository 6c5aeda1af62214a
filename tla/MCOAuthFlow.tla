---------------------------- MODULE MCOAuthFlow ----------------------------
(* Two users, a provider account for the email of each, at one provider. *)
EXTENDS OAuthFlow, TLC

CONSTANTS e1, e2, i1, i2, p1

MCEmails == {e1, e2}
MCIds == {i1, i2}
MCProviders == {p1}
MCProvider == [i \in MCIds |-> p1]
MCEmail == (i1 :> e1) @@ (i2 :> e2)

Symmetry == Permutations(Keys) \cup Permutations(Requests) \cup Permutations(Flows)
            \cup Permutations(Users)

=============================================================================
