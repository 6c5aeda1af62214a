--------------------------- MODULE MCOAuthAccounts ---------------------------
(* Two identities at one provider. *)
EXTENDS OAuthAccounts, TLC

CONSTANTS google1, google2, Google

MCIds == {google1, google2}
MCProvider == [i \in MCIds |-> Google]

Symmetry == Permutations(Users) \cup Permutations(Emails) \cup Permutations(Requests)
            \cup Permutations(MCIds)

=============================================================================
