------------------------------- MODULE MCTags -------------------------------
(* Two spellings of one name ("c", "C"), another name with the same slug     *)
(* ("c++") and a name whose slug is the second attempt of theirs ("c-2").    *)
EXTENDS Tags, TLC

CONSTANTS c, C, cpp, c2, c22

MCNames == {c, C, cpp, c2}
MCCaseKey == [n \in MCNames |-> IF n = C THEN c ELSE n]
MCSlugFor == [n \in MCNames |-> IF n = c2 THEN <<c2, c22>> ELSE <<c, c2>>]

\* A name that exists under another slug, and a slug submissions attempt.
MCEntered == {[name |-> C, slug |-> c22], [name |-> cpp, slug |-> c2]}

=============================================================================
