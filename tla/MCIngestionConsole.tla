-------------------------- MODULE MCIngestionConsole --------------------------
(* Failures without a message, a message without failures, and the two ways  *)
(* to have neither.                                                          *)
EXTENDS IngestionConsole, TLC

MCReports == {NoReport, [NoReport EXCEPT !.message = ""],
              [NoReport EXCEPT !.message = "text"], [NoReport EXCEPT !.failures = 1]}

Symmetry == Permutations(Documents) \cup Permutations(Requests)

=============================================================================
