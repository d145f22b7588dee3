--------------------------- MODULE MCEmployeeHold ---------------------------
(* EmployeeHold for TLC. *)
EXTENDS EmployeeHold, TLC

\* Requests and clicks are interchangeable.
Symmetry == Permutations(Request) \cup Permutations(Click)
=============================================================================
