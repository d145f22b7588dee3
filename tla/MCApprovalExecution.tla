------------------------ MODULE MCApprovalExecution ------------------------
(* Instances of ApprovalExecution for TLC. *)
EXTENDS ApprovalExecution, TLC

\* Calls and notifiers are interchangeable; tickets are unless some start filed.
Symmetry == Permutations(Attempt) \cup Permutations(Notifier)
=============================================================================
