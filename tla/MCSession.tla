------------------------------ MODULE MCSession ------------------------------
(* Instances of Session for TLC. *)
EXTENDS SessionInvariant, TLC

\* Handles and tasks are interchangeable; no safety property names one.
Symmetry == Permutations(Handles) \cup Permutations(Tasks)
=============================================================================
