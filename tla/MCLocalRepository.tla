-------------------------- MODULE MCLocalRepository --------------------------
(* LocalRepository on small instances. *)
EXTENDS LocalInvariant, TLC

Symmetry == Permutations(Threads)
=============================================================================
