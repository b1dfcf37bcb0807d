------------------------------- MODULE MCSpeech -------------------------------
(* Instances of Speech for TLC. *)
EXTENDS SpeechInvariant, TLC

\* Callers are interchangeable; no safety property names one.
Symmetry == Permutations(Callers)
=============================================================================
