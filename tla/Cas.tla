--------------------------------- MODULE Cas ---------------------------------
(***************************************************************************)
(* Compare-and-swap on the revision of a stored Session snapshot           *)
(* (_check_cas in roboagent/agent/persistence.py).                         *)
(***************************************************************************)
EXTENDS Integers

\* The "None" of expected_revision and _durable_revision; no file has it.
None == -1

\* Variant: revisions only have to rise, whatever the writer started from.
CasAcceptsNewer(current, expected, new) == new > current

\* _check_cas: the caller must name the current revision and move it forward.
CasAccepts(current, expected, new) ==
    /\ current = expected
    /\ current = None \/ new > current
=============================================================================
