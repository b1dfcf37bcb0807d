----------------------------- MODULE MCExecution -----------------------------
(* The execution tree and the events of one root Run, on small instances.  To  *)
(* keep them small a behaviour exercises one of three parts: the events, the   *)
(* lifecycle of the scopes, or the facts collected while scopes open and close.*)
EXTENDS ExecutionTree, RunEvents, TLC

VARIABLE part

vars == <<part, treeVars, eventVars>>

Init == part \in {"lifecycle", "facts", "events"} /\ TreeInit /\ EventsInit

Next ==
    /\ UNCHANGED part
    /\ \/ part = "lifecycle" /\ TreeNext /\ UNCHANGED <<facts, eventVars>>
       \/ part = "facts" /\ TreeNext /\ UNCHANGED <<resources, barrier, eventVars>>
       \/ part = "events" /\ EventsNext /\ UNCHANGED treeVars

Symmetry == Permutations(Closers) \cup Permutations(Subscribers)

Spec == Init /\ [][Next]_vars
=============================================================================
