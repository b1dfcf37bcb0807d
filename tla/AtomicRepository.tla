--------------------------- MODULE AtomicRepository ---------------------------
(***************************************************************************)
(* What SessionRepository promises its callers for one session id: every   *)
(* load, save and delete takes effect at one instant between its call and  *)
(* its return, or fails with or without having taken effect.               *)
(* InMemorySessionRepository (roboagent/agent/persistence.py) is this      *)
(* module without the failures: each call is one section under an asyncio  *)
(* lock that never suspends.                                               *)
(***************************************************************************)
EXTENDS StoredFile

CONSTANTS
    Threads,       \* callers, each in at most one call
    Legacy,        \* may the stored file be of an older schema?
    MaxRevision    \* bound: revisions callers write

VARIABLES
    record,        \* the stored payload, or Missing
    changes,       \* the number of changes of the record so far
    request        \* per caller: its call, how far it is, and its last answer

vars == <<record, changes, request>>

Quiet == [op |-> "none", stage |-> "idle", expected |-> None,
          payload |-> Missing, answer |-> "none"]

Init ==
    /\ record \in {Missing} \cup (IF Legacy THEN {OldFile} ELSE {})
    /\ changes = 0
    /\ request = [t \in Threads |-> Quiet]

\* Calls: a snapshot moves its revision forward from the expected one, and its
\* messages carry ids that were stored before, or new ones.
Request(op, expected, p) ==
    [op |-> op, stage |-> "called", expected |-> expected, payload |-> p, answer |-> "none"]

Begin(t, r) ==
    /\ request[t].stage = "idle"
    /\ request' = [request EXCEPT ![t] = r]
    /\ UNCHANGED <<record, changes>>

Invoke(t) ==
    \/ \E expected \in None..MaxRevision, revision \in 0..MaxRevision, ids \in 0..changes :
         Begin(t, Request("save", expected, Encoded(revision, ids)))
    \/ \E expected \in 0..MaxRevision : Begin(t, Request("delete", expected, Missing))
    \/ Begin(t, Request("load", None, Missing))

Refuse(t) ==
    /\ request' = [request EXCEPT ![t].stage = "refused"]
    /\ UNCHANGED <<record, changes>>

Save(t) ==
    LET r == request[t] IN
    /\ r.stage = "called" /\ r.op = "save"
    /\ \/ /\ CasAccepts(record.revision, r.expected, r.payload.revision)
          /\ changes' = changes + 1
          /\ record' = Written(r.payload, changes')
          /\ request' = [request EXCEPT ![t].stage = "applied"]
       \/ /\ ~CasAccepts(record.revision, r.expected, r.payload.revision)
          /\ Refuse(t)

Delete(t) ==
    LET r == request[t] IN
    /\ r.stage = "called" /\ r.op = "delete"
    /\ \/ /\ record.revision = r.expected
          /\ changes' = changes + 1
          /\ record' = Removed(changes')
          /\ request' = [request EXCEPT ![t].stage = "applied"]
       \/ /\ record.revision # r.expected
          /\ Refuse(t)

\* A legacy record is upgraded in place, so that its ids are allocated once.
Load(t) ==
    /\ request[t].stage = "called" /\ request[t].op = "load"
    /\ \/ /\ NeedsMigration(record)
          /\ changes' = changes + 1
          /\ record' = Upgraded(record, changes')
       \/ /\ ~NeedsMigration(record)
          /\ UNCHANGED <<record, changes>>
    /\ request' = [request EXCEPT ![t].stage = "applied", ![t].payload = record']

\* What the caller may be told: success and conflict are always true, and an
\* error leaves open whether the call took effect.
Answers(stage) ==
    CASE stage = "called"  -> {"error"}
      [] stage = "applied" -> {"ok", "error"}
      [] stage = "refused" -> {"conflict"}

\* A load that succeeds hands its payload to the caller.
Answered(r, answer) ==
    [Quiet EXCEPT !.answer = answer,
                  !.payload = IF r.op = "load" /\ answer = "ok" THEN r.payload ELSE Missing]

Return(t) ==
    /\ request[t].stage # "idle"
    /\ \E answer \in Answers(request[t].stage) :
         request' = [request EXCEPT ![t] = Answered(request[t], answer)]
    /\ UNCHANGED <<record, changes>>

\* The caller's process dies, before or after its call took effect.
Vanish(t) ==
    /\ request' = [request EXCEPT ![t] = Quiet]
    /\ UNCHANGED <<record, changes>>

Next == \E t \in Threads :
           Invoke(t) \/ Save(t) \/ Delete(t) \/ Load(t) \/ Return(t) \/ Vanish(t)

Spec == Init /\ [][Next]_vars
=============================================================================
