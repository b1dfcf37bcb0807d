------------------------------ MODULE StoredFile ------------------------------
(***************************************************************************)
(* The payload a session id has in a repository: the schema of the file,   *)
(* the snapshot's revision, and the identity of the messages in it (the    *)
(* codec in roboagent/agent/persistence.py).                               *)
(*                                                                         *)
(* ids is 0 while the canonical message ids are not allocated (the         *)
(* messages of a legacy file have none), and else the number of the change *)
(* that first stored them.  at is the number of the save or delete that    *)
(* wrote the payload.                                                      *)
(***************************************************************************)
EXTENDS Cas

SchemaVersion == 2

Payload == [revision: Int, schema: 1..SchemaVersion, ids: Nat, at: Nat]

Missing == [revision |-> None, schema |-> SchemaVersion, ids |-> 0, at |-> 0]
OldFile == [revision |-> 0, schema |-> 1, ids |-> 0, at |-> 0]

\* A snapshot a caller encodes, always of the current schema.
Encoded(revision, ids) ==
    [revision |-> revision, schema |-> SchemaVersion, ids |-> ids, at |-> 0]

NeedsMigration(p) == p.schema < SchemaVersion

\* What change number n puts in the file: a save, a delete, and the upgrade of
\* legacy payload p, whose messages get their ids when they are decoded.
Written(p, n) == [p EXCEPT !.at = n, !.ids = IF @ = 0 THEN n ELSE @]
Removed(n) == [Missing EXCEPT !.at = n]
Upgraded(p, n) == [revision |-> p.revision, schema |-> SchemaVersion, ids |-> n, at |-> p.at]
=============================================================================
