-------------------------- MODULE SessionRepository --------------------------
(***************************************************************************)
(* The durable side of a Session: one record per session id, changed only  *)
(* by compare-and-swap on its revision (roboagent/agent/persistence.py).   *)
(* A snapshot keeps what the Session properties tell apart: the revision,  *)
(* the last receipt sequence, the transcript and the pending queue.        *)
(***************************************************************************)
EXTENDS Cas, Sequences

\* A transcript fact is the identity of the user message it carries, or Reply.
Reply == 0

\* PendingInput: the message's identity and its receipt's sequence number.
PendingItem == [id: Nat, sequence: Nat]

Snapshot == [revision: Int, sequence: Nat, messages: Seq(Nat),
             pending: Seq(PendingItem)]

\* No file under the session id; its revision is None, as in _save and _delete.
Absent == [revision |-> None, sequence |-> 0, messages |-> <<>>, pending |-> <<>>]

\* The identities in a transcript or queued, and those a snapshot holds.
IdsIn(messages, pending) == {messages[i] : i \in DOMAIN messages} \cup
                            {pending[i].id : i \in DOMAIN pending}
Ids(s) == IdsIn(s.messages, s.pending)

VARIABLE record     \* the stored snapshot, or Absent

\* save(): the new snapshot replaces the old one under the repository lock.
SaveAccepted(snap, expected) ==
    /\ CasAccepts(record.revision, expected, snap.revision)
    /\ record' = snap

SaveRefused(snap, expected) ==
    /\ ~CasAccepts(record.revision, expected, snap.revision)
    /\ UNCHANGED record

\* delete(): the same lock and the same revision check.
DeleteAccepted(expected) ==
    /\ record.revision = expected
    /\ record' = Absent

DeleteRefused(expected) ==
    /\ record.revision # expected
    /\ UNCHANGED record
=============================================================================
