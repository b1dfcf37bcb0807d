------------------------------- MODULE Artifacts -------------------------------
(***************************************************************************)
(* One artifact of a LocalWorkspace (roboagent/tool/workspace.py), named   *)
(* by the digest of its content, and the calls that store that content:    *)
(* materializers write it whole (roboagent/tool/materializer.py), and the  *)
(* promotion of a child's output (roboagent/agent/delegation.py) appends   *)
(* it chunk by chunk to a temporary file and then publishes that.  System  *)
(* calls fail, callers are cancelled while a thread works for them, and    *)
(* power cuts take back whatever was not synchronised.                     *)
(***************************************************************************)
EXTENDS Integers

CONSTANTS
    Writers,       \* the calls
    Chunks,        \* chunks of the artifact a promotion copies
    MaxPowerCuts   \* bound: power cuts

ASSUME ArtifactsAssumption == Chunks \in Nat \ {0} /\ MaxPowerCuts \in Nat

VARIABLES
    blob,      \* blobs/sha256/<digest>: what it is now, "none", "part" or "whole"; whether its
               \* content is on the medium; what a power cut may leave
    writer,    \* per call: what it is, where it is, its temporary file and its answer
    powerCuts  \* power cuts so far

artifactVars == <<blob, writer, powerCuts>>

NoBlob == [now |-> "none", data |-> FALSE, cut |-> {"none"}]
\* The temporary file holds size chunks; it is gone when it was unlinked or renamed.
NewWriter(kind) ==
    [kind |-> kind, pc |-> "begin", temporary |-> FALSE, size |-> 0, appending |-> FALSE,
     cancelled |-> FALSE, answer |-> "none", made |-> FALSE]

ArtifactsInit ==
    /\ blob = NoBlob
    /\ writer \in [Writers -> {NewWriter("materialize"), NewWriter("promote")}]
    /\ powerCuts = 0

WriterAt(w, pc) == writer[w].pc = pc
WriterMoves(w, x) == writer' = [writer EXCEPT ![w] = x]
WriterGoto(w, pc) == WriterMoves(w, [writer[w] EXCEPT !.pc = pc])
WriterEnds(w, answer) == WriterMoves(w, [writer[w] EXCEPT !.pc = "over", !.answer = answer])

-----------------------------------------------------------------------------
\* LocalWorkspace._write, in a thread: a blob that is there is compared with the data.
WriteBlob(w) ==
    /\ writer[w].kind = "materialize" /\ WriterAt(w, "begin")
    /\ \/ blob.now # "none" /\ WriterEnds(w, IF blob.now = "whole" THEN "ok" ELSE "error")
       \/ blob.now = "none" /\ WriterMoves(w, [writer[w] EXCEPT !.pc = "replace", !.temporary = TRUE, !.size = Chunks])
       \/ WriterEnds(w, "error")
    /\ UNCHANGED <<blob, powerCuts>>

\* The temporary file was synchronised; os.replace puts it in place.
ReplaceBlob(w) ==
    /\ WriterAt(w, "replace")
    /\ \/ /\ blob' = [now |-> "whole", data |-> TRUE, cut |-> blob.cut \cup {"whole"}]
          /\ WriterMoves(w, [writer[w] EXCEPT !.pc = "sync", !.temporary = FALSE, !.made = TRUE])
       \/ WriterGoto(w, "abort") /\ UNCHANGED blob
    /\ UNCHANGED powerCuts

\* The directory is synchronised, which is the end of _write and of publish.
SyncDirectory(w) ==
    /\ WriterAt(w, "sync")
    /\ \/ blob' = [blob EXCEPT !.cut = IF blob.data THEN {blob.now} ELSE {"part", "whole"}]
          /\ WriterEnds(w, "ok")
       \/ UNCHANGED blob /\ WriterGoto(w, "abort")
    /\ UNCHANGED powerCuts

-----------------------------------------------------------------------------
\* create_temp, and the loop of _write_chunks: the reader yields a chunk, one too many,
\* something else, or ends; cancellation is looked at before every chunk.
NextChunk(w) ==
    /\ writer[w].kind = "promote"
    /\ \/ WriterAt(w, "begin") /\ WriterMoves(w, [writer[w] EXCEPT !.pc = "chunks", !.temporary = TRUE])
       \/ WriterAt(w, "begin") /\ WriterEnds(w, "error")
       \/ /\ WriterAt(w, "chunks") /\ ~writer[w].appending
          /\ \/ writer[w].cancelled /\ WriterGoto(w, "abort")
             \/ /\ ~writer[w].cancelled /\ writer[w].size < Chunks
                /\ WriterMoves(w, [writer[w] EXCEPT !.appending = TRUE])
             \/ WriterGoto(w, "abort")          \* too large, a wrong size or digest, a read error
             \/ writer[w].size = Chunks /\ ~writer[w].cancelled /\ WriterGoto(w, "publish")
    /\ UNCHANGED <<blob, powerCuts>>

\* _append, in a thread, that goes on when the writer is aborted meanwhile: it finds
\* the temporary file, or not.
AppendChunk(w) ==
    /\ writer[w].appending
    /\ WriterMoves(w, [writer[w] EXCEPT !.appending = FALSE, !.size = IF @ < Chunks THEN @ + 1 ELSE @])
    /\ UNCHANGED <<blob, powerCuts>>

AppendChunkFails(w) ==
    /\ writer[w].appending
    /\ WriterMoves(w, [writer[w] EXCEPT !.appending = FALSE, !.pc = IF @ = "chunks" THEN "abort" ELSE @])
    /\ UNCHANGED <<blob, powerCuts>>

\* The task is cancelled: while a thread appends, the await ends at once.
CancelWriter(w) ==
    /\ writer[w].kind = "promote" /\ WriterAt(w, "chunks") /\ ~writer[w].cancelled
    /\ WriterMoves(w, [writer[w] EXCEPT !.cancelled = TRUE,
                                  !.pc = IF writer[w].appending THEN "abort" ELSE @])
    /\ UNCHANGED <<blob, powerCuts>>

\* Variant: a blob that is there is the one wanted.
SameBlob == TRUE

\* publish meets a file of that name: _file_identity decides.
Identical == blob.now = "whole"

\* publish, without an await: the temporary file is verified and linked, which never
\* replaces anything; its content was not synchronised.
PublishBlob(w) ==
    /\ WriterAt(w, "publish")
    /\ \/ /\ blob.now = "none"
          /\ blob' = [now |-> IF writer[w].size = Chunks THEN "whole" ELSE "part", data |-> FALSE,
                      cut |-> blob.cut \cup {"part", "whole"}]
          /\ WriterMoves(w, [writer[w] EXCEPT !.pc = "sync", !.temporary = FALSE])
       \/ /\ blob.now # "none" /\ Identical
          /\ WriterMoves(w, [writer[w] EXCEPT !.pc = "sync", !.temporary = FALSE])
          /\ UNCHANGED blob
       \/ WriterGoto(w, "abort") /\ UNCHANGED blob
    /\ UNCHANGED powerCuts

\* abort, and the finally clause of _write.
AbortWriter(w) ==
    /\ WriterAt(w, "abort")
    /\ WriterMoves(w, [writer[w] EXCEPT !.pc = "over", !.temporary = FALSE,
                                  !.answer = IF writer[w].cancelled THEN "cancelled" ELSE "error"])
    /\ UNCHANGED <<blob, powerCuts>>

-----------------------------------------------------------------------------
\* The machine loses power: the processes are gone, and calls that have not begun are
\* those of the next ones.
PowerCut ==
    /\ powerCuts < MaxPowerCuts /\ powerCuts' = powerCuts + 1
    /\ \E left \in blob.cut : blob' = [now |-> left, data |-> TRUE, cut |-> {left}]
    /\ writer' = [w \in Writers |->
                    IF writer[w].pc \in {"begin", "over"} THEN writer[w]
                    ELSE [writer[w] EXCEPT !.pc = "over", !.answer = "dead", !.appending = FALSE]]

ArtifactsNext ==
    \/ \E w \in Writers :
         \/ WriteBlob(w) \/ ReplaceBlob(w) \/ SyncDirectory(w) \/ NextChunk(w) \/ AppendChunk(w)
         \/ AppendChunkFails(w) \/ CancelWriter(w) \/ PublishBlob(w) \/ AbortWriter(w)
    \/ PowerCut

ArtifactsSpec == ArtifactsInit /\ [][ArtifactsNext]_artifactVars

-----------------------------------------------------------------------------
\* LocalWorkspace is durable, and what its blobs are named after is what they hold:
\* what calls stored concurrently, failing or cancelled at any point, is never seen
\* incomplete before a power cut; a call that returns a reference has seen it whole,
\* even after a power cut has damaged the file; and what _write itself put in place and
\* answered for survives every power cut.  (What publish linked does not: its content
\* is not synchronised; nor what a call found in place and did not synchronise.)
ReferencesResolve ==
    /\ powerCuts = 0 => blob.now # "part"
    /\ \A w \in Writers :
         /\ writer[w].answer = "ok" /\ (powerCuts = 0 \/ writer[w].made) => blob.now = "whole"
         /\ writer[w].pc = "sync" => blob.now = "whole"

\* However a call ends, its temporary file is gone, though a thread may still be
\* appending to what was that file; only a power cut leaves it behind, for ever.
NoTemporaryLeft ==
    \A w \in Writers : WriterAt(w, "over") /\ writer[w].answer # "dead" => ~writer[w].temporary

\* Both together: a reference that a caller holds resolves, and no temporary file outlives
\* the call that made it, whoever fails, is cancelled or stores the same content.
ArtifactsKept == ReferencesResolve /\ NoTemporaryLeft
=============================================================================
