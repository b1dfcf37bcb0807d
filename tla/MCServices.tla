------------------------------ MODULE MCServices ------------------------------
(***************************************************************************)
(* What a Run and its Tools use, on small instances: files, artifacts and  *)
(* processes, Skills and MCP servers, the context, one call of a Model,    *)
(* the perception of the World, and the microphone.  They share no state,  *)
(* but for perception, so a behaviour exercises one part.                  *)
(***************************************************************************)
EXTENDS ApplyPatch, PatchText, Artifacts, FileTools, Shell, Skills, McpAdapter, Context,
        ModelRegistry, ModelRequest, ModelStream, SpeechCapture, RealtimeTTS, LocalTransport,
        VisionWorld, VisionTool, TLC

VARIABLE part

perceptionVars == <<visionVars, worldVars, publicationVars>>
vars == <<part, patchVars, patched, artifactVars, fileVars, shellVars, skillVars, mcpVars, contextVars,
          registryVars, requestVars, streamVars, captureVars, ttsVars, transportVars,
          perceptionVars, observingVars>>

-----------------------------------------------------------------------------
\* The instances.

FileLine(text, how) == [text |-> <<text>>, ending |-> how]
PatchLine(kind, text) == [kind |-> kind, text |-> <<text>>]
HunkStart == [kind |-> "@@", text |-> <<>>]
NoNewline == [kind |-> Marker, text |-> <<>>]
MCTextFiles ==
    {<<>>} \cup {<<FileLine(t, e)>> : t \in {"x", "y"}, e \in {"lf", "crlf", "none"}}
    \cup {<<FileLine(t, d), FileLine(u, e)>> :
             t, u \in {"x", "y"}, d \in {"lf", "crlf"}, e \in {"lf", "none"}}
    \cup {<<FileLine(t, "lf"), FileLine(u, "lf"), FileLine(v, e)>> :
             t, u, v \in {"x", "y"}, e \in {"lf", "none"}}
MCBodies ==
    LET tokens == {PatchLine(k, t) : k \in {" ", "-", "+"}, t \in {"x", "y"}}
                    \cup {HunkStart, NoNewline}
    IN {<<HunkStart>> \o body : body \in UNION {[1..n -> tokens] : n \in 1..3}}
MCPatches ==
    {<<[operation |-> "modified", path |-> "p", body |-> body]>> : body \in MCBodies}
    \cup {<<[operation |-> "added", path |-> "q", body |-> <<PatchLine("+", "x")>> \o more],
             [operation |-> "deleted", path |-> "p", body |-> <<>>]>> :
             more \in {<<>>, <<NoNewline>>, <<PatchLine("+", "y")>>}}
MCWorkspaces == {[p |-> lines, q |-> Absent] : lines \in MCTextFiles}

MCTrees == {
    <<"a">> :> "directory" @@ <<"b">> :> "file" @@ <<".h">> :> "file" @@
        <<"a", "b">> :> "file" @@ <<"a", "c">> :> "directory" @@ <<"a", "c", "b">> :> "file",
    <<"a">> :> "linkToDirectory" @@ <<"b">> :> "linkToFile" @@ <<"c">> :> "file"}
MCNameOrder == "a" :> 1 @@ "b" :> 2 @@ "c" :> 3 @@ ".h" :> 4
MCTexts == {<<"x", "y", "x">>, <<"x", "x", "x">>, <<"y", "x", "z">>}
MCOldTexts == {<<"x">>, <<"x", "x">>, <<"y">>}

MCGroups == {[tokens |-> 2, messages |-> 1, turn |-> TRUE, id |-> 1],
             [tokens |-> 1, messages |-> 1, turn |-> FALSE, id |-> 2],
             [tokens |-> 4, messages |-> 3, turn |-> FALSE, id |-> 3]}
MCEntries == [i \in 1..4 |-> [tokens |-> 1, protected |-> i % 2 = 0, id |-> i]]

MCRequests == {<<<<"external", "external">>, <<"text", "external">>>>, <<<<"external", "file">>>>,
               <<<<"external", "artifact">>, <<"image", "audio">>>>,
               <<<<"external">>, <<"external", "file">>>>, <<<<"image">>, <<"external", "artifact">>>>}

MCClaim(ref, as, of, value, at, lasts, evidence, supersedes) ==
    [ref |-> ref, predicate |-> "where", kind |-> as, source |-> of, value |-> value,
     at |-> at, lasts |-> lasts, evidence |-> evidence, supersedes |-> supersedes]
MCOffers == {
    MCClaim("c1", "measurement", "s1", "a", 0, NoTime, {"o1"}, {}),
    MCClaim("c2", "measurement", "s1", "b", 1, 1, {"o1"}, {}),
    MCClaim("c3", "measurement", "s2", "b", NoTime, NoTime, {"o1"}, {}),
    MCClaim("c4", "inference", "s2", "a", 1, NoTime, {"c1"}, {"c3"}),
    MCClaim("c4", "hypothesis", "s2", "a", NoTime, NoTime, {}, {"c5"}),
    MCClaim("c5", "inference", "s1", "a", NoTime, NoTime, {"c4"}, {}),
    [MCClaim("c6", "interpretation", "s1", "red", NoTime, NoTime, {"o1", "c4"}, {})
        EXCEPT !.predicate = "colour"],
    MCClaim("c7", "measurement", "s3", "a", NoTime, NoTime, {"o1"}, {})}
MCFilters == {[where |-> "a", colour |-> "red"], [where |-> "b"]}

Labelled(label, as, at) == [label |-> label, kind |-> as, place |-> at]
Thing(as, at) == Labelled(as, as, at)
Respelled == <<Labelled("K", "k", 3), Thing("k", 2)>>
TwoThings == <<Thing("k", 0), Thing("k", 3)>>
OtherThing == <<Thing("j", 0)>>
MCScenes == {<<>>, TwoThings, OtherThing, Respelled, <<Thing("k", 1), Thing("k", 1)>>}
MCEntityCategory == <<"e1", "e2", "e3">>

\* What a new recognition is given at once is what enqueueing it frame by frame leaves.
ASSUME EnqueuedOneByOne ==
    \A n \in 0..(2 * AsrSize + 1) :
       LET fs == [i \in 1..n |-> i] IN EnqueuedAll(fs) = FoldLeft(Enqueued, <<>>, fs)

-----------------------------------------------------------------------------
\* Where a part may begin in several states, the other parts have one.
Init ==
    /\ part \in {"patch", "text", "artifacts", "listing", "writing", "shell", "skills", "mcp", "context",
                 "registry", "request", "stream", "capture", "buffer", "tracker", "world",
                 "publication", "observing", "voice", "playing"}
    /\ PatchInit /\ (part # "patch" => op = [p \in Files |-> "added"] /\ disk = [p \in Files |-> NoFile])
    /\ PatchTextInit
    /\ ArtifactsInit /\ (part # "artifacts" => writer = [w \in Writers |-> NewWriter("promote")])
    /\ FileInit /\ (part # "listing" => tree = CHOOSE t \in Trees : TRUE)
                /\ (part # "writing" => file = NoText)
    /\ McpInit /\ (part # "mcp" => mcpTool = [local |-> "readOnly", remote |-> "readOnly", proves |-> FALSE])
    /\ ContextInit /\ (part # "context" => manager.kind = "full" /\ manager.limits = "world")
    /\ RequestInit /\ (part # "request" => request = <<<<"external", "file">>>> /\ owned /\ closable)
    /\ StreamInit /\ (part # "stream" => source = "other")
    /\ ShellInit /\ SkillsInit /\ RegistryInit /\ CaptureInit
    /\ ObservingInit /\ (part # "observing" => observing = NewCall(FALSE, FALSE, FALSE))
    /\ TTSInit /\ TransportInit
    /\ VisionInit /\ WorldInit /\ VisionWorldInit

\* The other parts do nothing.
Alone ==
    /\ UNCHANGED part
    /\ IF part = "patch" THEN TRUE ELSE UNCHANGED patchVars
    /\ IF part = "text" THEN TRUE ELSE UNCHANGED patched
    /\ IF part = "artifacts" THEN TRUE ELSE UNCHANGED artifactVars
    /\ IF part \in {"listing", "writing"} THEN TRUE ELSE UNCHANGED fileVars
    /\ IF part = "shell" THEN TRUE ELSE UNCHANGED shellVars
    /\ IF part = "skills" THEN TRUE ELSE UNCHANGED skillVars
    /\ IF part = "mcp" THEN TRUE ELSE UNCHANGED mcpVars
    /\ IF part = "context" THEN TRUE ELSE UNCHANGED contextVars
    /\ IF part = "registry" THEN TRUE ELSE UNCHANGED registryVars
    /\ IF part = "request" THEN TRUE ELSE UNCHANGED requestVars
    /\ IF part = "stream" THEN TRUE ELSE UNCHANGED streamVars
    /\ IF part = "capture" THEN TRUE ELSE UNCHANGED captureVars
    /\ IF part = "voice" THEN TRUE ELSE UNCHANGED ttsVars
    /\ IF part = "playing" THEN TRUE ELSE UNCHANGED transportVars
    /\ IF part = "observing" THEN TRUE ELSE UNCHANGED observingVars
    /\ IF part \in {"world", "publication"} THEN TRUE ELSE UNCHANGED worldVars
    /\ IF part \in {"buffer", "tracker", "publication"} THEN TRUE ELSE UNCHANGED visionVars
    /\ IF part = "publication" THEN TRUE ELSE UNCHANGED publicationVars

\* The frames of a publication are few, and captured one after the other or at one instant.
PublishedFrames ==
    {<<1, 1, TwoThings>>, <<2, 2, TwoThings>>, <<2, 2, OtherThing>>, <<2, 1, Respelled>>, <<2, 2, Respelled>>}
Perceive ==
    \/ VisionWorldNext /\ accepted' = accepted
    \/ /\ \E f \in PublishedFrames : f[1] <= MaxSequence /\ Update(f[1], f[2], f[3])
       /\ UNCHANGED <<worldVars, publicationVars>>

Next ==
    \/ part = "patch" /\ PatchNext /\ Alone
    \/ part = "text" /\ PatchTextNext /\ Alone
    \/ part = "artifacts" /\ ArtifactsNext /\ Alone
    \/ part = "listing" /\ ListingNext /\ Alone
    \/ part = "writing" /\ WritingNext /\ Alone
    \/ part = "shell" /\ ShellNext /\ Alone
    \/ part = "skills" /\ SkillsNext /\ Alone
    \/ part = "mcp" /\ McpNext /\ Alone
    \/ part = "context" /\ ContextNext /\ Alone
    \/ part = "registry" /\ RegistryNext /\ Alone
    \/ part = "request" /\ RequestNext /\ Alone
    \/ part = "stream" /\ StreamNext /\ Alone
    \/ part = "capture" /\ CaptureNext /\ Alone
    \/ part = "voice" /\ TTSNext /\ Alone
    \/ part = "playing" /\ TransportNext /\ Alone
    \/ part = "observing" /\ ObservingNext /\ Alone
    \/ part = "buffer" /\ BufferNext /\ Alone
    \/ part = "tracker" /\ TrackerNext /\ Alone
    \/ part \in {"buffer", "tracker"} /\ ActivateEpoch /\ Alone
    \/ part = "world" /\ WorldNext /\ Alone
    \/ part = "publication" /\ Perceive /\ Alone

Spec == Init /\ [][Next]_vars

-----------------------------------------------------------------------------
\* The properties of a part together.  (Elsewhere what they are about stays as it was,
\* and where they are costly TLC is spared them.)

\* PatchText, FileTools: no text is lost: a patch turned round gives it back, a listing says
\* what it leaves out, and a file is written whole, in the one place an edit names.
TextsKept == TextReverts /\ FileToolsSound

\* Context: nothing that must be shown is lost when entries are left out or a summary
\* takes the place of messages, and a summary that was committed is enough.
ContextSound == NothingLost /\ CompactionSettles

\* ModelRegistry, ModelRequest, ModelStream, VisionTool: a call accounts for itself, however
\* it ends: the Model that is resolved is one that is registered, what its adapter says is
\* accepted, what was acquired is released, and what was committed is known to the execution.
CallsAccounted == RegistrySound /\ Released /\ AdapterAccepted /\ ObservationAccounted

\* Vision: the newest capture, and the nearest one, are found whatever order they came
\* in, in a buffer within its limits; a capture has one set of names, and objects of two
\* kinds never share one.
VisionSound == LatestIsFreshest /\ TrackedOnce

\* World: claims rest on evidence that is there, what is committed again changes nothing,
\* and what is said to be known is what every current claim says; VisionWorld: a capture that
\* is analysed, tracked and published, and published again, late or in part, never makes
\* the World doubt what an object is, but for how two captures of an instant spell it.
WorldSound ==
    /\ part = "world" => ProvenanceHolds /\ RepeatedIsUnchanged /\ KnownIsCurrent
    /\ part = "publication" => PublishedOnce

\* SpeechCapture, RealtimeTTS, LocalTransport: what is heard is heard as it was said, and
\* what is said is heard: whoever waits for audio has some to come, of its own, and it is
\* played in order.
AudioSound == CaptureSound /\ VoiceSound /\ PlayedInOrder
=============================================================================
