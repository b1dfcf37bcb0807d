----------------------------- MODULE ModelRequest -----------------------------
(***************************************************************************)
(* What one call of the OpenAI-compatible adapter acquires and releases    *)
(* (roboagent/model/client.py): a client, unless the application gave it   *)
(* one, the media that the messages refer to, and the provider's stream,   *)
(* which it closes if that has an aclose.  Every await may fail or be      *)
(* cancelled, those that release included.                                 *)
(***************************************************************************)
EXTENDS Integers, Sequences

CONSTANT Requests    \* inputs: contexts, as sequences of messages of content items

Items == {"text", "image", "external", "artifact", "file", "audio"}

ASSUME ModelRequestAssumption == Requests \subseteq Seq(Seq(Items))

VARIABLES
    request,    \* the context
    owned,      \* owned_client: the application gave no client
    closable,   \* the stream that the client returns has an aclose
    place,      \* where the call is; the message and the item at which it is
    media,      \* per item: how often it was resolved and closed, and whose list it is on
    opened,     \* the client and the stream that are open
    ending,     \* what ended it: nothing yet, or a kind of exception
    broken      \* history: a release failed or was cancelled, where that is not caught

requestVars == <<request, owned, closable, place, media, opened, ending, broken>>

Places(r) == UNION {{i} \X DOMAIN r[i] : i \in DOMAIN r}
At(pc, i, j) == [pc |-> pc, message |-> i, item |-> j]
RequestAt(pc) == place.pc = pc
RequestGoto(pc) == place' = [place EXCEPT !.pc = pc]

RequestInit ==
    /\ request \in Requests /\ owned \in BOOLEAN /\ closable \in BOOLEAN
    /\ place = At("validating", 1, 1)
    /\ media = [p \in Places(request) |-> [resolved |-> 0, closed |-> 0, list |-> "none"]]
    /\ opened = {} /\ ending = "none" /\ broken = FALSE

\* An exception, or the end, leads to the finally of the call.
Raises(kind) == ending' = kind /\ RequestGoto("closeStream")

-----------------------------------------------------------------------------
\* validate_model_context: a modality the Model does not have is refused at once.
ValidateContext ==
    /\ RequestAt("validating")
    /\ IF \E p \in Places(request) : request[p[1]][p[2]] = "audio"
       THEN ending' = "capability" /\ RequestGoto("over")
       ELSE RequestGoto("client") /\ UNCHANGED ending
    /\ UNCHANGED <<request, owned, closable, media, opened, broken>>

MakeClient ==
    /\ RequestAt("client")
    /\ \/ ~owned /\ RequestGoto("encoding") /\ UNCHANGED <<opened, ending>>
       \/ owned /\ opened' = {"client"} /\ RequestGoto("encoding") /\ UNCHANGED ending
       \/ owned /\ Raises("provider") /\ UNCHANGED opened
    /\ UNCHANGED <<request, owned, closable, media, broken>>

\* One of the media is resolved, and closed.
Taken(m) == [resolved |-> m.resolved + 1, closed |-> m.closed, list |-> "content"]
Returned(m) == [resolved |-> m.resolved, closed |-> m.closed + 1, list |-> "none"]

\* The media on a list of _content or of _messages.
Listed(list) == {p \in DOMAIN media : media[p].list = list}
\* Variant: _messages forgets what a message has resolved.
Forgotten(from, to) == media
Moved(from, to) ==
    [p \in DOMAIN media |->
        IF media[p].list = from THEN [media[p] EXCEPT !.list = to] ELSE media[p]]

\* _content is done with a message: _messages takes over what it has resolved.
NextMessage ==
    /\ RequestAt("encoding") /\ place.message <= Len(request)
    /\ place.item > Len(request[place.message])
    /\ media' = Moved("content", "messages")
    /\ place' = At("encoding", place.message + 1, 1)
    /\ UNCHANGED <<request, owned, closable, opened, ending, broken>>

\* Encoding fails: _content releases what it has, and then _messages.
EncodingFails(kind) == ending' = kind /\ RequestGoto("unwindContent")

\* _content: text and images are there, artifacts are read in chunks up to their size,
\* external media is resolved, if there is a resolver, and must be of its media type.
EncodeItem ==
    LET p == <<place.message, place.item>> IN
    /\ RequestAt("encoding") /\ p \in Places(request)
    /\ LET item == request[place.message][place.item]
           Onwards == place' = [place EXCEPT !.item = @ + 1] /\ UNCHANGED ending
           Resolved == [media EXCEPT ![p] = Taken(@)]
       IN \/ item \in {"text", "image", "artifact"} /\ Onwards /\ UNCHANGED media
          \/ item = "artifact" /\ EncodingFails("media") /\ UNCHANGED media
          \/ item = "file" /\ EncodingFails("capability") /\ UNCHANGED media
          \/ item = "external" /\ EncodingFails("media") /\ media' \in {media, Resolved}
          \/ item = "external" /\ Onwards /\ media' = Resolved
          \/ item \in {"artifact", "external"} /\ EncodingFails("cancelled") /\ UNCHANGED media
    /\ UNCHANGED <<request, owned, closable, opened, broken>>

CloseOf(p) == [media EXCEPT ![p] = Returned(@)]

\* except BaseException: release one after the other, the first failure being the last.
Unwind(pc, list, next) ==
    /\ RequestAt(pc)
    /\ \/ Listed(list) = {} /\ RequestGoto(next) /\ UNCHANGED <<media, ending, broken>>
       \/ \E p \in Listed(list) :
             /\ \A q \in Listed(list) : p[1] < q[1] \/ (p[1] = q[1] /\ p[2] <= q[2])
             /\ \/ media' = CloseOf(p) /\ UNCHANGED <<place, ending, broken>>
                \/ /\ media' = [q \in DOMAIN media |-> IF q \in Listed(list)
                                  THEN [media[q] EXCEPT !.list = "none"] ELSE media[q]]
                   /\ broken' = TRUE /\ ending' \in {"provider", "cancelled"}
                   /\ RequestGoto(next)
    /\ UNCHANGED <<request, owned, closable, opened>>

UnwindContent == Unwind("unwindContent", "content", "unwindMessages")
UnwindMessages == Unwind("unwindMessages", "messages", "closeStream")

-----------------------------------------------------------------------------
\* All messages are encoded; the extras of the settings must not replace the request's
\* own fields; the stream is opened, by a client that retries on its own.
OpenStream ==
    /\ RequestAt("encoding") /\ place.message > Len(request)
    /\ media' = Moved("messages", "stream")
    /\ \/ RequestGoto("streaming") /\ opened' = opened \cup {"stream"} /\ UNCHANGED ending
       \/ \E kind \in {"protocol", "provider", "cancelled"} : Raises(kind) /\ UNCHANGED opened
    /\ UNCHANGED <<request, owned, closable, broken>>

\* The stream ends, its events make no sense, the connection fails; the consumer is
\* cancelled, or closes the generator.
StreamOver ==
    /\ RequestAt("streaming")
    /\ \E kind \in {"ok", "protocol", "provider", "cancelled", "left"} : Raises(kind)
    /\ UNCHANGED <<request, owned, closable, media, opened, broken>>

\* finally: the stream first, by its aclose: without one it is left as it is.  The failure
\* of aclose is not caught.
CloseStream ==
    /\ RequestAt("closeStream")
    /\ \/ /\ opened' = IF closable THEN opened \ {"stream"} ELSE opened
          /\ RequestGoto("closeMedia") /\ UNCHANGED <<ending, broken>>
       \/ /\ closable /\ "stream" \in opened /\ ending' \in {"raised", "cancelled"} /\ RequestGoto("over")
          /\ broken' = TRUE /\ UNCHANGED opened
    /\ UNCHANGED <<request, owned, closable, media>>

\* The media; the failure of one is logged, a cancellation is not caught.
CloseMedia ==
    /\ RequestAt("closeMedia")
    /\ \/ Listed("stream") = {} /\ RequestGoto("closeClient") /\ UNCHANGED <<media, ending, broken>>
       \/ \E p \in Listed("stream") : media' = CloseOf(p) /\ UNCHANGED <<place, ending, broken>>
       \/ /\ Listed("stream") # {} /\ ending' = "cancelled" /\ broken' = TRUE
          /\ RequestGoto("over") /\ UNCHANGED media
    /\ UNCHANGED <<request, owned, closable, opened>>

\* A client of the application stays open.
CloseClient ==
    /\ RequestAt("closeClient") /\ RequestGoto("over")
    /\ \/ opened' = opened \ {"client"} /\ UNCHANGED <<ending, broken>>
       \/ /\ "client" \in opened /\ ending' \in {"raised", "cancelled"} /\ broken' = TRUE
          /\ UNCHANGED opened
    /\ UNCHANGED <<request, owned, closable, media>>

RequestNext ==
    \/ ValidateContext \/ MakeClient \/ EncodeItem \/ NextMessage \/ UnwindContent \/ UnwindMessages
    \/ OpenStream \/ StreamOver \/ CloseStream \/ CloseMedia \/ CloseClient

RequestSpec == RequestInit /\ [][RequestNext]_requestVars

-----------------------------------------------------------------------------
\* What a call may leave open, though nothing failed: a stream that has no aclose.
LeftOpen == IF closable THEN {} ELSE {"stream"}

\* client.py:648-661, 878-881, 971-974: however a call ends, at whichever message, what
\* it acquired is released, unless a release itself fails where nothing catches it (the
\* stream's, the client's, or one on the way out of a failed encoding) or is cancelled --
\* except for a stream without an aclose, which no call closes; nothing is released
\* twice; and a context the Model cannot take, by what it declares, acquires nothing.
Released ==
    /\ \A p \in DOMAIN media : media[p].closed <= media[p].resolved /\ media[p].resolved <= 1
    /\ RequestAt("over") /\ ~broken =>
         opened \subseteq LeftOpen /\ \A p \in DOMAIN media : media[p].closed = media[p].resolved
    /\ \A p \in Places(request) : request[p[1]][p[2]] = "audio" =>
         opened = {} /\ \A q \in DOMAIN media : media[q].resolved = 0
    /\ ending = "ok" => \A p \in Places(request) : request[p[1]][p[2]] # "file"
=============================================================================
