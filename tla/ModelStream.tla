------------------------------ MODULE ModelStream ------------------------------
(***************************************************************************)
(* One call of a Model (roboagent/model/client.py): a Model yields events, *)
(* and collect_model_stream, which trusts no Model, accepts them one by    *)
(* one, shows them to the loop's observer and makes the response of them.  *)
(* The Model is the OpenAI-compatible adapter, which translates the chunks *)
(* of a provider, or any other.  The stream may end, fail or be cancelled  *)
(* anywhere.                                                               *)
(***************************************************************************)
EXTENDS Integers, Sequences, FiniteSets

CONSTANTS
    CallIds,      \* ids a Model may give its Tool calls
    Indexes,      \* their indexes: 0..n
    MaxStream     \* bound: events of a stream

ASSUME ModelStreamAssumption == Indexes \subseteq Nat /\ MaxStream \in Nat

VARIABLES
    source,     \* "adapter" or "other"; history of the adapter: does a call share its id
    provider,   \* the adapter: its calls by index, was there text, the usage, is the stream over
    heard,      \* history: the events that were accepted and shown to the observer
    collector   \* call_states, latest_usage, completed and how collect_model_stream ended

streamVars == <<source, provider, heard, collector>>

NoUsage == 0
Usages == {1, 2}
NameMissing == "missing"
Calls == [id : CallIds, name : {"n"}]

StreamInit ==
    /\ source \in {"adapter", "other"}
    /\ provider = [calls |-> [i \in {} |-> 0], text |-> FALSE, usage |-> NoUsage, over |-> FALSE]
    /\ heard = <<>>
    /\ collector = [calls |-> [i \in {} |-> 0], usage |-> NoUsage, response |-> <<>>, pc |-> "open"]

Event(kind) == [kind |-> kind, index |-> 0, id |-> "", name |-> "", usage |-> NoUsage, calls |-> <<>>]
Started(i, id, name) == [Event("started") EXCEPT !.index = i, !.id = id, !.name = name]
Arguments(i, id) == [Event("arguments") EXCEPT !.index = i, !.id = id]
Completed(i, call) == [Event("completed") EXCEPT !.index = i, !.id = call.id, !.name = call.name]
UsageIs(u) == [Event("usage") EXCEPT !.usage = u]
Response(calls, u) == [Event("response") EXCEPT !.calls = calls, !.usage = u]

\* What is said of the calls, in the order of their indexes.
Named(calls) == [i \in DOMAIN calls |-> [id |-> calls[i].id, name |-> calls[i].name]]
Indexed(set) ==
    CHOOSE order \in [1..Cardinality(set) -> set] : \A m, n \in DOMAIN order : m < n => order[m] < order[n]
InOrder(calls) ==
    LET order == Indexed(DOMAIN calls) IN [n \in DOMAIN order |-> Named(calls)[order[n]]]

-----------------------------------------------------------------------------
Known(e) == e.index \in DOMAIN collector.calls
State(e) == collector.calls[e.index]

\* Variant: the arguments may go on after the call is complete.
SameCall(e) == Known(e) /\ State(e).id = e.id
GoesOn(e) == Known(e) /\ ~State(e).done /\ State(e).id = e.id

\* What the collector accepts, after what it has accepted.
Accepts(e) ==
    /\ collector.response = <<>>
    /\ e.kind = "begin" <=> heard = <<>>
    /\ CASE e.kind = "started" -> ~Known(e) /\ \A i \in DOMAIN collector.calls : collector.calls[i].id # e.id
         [] e.kind = "arguments" -> GoesOn(e)
         [] e.kind = "completed" -> GoesOn(e) /\ State(e).name \in {NameMissing, e.name}
         [] e.kind = "response" -> /\ \A i \in DOMAIN collector.calls : collector.calls[i].done
                                   /\ e.calls = InOrder(collector.calls)
                                   /\ collector.usage # NoUsage => e.usage = collector.usage
         [] OTHER -> TRUE

\* A call is added to some, or changed among them.
WithCall(calls, i, call) ==
    [j \in DOMAIN calls \cup {i} |-> IF j = i THEN call ELSE calls[j]]

Heard(e) ==
    [calls |-> IF e.kind \in {"started", "completed"}
               THEN WithCall(collector.calls, e.index,
                             [id |-> e.id, name |-> e.name, done |-> e.kind = "completed"])
               ELSE collector.calls,
     usage |-> IF e.kind = "usage" THEN e.usage ELSE collector.usage,
     response |-> IF e.kind = "response" THEN <<e.calls, e.usage>> ELSE collector.response,
     pc |-> collector.pc]

\* The next event comes out of the Model.
Hears(e) ==
    /\ collector.pc = "open" /\ Len(heard) < MaxStream
    /\ IF Accepts(e) THEN collector' = Heard(e) /\ heard' = Append(heard, e)
       ELSE collector' = [collector EXCEPT !.pc = "refused"] /\ UNCHANGED heard
    /\ UNCHANGED source

OtherYields ==
    /\ source = "other"
    /\ \E e \in {Event("begin"), Event("text")} \cup {UsageIs(u) : u \in Usages}
             \cup {Started(i, id, name) : i \in Indexes, id \in CallIds, name \in {"n", NameMissing}}
             \cup {Arguments(i, id) : i \in Indexes, id \in CallIds}
             \cup {Completed(i, call) : i \in Indexes, call \in Calls}
             \cup {Response(calls, u) : calls \in {<<>>, InOrder(collector.calls)}, u \in Usages} :
         Hears(e)
    /\ UNCHANGED provider

\* The iterator is exhausted: a response must have come.  Then, what the Model is not
\* able to do it must not have done.
StreamEnds ==
    /\ collector.pc = "open" /\ (source = "adapter" => provider.over)
    /\ \E able \in BOOLEAN :
         collector' = [collector EXCEPT !.pc = IF collector.response = <<>> \/ ~able THEN "refused"
                                               ELSE "returned"]
    /\ UNCHANGED <<source, provider, heard>>

\* A provider, media or observer error, or cancellation: the iterator is closed.
StreamBreaks ==
    /\ collector.pc = "open" /\ collector' = [collector EXCEPT !.pc = "failed"]
    /\ UNCHANGED <<source, provider, heard>>

-----------------------------------------------------------------------------
Translating == source = "adapter" /\ heard # <<>> /\ ~provider.over

\* _stream_chunks: it begins before the first chunk comes.
AdapterBegins ==
    /\ source = "adapter" /\ heard = <<>>
    /\ Hears(Event("begin")) /\ UNCHANGED provider

Finishing == \E i \in DOMAIN provider.calls : provider.calls[i].done
Reading == Translating /\ ~Finishing

\* A chunk with a reading of the usage, or with text.
ChunkPlain ==
    /\ Reading
    /\ \/ \E u \in Usages : provider' = [provider EXCEPT !.usage = u] /\ Hears(UsageIs(u))
       \/ provider' = [provider EXCEPT !.text = TRUE] /\ Hears(Event("text"))

\* A fragment of a call: the first one of its index opens it; the name may come later.
FragmentOpens ==
    /\ Reading
    /\ \E i \in Indexes \ DOMAIN provider.calls, id \in CallIds, name \in {"n", NameMissing} :
         /\ provider' = [provider EXCEPT
              !.calls = WithCall(@, i, [id |-> id, name |-> name, done |-> FALSE])]
         /\ Hears(Started(i, id, name))

FragmentNames ==
    /\ Reading /\ collector.pc = "open"
    /\ \E i \in DOMAIN provider.calls :
         /\ provider.calls[i].name = NameMissing
         /\ provider' = [provider EXCEPT !.calls[i].name = "n"]
    /\ UNCHANGED <<source, heard, collector>>

FragmentGoesOn ==
    /\ Reading
    /\ \E i \in DOMAIN provider.calls : Hears(Arguments(i, provider.calls[i].id))
    /\ UNCHANGED provider

\* The next call to be completed when the chunks are over: in order of the indexes.
NextOf(calls) == {i \in DOMAIN calls : ~calls[i].done /\ \A j \in DOMAIN calls : j < i => calls[j].done}

\* The adapter's own checks: a name, arguments that are an object, no id twice.
AdapterCompletes ==
    /\ Translating
    /\ \E i \in NextOf(provider.calls) :
         /\ provider.calls[i].name # NameMissing
         /\ provider' = [provider EXCEPT !.calls[i].done = TRUE]
         /\ Hears(Completed(i, provider.calls[i]))

AdapterResponds ==
    /\ Translating /\ \A i \in DOMAIN provider.calls : provider.calls[i].done
    /\ provider.text \/ DOMAIN provider.calls # {}
    /\ provider' = [provider EXCEPT !.over = TRUE]
    /\ Hears(Response(InOrder(provider.calls), provider.usage))

StreamNext ==
    \/ OtherYields \/ StreamEnds \/ StreamBreaks \/ AdapterBegins \/ ChunkPlain
    \/ FragmentOpens \/ FragmentNames \/ FragmentGoesOn \/ AdapterCompletes \/ AdapterResponds

StreamSpec == StreamInit /\ [][StreamNext]_streamVars

-----------------------------------------------------------------------------
Position(kind, i) == {n \in DOMAIN heard : heard[n].kind = kind /\ heard[n].index = i}

\* client.py:346-528: whoever the Model is, the response that is returned says what the
\* observer was shown: each of its calls was opened once and completed once, with that
\* id and name, its arguments in between; no other call was opened; and the response was
\* the last event and carries the last usage.
ResponseAsStreamed ==
    collector.pc = "returned" =>
      LET opened == {heard[n].index : n \in {m \in DOMAIN heard : heard[m].kind = "started"}}
          order == Indexed(opened)
          calls == heard[Len(heard)].calls
      IN /\ heard[Len(heard)].kind = "response"
         /\ Len(calls) = Cardinality(opened)
         /\ \A k \in DOMAIN order :
              \E s, c \in DOMAIN heard :
                /\ Position("started", order[k]) = {s} /\ Position("completed", order[k]) = {c} /\ s < c
                /\ heard[s].id = calls[k].id /\ heard[c].id = calls[k].id /\ heard[c].name = calls[k].name
                /\ \A n \in Position("arguments", order[k]) : s < n /\ n < c /\ heard[n].id = calls[k].id
         /\ Cardinality({calls[k].id : k \in DOMAIN calls}) = Len(calls)
         /\ \A n \in DOMAIN heard : heard[n].kind = "usage" =>
              \/ heard[n].usage = heard[Len(heard)].usage
              \/ \E m \in n + 1..Len(heard) : heard[m].kind = "usage"

\* client.py:664-780 against 346-528, two halves that are written apart: however a
\* provider cuts and mixes its fragments, the collector refuses nothing the adapter
\* yields, but a call that has the id of another.
AdapterAccepted ==
    source = "adapter" /\ collector.pc = "refused" /\ collector.response = <<>> =>
      \E i, j \in DOMAIN provider.calls : i # j /\ provider.calls[i].id = provider.calls[j].id
=============================================================================
