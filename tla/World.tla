--------------------------------- MODULE World ---------------------------------
(***************************************************************************)
(* The World of roboagent/world/world.py: observations, and claims that    *)
(* rest on them and on each other, are committed in transactions that are  *)
(* accepted whole or refused; what is known is resolved from the claims    *)
(* when it is asked for.  One entity and one scope; a claim is about one   *)
(* of its predicates.  A commit does not await once it holds the lock, so  *)
(* it is one step.                                                         *)
(***************************************************************************)
EXTENDS Integers, FiniteSets

CONSTANTS
    Offers,           \* the claims callers may commit
    Observations,     \* the observations they may commit
    Sources,          \* allowed_sources
    Filters,          \* searches of find_entities: functions from predicates to values
    MaxTime,          \* bound: readings of the clock
    MaxBatch,         \* bound: claims of a call
    MaxClaims,        \* WorldLimits.max_claims, and of the number of a call's claims
    MaxMetadata,      \* WorldLimits.max_evidence_metadata
    MaxPayload        \* WorldLimits.max_payload_bytes, each item being of size 1

NoObservation == "none"
NoTime == -1          \* valid_at is None; now() is None; valid_for_ns is None

\* Claim.__post_init__, and one clock.
WellFormed(c) ==
    /\ c.at \in 0..MaxTime \cup {NoTime}
    /\ c.lasts \in Nat \cup {NoTime}
    /\ c.lasts # NoTime => c.at # NoTime
    /\ c.ref \notin c.supersedes

ASSUME WorldAssumption ==
    /\ \A c \in Offers : WellFormed(c)
    /\ \A n \in {MaxTime, MaxBatch, MaxClaims, MaxMetadata, MaxPayload} : n \in Nat
    \* Evidence says whether it is an observation or a claim.
    /\ NoObservation \notin Observations
    /\ \A c \in Offers : c.ref \notin Observations

VARIABLES
    seen,        \* _observations with _transactions: the claims committed with each
    claims,      \* _claims
    payload,     \* _payload_bytes
    revision,    \* _revision
    accepted     \* history: one of the calls that were accepted, or none yet

worldVars == <<seen, claims, payload, revision, accepted>>

Rejected == "rejected"     \* WorldError
Refs(cs) == {c.ref : c \in cs}

WorldInit ==
    /\ seen = [o \in {} |-> {}] /\ claims = {} /\ payload = 0 /\ revision = 0 /\ accepted = <<>>

-----------------------------------------------------------------------------
\* A ref stands for one claim, in the call and in the World.
Conflict(cs) == \E c, d \in cs : c.ref = d.ref /\ c # d

ObservationConflict(o, batch) == o \in DOMAIN seen /\ seen[o] # Refs(batch)

Evidential == {"measurement", "interpretation", "inference"}

\* Every evidence and every superseded claim exists, when the call's own are counted.
EvidenceFound(observed, merged, batch) ==
    \A c \in batch :
      /\ c.kind \in Evidential => c.evidence # {}
      /\ c.evidence \subseteq observed \cup Refs(merged)
      /\ c.supersedes \subseteq Refs(merged)

Parents(c, cs) == {d \in cs : d.ref \in c.evidence \cup c.supersedes}

\* _validate_graph walks only what is new: claims committed before are taken as done.
\* What is left when claims without unfinished parents are finished, again and again,
\* is in a cycle or above one.
AcyclicAbove(done, cs) ==
    LET finished[n \in 0..Cardinality(cs)] ==
          IF n = 0 THEN done
          ELSE LET before == finished[n - 1]
               IN before \cup {c \in cs : Parents(c, cs) \subseteq before}
    IN finished[Cardinality(cs)] = cs

\* What is new is counted; what a repeated call carries again is not.
Size(o, batch) == Cardinality(batch \ claims) + (IF o = NoObservation \/ o \in DOMAIN seen THEN 0 ELSE 1)

Observed(o) == DOMAIN seen \cup ({o} \ {NoObservation})

WithinLimits(o, batch) ==
    /\ Cardinality(claims \cup batch) <= MaxClaims
    /\ Cardinality(Observed(o)) + Cardinality(claims \cup batch) <= MaxMetadata
    /\ payload + Size(o, batch) <= MaxPayload

\* What a call is answered by the World as it is.
Verdict(o, batch) ==
    IF \/ \E c \in batch : c.source \notin Sources
       \/ Conflict(claims \cup batch)
       \/ ObservationConflict(o, batch)
       \/ ~EvidenceFound(Observed(o), claims \cup batch, batch)
       \/ ~AcyclicAbove(claims, claims \cup batch)
       \/ ~WithinLimits(o, batch)
    THEN Rejected
    ELSE IF batch \subseteq claims /\ Observed(o) = DOMAIN seen THEN "unchanged" ELSE "changed"

\* observe and add_claims.
Commit(o, batch) ==
    LET verdict == Verdict(o, batch) IN
    /\ verdict # Rejected
    /\ accepted' \in {accepted, <<o, batch>>}
    /\ IF verdict = "changed"
       THEN /\ seen' = [x \in Observed(o) |-> IF x = o THEN Refs(batch) ELSE seen[x]]
            /\ claims' = claims \cup batch
            /\ payload' = payload + Size(o, batch)
            /\ revision' = revision + 1
       ELSE UNCHANGED <<seen, claims, payload, revision>>

WorldNext ==
    \E o \in Observations \cup {NoObservation}, batch \in SUBSET Offers :
       IsFiniteSet(batch) /\ Cardinality(batch) <= MaxBatch /\ Commit(o, batch)

WorldSpec == WorldInit /\ [][WorldNext]_worldVars

-----------------------------------------------------------------------------
\* _grounded_claims: claims of an evidential kind that nobody superseded, and that rest
\* on an observation or on another such claim.
Superseded == {r \in Refs(claims) : \E c \in claims : r \in c.supersedes}
Grounded ==
    LET eligible == {c \in claims : c.kind \in Evidential /\ c.ref \notin Superseded}
        supported[n \in 0..Cardinality(claims)] ==
          IF n = 0 THEN {}
          ELSE LET grounds == DOMAIN seen \cup Refs(supported[n - 1])
               IN {c \in eligible : c.evidence \cap grounds # {}}
    IN supported[Cardinality(claims)]

\* _temporal_class of a claim at a reading of the clock, which may be missing.
Temporal(c, now) ==
    CASE c.at = NoTime -> "live"
      [] c.at # NoTime /\ (now = NoTime \/ now < c.at) -> "unresolved"
      [] OTHER -> IF c.lasts # NoTime /\ now >= c.at + c.lasts THEN "expired" ELSE "live"

\* Variant: whatever was claimed is considered, however old.
EverythingSaid(predicate, now) == {c \in claims : c.predicate = predicate /\ c.ref \notin Superseded}

\* The claims _resolve considers: of each source the latest that have begun, and those
\* whose time cannot be told.
Selected(predicate, now) ==
    LET about == {c \in claims : c.predicate = predicate /\ c.ref \notin Superseded}
        grounded == Grounded IN
    {c \in about :
       c.at = NoTime \/ Temporal(c, now) = "unresolved"
       \/ \A d \in about : /\ d.source = c.source /\ (d \in grounded <=> c \in grounded)
                           /\ d.at # NoTime /\ Temporal(d, now) # "unresolved"
                           => d.at <= c.at}

Values(cs) == {c.value : c \in cs}

\* _resolve: the status, the values it may have, and whether claims speak for any.
Resolve(predicate, now) ==
    LET selected == Selected(predicate, now)
        grounded == selected \cap Grounded
        In(class) == {c \in grounded : Temporal(c, now) = class}
        live == In("live")
        unresolved == In("unresolved")
        expired == In("expired")
        Answer(status, basis) == [status |-> status, values |-> Values(basis)]
    IN CASE Cardinality(Values(live)) > 1 -> Answer("conflicted", live \cup unresolved)
         [] Cardinality(Values(live)) = 1 /\ Values(unresolved) \subseteq Values(live) ->
              Answer("known", live)
         [] Cardinality(Values(live)) = 1 /\ ~(Values(unresolved) \subseteq Values(live)) ->
              Answer("unknown", live \cup unresolved)
         [] live = {} /\ unresolved # {} ->
              Answer("unknown", expired \cup unresolved \cup (selected \ grounded))
         [] live = {} /\ unresolved = {} /\ expired # {} -> Answer("stale", expired)
         [] OTHER -> Answer("unknown", selected \ grounded)

\* find_entities: how the entity fits a search.
Match(filter, now) ==
    LET answer == [p \in DOMAIN filter |-> Resolve(p, now)]
        missing == {p \in DOMAIN filter : answer[p].status = "unknown" /\ answer[p].values = {}}
        matched == {p \in DOMAIN filter : answer[p] = [status |-> "known", values |-> {filter[p]}]}
        supported == {p \in DOMAIN filter \ missing : filter[p] \in answer[p].values}
    IN CASE \/ supported \cup missing # DOMAIN filter
            \/ missing = DOMAIN filter -> "excluded"
         [] matched = DOMAIN filter -> "confirmed"
         [] OTHER -> "possible"

-----------------------------------------------------------------------------
\* The module's promise of full provenance, world.py:3-4, which _commit checks by halves
\* because it takes what was committed before for granted: whatever was committed, every
\* claim rests on what the World holds, no chain of evidence and corrections returns to
\* itself, a ref stands for one claim, an observation came with the claims it is
\* remembered with, and the payload is what is held.
ProvenanceHolds ==
    /\ EvidenceFound(DOMAIN seen, claims, claims)
    /\ AcyclicAbove({}, claims)
    /\ ~Conflict(claims)
    /\ \A o \in DOMAIN seen : seen[o] \subseteq Refs(claims)
    /\ payload = Cardinality(claims) + Cardinality(DOMAIN seen)

\* world.py:182-258, the transactions a caller may repeat when it has not seen the
\* answer: a call that was accepted once is accepted for ever, and changes nothing,
\* whatever was committed since and however full the World has become.
RepeatedIsUnchanged == accepted # <<>> => Verdict(accepted[1], accepted[2]) = "unchanged"

Rests(c) ==
    \E chain \in SUBSET claims :
      /\ c \in chain
      /\ \A d \in chain : /\ d.kind \in Evidential
                          /\ \A e \in claims : d.ref \notin e.supersedes
                          /\ d.evidence \cap (DOMAIN seen \cup Refs(chain)) # {}

InForce(c, now) ==
    /\ now # NoTime /\ c.at <= now /\ (c.lasts = NoTime \/ now < c.at + c.lasts)
    /\ \A d \in claims : d.predicate = c.predicate /\ d.source = c.source /\ Rests(d) =>
                         ~(c.at < d.at /\ d.at <= now)

\* world.py:488-616, WorldStatus.KNOWN: whatever the clock reads, what is known is said by
\* a claim in force, that rests on an observation through claims nobody corrected and
\* whose source has not spoken since; and no such claim says otherwise, nor one whose
\* time cannot be told.  A search confirms the entity on nothing less.
KnownIsCurrent ==
    \A now \in 0..MaxTime \cup {NoTime} :
      LET Holds(p, v) ==
            /\ \E c \in claims : c.predicate = p /\ c.value = v /\ Rests(c)
                                  /\ (c.at = NoTime \/ InForce(c, now))
            /\ \A c \in claims :
                 c.predicate = p /\ c.value # v /\ Rests(c) =>
                   c.at # NoTime /\ now # NoTime /\ c.at <= now /\ ~InForce(c, now)
      IN /\ \A p \in {c.predicate : c \in claims} :
              Resolve(p, now).status = "known" =>
                \E v \in Resolve(p, now).values : Resolve(p, now).values = {v} /\ Holds(p, v)
         /\ \A filter \in Filters :
              Match(filter, now) = "confirmed" => \A p \in DOMAIN filter : Holds(p, filter[p])
=============================================================================
