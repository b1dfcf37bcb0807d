------------------------------ MODULE VisionWorld ------------------------------
(***************************************************************************)
(* What is seen is told to the World (roboagent/interaction/vision/world.py): *)
(* prepare makes a publication of an analysis and of the names the tracker *)
(* gave to what is in it, and publish commits it in two steps, the capture *)
(* as an observation and then the claims that rest on it.  The World may   *)
(* refuse either, the caller may be cancelled between them, and the host   *)
(* publishes again, prepares again or publishes late.                      *)
(*                                                                         *)
(* Of the predicates of an object only its category is modelled.           *)
(***************************************************************************)
EXTENDS Vision, World, TLC

CONSTANTS
    EntityCategory,    \* what the category of the n-th entity is called in the World
    CategoryTtl,       \* semantic_ttl_ns
    Analyses           \* ids of the analyses of a capture

ASSUME VisionWorldAssumption ==
    /\ CategoryTtl \in Nat
    \* _entity: by default, and of any mapping a host may bind, one entity for a track.
    /\ \A m, n \in DOMAIN EntityCategory : EntityCategory[m] = EntityCategory[n] => m = n

VARIABLES
    publication,   \* the WorldPublication at hand, and where publish is
    published      \* history: what every publication said of its entities

publicationVars == <<publication, published>>

Idle == [observation |-> "", claims |-> {}, pc |-> "idle", status |-> "none", observed |-> FALSE]

VisionWorldInit == publication = Idle /\ published = {}

\* canonical_json_digest.
Digest(value) == ToString(value)
ObservationOf(s) == Digest(<<"capture", s>>)

ASSUME DigestAssumption == \A s \in 1..MaxSequence : ObservationOf(s) # NoObservation

-----------------------------------------------------------------------------
\* Variant: what the tracker has skipped is named by its place in the analysis.
LocalNames(s, scene) == IF told[s].scene = scene THEN told[s].names ELSE [d \in DOMAIN scene |-> d]

\* The names of an analysis: the tracker's, if its result is of this very capture and
\* analysis, or none, if it was skipped.
EntityNames(s, scene) ==
    IF told[s].scene = scene THEN told[s].names ELSE [d \in DOMAIN scene |-> 0]

\* The tracker compares kinds; what is claimed is the category as it came, whose spelling
\* may differ from capture to capture.
CategoryClaim(s, analysis, asserted, name, detection) ==
    [ref |-> Digest(<<"claim", s, analysis, name>>), predicate |-> EntityCategory[name],
     kind |-> "interpretation", source |-> "semantic", value |-> detection.label,
     at |-> told[s].time, lasts |-> CategoryTtl, evidence |-> {ObservationOf(s)},
     supersedes |-> {}, asserted |-> asserted]
Said(s, name, detection) ==
    [name |-> name, value |-> detection.label, kind |-> detection.kind, at |-> told[s].time]

\* prepare, with a result of the tracker; the claims carry when they were prepared.
Prepare(s, scene, analysis, asserted) ==
    /\ publication.pc = "idle"
    /\ LET names == EntityNames(s, scene)
           named == {d \in DOMAIN scene : names[d] # 0} IN
       /\ \A d \in named : names[d] \in DOMAIN EntityCategory
       /\ publication' = [Idle EXCEPT
            !.observation = ObservationOf(s),
            !.claims = {CategoryClaim(s, analysis, asserted, names[d], scene[d]) : d \in named},
            !.pc = "evidence"]
       /\ published' = published \cup {Said(s, names[d], scene[d]) : d \in named}
    /\ UNCHANGED <<visionVars, worldVars>>

Ended(status) == publication' = [publication EXCEPT !.status = status, !.pc = "ended"]
Refused(o, batch) == Verdict(o, batch) = Rejected /\ UNCHANGED worldVars

\* publish: the observation, without claims ...
PublishEvidence ==
    /\ publication.pc = "evidence"
    /\ \/ Commit(publication.observation, {})
          /\ publication' = [publication EXCEPT !.pc = "claims", !.observed = TRUE]
       \/ Refused(publication.observation, {}) /\ Ended("notCommitted")
    /\ UNCHANGED <<visionVars, published>>

\* ... and then the claims.
PublishClaims ==
    /\ publication.pc = "claims"
    /\ \/ Commit(NoObservation, publication.claims) /\ Ended("complete")
       \/ Refused(NoObservation, publication.claims) /\ Ended("evidenceOnly")
    /\ UNCHANGED <<visionVars, published>>

\* Cancelled, or on_receipt raises: the caller gets no result.
PublishInterrupted ==
    /\ publication.pc \in {"evidence", "claims"} /\ Ended("none")
    /\ UNCHANGED <<visionVars, worldVars, published>>

\* The host publishes it again, or is done with it.
PublishAgain ==
    /\ publication.pc = "ended"
    /\ publication' \in {[publication EXCEPT !.pc = "evidence", !.status = "none", !.observed = FALSE], Idle}
    /\ UNCHANGED <<visionVars, worldVars, published>>

VisionWorldNext ==
    \/ PublishEvidence \/ PublishClaims \/ PublishInterrupted \/ PublishAgain
    \/ \E s \in DOMAIN told, scene \in Scenes, analysis \in Analyses, asserted \in {1, 2} :
         Prepare(s, scene, analysis, asserted)

-----------------------------------------------------------------------------
\* world.py:110-117, 205-212 and 312-351, across tracker, publication and World: whatever
\* was retried, prepared again, cut short or published late, the World is made to doubt
\* what an object is by nothing but two captures of one instant that spell its one kind in
\* two ways, which tracking.py:222 takes for the same; what is known of an object, or may
\* be, was published of it; and the status a caller is given is how far the publication came.
PublishedOnce ==
    /\ \A now \in 0..MaxTime, name \in DOMAIN EntityCategory :
         LET known == Resolve(EntityCategory[name], now)
             said == {x \in published : x.name = name /\ x.value \in known.values} IN
         /\ \A value \in known.values : \E x \in said : x.value = value
         /\ known.status = "conflicted" =>
              \E x, y \in said : x.value # y.value /\ x.kind = y.kind /\ x.at = y.at
    /\ CASE publication.status = "complete" -> publication.claims \subseteq claims
         [] publication.status = "evidenceOnly" ->
              publication.observation \in DOMAIN seen /\ ~(publication.claims \subseteq claims)
         [] publication.status = "notCommitted" -> publication.observation \notin DOMAIN seen
         [] OTHER -> TRUE
=============================================================================
