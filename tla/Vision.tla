-------------------------------- MODULE Vision --------------------------------
(***************************************************************************)
(* The host-owned state of roboagent/interaction/vision for one stream: the *)
(* VisualBuffer keeps the captures that are pushed (buffer.py), and the     *)
(* VisualTracker gives the detections of a capture the names of tracks      *)
(* (tracking.py).  Captures, cloud answers and retries come late, twice and *)
(* out of order; a clock that restarts begins a new epoch.  Neither awaits. *)
(*                                                                         *)
(* The content of a capture is its time, and what a detection is compared  *)
(* by is its kind, the category casefolded, and a place on a line; what is *)
(* told of it is its label, the category as it came.  The bytes of the     *)
(* tracker's cache are not modelled.                                       *)
(***************************************************************************)
EXTENDS Integers, FiniteSets, Sequences

CONSTANTS
    Scenes,        \* analyses: functions from detections to their labels, kinds and places
    MaxSequence, MaxNow,   \* bounds: captures of an epoch, its clock
    MaxAge,        \* max_buffer_age_ns and max_track_age_ns
    MaxFrames,     \* max_buffer_frames and max_tracking_cache_frames
    CaptureSizes,  \* of images, in bytes
    MaxBytes,      \* max_buffer_bytes
    MaxMissed,     \* max_missed_observations
    MaxTracks,     \* max_tracks
    Reach,         \* the policy: places further apart are not the same object's
    Margin         \* ambiguity_margin

ASSUME VisionAssumption ==
    /\ \A n \in {MaxSequence, MaxNow, MaxAge, MaxMissed, MaxTracks, Reach, Margin} : n \in Nat
    /\ MaxFrames \in Nat \ {0} /\ MaxBytes \in Nat /\ CaptureSizes \subseteq Nat
    /\ \A scene \in Scenes : /\ IsFiniteSet(DOMAIN scene) /\ DOMAIN scene \subseteq Nat
                             /\ \A d \in DOMAIN scene : scene[d].place \in Int
    \* The kind is what str.casefold makes of the label.
    /\ \A scene, other \in Scenes : \A d \in DOMAIN scene, e \in DOMAIN other :
         scene[d].label = other[e].label => scene[d].kind = other[e].kind

VARIABLES
    visionClock,   \* the clock of the active epoch; history: is the buffer cut to its limits
    buffer,        \* _captures of the buffer, from sequences to times
    pushed,        \* history: the captures of this epoch that push accepted
    bytes,         \* the sizes of those captures
    tracker,       \* _last_sequence, _last_time, _counter, _tracks and _cache
    answer,        \* the last TrackingResult
    told           \* history: per capture of the epoch, its analysis and associations

bufferVars == <<buffer, pushed, bytes>>
trackerVars == <<tracker, answer, told>>
visionVars == <<visionClock, bufferVars, trackerVars>>

Nothing == [x \in {} |-> 0]
NoAnswer == [sequence |-> 0, status |-> "none", names |-> Nothing]
NewTracker == [last |-> 0, time |-> 0, counter |-> 0, tracks |-> Nothing, cache |-> <<>>]

VisionInit ==
    /\ visionClock = [now |-> 1, cut |-> TRUE]
    /\ buffer = Nothing /\ pushed = Nothing /\ bytes = Nothing
    /\ tracker = NewTracker /\ told = Nothing
    /\ answer = NoAnswer

-----------------------------------------------------------------------------
\* The clock goes on; or it restarts, and the host activates a new epoch, which no epoch
\* before it shares a capture or the name of a track with.
Tick ==
    /\ visionClock.now < MaxNow /\ visionClock' = [visionClock EXCEPT !.now = @ + 1]
    /\ UNCHANGED <<bufferVars, trackerVars>>

ActivateEpoch ==
    /\ visionClock' = [now |-> 1, cut |-> TRUE]
    /\ buffer' = Nothing /\ pushed' = Nothing /\ bytes' = Nothing
    /\ tracker' = NewTracker /\ answer' = NoAnswer /\ told' = Nothing

Keeping(captures, sequences) == [s \in sequences |-> captures[s]]
Aged(captures) ==
    Keeping(captures, {s \in DOMAIN captures : visionClock.now - captures[s] \in 0..MaxAge})

\* The bytes of captures that are stored, none of which is larger than MaxBytes: each byte
\* is a capture and a place in it.
BytesOf(sequences, sizes) == {b \in sequences \X (1..MaxBytes) : b[2] <= sizes[b[1]]}

\* The first are deleted until those that are left, and are counted, are within the limits.
From(s, captures) == {r \in DOMAIN captures : s <= r}
\* Variant: only captures are counted.
NewestOfMany(captures, sizes) ==
    Keeping(captures, {s \in DOMAIN captures : Cardinality(From(s, captures)) <= MaxFrames})
Newest(captures, sizes) ==
    Keeping(captures, {s \in DOMAIN captures :
                         /\ Cardinality(From(s, captures)) <= MaxFrames
                         /\ Cardinality(BytesOf(From(s, captures), sizes)) <= MaxBytes})

\* The backend's captures: of an epoch, times never decrease as sequences increase.
Sampled(s, time) ==
    /\ time <= visionClock.now
    /\ \A r \in DOMAIN pushed : (r < s => pushed[r] <= time) /\ (s < r => time <= pushed[r])

\* push; a capture that is larger than the buffer is refused.  The clock is read once more
\* when the capture is in, and may then fail: the caller sees an error, the capture
\* stays, and the buffer is not cut to its limits.
Push(s, time, size) ==
    /\ Sampled(s, time)
    /\ LET kept == Aged(buffer)
           With(captures, value) ==
             [r \in DOMAIN captures \cup {s} |-> IF r = s THEN value ELSE captures[r]] IN
       IF s \in DOMAIN kept \/ size > MaxBytes
       THEN buffer' = kept /\ UNCHANGED <<pushed, bytes, visionClock>>
       ELSE /\ pushed' = With(pushed, time) /\ bytes' = With(bytes, size)
            /\ \/ /\ buffer' = Newest(Aged(With(kept, time)), bytes')
                  /\ visionClock' = [visionClock EXCEPT !.cut = TRUE]
               \/ buffer' = With(kept, time) /\ visionClock' = [visionClock EXCEPT !.cut = FALSE]
    /\ UNCHANGED trackerVars

\* latest and nearest; they prune.
Latest(captures) == {s \in DOMAIN captures : \A r \in DOMAIN captures : r <= s}
Nearest(captures, time) ==
    LET Off(s) == IF captures[s] < time THEN time - captures[s] ELSE captures[s] - time
    IN {s \in DOMAIN captures :
          \A r \in DOMAIN captures : Off(s) < Off(r) \/ (Off(s) = Off(r) /\ r <= s)}
Look == buffer' = Aged(buffer) /\ UNCHANGED <<visionClock, pushed, bytes, trackerVars>>

-----------------------------------------------------------------------------
\* _cost of taking the detection for what was last seen of the track, or NoCost.
NoCost == -1
Cost(previous, detection) ==
    LET off == IF previous.place < detection.place THEN detection.place - previous.place
               ELSE previous.place - detection.place
    IN IF previous.kind # detection.kind \/ off > Reach THEN NoCost ELSE off

Live(t, time) == time - tracker.tracks[t].time <= MaxAge /\ tracker.tracks[t].missed < MaxMissed
Active(time) == {t \in DOMAIN tracker.tracks : Live(t, time)}

\* The pairs that may be associated, and what each costs.
Pairs(scene, time) ==
    {p \in (DOMAIN scene) \X Active(time) : Cost(tracker.tracks[p[2]], scene[p[1]]) # NoCost}
PairCost(scene, p) == Cost(tracker.tracks[p[2]], scene[p[1]])

\* A detection with two tracks about equally near, and those near the track's nearest.
Ambiguous(scene, pairs) ==
    LET C(p) == PairCost(scene, p) IN
    {d \in DOMAIN scene :
       \/ \E p, q \in pairs : /\ p # q /\ p[1] = d /\ q[1] = d
                              /\ \A r \in pairs : r[1] = d => C(p) <= C(r)
                              /\ C(q) - C(p) <= Margin
       \/ \E p \in pairs : p[1] = d /\ \E b \in pairs \ {p} :
            /\ b[2] = p[2]
            /\ \/ \A r \in pairs : r[2] = b[2] => C(b) <= C(r)
               \/ \A r \in pairs : r[2] = b[2] => C(p) <= C(r)
            /\ C(p) - C(b) <= Margin /\ C(b) - C(p) <= Margin}

\* Variant: a track that was taken may be taken again.
NearestOfEach(scene, pairs) ==
    {p \in pairs : /\ p[1] \notin Ambiguous(scene, pairs)
                   /\ \A q \in pairs : q[1] = p[1] => PairCost(scene, p) <= PairCost(scene, q)}

\* The cheapest pairs first, each excluding its detection and its track.
Sooner(scene, p, q) ==
    \/ PairCost(scene, p) < PairCost(scene, q)
    \/ PairCost(scene, p) = PairCost(scene, q) /\ p[2] < q[2]
    \/ PairCost(scene, p) = PairCost(scene, q) /\ p[2] = q[2] /\ p[1] < q[1]
Open(pairs, taken) == {p \in pairs : \A q \in taken : q[1] # p[1] /\ q[2] # p[2]}
Assigned(scene, pairs) ==
    LET ambiguous == Ambiguous(scene, pairs)
        certain == {p \in pairs : p[1] \notin ambiguous}
        taken[n \in 0..Cardinality(certain)] ==
          IF n = 0 THEN {}
          ELSE LET left == Open(certain, taken[n - 1])
               IN taken[n - 1] \cup {p \in left : \A q \in left \ {p} : Sooner(scene, p, q)}
    IN taken[Cardinality(certain)]

\* Variant: the numbers of dead tracks are used again.
SmallestFree(n) == Cardinality(DOMAIN tracker.tracks) + n
\* The name of the n-th new track of an update.
NewName(n) == tracker.counter + n

\* The names given to the detections: a track's, a new one, or 0 when it is ambiguous.
Unpaired(scene, pairs) == {d \in DOMAIN scene : \A p \in pairs : p[1] # d}
Names(scene, pairs) ==
    LET assigned == Assigned(scene, pairs)
        new == Unpaired(scene, pairs)
    IN [d \in DOMAIN scene |->
          IF d \in new THEN NewName(Cardinality({e \in new : e <= d}))
          ELSE IF \E p \in assigned : p[1] = d THEN (CHOOSE p \in assigned : p[1] = d)[2] ELSE 0]

Skips == answer' = NoAnswer /\ UNCHANGED <<tracker, told>>

Newer(s, time) == tracker.last < s /\ tracker.time <= time

Cached(s) == {i \in DOMAIN tracker.cache : tracker.cache[i].sequence = s}

\* update with a capture not yet seen, if its sequence and time allow.
Track(s, time, scene) ==
    LET pairs == Pairs(scene, time)
        names == Names(scene, pairs)
        seenTracks == {names[d] : d \in DOMAIN scene} \ {0}
        Of(t) == CHOOSE d \in DOMAIN scene : names[d] = t
        tracks == [t \in Active(time) \cup seenTracks |->
                     IF t \in seenTracks THEN [kind |-> scene[Of(t)].kind, place |-> scene[Of(t)].place,
                                               time |-> time, missed |-> 0]
                     ELSE [tracker.tracks[t] EXCEPT !.missed = @ + 1]]
        cache == Append(tracker.cache, [sequence |-> s, time |-> time, scene |-> scene, names |-> names])
    IN IF ~Newer(s, time) \/ Cardinality(DOMAIN tracks) > MaxTracks
       THEN Skips
       ELSE /\ tracker' = [last |-> s, time |-> time, counter |-> tracker.counter + Cardinality(Unpaired(scene, pairs)),
                           tracks |-> tracks,
                           cache |-> IF Len(cache) > MaxFrames THEN Tail(cache) ELSE cache]
            /\ answer' = [sequence |-> s, status |-> "updated", names |-> names]
            /\ told' = [r \in DOMAIN told \cup {s} |-> IF r \in DOMAIN told THEN told[r]
                                                      ELSE [names |-> names, scene |-> scene, time |-> time]]

\* update: one that is in the cache is answered from there, if it is the same capture
\* and the same analysis.
Update(s, time, scene) ==
    /\ IF Cached(s) = {} THEN Track(s, time, scene)
       ELSE LET entry == tracker.cache[CHOOSE i \in Cached(s) : TRUE] IN
            IF entry.time = time /\ entry.scene = scene
            THEN /\ answer' = [sequence |-> s, status |-> "cached",
                               names |-> entry.names]
                 /\ UNCHANGED <<tracker, told>>
            ELSE Skips
    /\ UNCHANGED <<visionClock, bufferVars>>

\* An answer for a capture of another stream, or of an epoch that is over.
UpdateLate(s) == Skips /\ UNCHANGED <<visionClock, bufferVars>>

BufferNext ==
    Tick \/ Look \/ \E s \in 1..MaxSequence, time \in 1..MaxNow, size \in CaptureSizes : Push(s, time, size)
TrackerNext ==
    \E s \in 1..MaxSequence :
       UpdateLate(s) \/ \E time \in 1..MaxNow, scene \in Scenes : Update(s, time, scene)

VisionNext == ActivateEpoch \/ BufferNext \/ TrackerNext

VisionSpec == VisionInit /\ [][VisionNext]_visionVars

-----------------------------------------------------------------------------
\* buffer.py:52-120: in whatever order captures are pushed, and however large they are,
\* latest is the newest of those that were accepted and are not too old, so is the one
\* nearest to the present, and the buffer is within its limits, of captures and of bytes,
\* unless the clock failed in the last push that stored anything.
LatestIsFreshest ==
    LET fresh == Aged(pushed) IN
    /\ Latest(Aged(buffer)) = Latest(fresh)
    /\ Nearest(Aged(buffer), visionClock.now) = Nearest(fresh, visionClock.now)
    /\ visionClock.cut => /\ Cardinality(DOMAIN buffer) <= MaxFrames
                          /\ Cardinality(BytesOf(DOMAIN buffer, bytes)) <= MaxBytes

\* tracking.py:267-294 and 394-413: whatever is retried, delayed or analysed again, a
\* capture has one set of associations, before and after the cache forgets it; and a name
\* is never given to objects of two kinds, though all that was known of the one it was
\* given to first may be gone.
TrackedOnce ==
    /\ answer # NoAnswer => answer.names = told[answer.sequence].names
    /\ \A s, r \in DOMAIN told :
         \A d \in DOMAIN told[s].names, e \in DOMAIN told[r].names :
           told[s].names[d] = told[r].names[e] /\ told[s].names[d] # 0 =>
             told[s].scene[d].kind = told[r].scene[e].kind

\* What an update that was made says of the names it gave.
StableUpdate ==
    answer'.status = "updated" /\ answer' # answer =>
      LET scene == tracker'.cache[Len(tracker'.cache)].scene
          time == tracker'.time
          names == answer'.names
          pairs == Pairs(scene, time)
      IN /\ \A d \in DOMAIN names : names[d] > tracker.counter => \A p \in pairs : p[1] # d
         /\ \A d, e \in DOMAIN names : d # e /\ names[d] # 0 => names[d] # names[e]
         /\ \A d \in DOMAIN names : names[d] # 0 /\ names[d] \notin Active(time) =>
              \A s \in DOMAIN told : \A e \in DOMAIN told[s].names : told[s].names[e] # names[d]
         /\ \A p \in pairs :
              LET d == p[1] IN
              names[d] \in Active(time) /\ PairCost(scene, p) < PairCost(scene, <<d, names[d]>>) =>
                \E e \in DOMAIN names : /\ names[e] = p[2]
                                        /\ PairCost(scene, <<e, p[2]>>) <= PairCost(scene, p)

\* tracking.py:312-384, the greedy assignment seen from outside: no detection is given a
\* new name while a live track could be it; names are given once in an update; the name of
\* a track that is gone is never given again, though nothing but the counter remembers it;
\* and no two objects would rather be each other's: whenever a track fits a detection that
\* has another name better than that name does, it went to one it fits at least as well.
MatchesStable == [][StableUpdate]_visionVars
=============================================================================
