# Verification of roboagent

roboagent is an asyncio agent runtime: hosts own *Sessions*, a Session runs one
*Run* at a time, a Run loops over model calls and Tool calls, and Tools may start
child Runs.  This directory holds TLA+ modules of its components, TLC
configurations that check them on small instances, and proofs that TLAPS checks
for every instance.  Every definition is translated from the Python code;
`PROJECT.json` maps each one to the lines it stands for.

## 1. Inventory

| Component (source) | State | Operations | Interacts with |
|---|---|---|---|
| Session (`agent/session.py`) | transcript, pending queue, receipt sequence, runtime and durable revision, active Run, closed flag, four locks | steer, follow_up, clear_pending, start, initial commit, consume_pending, commit_*, set_metadata, persist, close, delete, restore | Run (calls), repository (calls in worker threads) |
| Session repository (`agent/persistence.py`) | one JSON file and one lock file per id | load (with schema migration), save, delete under `flock`, compare-and-swap on the revision | Session; other processes through the file system |
| Run and loop (`agent/run.py`, `agent/loop.py`) | phase, turn, outcome, error, cleanup errors, tokens | start, turns, cancel, timeout, finalisation, child Runs | Session, Model, Tool executor, execution tree, events |
| Execution tree (`runtime/execution.py`, `_execution/*`) | scopes, facts (records, effects, usage, lineage), resources, frozen sets | new scope, contribute, add records, begin closing, freeze, close, settlement barrier | Run, Tool executor, child Runs |
| Events (`runtime/event.py`) | retained events, subscriber queues, terminal event | emit, subscribe, iterate, close | Run, hosts |
| Tool executor (`tool/executor.py`) | batch slots, tasks, approvals, effects, records | execute, prepare, approve, run, cancel, abort unprocessed, nested calls | Run, Tools, execution tree |
| Patch Tool (`tool/apply_patch.py`) | sections, hunks; staged files, committed list, backups | parse, locate, stage, revalidate, commit, settle, roll back | file system, settlement barrier |
| File and shell Tools (`tool/filesystem.py`, `tool/shell.py`) | one file; one process group and its pipes | list, search, read, edit, write; run, terminate, kill | file system, processes |
| Workspace, artifacts (`tool/workspace.py`, `agent/delegation.py`, `tool/materializer.py`) | blobs by digest, artifact writers | write, publish, promote, abort | Tools, child Runs |
| World (`world/world.py`) | observations, claims, cursor | observe, add_claims, snapshot, query, find_entities | Tools, vision, context |
| Context (`context/*`) | transcript and World entries selected within a budget, summary | prepare, compact | loop, Model |
| Model client (`model/client.py`, `model/registry.py`) | stream accumulators; client, media and stream acquired; registered models | translate chunks, collect a stream into a message; acquire, release; register, resolve | loop |
| Speech (`interaction/speech/*`) | generation, queues, tasks, turn detector, recogniser sessions, synthesis connection, playback queue | audio in, transcripts, agent turns, synthesis, playback, interrupt, close | Session, audio devices, cloud services |
| Vision (`interaction/vision/*`) | frame buffer, tracks, publications | push, latest, at; update tracks; prepare, publish; observe | World, Model, Tools |
| Skills (`skill/*`), MCP (`mcp.py`) | catalogue and the catalogues of active Runs; a server connection | reload, bind, read, release; open, discover, call, close | Run, Tools |

What is hard here: one event loop with many tasks, where every `await` is an
interleaving point; worker threads that go on after the awaiting task was cancelled;
compare-and-swap persistence shared by processes; cancellation that races with
effects that already happened; bounded queues whose readers may be slow or gone;
multi-file operations that can fail half-way; and late, repeated or reordered answers
of services, sensors and callback threads.  `PROJECT.json` lists the hazards one
by one, each at its line.

What makes each component correct:

* Session and repository: confirmed inputs survive, nothing is lost between handles,
  inputs keep their order, cleared inputs stay cleared, no call hangs.
* Run: the outcome is what happened, a retry is called safe only if it is, the root
  outlives its child, every Run ends.
* Execution tree: a scope that closed has nothing open below it, nothing is frozen
  before its settlement ended, usage is counted once.
* Events: every subscriber sees an ordered sequence that counts its gaps and ends with
  the one terminal event.
* Tool executor: every started call has its effect evidence exactly once, calls start in
  the order of the Model, and a batch that ended has left nothing running.
* Patch, file and shell Tools: what is reported is what was done, nobody else's content is
  lost, and a command that is cancelled takes its process group with it.
* Artifacts: a reference that a caller holds resolves, and no temporary file stays.
* World: claims rest on evidence, commits are idempotent, what is known is current.
* Context: nothing that must be shown is left out; a compaction is enough.
* Model: the response is what was streamed; what can be closed is released.
* Speech: nothing of an interrupted generation is heard after the interruption, every
  chunk reaches its recogniser once and in order, whoever waits for audio gets it.
* Vision: captures are found whatever their order, names of objects are neither swapped nor
  used again, and publishing again never makes the World doubt what an object is.

## 2. Modules

| Module | Stands for |
|---|---|
| `Cas` | the revision check every save passes (`_check_cas`) |
| `SessionRepository`, `Session` | the durable record of one session; runtime handles, their tasks and Runs, and the persistence protocol |
| `SessionInvariant`, `SessionProofs` | the inductive invariants of `Session`, the theorems |
| `StoredFile`, `LocalRepository` | the JSON file, and `LocalSessionRepository`: lock file, temporary file, replace, directory sync, migration, crashes |
| `AtomicRepository` | what the `SessionRepository` protocol promises: every call takes effect at one instant or not at all |
| `LocalInvariant`, `LocalProofs` | the inductive invariants of `LocalRepository`, the theorems, the refinement |
| `Run` | a root Run with its loop, and the child Run a Tool of it may start |
| `ExecutionTree`, `RunEvents` | scopes, facts and barriers of one root Run; its events and their subscribers |
| `RunProofs` | the inductive invariant of `Run`, the theorems |
| `ExecutionProofs` | the inductive invariants of `ExecutionTree` and `RunEvents`, the theorems |
| `ToolExecutor` | one batch of Tool calls, and the nested call of a composite |
| `ToolProofs` | the inductive invariant of `ToolExecutor`, the theorems |
| `ApplyPatch`, `PatchText` | one call of `apply_patch` on files others write to; what a patch makes of their text |
| `FileTools`, `Shell`, `Artifacts` | listings and whole-file writes; one shell command and its process group; the calls that store one blob |
| `Skills`, `McpAdapter` | the catalogue while Runs are bound to it; one MCP server, a Tool of it and its calls |
| `ServiceProofs` | the inductive invariants of `ApplyPatch`, `PatchText`, `FileTools`, `Shell`, `Artifacts`, `Skills`, `McpAdapter`, `Context`, `ModelRegistry`, `ModelRequest`, `ModelStream` and `VisionTool`, the theorems |
| `Context` | context managers and the compaction of a transcript |
| `ModelStream`, `ModelRequest`, `ModelRegistry` | what a Model streams and what is collected; what a call acquires; the registry |
| `Speech`, `SpeechCapture` | the output half and the capture half of `SpeechSession` |
| `SpeechInvariant`, `SpeechProofs` | the inductive invariant of `Speech`, the theorems |
| `RealtimeTTS`, `LocalTransport` | the synthesis over a kept connection; the local transport with its playback worker |
| `World` | the World |
| `Vision`, `VisionWorld`, `VisionTool` | frame buffer and tracker; publications (it extends `Vision` and `World`: the three share their state); the call of an observation Tool |
| `PerceptionProofs` | the inductive invariants of `World`, `Vision`, `VisionWorld`, `SpeechCapture`, `RealtimeTTS` and `LocalTransport`, the theorems |
| `MCSession`, `MCLocalRepository`, `MCSpeech`, `MCExecution`, `MCTools`, `MCServices` | the instances TLC checks (`Run` needs none) |

A definition commented *Variant* is a mistake one could make in that place; no
specification uses it.  Each property is shown to fail when its variant takes the place
of the definition after it, so that no property holds for want of a case.

### Session

A handle lives on one event loop.  No code suspends while it holds the queue,
transcript or compaction lock, so a section under one of them is one atomic step.
`_persist_lock` is different: it is held while `asyncio.to_thread` runs the
repository call.  A public call is therefore a *task* that goes through phases (`pc`):

    mutate, then waiting (for the lock) -> saving (worker thread) -> saved | refused | failed -> returned

`mem[h]` is the runtime state shaped as the snapshot that would be saved,
`durable[h]` is `_durable_revision`, `holder[h]` is `_persist_lock`, `run[h]` is
`_active_run_id`, and `orphans` are requests whose task was cancelled: the thread
still executes them.  The lock grants any waiter (asyncio grants the first), so the
model has every order the code can have and more.  Metadata and the compaction
summary are not looked into: changing them raises the revision.  A message is its
number in the order of acceptance; everything the Run adds itself is `Reply`.

A write may fail *before* taking effect, or *after* (`os.replace` done, directory
sync raised).  A crash removes a handle with its tasks and threads.

Fairness (`LiveSpec`): worker threads finish, the loop resumes tasks that can go on,
a Run leaves its turns (`max_turns`), and a waiter for the persist lock, which asyncio
serves first in first out, gets it if it is free again and again (the one strong
fairness).  Nothing is assumed about hosts.

### LocalRepository

A *thread* executes one `load`, `save` or `delete` at a time; threads may belong to any
processes.  One action per system call that another process can notice: taking the
lock shared or exclusive, reading, checking the revision, writing the temporary
file, replacing or unlinking, synchronising the directory, and releasing.  A `load` of a
file of an older schema lets go of the shared lock, takes the exclusive one, and looks
again before it allocates ids and writes.

The file system is external and modelled from how the code uses it.  `entries` holds
the directory entries the file has had since the directory was last synchronised: the
last one is what every process reads, and a power cut may bring back any of them.
`Disturbances` says what may go wrong in an instance: `write`, `replace`, `unlink` and
`sync` are system calls that raise, `crash` is the death of a process, which drops its
locks, and `power` a power cut.

`AtomicRepository` is the abstract specification.  The mapping (`Stage`, `Seen`) turns
the phase of a call into called, applied, refused or idle: a change is applied at the
replacement or unlink, a load when it reads under a lock.  An error leaves open whether
the call took effect, which is what a failing directory sync makes it.

### Run

`run[r].pc` is where the task of a Run is, one step from one await to the next: start,
initial commit, then per turn prepare, before_model, model, after_model, and either the
answer or the Tools and their exchange, and last finalize, on_run_end and the result.
`token[r]` is the `CancellationToken` with its reason; the child's token sees the
token of the Tool that started it, and that of the root.  `timer[r]` is the task that
times out.  Every step may fail, and may find the token set before or after its work.
`Delegate` starts the child from a Tool of the root, on a Session of its own;
`AbandonChild` is that Tool being left behind in its grace period.  `effect[r]` and
`lost` are what the effect evidence of a Run was and whether the transcript tells of it.

Fairness (`RunFairness`): every step of a Run that can go on does, since hooks, Models,
Tools and saves end or honour cancellation; nothing is assumed about the host, who may
never cancel, nor about timers.

### ExecutionTree and RunEvents

A scope has its ancestors, a kind and a state (open, closing, frozen).  `close_scope`
is a *closer* that goes through its awaits: it computes the descendants, waits for their
settlements, then takes, closes and freezes scope by scope, while tasks that work in those
scopes open others, contribute facts or close some themselves.  A settlement *barrier* has
its caller (`pc`), who may be cancelled, and its driver, which goes on.  Emitting an event does
not await: it is one step that numbers, retains and copies it to every bounded queue,
where ordinary events make room and the terminal one does not.

### ToolExecutor

`call[c].pc` runs from the slot of a call through arguments, policy, approval, hooks,
handler, grace period, materialisation and its record.  `handler[c].barrier` says that the
handler is in a settlement barrier: interrupted there it has no grace period, and the
executor awaits it under a shield (`shielded`).  A call's scope closes in two steps: it
begins to, and once no settlement is under way in it, it is closed.  `batch` is `execute`
itself, serial or concurrent.  What a handler really did (`touched`) is kept apart from the
evidence recorded of it, and the properties compare the two.  Prepared calls wait for their start in
order.  The nested call belongs to the composite's scope and is refused once that closes.

Fairness (`ToolFairness`): hooks and materializers end, an approval provider that is
cancelled does, the batch goes on when it can; a handler may go on for ever.  Since the
executor waits without a limit for one that is in a barrier, `CancelledEnds` has a premise:
no handler is *withheld* (`Withheld`) in this way for ever.  The only Tool of the repository that
enters a barrier is `apply_patch`; its body there is synchronous and its settlement has a
timeout.

### Patch, files, shell, artifacts

`ApplyPatch` has one action per system call; `disk` is what is at the target, `MaxForeign`
writes by others fall between any two of them, and any call may fail.  `PatchText` has no
interleaving: it applies patches to texts and is enumerated over small ones; the
property turns the hunks of a patch round and applies them to the result, the last first.  `FileTools` lists trees and
writes a file in its steps; the removal of its temporary file may fail like any other.
`Shell` is a process group whose members close pipes, ignore `SIGTERM` or leave the group.
The shell runs before `create_subprocess_exec` returns (`starting`), and until then the call is not
yet in its `try` block.  `Artifacts` has several calls that store the same blob; durability is what a
power cut leaves.

### Context, Model, Skills, MCP

`Context` is a transcript of groups (a message, or a whole exchange) that grows, is
compacted and shown; the three managers select from the same.  `manager.limits` is what a
manager was given: nothing, and then it checks nothing, a budget or projection, or a World
with a budget.  `prepare` awaits the summarizer: what it read before is `writing`, the Run waits
for it, and the commit compares the summary it expects with the one there is.  `ModelStream` joins the
adapter's translation of chunks with `collect_model_stream`, one event at a time.
`ModelRequest` acquires client, media and stream, each of which may fail or be cancelled,
and releases them in reverse, the stream by its `aclose` if it has one (`closable`).  `Skills` is edited, reloaded, bound and read by Runs.
`McpAdapter` keeps whether a call was executed apart from what was said of it.

### Speech

Transcript consumers, the host and `close()` are *callers*.  Everything runs on one
loop: what lies between two awaits is one action, and what does not suspend is not
split.  `interrupt()` has four awaits (the agent task, the synthesis, the provider's
cancel, the transport's clear), so it is five actions, and any number of interrupts may
be at any of them.  `agent[g]` is where the task of response `g` is, `run[g]` the Run it
started on the shared Session, `held[g]` the fragment its `queue.put` is blocked with,
`synth` the synthesis the worker awaits.  A fragment is the set of responses whose text
it holds, because all responses share one segmenter; `output` is what the transport
was handed since it was last cleared.  A Run that a text chat holds on the same Session
only delays `AgentStarts`, which nothing forces to happen.  Metrics, events and audio
formats are left out.

`silenced` and `crossed` are history: up to which response an interrupt has completed,
and whether a response was ever started while an interrupt was under way.  The two safety
properties are stated for behaviours that never did the latter.  Without that
condition both fail, in the model and in the code: the older interrupt forgets the task
of the new response, and the new response speaks what the segmenter still holds.

Fairness (`LiveSpec`): cancelled agent tasks unwind, Runs end, callers are resumed.
Nothing is assumed about the provider, the worker or the readers of the queue.

`SpeechCapture` numbers frames in the order they are processed and follows each into the
recogniser sessions.  VAD windows (32 ms) and frames (20 ms) do not divide each other, so
both are counted in units of 4 ms.  `RealtimeTTS` has three parties: the call, the
callback thread, which uses the queue registered when it runs, and the loop that delivers
what was posted.  `LocalTransport` has senders, workers and whoever clears or closes; a
worker remembers whether the transport was open when it was made (`born`).

### World and vision

A commit does not await once it holds the lock, so it is one step; validation is
`Verdict`, in the order of the code's checks.  What is known is not state: it is
`Resolve`d from the claims at a time.  `Vision` pushes captures in any order over
several epochs, of several sizes, and tracks detections on a line.  A detection has a *label*,
the category as the Model spelled it, and a *kind*, the label casefolded: the tracker compares
kinds (`tracking.py:222`) and the World is told labels (`world.py:205-212`).  `VisionWorld` prepares
publications and publishes them in the two commits of the code, with refusals,
cancellation and repetition between.  `VisionTool` is the call around it, whose task may be cancelled at
every await and whose scope may be closed under it.

## 3. What the runs check

| Run | Question | Instance |
|---|---|---|
| `session_handles` | do two handles with failures, cancellation and crashes keep what was confirmed? | 2 handles, 2 tasks, 3 inputs, revision up to 4 |
| `session_runs` | do messages keep their order through Runs, failures and restarts, and does a call return only when its revision is durable? | 1 handle, 2 tasks, 3 inputs, revision up to 3 |
| `session_live` | does every call return? | 1 handle, 2 tasks, 2 inputs, revision up to 2 |
| `local_atomic` | do the threads of all processes behave like one atomic record, and leave nothing behind? | 2 threads, 2 changes, everything but power cuts |
| `local_durable` | is anything confirmed ever undone? | 2 threads, 3 changes, power cuts too |
| `speech` | is an interrupted response silent, is every task under control, does every interrupt return? | 2 callers, 3 calls, a queue of 1 |
| `execution` | does closing leave nothing open, nothing unsettled and nothing counted twice, and does every subscriber see the order, the gaps and the end? | 2 closers, 1 barrier, 3 scopes, 2 records, 2 usages; 2 subscribers, 4 events, replay and queues of 2 |
| `run` | is the result of a Run true, is "safe to retry" true, does the root outlive its child, does every Run end? | root and child, 2 turns, 1 steered input |
| `tools` | is every effect accounted for, are starts in order, is nothing left running, does a cancelled batch end? | 2 calls and a nested one; serial, concurrent and composite batches; widths 1 and 2 |
| `services` | what the parts below promise, each alone | see `Services.cfg` |

`services` is a behaviour of one of twenty parts, chosen in `Init`; they share nothing but
perception (`Vision`, `World`, `VisionWorld`), so that checking one at a time loses no
behaviour.  Its properties are named for what they conjoin:

| Property of `services` | Parts |
|---|---|
| `PatchKept` | the report of a patch is what was done and no foreign write is lost (`PatchReported`, `NobodyOverwritten`) |
| `ArtifactsKept` | references resolve, no temporary file stays |
| `TextsKept` | the hunks of a patch, turned round, give the text back (`TextReverts`); listings are complete or say they are not, a write is whole and reported, and leaves no temporary file unless its removal failed as well, an edit is of the one occurrence (`FileToolsSound`) |
| `ShellClean` | a result that is returned is complete; a call cancelled once its shell had been started leaves nothing of the process group running, unless the clean-up was cancelled too |
| `SkillsPinned`, `McpTold` | a Run reads the catalogue its prompt shows; a call that may have been executed is never reported as not |
| `ContextSound`, `ResponseAsStreamed` | what must be shown is, within the limits the manager was given, although the Run waits for a summary in between, and a compaction settles; the response is the stream's |
| `CallsAccounted` | the Model resolved is registered, the collector refuses nothing its adapter says, what a call acquired is released (but a stream without `aclose`), and what an observation committed is known to its execution (`RegistrySound`, `AdapterAccepted`, `Released`, `ObservationAccounted`) |
| `AudioSound` | audio reaches its recogniser once and in order, a reader of the synthesis has something to come and of its own, one worker plays chunks in order and once, and not after it was there to be closed |
| `VisionSound` | newest and nearest captures are found, in a buffer within its limits of captures, bytes and age (`LatestIsFreshest`); a capture has one set of names, and a name is never of two kinds (`TrackedOnce`) |
| `MatchesStable` | a nearer track is lost only to a nearer detection, a new name is not given where a live track fits, and a name whose track is gone is not given again |
| `WorldSound` | provenance, idempotence, what is known is current; publishing again never makes the World doubt what an object is, but for how two captures of one instant spell it (`PublishedOnce`) |

The bounds.  Two handles and two tasks are enough for every race between two writers, and an
orphan is a third; a revision bound of 3 or 4 lets each handle be behind, level and ahead.
`session_live` names no symmetry, which liveness does not allow, and has smaller
bounds: one call holding the lock and one waiting is what a hang needs.
For one file two threads give each pair of calls every order.  Three calls of `speech` are
a response, its interruption and a third that meets the second at any of its awaits; a
queue of one blocks a producer with its second fragment.  Two closers and three scopes
are a scope, its child and a grandchild closed from above and from within.  Two turns
are one with Tools and the last one that is allowed.  A batch of two is one call that
fails and one that is before, beside or after it.  Queues and buffers are of 1 to 3 and
inputs one or two more, so that each is full and overflows; `MaxGen` is three times
`MaxCalls` and never stops a call.

In the runs of `Session` and `LocalRepository` deadlock is checked (`Quiescent` is the
step of hosts of a Session that stop; a load of `LocalRepository` may always begin).  The
other runs turn it off: a Run, a batch, a call and the bounded inputs of a part come to an
end, and a speech session may rightly wait for audio for ever.

Two runs show where the code departs from what it or its documents say (`findings`):
`session_resurrect` (`delete()` can miss a first save that is under way) and
`speech_worker` (an interrupt over audible speech ends the TTS worker with the fragment).

### Other departures met while modelling

The properties are stated so as to leave these out, at the place named; they are
behaviours of the code that the model has.

* Session: a `clear_pending` whose save failed cannot be retried (`session.py:392`,
  `ClearingIsDurable`); a directory sync that fails refuses the sole writer from then on
  (`persistence.py:449`, `SoleWriterNeverRefused`); a load that finds a file just
  migrated returns ids that a power cut takes back (`persistence.py:419`).
* Run: a cancelled delegating Tool that outlasts its grace period leaves its child
  behind, whose events may follow the root's last one (`run.py:347`, `529`; `abandoned`
  in `ChildEndsFirst`, `RetrySafeIsTrue`).  The child of a parent that timed out ends as
  "cancelled" (`run.py:242`).
* Execution tree: two closers that overlap may each find the other's work half done
  (`execution.py:568`, `695`).
* Tools: a timeout whose handler outlives its grace period cancels the whole Run, where
  `docs/modules/tool.md:15` has a result the model sees (`executor.py:763`,
  `TimeoutIsAResult`).  A settlement that fails and is then forced leaves no effect record
  (`executor.py:679`, `docs/modules/tool.md:21`, `InterruptedIsUnknown`).  A nested call
  that outlasts the grace period of its composite is refused and its effect with it.  A
  concurrent batch that fails leaves siblings running until the scope closes
  (`executor.py:265`).  A batch waits without limit for a handler that is interrupted in a
  settlement barrier (`executor.py:769-775`; `Withheld` in `CancelledEnds`).  An approval provider or a hook that ignores cancellation keeps the
  batch waiting (`executor.py:958`, `1152`).
* Patch: a new file that was linked but whose staged name cannot be removed is reported
  without effects (`apply_patch.py:557`).  A hunk may carry the no-newline marker on a line that
  is not the last one: two lines become one (`apply_patch.py:375`, `436`; `LinesKeptApart`).
* Files: a budget check is one byte off (`filesystem.py:130`); `edit_file` counts
  occurrences that do not overlap; a foreign write between read and replacement is lost.
  The temporary file of a failed write stays when its unlink fails too, which is ignored; the
  call reports `write_error` either way (`filesystem.py:304-308`; `undeleted` in `FileWhole`).
* Shell: a call that is cancelled while the shell is being started kills the shell alone, for
  the await is outside the `try` block (`shell.py:72`, `85-94`; `eluded` in `ShellClean`); one
  that is cancelled again during the clean-up leaves that where it is.  The grace period equals the executor's (`docs/roboagent_v1.1.md:3302`); a
  descendant in a session of its own that holds a pipe keeps the call waiting.
* Artifacts: a blob is published before its directory is synchronised
  (`workspace.py:170`, `379`; `docs/roboagent_v1.2.md:1937`).
* Model: a stream that has no `aclose` is left open (`client.py:649`; `LeftOpen` in `Released`);
  the streams of the OpenAI client have a `close`.  A failing close of the stream skips the closing of media and client;
  streamed text is not compared with the final message; a refused default stays the
  registry's default, and `clear` keeps it.
* Context: the usage of a summary that was rejected is lost (`budget.py:333`).  A manager that
  has no budget, projection or World checks nothing (`context/world.py:228-247`; `limits`).
* Speech: every real barge-in is followed by a `FalseInterruptionEvent`; a dead audio
  task leaves `receive_audio` dropping frames; a final transcript before the end of its
  turn loses the rest of the turn.
* Synthesis: the response of a call that was abandoned reaches the next call
  (`interrupted` in `OwnAudio`); a late `on_close` of a failed attempt clears the live
  client; a client that broke before it was stored is kept; `close()` leaves a reader waiting.
* Transport: two users that start it at once make two workers, of which `close` stops one.  A
  user that is still starting the devices when the transport is closed makes a worker
  nobody stops (`local.py:41-45`; `born` in `PlayedInOrder`).  `clear_output` empties the
  queue but lets the chunk the worker has in hand be written (`local.py:64-68`, `70-83`), where
  `docs/modules/speech.md:645-653` asks it to stop what is being played.
* Vision: the receipt of the claims is never journalled (`world.py:337`); in a closed scope
  the receipt of the evidence cannot be; a `ResponseCompleted` without usage erases usage
  known before (`semantic.py`); preparing an analysis again at another time makes a claim
  conflict, of which only the evidence is committed.  Two captures of one instant that
  spell a category in two ways ("Cup", "cup") are of one object to the tracker and a
  contradiction to the World (`tracking.py:222`, `297`, `vision/world.py:205-212`).
* Skills, MCP: a straggling `read_skill` after the release of its Run reads the latest
  catalogue; a failing emit in `__aenter__` strands the connection.
* Events: a subscription closed by another task leaves its reader waiting (`event.py:81`).

## 4. What is proved

For every number of handles, tasks, inputs and revisions (`SessionProofs`):

* `TypeCorrect`: `TypeOK`, by the invariant `TypeInv`, which adds to it what the
  phase of a task says about its operation and its handle.
* `AckedDurable` and `HistoryGrows`, for hosts that never delete.  The properties are
  not inductive: that a save may be accepted depends on what it was based on.
  `SafeInv` says so: a handle never believes more durable than is; where it is level
  with the record its state *descends* from the record; a request that can still be
  accepted was made from a state that descends from the record; what a task wrote is
  the record or the record came after it; and a waiting call's input is in every
  snapshot that covers its revision.  With deletes it is false: a record that was
  deleted and made again goes through the same revision numbers.
* `ReturnsAreDurable`: `ReturnMeansDurable`, from `SafeInv` too, for hosts that never delete:
  what a call saves is no older than its own mutation (`WriteSafe`), and what a handle
  believes durable the record has reached.
* `AcceptedInOrder`: `AcceptanceOrder`, for every host.  `OrderInv` says of each state there
  is (in memory, on disk, in a save under way) that it is `Ordered`: the numbers of its
  transcript and then of its queue ascend, and receipts ascend with them.  The hard step is
  the initial commit of a Run: `Boundary` says that what was queued within the boundary
  `start()` noted is older than the Run's message and the rest newer, whatever the hosts
  queue or clear before the commit, and that only the owner of the handle commits.
* `ClearedForGood`: `ClearedStaysCleared`, for hosts that never delete.  `ClearInv` says
  when an input is *gone*: its clearing was confirmed, or a save of the handle no older
  than the clearing was accepted.  The record is rid of what is gone; so is the runtime
  state of each handle that is current, and each request that could still be accepted.
  A clear call that settles only now is covered by `ClearSafe`: no snapshot of its handle
  at or above its revision has the inputs it dropped.

For every number of threads, revisions and changes (`LocalProofs`):

* `LocalTypeCorrect`: `TypeOK`.
* `ConfirmedDurable`: `ConfirmedSurvives`, whatever fails, dies or loses power.
  `LockInv` says which lock a call holds in which phase; `DurableInv` that entries are
  in the order of their writers and that a writer about to report success has left one.
* `IdentityAllocatedOnce`: `OneIdentity`, assuming `"power" \notin Disturbances`; with
  power cuts it is false (section 3, the Session entry of the departures).  `ServedInv`
  says that what was or will be returned is older than the file or has its ids.
* `LocalIsAtomic`: `Linearizable`, that is `Atomic!Spec`, under the same assumption.
  `CheckedInv` says that what the holder of the exclusive lock checked is still so
  when it acts on it; every step then is a step of `AtomicRepository` or a stutter.
* `NothingIsLeft`: `NothingLeft`.  With `LockInv` goes `TemporaryInv`, by which a temporary
  file is there only between its writing and the replacement or the cleanup.

For every queue size, all callers and every number of calls (`SpeechProofs`):

* `SpeechTypeCorrect`: `TypeOK`, with the bound of the fragment queue.
* `AudioIsCurrent` and `TasksAreTracked`: `NoStaleAudio` and `TasksTracked`.  Neither is
  inductive.  `SafeInv` adds where the text of an interrupted response could still be
  (`TextInv`: segmenter, queue, blocked producers, synthesis), and why an interrupt may
  drop it all at once (`CallInv`: from its first step to its return nothing is produced,
  queued or spoken for the current generation, and past the agent task no task is left).
  All of it is under `~crossed`; `RespondSafe` is the only step that needs it.

For every number of closers, barriers, scopes and records (`ExecutionProofs`):

* `ClosingIsSound`: `SubtreeCloses`.  A closer lists the scopes below its own once and
  then awaits; that the list stays complete is the heart of it.  `StateInv` says that
  below a scope that is not open nothing is, `AncestryInv` that ancestors are closed
  under ancestors, so nothing is opened there any more and a closer's `members` are still
  all the scopes below (`CloserInv`); it visits them from the last one on, and what it has
  passed is frozen.
* `SettlementIsAwaited`: `SettledBeforeFrozen`.  A barrier is entered in a scope that is
  not frozen, and a closer passes a scope only when no barrier is inside (`BarrierInv`).
* `UsageIsOne`: `UsageAgrees`, for any number of contributions of known or unknown amounts.
  Every scope ever opened has the root among its ancestors (`UsageInv`), so the root's usage
  is the running total of all contributions in their order (`UsageIs`), from which follows
  when it is unknown and what it is otherwise.

For any subscribers, queue size, replay limit and number of events (`ExecutionProofs`):

* `GapsAreCounted` and `TerminalIsDelivered`: `GapsCounted` and `TerminalDelivered`.
  `EventsInv` says that the history holds the latest events up to the last one
  (`Latest`), that what waits in a queue is consecutive up to it as well, so that an event
  was received, waits, or was dropped and counted (`GotInv`), and that the terminal event
  is in every queue that is not read to its end.  That an overflow evicts an ordinary event
  and never the terminal one is `FirstGoes` and the lemmas after it.

For every number of turns and steered inputs (`RunProofs`):

* `OutcomesAreTrue`, `RetriesAreSafe` and `RootEndsLast`: `OutcomeIsTrue`,
  `RetrySafeIsTrue`, `ChildEndsFirst`.  `CancelledInv` says what a Run knows of itself from
  phase to phase: when it has a status and an error, when it owns its Session, and that a
  completed one has answered with nothing gone wrong since.  `ChildInv` says where the
  child may be while the root is somewhere, `EffectInv` that past the judgement "safe to
  retry" nothing is done in the Run or below it; both except an abandoned child.

For every choice of batches and widths, that is of modes and kinds of Tool (`ToolProofs`;
the batch has two calls and a nested one, as in the model):

* `EffectsAreAccounted`, `HandlersStartInOrder` and `NothingIsLeftRunning`:
  `EffectsAccounted`, `StartsInOrder`, `NothingLeftRunning`.  `CallOk` relates a call, its
  handler and what that did: evidence is written when the executor stops looking at the
  handler, so a call that is past it has evidence, or failed in a way that is excepted; and
  a call called harmless has a handler that is over and did nothing.  `SerialInv` and
  `ConcurrentInv` say where the other calls are while the batch is at one of them, `NestInv`
  that a nested call is under way only while its composite's handler runs.  That no settlement
  is under way in a scope that closed follows since a barrier is entered in open scopes only
  and the closing, begun, waits.

For every number of files and of foreign writes (`ServiceProofs`):

* `OthersAreSpared` and `EffectsAreReported`: `NobodyOverwritten` and `PatchReported`, which
  `PatchIsKept` puts together as `PatchKept`.  What is *owed* is what the patch changed and did not half undo:
  `RollbackInv` says that it was committed and is not written off as restored or unchanged,
  and what the rollback has passed is named in the report.  `CommitInv` says that the files
  not yet reached are as they were read unless somebody wrote them since.

For any patches and workspaces (`ServiceProofs`), assuming of a file what reading it gives,
that only its last line may lack an ending (`PatchTextAssumption`):

* `TextComesBack`: `TextReverts`.  A hunk is put at the one place where its context and
  what it removes are found; turned round, its new lines are its old ones and the reverse,
  so it is found where it was put, and put there it gives the lines back (`OneHunk`);
  where it is found elsewhere too it is not applicable.  Applying the hunks and undoing
  them are two chains of texts, which agree from the end on.  What was deleted comes back
  if its lines are added.  The theorem is for a result in which every line but the last has
  an ending: a hunk may say of any line that it has none (`apply_patch.py:381-385`), and
  two lines then merge.

For any trees, texts and limits (`ServiceProofs`), assuming names are ordered and `old_text`
is not empty, as its schema says (`FileToolsAssumption`):

* `FilesAreWhole`: `FileToolsSound`.  A listing is the longest beginning, of the paths in
  their order, that fits (any finite set of paths has such an order); an edit counts occurrences
  from left to right and passes over those that overlap one it counted, and where it counts
  one alone, no two are apart.  `FileInv` adds types, and that a temporary file beside no
  write is one whose removal failed.
* `TextsAreKept`: `TextsKept`, the two together in the composition `MCServices`.

For any Skills and Runs, MCP Tool, and processes (`ServiceProofs`):

* `RunsReadTheirCatalog`, `NothingDenied` and `ShellLeavesNothing`: `SkillsPinned`,
  `McpTold` and `ShellClean`.  The processes of a shell only let go once the group is
  told to end (`Fading`), and `ShellInv` says at which phase the group or its pipes are empty;
  of a call cancelled while its shell was starting only that the shell is dead.

For any number of writers, chunks and power cuts, any Models, contexts, streams and
observations (`ServiceProofs`):

* `ReferencesHold`: `ArtifactsKept`.  The blob only gets `Better` by a step of a call, and a
  power cut takes back no more than was not synchronised; `WriterSound` says what the blob is
  at least, where a call is.
* `ResolvedIsRegistered`: `RegistrySound`, by the uniqueness of names; that there is a first
  one among the models that fit needs that the numbers are well-founded (`HasLeast`).
* `AcquiredIsReleased`: `Released`, for streams with and without an `aclose`.  `RequestInv` says on which lists media can be where the
  call is, that each medium on a list is resolved and open, and that one on no list is
  released, unless a release failed; and which items are encoded already, so that none is
  resolved twice.
* `NothingIsRefused`: `AdapterAccepted`.  `Mirrors`: the adapter and the collector, which are
  written apart, know the same calls, with the same ids and the same ones complete, the
  adapter at most one name more.
* `ReturnedIsShown`: `ResponseAsStreamed`.  `CallsSound` says of each call the collector
  knows that one event opened it and at most one completed it, with its arguments in
  between, all with its id, and that no event is about a call it does not know; `CollectInv`
  that the response is these calls, in the order of their indexes (a finite set of numbers
  can be put in order), with the last usage there was.
* `NothingIsLost`: `ContextSound`, whatever order entries are left out in and whatever tokens
  a summary takes.  A summary is of a beginning of the transcript (`SummaryOk`); one that is
  about to be committed for the manager there is leaves what fits (`CommitsSound`), which
  is what makes it settle once it is committed.  While the summarizer writes, the transcript and the
  summary are still what `prepare` read (`WritingSound`), for the Run waits.
* `ObservationsAreAccounted`: `ObservationAccounted`, by what a call has committed, journalled
  and reported at each await.
* `CallsAreAccounted`: the last four of the composition `MCServices`, whose parts take their
  own steps or none.

For any claims, observations and limits of the World, any scenes, captures and frames, and any
publications of them (`PerceptionProofs`), assuming that a reference says whether it is to an
observation or to a claim (`WorldAssumption`, `DigestAssumption`), scenes are finite and the
label of a detection determines its kind (`VisionAssumption`), and a mapping gives different tracks different entities
(`VisionWorldAssumption`):

* `WorldIsSound`: `ProvenanceHolds`, `RepeatedIsUnchanged` and `KnownIsCurrent`.  A commit
  tests only what is new for cycles.  `WorldInv` says that the evidence of every claim held
  is held, that no chain of evidence returns (`AcyclicAbove`), and that what was accepted
  once is still there: a new claim may rest on old ones, no old one rests on a new one, so a
  cycle would be among the new ones, where it is looked for, or among the old ones.
* `VisionIsSound` and `VisionMatches`: `LatestIsFreshest` with `TrackedOnce`, and
  `MatchesStable`.  `BufferInv`: for every capture that is fresh enough the buffer holds one as
  late, however many bytes had to make room, because the first ones go and one alone always fits (`NewestFits`,
  `BytesFit`).  `TrackerInv`: the counter of names is ahead of all there are, so a name is given
  once, is given to no other object when its track is gone, and keeps its kind.  Matching takes the nearest pair that is left, in rounds; that it does
  not depend on the order of detections is shown of each round.
* `SeenIsSound`, `SeenIsMatched` and `KnownIsSound`: `VisionSound`, `MatchesStable` and
  `WorldSound` in the composition `MCServices`.  `PublicationInv` says that every claim a
  publication makes is of an entity the tracker named in that very analysis, and in which
  state of the World each status is reported; so publishing again commits the same claims
  and contradicts none.  Two values the World holds of one entity are labels of one kind, and
  are in conflict only if neither is later (`TwoValues`): that is the exception of `PublishedOnce`.

What the model computes in rounds (the matching, the descent of evidence, the sum of usage,
hunk after hunk, group after group) is a recursive function.  That it exists is shown by a
witness (`Iterated`), and what holds of every round by its first exception (`HasLeast`: in a
set of numbers that is not empty one is the least), so that no theorem with an operator for a
parameter is needed.

For any number of frames, turns, connections, calls and chunks (`PerceptionProofs`):

* `HeardAsSaid`: `CaptureSound`, assuming what the defaults of the code satisfy, that the
  pre-roll is long enough for the VAD to notice speech while its first frame is still in it
  (`CaptureAssumption`: with a pre-roll of 300 ms, `session.py:71`, a `start_ms` of 256 at
  most; 160 is the default, and a configuration may ask for more, `config.py:78`, which
  loses the beginning of what is said).  The property is not inductive.  `CaptureInv` adds: where
  the audio task, the turn and its session are relative to each other (`TurnSound`); that
  the pre-roll is the latest frames (`PreRollSound`) and that an utterance which the VAD
  has yet to announce still fits in it (`VadSound`, an inequality between the windows seen,
  the frames since the onset and the remainder not yet a window); that of each recognition
  what was sent, is being written and waits is one ascending sequence with the mark of the
  end behind it, and that no two recognitions share a frame (`AsrSound`); and that each
  frame since the onset is in a recognition, in the pre-roll, or counted as dropped or
  missed (`NothingUnheard`).
* `VoiceIsHeard`: `VoiceSound`.  `VoiceInv` says that while a call reads, a final item was
  received, is posted to it, or is owed by a connection (`EndComes`), and that as long as
  every response was read to its end, nothing posted or owed is another call's, and an end
  is the last there is (`OnlyItsOwn`).
* `PlaysInOrder`: `PlayedInOrder`.  With one worker, what was played, what it has in hand
  and what waits is ascending, and a worker that was there when the transport was closed has
  ended (`TransportInv`).
* `AudioIsSound`: `AudioSound`, the three together in the composition `MCServices`.

Lemmas about sequences (`AppendIds`, `SpliceIds`) say what queueing and committing do
to the identities in a snapshot.

Only model-checked: liveness (`CallsReturn`, `InterruptsReturn`, `RunsEnd`,
`CancelledEnds`), which is out of the prover's reach under fairness.  Every safety property of
a passing run has a theorem.  Four of `Session` are for hosts that never delete and two of
`LocalRepository` for power that is never cut, as the runs that check them are.  Without
that `StoredHistoryGrows` and `OneIdentity` are false, and what is still promised then is
not stated.

## 5. Plan

Done: every component with behaviour of its own has a module and is checked.  Next, in
this order:

1. What `Session` still promises where records are deleted and made again, and its proof.
2. Compositions: `Run` over `ToolExecutor` and `ExecutionTree`; `SpeechCapture` calling the
   interrupts of `Speech`.
3. Abstract specifications: a subscriber sees a gap-aware prefix of one log
   (`RunEvents`); a patch is applied whole, not at all, or reported uncertain.
4. Recognition over a kept connection, and power cuts that meet a promotion in `Artifacts`.

The project keeps to a dozen runs: as components are added, a run shows several of
their properties at once.

## 6. Not modelled

Message and snapshot codecs (field-by-field data), the definition of an Agent, event
stores (one lock around one list), provider configuration and request bodies, prompts,
visual geometry and image decoding, audio signal processing, the recogniser's adapter
(it forwards callbacks one by one), and the example applications.  The reasons are in
`PROJECT.json`.  The size of what is modelled was abstracted as each module's head says.

Of code that is modelled, these branches are left out: an unlink that fails in the cleanup of
`LocalSessionRepository` (`persistence.py:452`) and in the abort of an artifact
(`workspace.py:181`, `205`), which leave a temporary file behind; the byte bound of the tracker's
cache (`tracking.py:400`, `408-413`), which only forgets analyses sooner; and a reload of the
Skills that fails (`skill/manager.py:50`), which leaves the catalogue as it is.
