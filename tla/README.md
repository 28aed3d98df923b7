# A TLA+ verification project for OpenVoiceStream

OpenVoiceStream is a voice stack for edge devices: a **server** (FastAPI, `server/`)
that puts ASR and TTS backends behind HTTP and WebSocket endpoints, and an **agent**
(`agent/ovs_agent/`) that connects microphone, speaker, tools and robots to it over
`/v2v/stream`.  Nearly everything that is hard about it is concurrency on one asyncio
event loop: tasks that are cancelled at any await, executor threads that cannot be
cancelled at all, slots and locks that must be given back exactly once, a hot reload
that replaces a backend under the feet of the requests that use it, and files on a
device that may lose power at any moment.  This project models those parts.

## 1. Inventory

| Part | Source | State it keeps | What makes it hard | Module |
|---|---|---|---|---|
| ASR inference gate | `server/core/asr_infer_gate.py` | permits in use, deque of futures | a grant and a cancellation in the same tick; cancelled futures between live ones | `AsrInferGate`, `FifoSemaphore` |
| Utterance slot | `server/main.py` (`_AsrSlotJobs`, `_asr_utterance_slot`) | executor jobs of an utterance, gate, lock | the awaiting task is cancelled while its thread is in the runtime | `AsrUtteranceSlot` |
| Backend coordinator, exclusive mode | `server/core/coordinator.py`, `api_execution.py` | lock, what is loaded | eviction behind the managers' back, reloads behind the coordinator's | `ExclusiveSlot` |
| Backend manager | `server/core/backend_manager.py` | state, current backend, in-flight count, sessions | drain, unload, build, roll back, with requests arriving in between | `BackendManager`, `HotSwap` |
| Session limiter, `/v2v` admission | `server/core/session_limiter.py`, `server/main.py` | active count, tokens, holders, evict lock | release exactly once on every path; an evicted holder is late | `V2vAdmission` |
| `/v2v` session tasks | `server/main.py` | turn, endpoint latch, sentence queue | four tasks that cancel each other | `V2vSession` |
| Realtime V2 adapter, reply pipeline | `server/core/v2v.py`, `server/main.py`, `agent/.../app_mode.py` | open response, sentence buffer and queue | a cancel between any two frames | `ReplyStream` |
| Streaming synthesis | `server/main.py` | leases, executor jobs, generator | clients that leave, threads that do not | `TtsStream` |
| Worker multiplexer | `server/core/worker_io.py` | in-flight map, permits, closed flag | worker death, cancelled acquires, late answers | `WorkerIO` |
| Profile environment | `server/core/profile_loader.py` | process environment, applied keys, operator snapshot | an exception in the write loop; one-sided reloads | `ProfileEnv` |
| ASR segmenter | `server/core/asr_segmenter.py` | none: plan, decode, join | bounds, overlaps, a folded tail | `AsrSegments` |
| Engine resolver | `server/core/engine_resolver.py`, `hf_artifacts.py` | engines and sidecars on disk, release lock | kills between two files; stale sidecars | `EngineResolver` |
| Voice store | `server/core/sparktts_voices.py` | pairs of files, journals, backups | a pair no rename replaces; recovery that is killed | `VoiceStore`, `VoiceRegister` |
| Agent realtime client | `agent/ovs_agent/slv_client.py`, `app_base.py` | socket, reader, two locks, generation | three tasks reopen it, with timeouts that cancel | `SlvClient` |
| Conversation | `agent/ovs_agent/app_base.py`, `state.py` | one state variable, four timers | check before an await, assignment after it | `Conversation` |
| Agent history | `agent/ovs_agent/session.py`, `app_mode.py`, `tools/runner.py` | messages, rollback anchor | trims, rollbacks and clears between rounds | `TurnHistory` |
| LLM availability | `agent/ovs_agent/plugins/llm_availability.py` | breaker of five states | reports in flight while the server changes its mind | `LlmAvailability` |
| Streaming translation | `agent/ovs_agent/streaming_translate/`, `apps/simul_interpret`, `apps/live_caption` | committer, accumulators | one utterance's task and the next one's partials share both | `StreamingTranslation` |
| Robot arm | `agent/ovs_agent/apps/voice_rebot_arm/`, `plugins/actuator_actions.py` | bus lock, torque, motions, connection | two plugins and a panel on one bus; threads that outlive a shutdown | `ArmMotion` |

Calls go one way: a handler passes the limiter, then the gate, then the coordinator
lock, then runs backend calls on executor threads; a reload goes the other way and closes
or cancels handlers.  State that crosses parts: the module globals of `main.py`, the
environment (written by profiles and the resolver, read by backend factories), the
limiter's count, the executor pools, and the socket between agent and server.  Callbacks:
`Future.add_done_callback` in the worker multiplexer, `task.cancel()` from eviction and
reload, the reader's event in the client.

What makes each part correct, in the words of its grouped invariant (each is a conjunction
of named parts with a comment of its own):

* **Gate** `GateIsSound`: no permit is lost or forged by a cancellation, order of arrival,
  nobody waits beside a free permit.  **Slot** `SlotIsKept`: a thread in the backend has the
  slot of its task around it, but for the threads that a second cancellation of a stream, or
  the first of an HTTP decode, deserts.  **Exclusive mode** `ExclusiveSlotIsSound`: whoever is
  inside has its backend loaded, but for a recognition session that a reload has passed by,
  and the other one is not, unless a reload brought it.
* **Manager** `ServedBackendIsLoaded`, `ReadyBackendIsSound`, `ManagerIsSound`,
  `RollbackReappliesProfile`: an admitted request keeps its backend, READY means a live one
  built from the environment as it stands, one is resident, and a rollback puts the profile
  that was in force on record again (what the failed one wrote may stay beside it).
  **Admission** `AdmissionIsOrderly`: exact count, holders on record, serial evictions.
  **Worker** `PermitsConserved`, `CallersInFlightAreWoken`, `EventsReachTheirCaller`.
* **Session** `TurnsAreSound`: no thread is left without its stop event, the turn the
  manager has open is the one the handler feeds, nothing acts after the release.  **Replies** `ResponsesAreWellFormed`: one
  created and one done per response, audio in between.  **Synthesis** `StreamIsSound`: jobs
  run under a lease, leases have an owner, audio is in order.
* **Environment** `EnvironIsAccountedFor`: a value comes from the profile in force, from the
  operator, or from a profile that is on record to be cleared.  **Segmenter**
  `ClipIsDecoded`.  **Engines** `EnginesAreCertified`: what is served fits the host and
  the release, unless it was adopted: it came without a hash, or an earlier start had
  removed its sidecar and then fetched nothing.  **Voices** `VoicesAreWhole`: after recovery never
  half of one generation and half of another, and no journal that can do harm.
* **Transport** `TransportIsSound`: one socket, its reader, its tools.  **Conversation**
  `ConversationIsSound`: with the client VAD and no command window the agent does not think
  unwatched, and in every mode an interrupted answer is not resumed.
  **History** `HistoryIsUsable`: prompts hold every call with its result and fit their
  budget.  **Breaker** `BreakerIsCautious`.  **Translation** `TranslationIsWhole`.
  **Arm** `ArmIsSafe`: no powered arm without an owner, nothing but the safe-park reaches a
  torn-down one, and a dispatched action and a grasp do not overlap (what the panel starts,
  or an action that is awaited, may move beside either).

## 2. Modules

Every model takes the code between two awaits as one step, which is what asyncio gives;
where threads run in parallel (`WorkerIO`, `TtsStream`, `ArmMotion`, executor calls) a step
is one critical section.  A cancellation is an action of its own that can hit a task in
each of its awaits: in asyncio it only *schedules* the task, and most of what is delicate
happens between the cancellation and the resumption.  Operators introduced by a comment
"Mistake: ..." are plausible bugs of the operator that follows them.  They are not part of
any specification; substituted for their neighbour they show that a property can fail.

Components that share no state are checked in one run: `MCServer`, `MCAgent`, `MCContent`
and `MCBackendManager` extend several modules, and a variable `part` names the one that
moves.  State spaces add up instead of multiplying.  No fair action is enabled in the
initial state of a component, so the fairness of one asks nothing of a behaviour of another.

**Slots and devices.**  `FifoSemaphore` states the gate's promise; `AsrInferGate` is
`asr_infer_gate.py` and refines it (`ImplementsSemaphore`): `phase` tells the moment a
future is resolved from the moment its task runs, with `revoked` for a task that was
granted and cancelled in one turn of the loop.  `AsrUtteranceSlot` puts the coordinator
lock, the executor call and the drain of a cancelled utterance on top.  HTTP requests compete
without passing the gate, and an HTTP decode has no drain: cancelled, it gives the lock back
with its thread in the backend (`deserted`).  `ExclusiveSlot` is `acquire()` in exclusive
mode: `resident` is what the backends' `is_ready()` says and `managers` what the managers
believe, which is not the same; `Swap` is a reload, which does not ask the coordinator.
Requests and synthesis streams hold a lease of their manager; a recognition session on a
WebSocket holds none and keeps the backend object it was opened with (`old`).

**Backends.**  `HotSwap` promises that users get the live object and that it is replaced
only when nobody uses it.  `BackendManager` implements it.  `reload()` yields only in
`ws.close()` and in the drain; all after it is synchronous, so a swap is one step with three
outcomes.  A reload whose request is cancelled at one of its awaits is gone and leaves the state
as it is.  Threads are what survives a step: `detached` requests, `busy`, `drains` and
`abandoned` sessions.  Of the environment it has the profile on record and the `strays`, the
profiles of which keys are in it that no record names.  `ProfileEnv` opens up what `BackendManager` treats as one value: the
environment, key by key, with a write loop that may raise in the middle.  `WorkerIO` is the
multiplexer with the executor thread inside `_sem.acquire` and a subprocess that may print
events of its requests and die; its reader ends with the pipe, or by an exception while the
worker lives on (`crashed`).

**Connections.**  `V2vAdmission` is the slot of a connection from its arrival to every exit
of the handler; `V2vSession` is the connection in between: `disp`, `asrOut`, `ttsOut` and
`frame` are the awaits of dispatcher, recognition task, synthesis task and handler, and the
session manager of the external package is modelled by how it is used.  `ReplyStream` follows
a reply from the agent's turn over buffer and queue to the frames of the adapter, which are
sent one by one under the send lock.  `TtsStream` is one HTTP stream: leases, jobs with
their started and finished flags, generator, framed stream, watcher, cleanup.
`AsrSegments` counts time in ticks and makes every tick of speech a word, so that a text
shows which audio it came from.

**What outlives a request.**  `EngineResolver` starts the process over and over on one
disk: engines, sidecars, the release lock, the fetch and the installation file by file,
with kills, flashed devices and exchanged files.  `VoiceRegister` is a register that changes
in one step; `VoiceStore`, with its journal and recovery, implements it
(`VoiceChangesAtomically`).  `TurnHistory` is the list of messages with its rollback anchor.

**Agent.**  `SlvClient` is the transport and the application's announcement of tools per
generation.  `Conversation` cuts every handler at the awaits at which others can change what
it has read: the end of speech at the cancel of a barge-in and the send of the EOS, the end of
a reply at the drain of the playback.  `LlmAvailability` is the breaker, with reports that began
under another state of the server.  `StreamingTranslation` has the committer and its two apps; a text is a
sequence of characters, a translation the piece of source it was made from.
`ArmMotion` has the actuator, both plugins and the panel's threads.

## 3. Runs

| Run | Question | Distinct states |
|---|---|---|
| `backend` | hot reload and worker multiplexer: safety | 1 505 900 (symmetry) |
| `backend_live` | DRAINING ends, refinement of `HotSwap`; admission: order, exact count, every newcomer answered | 68 380 |
| `server` | gate, slot, exclusive mode, environment, streaming synthesis, segmenter, breaker: safety and progress | 68 362 |
| `agent` | transport, conversation, arm, translation: safety, locks that come back, a shutdown that releases the arm | 413 954 |
| `v2v` | one `/v2v` session: turns and threads; it comes to an end | 727 721 |
| `content` | replies, history, engines, voices | 931 192 |
| `backend_threads`, `admission_greeting`, `worker_late`, `v2v_endpoint`, `reply_merge`, `voice_leftover` | findings (section 4) | – |

Why the bounds are enough to be interesting:

* *Gate*: five tasks at two permits and a backlog of two fill the backlog, reject, hold a
  cancelled future between two live ones, and have two granted tasks that have not resumed.
  *Slot*: three streams, two HTTP requests: two streams at the lock, one at the gate, a
  request before and one behind a stream.  *Exclusive*: beside the lazy start two
  parties, each a request for either modality or a recognition session.
* *Environment*: three profiles over six keys of both kinds, shared, critical and operator's.
  *Synthesis*: two sentences, one worker, so that a job waits behind another stream's.
  *Breaker*: the configured thresholds.  *Segmenter*: a limit of 20 ticks with clips below,
  at, above, and with a short last slice, overlaps from none to above half the limit, one
  and two spans of speech that fit, pack, touch, or must be cut.
* *Backend*: three objects: the installed one, one pinned by a request or a session's thread,
  a fresh one; two administrators make reloads overlap; one of the profiles is refused.
  The objects are interchangeable (symmetry).  `backend_live` has one administrator and one profile.
  *Admission*: a holder, an evictor and a rival, an HTTP request that takes the slot between
  two polls; one connection speaks Realtime v2.  The limit is one because eviction is
  enabled for no other; the proofs cover every limit.  *Worker*: one slot makes every other
  caller wait, and two tasks let an orphaned acquire compete with a live one.
* *Session*: two utterances (the one that is finalised and the one that preempts it), one
  sentence waiting, three settings of VAD and endpoint.  *Replies*: two turns of two chunks,
  two messages on the wire.  *History*: three turns of two rounds.  *Engines*: two engines,
  two hosts, one complete bundle, one crash,
  flash or exchanged file.  *Voices*: two transactions, two faults: a
  fault in the recovery of a fault, or a transaction after one.  (The proofs cover any number.)
* *Transport*: two attempts, two sockets: the first and its replacement, by whichever of the
  three tasks comes first.  *Conversation*: the command window with the client
  VAD, the gate without a window, and neither; of the eight tasks that may be in the middle of
  their work at once, three are (`MaxPending`), two with a window (`MaxWindowPending`), which is
  enough for an end of speech, a sleep and a drain to overlap.  *Translation*: two utterances of two partials, agreement of two,
  commits of one character or more, as every configuration in the repository has it; the proof
  covers any.

`CHECK_DEADLOCK FALSE` stands where the program stops: a session is released, a client
closed, a conversation over, a clip decoded; and where a finding makes it stop: leaked slots
use up the names in `backend_live`, and a lost permit blocks every caller in `backend`.

### Fairness

The loop runs what is ready and calls return; no client has to speak, leave or cancel.

* Gate: `Resume*` and `Release`.  Slot: backend calls and HTTP decodes return, woken tasks resume;
  `EndUtterance` is strongly fair, as an utterance makes a bounded number of calls.
* Manager: a `ws.close()` returns and the drain timer fires; no request, session or thread
  has to end, which is the point of `DrainingIsTransient`; it is about reloads that are not
  cancelled.  Admission: cancellations are
  delivered, polls fire, cancelled tasks end.
* Synthesis: jobs that run end, generator and cleanup go on, a disconnect is noticed.
  Session: the tasks' steps, and the clock of a turn.  Replies: the synthesis task and the
  awaits of the sends.
* Transport: attempts end and readers run.  Arm: connecting and stopping make progress.
  Breaker: the loop asks and probes end.  Engines: the resolver's steps; the registry has
  to come back only where a property says so.
* Environment, exclusive mode, segmenter, translation, history, voices, worker,
  conversation: none.  Their properties are safety, or action properties.

## 4. Findings

Each is a violation run whose counterexample is a schedule of the code.

1. `backend_threads`: `reload()` unloads a backend under the executor thread of a WebSocket
   session (`backend_manager.py:412`): sessions are cancelled, which cannot stop a thread.
2. `admission_greeting`: the slot is taken before, and `session.created` sent outside, the
   guard that gives the slot back (`main.py:6549`).
3. `worker_late`: a permit acquired after its task was cancelled is lost (`worker_io.py:150`).
4. `v2v_endpoint`: the generation of an endpoint is compared before an await; an utterance
   that starts in it is finalised in place of the one that ended (`main.py:7648`).
5. `reply_merge`: an abort leaves the sentence buffer, so that the next turn begins with the
   rest of the cancelled one (`main.py:7465`).
6. `voice_leftover`: a journal whose clean-up failed undoes a later registration
   (`sparktts_voices.py:345`).

The passing runs are stated so as to hold beside these: `CancelledSessionsFreeTheirSlot`
starts past the greeting, `ThreadsKeepTheirSlot` exempts deserted threads, `PermitsConserved` counts lost permits as lost,
and a disk that also refuses the repair (`RepairFails`) belongs only to
`StubbornVoiceSpec`, which `voice_leftover` checks; the run `content` has kills and disk
errors but no failing repair.

Smaller disagreements met while modelling, without a run of their own:

* *Managers and admission.*  A rollback clears what the record names; what an `apply_profile` of
  the target wrote before it raised, and the engine paths of a resolver that failed, stay
  (`profile_loader.py:357-374`, `401-411`), so that the old profile is not restored "exactly" as
  `backend_manager.py:507-511` has it.  `/admin/backend/reload` awaits `reload()` unshielded
  (`main.py:8350-8365`): a cancellation at its awaits (`backend_manager.py:280`, `298`) leaves
  the manager DRAINING, 503 for every request and no reload admitted.  Managers are seeded from three variables only, so that a process
  configured otherwise rolls back to what the other manager loaded (`main.py:1352`).  The normal
  end of a session leaves its handle in `_V2V_HOLDERS` (`main.py:8150`).  Of two newcomers the
  second evicts the first (`main.py:89`).  `ws.close()` has no timeout (`backend_manager.py:297`).
* *Session.*  An exception other than a disconnect ends the dispatcher and nobody waits for it
  (`main.py:7485`).
* *Worker.*  The permit is released before the worker hears of the cancellation
  (`worker_io.py:224`); waiting acquires share the default executor with those who would release
  (`:149`); a line that is JSON but not an object ends the reader with the worker alive
  (`:357-361`, `368-369`): whoever is in flight is woken, whoever comes later writes to the worker
  and waits its 60 s.
* *Slot.*  A slot is not to be released over a live thread, says the docstring of `_AsrSlotJobs`
  (`main.py:5436-5444`), and streams wait for theirs; a cancelled HTTP decode does not
  (`api_execution.py:370`).
* *Environment.*  Keys written by a failed apply, or by the resolver at startup, are not on record.
* *Exclusive mode.*  A reload loads its backend beside the other modality, and a recognition
  whose client left is unloaded under its thread: `coordinator.py:102-105` calls residency a
  contract, which holds up to `brought`, and for holders of the lock.  A recognition session has no
  lease (`main.py:5346`, `5528`, `7208`), and a reload unloads or swaps its backend while it is inside.
* *Segmenter.*  Folding a short tail moves the slice before it forward, and what lay between is
  not decoded unless the overlap covers it: with the defaults, 0.4 s of overlap and tails below
  0.5 s, up to 0.1 s (`asr_segmenter.py:348-357`, "no audio is skipped"); a plan that folds to one
  slice sends the whole clip, over the limit, to the engine (`:659-660`, docstring `:617-622`); a word said twice across a
  VAD boundary is said once.
* *Engines.*  Adoption without a hash trusts a partial file (`engine_resolver.py:289-302`).  A sidecar
  that names another host or release is unlinked before the fetch (`:959`); when the fetch fails, the
  next start finds the engine without one and adopts it (`:309-313`, `332-339`), against the comments
  at `:298` and `:952`.  In the model `sidecars` says which of it befell a file.  Bundles
  are installed file by file although the docstring says atomically.
* *Voices.*  A journal without its directory, or a torn one, stays; a replaced voice is hidden
  from a listing for a moment.
* *Replies.*  A cancel before the first frame produces a response that is created and completed;
  a cancel without a flush leaves one open (`docs/api/realtime-v2.md`, section 8); the server's own
  barge-in keeps queued sentences although `docs/api/v2v-stream.md:147` says they are dropped.
* *Client and conversation.*  `_reader_done` is cleared before the dial (`slv_client.py:673`); an
  error wakes a sleeping agent (`app_base.py:3356`); the end-of-speech race at `app_base.py:1830`.
  The end of speech checks for SLEEPING, awaits, and sets THINKING (`app_base.py:2605-2626`): a sleep
  in between ends without `wake()`, for the gate that keeps the VAD quiet in SLEEPING (`:2528-2530`)
  is passed by then; the
  drain of the playback acts on whatever state it finds (`:958-973`); with the microphone gate or
  a command window THINKING can be left without watchdog or reply (`:1825-1833`, `2501`).
* *History.*  A clear in a tool round leaves results without their call (`runner.py:223`); they are
  dropped from the prompt.
* *Breaker.*  Failed turns of a server that cannot be reached count as degraded, not as down.
* *Translation.*  A final that is dropped as noise leaves the committer's prefix, and the next
  utterance loses as many characters (`app_base.py:2976-3056`, `committer.py:189`); a clause
  committed while the previous turn is being sent is erased with it (`simul_interpret/app.py:103-106`),
  a turn cancelled between sending and resetting is spoken again, and a failed one with the next;
  a committed prefix is replaced by a longer hypothesis that differs.  In the model `crossed` and
  `revised` mark these; `TranslationIsWhole` is about all other behaviours.
* *Arm.*  The panel does not ask whether a plugin is moving, nor does an awaited action: a test moves
  the arm beside a grasp; the safe-park of a shutdown may reach a wrapper that is torn down; a cancel between claim and clear is
  lost; the torque flag may stay set after a disconnect.

## 5. Proofs

All theorems hold for every value of the constants under the named assumptions of the
modules.  The plan is the same each time: an inductive invariant, checked with TLC on a
small instance first, a lemma for each part of it with a case for each action, and the temporal step.
What an invariant says beyond the property it proves is where the argument lies:

* `AsrInferGate_proofs`.  `GateInv` conjoins types, permit conservation, no free permit beside
  a waiter, and a well-formed deque.  None is inductive alone: that a release wakes somebody
  needs the deque to contain the waiters, and that it wakes only one needs it to contain each
  once.  `GateSound` concludes the grouped invariant.  `GateIsASemaphore` is the refinement of
  `FifoSemaphore`: the abstract queue is the deque without its cancelled futures, in order, and
  as no task is in it twice there is exactly one such list, so that a step of the deque
  determines the step of the queue.
* `ServerLocks_proofs`.  Two queues that a cancelled waiter may leave from any place, on lemmas
  about sequences without repetition (`JoinQueue`, `LeaveHead`, `LeaveAnywhere`).
  *Exclusive mode*: `SlotFacts` ties who is inside to the queue (`WaitersFacts`) and to
  the managers; that the resident backend is the right one is not inductive without
  what the managers believe, `brought`, of what a reload put beside it, and, for sessions, `old`.  Assumed: the names
  of the clients are none of the two the model uses (`ClientAssumption`).  *Utterance slot*: the executor's threads are placed with the streams
  (`PlaceFacts`), permits and lock each counted against who holds them (`PermitFacts`,
  `LockFacts`): the thread of a stream keeps its slot because the drain does not let go of the
  lock, and the lock is one task's because the queue has no task twice.
* `BackendManager_proofs`.  `IInv` adds that one reload at most is under way, that nothing is
  in flight past its drain, what `loaded` is in each state, and how `env`, `builtFrom`,
  `lastRef` and the reference taken before the drain agree.  From it follow `ManagerSound`, the
  invariants of the run, `RollbackIsFaithful` for a seeded manager (the record, and strays of no
  third profile), and `RefinesHotSwap`: every
  step is a step of the abstract hot swap or leaves it alone.
* `V2v_proofs`.  *Admission*: `TakeCounts` and `GiveCounts` carry `active = Cardinality(held)`
  through every exit; `WaitersHoldNothing` makes a poll's `Take` a new token, and the lock with
  a duplicate-free queue gives serial evictions.  `AdmissionOrderly` is the grouped invariant;
  `LegacySlotsComeBack` relates a legacy client's token to the phase of its handler.  *Session*:
  `TurnsSound`.  Fed turns need `TurnFacts`: the manager's utterance is open only while the
  handler's flag is up, unless the turn deadline has cleared a turn
  that was not the one it cancelled (`wiped`).  That nothing
  acts after the release is `ReleaseFacts`, the order in which the handler waits.
* `WorkerIO_proofs`.  Permit conservation over callers, orphaned threads and lost permits;
  nothing is written after `close()`; after `close()`, the end of stdout or a crash of the reader
  whoever was in flight finds the sentinel (`WakeInv`, `InFlightCallersAreWoken`).  `EventsReachCallers` adds `BookInv`: until its request
  is written a caller has nothing with the worker or in the pipe, for its id is new.  Without it
  an entry that `WakeAll` removed before the write could leave events nobody listens for.
* `Server_proofs`.  *Environment*: `RecordsAreExact`, that a key is on record or escaped and
  never both, makes the reload of one kind leave the keys of the other alone.  *Synthesis*:
  `AudioAt`, that per sentence what is delivered followed by what is in the pipe is what was
  emitted, carries the order; `LeaseFacts`, that every lease is held from the first job to the
  release of the clean-up, when no job runs, carries the leases.  *Segmenter*: `ClipDecoded`.
  A plan `Fit`s (the slices go forward and are short enough) and `Covers` every span that is long
  enough but for one gap, the one that a folded tail can leave: shown for slices of fixed
  length (`FixedSlices`), then for the packing of regions, one step at a time (`PackStep`).
  `SegInv` says that the text is always what the slices so far hold, in the order of the audio.
  The order is what makes the joining right: a repetition longer than the overlap would have to
  go back in time, so the longest one is that of the overlap (`RepeatFound`, `JoinedTexts`).
  Assumed (`SegmentAssumption`): two margins are shorter than the shortest tail (0.1 s
  and 0.5 s in the code), and spans of the VAD begin further apart than a margin, as 0.25 s of
  silence end one.
* `Agent_proofs`.  *Transport*: the send lock belongs to one call (`LockIsWhereItIs`), from
  which only the current socket lives (`OnlyTheCurrentLives`), a reader or the event it sets
  is there (`SomebodyListens`), and the generation that was advertised is the session's
  (`ToolsAreOut`), also with calls in flight.  *Conversation*: `ThinkingHasAnEnd` is stronger
  than what the run checks, which is not inductive: an error received in THINKING counts as an
  end only while its handler is on its way.
  `SleepLasts` is the action property, from the same invariant; a step of a handler that is past
  its check is its exemption.  *Breaker*: the counters with what the state has to show for them, through probes
  that were cut off or report late.  *Arm*: who has the arm while it is being connected,
  published or torn down (`ConnectionFacts`), without which a late hand-over could
  publish an arm nobody stops.  *Translation*: `TranslationWhole`.  `TransInv` follows the
  committed source of the utterance under way and of the turn that runs as a `Chain` of pieces
  laid end to end, through what is said, gathered and sent; `Accumulated` says whose the
  accumulators are as long as utterances keep apart, which is where `crossed` comes from.
* `Content_proofs`.  *Voices*: `VoiceInv`: at most one journal could act (`OnePotent`), recovery has
  it before any operation is staged, and the pair is between what that journal has backed up
  and what it is to leave (`PairFits`).  `VerdictIs` says when recovery restores, which makes
  the mapping (`VoiceReads`) well defined: a mixed pair stands for the old one of that journal.
  `VoicesWhole` is the grouped invariant.  `VoiceChangesAtomic` is the refinement of
  `VoiceRegister`: the second change of a commit is the one step that applies a call
  (`VoiceSame`, `TokenKeepsPhase`), every other is a call, an answer or nothing.  *Engines*:
  `EnginesCertified` rests on what a sidecar is worth, `SidecarsAreTrue` (it was written by an
  adoption or names the published bytes of its host, whatever has become of file and host
  since), `KeptAreTrue` (a sidecar that was not removed since its engine came names bytes built for its host), and on `Verified`, what one pass of `resolve_all` has established so far.  The loss is
  counted file by file (`LossFits`): only an unlink takes a file away, and until its
  successor is renamed into place the pass has it in hand.
  *Replies*: `ResponsesWellFormed`.  `FramesAreOfOneResponse` says what may wait for the send
  lock.  It needs the numbering of the responses, and that there is always a number left:
  `FlushesAreRationed` counts flushes sent, on their way and still to come against turns and
  announcement, and each of them ends the response it finds.
  *History*: `HistoryUsable`.  `HistoryIsWhole` is strictness up to the results the running round
  owes, `FoundIsPrefix` that the rollback anchor still cuts out what the question found;
  `StrictSuffix` and `TrimKeepsTheQuestion` carry the prompt through trimming.

The bounds of a model are constants of its theorems too: sockets, transactions, faults and
tasks are any number.

Every invariant, every action property and every refinement that a passing run checks is stated by
a theorem.  Only model-checked are the eleven liveness properties (`DrainingIsTransient`,
`AdmissionSettles`, `EveryWaiterIsAnswered`, `BacklogDrains`, `LeavingFreesTheLeases`,
`BreakerFollowsTheServer`, `LocksComeBack`, `ShutdownReleasesTheArm`, `SessionsComeToAnEnd`,
`FlushEndsTheResponse`, `ProvisionedInTheEnd`): fairness and ENABLED are outside the prover's reach.

Induction is not available as a rule (its theorems take an operator as parameter); where data is
walked through, the proofs take a least counterexample instead (`LeastNumber`, from
`NatLessThanWellFounded`): that the packing of regions exists (`PackingExists`) and is good
(`AllPacked`), the run of results behind a round (`ResultsAreARun`), the greatest element of
a bounded set (`MaxIsGreatest`).  The models are written for that: sets, quantifiers and recursive
functions where a fold would be opaque.

## 6. Not modelled

* Audio, models, runtimes and geometry; a backend call ends or fails.  Wall-clock time: a
  timer may fire at any point after it was started.
* Most of the repository by lines is of these kinds and has no protocol a model would say
  anything about: perception and grasp planning, dashboards and HTTP glue, adapters of
  inference runtimes, downloaders and conversion scripts, configuration parsing, wire encodings,
  metrics.  The map covers about a ninth of the implementation; the files above are where the
  concurrency, the recovery and the bookkeeping are.
* Relay and providers (two pumps to external services), GPU watchdog (two counters over device
  probes), capability resolver (stateless; its results are constants here), translator and LLM
  services (separate processes with a pool each).
* The `voxedge` package (session manager, engine, turn driver): its source is not in this
  repository; it is modelled by how it is used.
* In modelled parts: push-to-talk and always-on mode of the conversation, the connection-level
  variant of the utterance slot, nested engine directories, power loss that reorders writes,
  `session.update` and the tool events of the server loop.

## 7. Plan

What is left, in order of weight:

1. Liveness beside the safety of parts that have none yet: a worker call returns once the worker
   has answered, and THINKING ends.
2. The parts of section 6 that have a protocol: push-to-talk and always-on mode of the
   conversation, the connection-level variant of the utterance slot, the tool events of the
   server loop, the pumps of the realtime relay.
3. The cap of 60 characters in `strip_overlap_repeat`, with overlaps of several seconds.
