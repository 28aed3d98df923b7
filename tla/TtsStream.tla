------------------------------ MODULE TtsStream ------------------------------
(***************************************************************************)
(* One streaming synthesis request of server/main.py: the leases it takes, *)
(* the executor jobs that synthesise its sentences, the generator that     *)
(* hands their audio to the client, and the cleanup that gives the leases  *)
(* back.  Three routes share this protocol: /tts/stream with a backend     *)
(* manager, /tts/stream without one, and the single-job clone stream.      *)
(*                                                                         *)
(* A thread cannot be cancelled.  What the protocol is for is that a       *)
(* reload never unloads the backend under a job, although the client may   *)
(* leave, and the request be cancelled, at any moment.                     *)
(***************************************************************************)
EXTENDS Integers, Sequences, FiniteSets

CONSTANTS
  Sentences,   \* number of sentences of the request
  Workers,     \* threads of the TTS stream executor
  Prefetch,    \* prefetch_max
  ChunkBound   \* PCM chunks a sentence may yield

ASSUME TtsAssumption ==
  /\ Sentences \in Nat \ {0}
  /\ Workers \in Nat \ {0}
  /\ Prefetch \in Nat \ {0}
  /\ ChunkBound \in Nat \ {0}

Routes == {"managed", "legacy", "clone"}
Leases == {"session", "backend", "coordinator"}
JobPhases == {"none", "queued", "started", "backend", "ending", "posted", "finished"}
Stages == {"admit", "manager", "lease", "coordinate", "drain", "yielded",
           "unwinding", "waiting", "over"}

VARIABLES
  route,      \* which of the three routes the request takes
  stage,      \* the await the handler or its generator is in
  leases,     \* leases held for this request
  jobs,       \* executor job of each sentence
  pipe,       \* the queue of each sentence
  cursor,     \* current_idx
  submitted,  \* next_to_submit
  fresh,      \* ~first_chunk_seen
  header,     \* the response has been returned to the server
  discarding, \* the framed stream's close task drives the generator
  cancelFlag, \* the shared Event
  watch,      \* disconnect watcher
  cleanup,    \* cleanup task
  drainSet,   \* jobs the cleanup has found started
  client,     \* "there" or "gone"
  emitted,    \* history: chunks put in each queue
  delivered   \* history: chunks taken from each queue

ttsVars == <<route, stage, leases, jobs, pipe, cursor, submitted, fresh, header, discarding,
             cancelFlag, watch, cleanup, drainSet, client, emitted, delivered>>
handlerVars == <<stage, cursor, submitted, fresh, header, discarding, delivered>>
threadVars == <<jobs, pipe, emitted>>
cleanupVars == <<leases, cleanup, drainSet>>

\* The clone route has one job, the others one for each sentence.
Last == IF route = "clone" THEN 1 ELSE Sentences

TtsTypeOK ==
  /\ route \in Routes /\ stage \in Stages /\ leases \subseteq Leases
  /\ jobs \in [1..Sentences -> JobPhases]
  /\ pipe \in [1..Sentences -> Seq({"pcm", "error", "eof"})]
  /\ cursor \in 1..Sentences + 1 /\ submitted \in 1..Sentences + 1
  /\ fresh \in BOOLEAN /\ header \in BOOLEAN /\ discarding \in BOOLEAN /\ cancelFlag \in BOOLEAN
  /\ watch \in {"none", "waiting", "gone"}
  /\ cleanup \in {"none", "created", "draining", "released"}
  /\ drainSet \subseteq 1..Sentences
  /\ client \in {"there", "gone"}
  /\ emitted \in [1..Sentences -> 0..ChunkBound] /\ delivered \in [1..Sentences -> 0..ChunkBound]

TtsInit ==
  /\ route \in Routes
  /\ stage = "admit" /\ leases = {}
  /\ jobs = [i \in 1..Sentences |-> "none"]
  /\ pipe = [i \in 1..Sentences |-> <<>>]
  /\ cursor = 1 /\ submitted = 1
  /\ fresh = TRUE /\ header = FALSE /\ discarding = FALSE /\ cancelFlag = FALSE
  /\ watch = "none" /\ cleanup = "none" /\ drainSet = {}
  /\ client = "there"
  /\ emitted = [i \in 1..Sentences |-> 0] /\ delivered = [i \in 1..Sentences |-> 0]

-----------------------------------------------------------------------------
(* Setup: session slot, manager, backend lease, coordinator lease.  Every   *)
(* failure, refusal and cancellation on the way gives back what was taken.  *)

\* try_acquire: the slot, or 429.
AdmitStream ==
  /\ stage = "admit"
  /\ \/ stage' = "manager" /\ leases' = {"session"}
     \/ stage' = "over" /\ UNCHANGED leases
  /\ UNCHANGED <<route, threadVars, cursor, submitted, fresh, header, discarding, delivered,
                 cancelFlag, watch, cleanup, drainSet, client>>

\* Any await of setup may raise, and any check refuse the request.
SetupFails ==
  /\ stage \in {"manager", "lease", "coordinate"}
  /\ stage' = "over"
  /\ leases' = {}
  /\ UNCHANGED <<route, threadVars, cursor, submitted, fresh, header, discarding, delivered,
                 cancelFlag, watch, cleanup, drainSet, client>>

\* _ensure_tts_manager_started returns, with or without a manager.
ManagerStarted ==
  /\ stage = "manager"
  /\ stage' = IF route = "legacy" THEN "coordinate" ELSE "lease"
  /\ UNCHANGED <<route, leases, threadVars, cursor, submitted, fresh, header, discarding, delivered,
                 cancelFlag, watch, cleanup, drainSet, client>>

BackendLeased ==
  /\ stage = "lease" /\ route = "managed"
  /\ stage' = "coordinate"
  /\ leases' = leases \cup {"backend"}
  /\ UNCHANGED <<route, threadVars, cursor, submitted, fresh, header, discarding, delivered,
                 cancelFlag, watch, cleanup, drainSet, client>>

\* The clone stream leases and checks its backend after the upload has been read.
CloneLeased ==
  /\ stage = "lease" /\ route = "clone"
  /\ stage' = "coordinate"
  /\ leases' = leases \cup {"backend"}
  /\ UNCHANGED <<route, threadVars, cursor, submitted, fresh, header, discarding, delivered,
                 cancelFlag, watch, cleanup, drainSet, client>>

\* The coordinator lease, and the generator up to its first await: watcher, owner, job 1.
StreamStarts ==
  /\ stage = "coordinate"
  /\ leases' = leases \cup {"coordinator"}
  /\ watch' = "waiting"
  /\ jobs' = [jobs EXCEPT ![1] = "queued"]
  /\ submitted' = 2
  /\ stage' = "drain"
  /\ UNCHANGED <<route, pipe, emitted, cursor, fresh, header, discarding, delivered, cancelFlag,
                 cleanup, drainSet, client>>

-----------------------------------------------------------------------------
(* The executor job of sentence i (_run).                                   *)

InThread(i) == jobs[i] \in {"started", "backend", "ending", "posted"}

JobStarts(i) ==
  /\ jobs[i] = "queued"
  /\ Cardinality({j \in 1..Sentences : InThread(j)}) < Workers
  /\ jobs' = [jobs EXCEPT ![i] = "started"]
  /\ UNCHANGED <<route, handlerVars, pipe, emitted, cancelFlag, watch, cleanupVars, client>>

\* Mistake: the job enters the backend without looking at the flag.
JobNeverChecks(i) ==
  /\ jobs[i] = "started"
  /\ jobs' = [jobs EXCEPT ![i] = "backend"]
  /\ UNCHANGED <<route, handlerVars, pipe, emitted, cancelFlag, watch, cleanupVars, client>>

\* The flag is read after started has been set; a raised flag keeps the job off the backend.
JobChecks(i) ==
  /\ jobs[i] = "started"
  /\ jobs' = [jobs EXCEPT ![i] = IF cancelFlag THEN "ending" ELSE "backend"]
  /\ UNCHANGED <<route, handlerVars, pipe, emitted, cancelFlag, watch, cleanupVars, client>>

\* A chunk; with the flag raised it is dropped, and the iteration goes on.
JobEmits(i) ==
  /\ jobs[i] = "backend"
  /\ ~cancelFlag /\ emitted[i] < ChunkBound
  /\ pipe' = [pipe EXCEPT ![i] = Append(@, "pcm")]
  /\ emitted' = [emitted EXCEPT ![i] = @ + 1]
  /\ UNCHANGED <<route, handlerVars, jobs, cancelFlag, watch, cleanupVars, client>>

\* The backend's generator is exhausted, or raises.
JobEnds(i) ==
  /\ jobs[i] = "backend"
  /\ jobs' = [jobs EXCEPT ![i] = "ending"]
  /\ \/ UNCHANGED pipe
     \/ pipe' = [pipe EXCEPT ![i] = Append(@, "error")]
  /\ UNCHANGED <<route, handlerVars, emitted, cancelFlag, watch, cleanupVars, client>>

\* The finally block: the sentinel, then finished.
JobPosts(i) ==
  /\ jobs[i] = "ending"
  /\ jobs' = [jobs EXCEPT ![i] = "posted"]
  /\ pipe' = [pipe EXCEPT ![i] = Append(@, "eof")]
  /\ UNCHANGED <<route, handlerVars, emitted, cancelFlag, watch, cleanupVars, client>>

JobFinishes(i) ==
  /\ jobs[i] = "posted"
  /\ jobs' = [jobs EXCEPT ![i] = "finished"]
  /\ UNCHANGED <<route, handlerVars, pipe, emitted, cancelFlag, watch, cleanupVars, client>>

-----------------------------------------------------------------------------
(* The generator.                                                           *)

\* _prefetch_window_allows
PrefetchWindowAllows(next, current) == next - 1 - current < Prefetch

\* _maybe_prefetch: another sentence may be handed to the executor.
PrefetchDue ==
  /\ route = "managed"
  /\ submitted <= Last
  /\ ~cancelFlag
  /\ PrefetchWindowAllows(submitted, cursor)

\* Jobs and next_to_submit after submitting the next sentence if due.
SubmitIf(due) ==
  /\ submitted' = IF due THEN submitted + 1 ELSE submitted
  /\ jobs' = IF due THEN [jobs EXCEPT ![submitted] = "queued"] ELSE jobs

\* _TTSStreamCleanupOwner.start(): once.
StartCleanup == cleanup' = IF cleanup = "none" THEN "created" ELSE cleanup

\* The finally block of the generator up to its first await.  The clone stream starts its
\* cleanup when the watcher has been dealt with.
Unwind ==
  /\ stage' = "unwinding"
  /\ cancelFlag' = TRUE
  /\ IF route = "clone" THEN UNCHANGED cleanup ELSE StartCleanup

Consume == pipe' = [pipe EXCEPT ![cursor] = Tail(@)]

ReadPcm ==
  /\ stage = "drain"
  /\ pipe[cursor] # <<>> /\ Head(pipe[cursor]) = "pcm"
  /\ Consume
  /\ SubmitIf(fresh /\ PrefetchDue)
  /\ fresh' = FALSE
  /\ stage' = "yielded"
  /\ delivered' = [delivered EXCEPT ![cursor] = @ + 1]
  /\ UNCHANGED <<route, emitted, cursor, header, discarding, cancelFlag, watch, cleanupVars, client>>

\* The sentinel of a sentence that is not the last: on to the next, unless the flag is up.
ReadEof ==
  /\ stage = "drain"
  /\ pipe[cursor] # <<>> /\ Head(pipe[cursor]) = "eof"
  /\ cursor < Last /\ ~cancelFlag /\ route = "managed"
  /\ Consume
  /\ SubmitIf(PrefetchDue)
  /\ cursor' = cursor + 1
  /\ fresh' = TRUE
  /\ UNCHANGED <<route, stage, emitted, header, discarding, delivered, cancelFlag, watch,
                 cleanupVars, client>>

\* Without a manager each sentence is submitted when it becomes current.
LegacyReadEof ==
  /\ stage = "drain"
  /\ pipe[cursor] # <<>> /\ Head(pipe[cursor]) = "eof"
  /\ cursor < Last /\ ~cancelFlag /\ route = "legacy"
  /\ Consume
  /\ SubmitIf(TRUE)
  /\ cursor' = cursor + 1
  /\ fresh' = TRUE
  /\ UNCHANGED <<route, stage, emitted, header, discarding, delivered, cancelFlag, watch,
                 cleanupVars, client>>

\* The last sentinel, a sentinel with the flag up, or an error: the generator ends.
ReadEnd ==
  /\ stage = "drain"
  /\ pipe[cursor] # <<>>
  /\ \/ Head(pipe[cursor]) = "error" /\ UNCHANGED cursor
     \/ Head(pipe[cursor]) = "eof" /\ cancelFlag /\ UNCHANGED cursor
     \/ Head(pipe[cursor]) = "eof" /\ ~cancelFlag /\ cursor = Last /\ cursor' = cursor + 1
  /\ Consume
  /\ Unwind
  /\ UNCHANGED <<route, jobs, emitted, submitted, fresh, header, discarding, delivered, watch,
                 leases, drainSet, client>>

\* The first chunk returns the response; each later one is taken by the client, dropped by
\* the close task, or sent into a socket that is gone.
ChunkTaken ==
  /\ stage = "yielded"
  /\ header' = TRUE
  /\ stage' = "drain"
  /\ UNCHANGED <<route, threadVars, cursor, submitted, fresh, discarding, delivered, cancelFlag,
                 watch, cleanupVars, client>>

(* The request's task is cancelled.  The framed stream shields the           *)
(* generator: it raises the flag and drives the generator to its end.        *)
CancelFramed ==
  /\ stage \in {"drain", "yielded"} /\ header /\ route # "clone"
  /\ cancelFlag' = TRUE
  /\ discarding' = TRUE
  /\ UNCHANGED <<route, stage, threadVars, cursor, submitted, fresh, header, delivered, watch,
                 cleanupVars, client>>

(* Before the response the exception is thrown into the generator.  A         *)
(* response that is never iterated ends like this too: its generator is       *)
(* closed when it is collected.                                               *)
CancelGenerator ==
  /\ stage \in {"drain", "yielded"} /\ ~header
  /\ Unwind
  /\ UNCHANGED <<route, threadVars, cursor, submitted, fresh, header, discarding, delivered, watch,
                 leases, drainSet, client>>

\* The clone stream is not shielded: its generator is closed where it is.
CancelClone ==
  /\ stage \in {"drain", "yielded"} /\ header /\ route = "clone"
  /\ Unwind
  /\ UNCHANGED <<route, threadVars, cursor, submitted, fresh, header, discarding, delivered, watch,
                 leases, drainSet, client>>

\* _stop_tts_disconnect_watcher returns, the watcher stopped or left behind.
WatcherLeft ==
  /\ stage = "unwinding"
  /\ stage' = "waiting"
  /\ watch' \in {watch, "gone"}
  /\ StartCleanup
  /\ UNCHANGED <<route, threadVars, cursor, submitted, fresh, header, discarding, delivered,
                 cancelFlag, leases, drainSet, client>>

\* The bounded wait for the cleanup: done, timed out, or cancelled.
WaitEnds ==
  /\ stage = "waiting"
  /\ stage' = "over"
  /\ UNCHANGED <<route, threadVars, cursor, submitted, fresh, header, discarding, delivered,
                 cancelFlag, watch, cleanupVars, client>>

-----------------------------------------------------------------------------
(* Disconnect watcher and cleanup task.                                     *)

ClientLeaves ==
  /\ client = "there"
  /\ client' = "gone"
  /\ UNCHANGED <<route, handlerVars, threadVars, cancelFlag, watch, cleanupVars>>

\* http.disconnect: the flag, and a cleanup that does not depend on the response.
Disconnected ==
  /\ client = "gone" /\ watch = "waiting" /\ route # "clone"
  /\ watch' = "gone"
  /\ cancelFlag' = TRUE
  /\ StartCleanup
  /\ UNCHANGED <<route, handlerVars, threadVars, leases, drainSet, client>>

\* The clone stream's watcher leaves the cleanup to the generator, and wakes it if its job
\* has not started.
CloneDisconnected ==
  /\ client = "gone" /\ watch = "waiting" /\ route = "clone"
  /\ watch' = "gone"
  /\ cancelFlag' = TRUE
  /\ pipe' = IF jobs[1] = "queued" THEN [pipe EXCEPT ![1] = Append(@, "eof")] ELSE pipe
  /\ UNCHANGED <<route, handlerVars, jobs, emitted, cleanupVars, client>>

\* Mistake: the cleanup waits for jobs in the executor's queue as well.
CleanupSnapshotAll ==
  /\ cleanup = "created"
  /\ cleanup' = "draining"
  /\ drainSet' = {i \in 1..Sentences : InThread(i) \/ jobs[i] = "queued"}
  /\ UNCHANGED <<route, handlerVars, threadVars, leases, cancelFlag, watch, client>>

\* The cleanup task runs: it will wait for the jobs that have started, and for no other.
CleanupSnapshot ==
  /\ cleanup = "created"
  /\ cleanup' = "draining"
  /\ drainSet' = {i \in 1..Sentences : InThread(i)}
  /\ UNCHANGED <<route, handlerVars, threadVars, leases, cancelFlag, watch, client>>

\* Mistake: the leases are released as soon as the jobs have been told to stop.
CleanupReleasesEarly ==
  /\ cleanup = "draining"
  /\ cleanup' = "released"
  /\ leases' = {}
  /\ UNCHANGED <<route, handlerVars, threadVars, drainSet, cancelFlag, watch, client>>

\* _release_stream_resources, after the last of them has finished.
CleanupReleases ==
  /\ cleanup = "draining"
  /\ \A i \in drainSet : jobs[i] = "finished"
  /\ cleanup' = "released"
  /\ leases' = {}
  /\ UNCHANGED <<route, handlerVars, threadVars, drainSet, cancelFlag, watch, client>>

Setup == AdmitStream \/ SetupFails \/ ManagerStarted \/ BackendLeased \/ CloneLeased
         \/ StreamStarts
JobRuns(i) == JobChecks(i) \/ JobEmits(i) \/ JobEnds(i) \/ JobPosts(i) \/ JobFinishes(i)
GeneratorRuns == ReadPcm \/ ReadEof \/ LegacyReadEof \/ ReadEnd \/ WatcherLeft \/ WaitEnds
CleanupRuns == CleanupSnapshot \/ CleanupReleases

TtsNext ==
  \/ Setup
  \/ \E i \in 1..Sentences : JobStarts(i) \/ JobRuns(i)
  \/ GeneratorRuns \/ ChunkTaken \/ CancelFramed \/ CancelGenerator \/ CancelClone
  \/ ClientLeaves \/ Disconnected \/ CloneDisconnected
  \/ CleanupRuns

\* Threads in the backend come to an end, and the loop runs what is ready.  No client has to
\* read or to leave, and a queued job may wait for ever behind the jobs of other requests.
TtsFairness ==
  /\ \A i \in 1..Sentences : WF_ttsVars(JobChecks(i) \/ JobEnds(i) \/ JobPosts(i) \/ JobFinishes(i))
  /\ WF_ttsVars(GeneratorRuns)
  /\ WF_ttsVars((client = "gone" \/ discarding) /\ ChunkTaken)
  /\ WF_ttsVars(Disconnected \/ CloneDisconnected)
  /\ WF_ttsVars(CleanupRuns)

TtsSpec == TtsInit /\ [][TtsNext]_ttsVars /\ TtsFairness

-----------------------------------------------------------------------------
(* No job is inside the backend without the leases that keep a reload from  *)
(* unloading it: the cleanup may pass over a job that has not started, since *)
(* such a job finds the flag raised before it touches the backend.          *)
JobsRunUnderLease ==
  \A i \in 1..Sentences :
    jobs[i] = "backend" =>
      {"session", "coordinator"} \cup (IF route = "legacy" THEN {} ELSE {"backend"}) \subseteq leases

(* The generator never waits for a sentence nobody has submitted: with a    *)
(* window of any size, a sentence is handed over before it becomes current. *)
DrainedSentenceIsSubmitted == stage \in {"drain", "yielded"} => jobs[cursor] # "none"

(* The client hears sentences whole and in order: past the current sentence *)
(* everything that was synthesised has been handed on, and nothing of a     *)
(* later one has.                                                           *)
AudioInOrder ==
  \A i \in 1..Sentences :
    /\ i < cursor => delivered[i] = emitted[i]
    /\ i > cursor => delivered[i] = 0

(* A request that is over, at whatever await it failed or was cancelled,    *)
(* holds no lease, unless its cleanup is still to come.                     *)
NoLeaseWithoutOwner ==
  stage = "over" /\ cleanup \in {"none", "released"} => leases = {}

(* Once its client has left a stream gives its leases back, although its    *)
(* queued jobs may never be run and the server may not iterate it again.    *)
LeavingFreesTheLeases ==
  (client = "gone" /\ stage \in {"drain", "yielded", "unwinding", "waiting"}) ~> (leases = {})

(* A stream of synthesis: no job without its leases and no lease without an *)
(* owner; every sentence is submitted before it is waited for, and heard in *)
(* its place.                                                               *)
StreamIsSound ==
  /\ TtsTypeOK
  /\ JobsRunUnderLease
  /\ NoLeaseWithoutOwner
  /\ DrainedSentenceIsSubmitted
  /\ AudioInOrder
=============================================================================
