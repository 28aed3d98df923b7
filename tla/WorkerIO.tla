----------------------------- MODULE WorkerIO -----------------------------
(***************************************************************************)
(* server/core/worker_io.py: one worker subprocess shared by requests from *)
(* threads (request) and from the event loop (send_request), with the      *)
(* reader thread, cancel() and close().                                    *)
(*                                                                         *)
(* Threads really run in parallel here: a step is one critical section, or *)
(* the code between two of them.  A line written to stdin is taken to have *)
(* reached the worker; what the worker prints stays in the pipe until the  *)
(* reader gets to it.  Request ids are unique, so the name of a caller is  *)
(* used again only when nothing of its last request is under way.          *)
(***************************************************************************)
EXTENDS Integers, Sequences, FiniteSets

CONSTANTS Threads,   (* callers of request()                               *)
          Tasks,     (* callers of send_request()                          *)
          Slots,     (* _max_slots                                         *)
          Underway   (* bound: events of one request not yet consumed      *)

ASSUME WorkerAssumption ==
    /\ IsFiniteSet(Threads) /\ IsFiniteSet(Tasks) /\ Threads \cap Tasks = {}
    /\ Slots \in Nat \ {0} /\ Underway \in Nat \ {0}

Callers == Threads \cup Tasks

VARIABLES queueing,  (* _queue_when_saturated                              *)
          permits,   (* value of _sem                                      *)
          lost,      (* permits nobody will release any more               *)
          pc,        (* where a caller stands                              *)
          grab,      (* the executor thread inside _sem.acquire for a task *)
          entries,  (* keys of _inflight                                  *)
          queue,     (* the queue.Queue of each caller's request           *)
          natural,   (* callers that have seen their last event            *)
          closed,    (* _closed                                            *)
          woken,     (* close() has woken the callers in flight            *)
          reading,   (* the reader thread is in its loop                   *)
          crashed,   (* it has left its loop by an exception               *)
          alive,     (* the subprocess                                     *)
          working,   (* requests the worker is busy with                   *)
          stopping,  (* those it has been told to cancel                   *)
          out        (* its stdout pipe, as far as anybody will read it    *)

semVars == <<permits, lost, grab>>
callVars == <<entries, queue, natural>>
closeVars == <<closed, woken, reading, crashed>>
workVars == <<alive, working, stopping, out>>
workerVars == <<queueing, permits, lost, pc, grab, entries, queue, natural, closed, woken,
          reading, crashed, alive, working, stopping, out>>

(* acquiring: at the semaphore; gated: has a permit; checked: found        *)
(* _closed false; registered: in _inflight; waiting: in q.get; consuming:  *)
(* at yield; leaving, popped: in the finally block, before and after it    *)
(* has removed the entry; cancelling: about to call cancel().              *)
Holding == {"gated", "checked", "registered", "waiting", "consuming", "leaving", "popped"}
Phases == {"idle", "acquiring", "cancelling"} \cup Holding

(* blocked: in acquire(); posted: has the permit, the loop has not heard of*)
(* it; set: the future has its result; orphan: blocked, its task is gone.  *)
Grabs == {"none", "blocked", "posted", "set", "orphan"}

WorkerInit ==
    /\ queueing \in BOOLEAN
    /\ permits = Slots /\ lost = 0
    /\ pc = [c \in Callers |-> "idle"] /\ grab = [c \in Callers |-> "none"]
    /\ entries = {} /\ queue = [c \in Callers |-> <<>>] /\ natural = {}
    /\ closed = FALSE /\ woken = FALSE /\ reading = TRUE /\ crashed = FALSE
    /\ alive = TRUE /\ working = {} /\ stopping = {} /\ out = <<>>

Goto(c, p) == pc' = [pc EXCEPT ![c] = p]

Count(c, s) == Cardinality({i \in DOMAIN s : s[i][1] = c})

-----------------------------------------------------------------------------
(* The semaphore *)

Begin(c) ==
    /\ pc[c] = "idle" /\ grab[c] = "none"
    /\ c \notin working /\ Count(c, out) = 0
    /\ queue' = [queue EXCEPT ![c] = <<>>]
    /\ natural' = natural \ {c}
    /\ \/ /\ ~queueing /\ permits > 0
          /\ permits' = permits - 1
          /\ Goto(c, "gated")
          /\ UNCHANGED grab
       \/ /\ queueing
          /\ Goto(c, "acquiring")
          /\ grab' = IF c \in Tasks THEN [grab EXCEPT ![c] = "blocked"] ELSE grab
          /\ UNCHANGED permits
    /\ UNCHANGED <<queueing, lost, entries, closeVars, workVars>>

AcquireHere(c) ==
    /\ c \in Threads /\ pc[c] = "acquiring" /\ permits > 0
    /\ permits' = permits - 1
    /\ Goto(c, "gated")
    /\ UNCHANGED <<queueing, lost, grab, callVars, closeVars, workVars>>

(* The done-callback of an abandoned acquire asks a cancelled future for   *)
(* its result, gets a CancelledError and releases nothing.                 *)
AcquireInExecutor(c) ==
    /\ grab[c] \in {"blocked", "orphan"} /\ permits > 0
    /\ permits' = permits - 1
    /\ \/ /\ grab[c] = "blocked"
          /\ grab' = [grab EXCEPT ![c] = "posted"]
          /\ UNCHANGED lost
       \/ /\ grab[c] = "orphan"
          /\ grab' = [grab EXCEPT ![c] = "none"]
          /\ lost' = lost + 1
    /\ UNCHANGED <<queueing, pc, callVars, closeVars, workVars>>

LoopHears(c) ==
    /\ grab[c] = "posted"
    /\ grab' = [grab EXCEPT ![c] = "set"]
    /\ UNCHANGED <<queueing, permits, lost, pc, callVars, closeVars, workVars>>

Resume(c) ==
    /\ pc[c] = "acquiring" /\ grab[c] = "set"
    /\ grab' = [grab EXCEPT ![c] = "none"]
    /\ Goto(c, "gated")
    /\ UNCHANGED <<queueing, permits, lost, callVars, closeVars, workVars>>

(* Mistake: a task that is cancelled with its permit granted releases      *)
(* nothing.                                                                *)
CancelAcquireDropping(c) ==
    /\ pc[c] = "acquiring" /\ grab[c] # "none"
    /\ Goto(c, "idle")
    /\ grab' = [grab EXCEPT ![c] = IF grab[c] = "blocked" THEN "orphan" ELSE "none"]
    /\ UNCHANGED <<queueing, permits, lost, callVars, closeVars, workVars>>

(* The task is cancelled while it awaits the executor.  Cancelling the     *)
(* await cancels the future; only a future that already has its result     *)
(* hands the permit to the callback.                                       *)
CancelAcquire(c) ==
    /\ pc[c] = "acquiring"
    /\ Goto(c, "idle")
    /\ \/ /\ grab[c] = "blocked"
          /\ grab' \in {[grab EXCEPT ![c] = g] : g \in {"orphan", "none"}}
          /\ UNCHANGED <<permits, lost>>
       \/ /\ grab[c] = "posted"
          /\ grab' = [grab EXCEPT ![c] = "none"]
          /\ lost' = lost + 1
          /\ UNCHANGED permits
       \/ /\ grab[c] = "set"
          /\ grab' = [grab EXCEPT ![c] = "none"]
          /\ permits' = permits + 1
          /\ UNCHANGED lost
    /\ UNCHANGED <<queueing, callVars, closeVars, workVars>>

-----------------------------------------------------------------------------
(* request() and send_request() once they have a permit *)

CheckClosed(c) ==
    /\ pc[c] = "gated"
    /\ IF closed THEN permits' = permits + 1 /\ Goto(c, "idle")
                 ELSE UNCHANGED permits /\ Goto(c, "checked")
    /\ UNCHANGED <<queueing, lost, grab, callVars, closeVars, workVars>>

(* Mistake: the request is written first and registered afterwards.        *)
RegisterLate(c) ==
    \/ /\ pc[c] = "checked" /\ ~closed /\ alive
       /\ working' = working \cup {c}
       /\ Goto(c, "registered")
       /\ UNCHANGED <<queueing, semVars, callVars, closeVars, alive, stopping, out>>
    \/ /\ pc[c] = "registered"
       /\ entries' = entries \cup {c}
       /\ Goto(c, "waiting")
       /\ UNCHANGED <<queueing, semVars, queue, natural, closeVars, workVars>>

Register(c) ==
    /\ pc[c] = "checked"
    /\ entries' = entries \cup {c}
    /\ Goto(c, "registered")
    /\ UNCHANGED <<queueing, semVars, queue, natural, closeVars, workVars>>

(* Mistake: _closed is not looked at again under the stdin lock.           *)
WriteUnchecked(c) ==
    /\ pc[c] = "registered"
    /\ IF ~alive
       THEN Goto(c, "leaving") /\ UNCHANGED working
       ELSE Goto(c, "waiting") /\ working' = working \cup {c}
    /\ UNCHANGED <<queueing, semVars, callVars, closeVars, alive, stopping, out>>

(* Under the stdin lock.  A dead worker breaks the pipe.                   *)
Write(c) ==
    /\ pc[c] = "registered"
    /\ IF closed \/ ~alive
       THEN Goto(c, "leaving") /\ UNCHANGED working
       ELSE Goto(c, "waiting") /\ working' = working \cup {c}
    /\ UNCHANGED <<queueing, semVars, callVars, closeVars, alive, stopping, out>>

Receive(c) ==
    /\ pc[c] = "waiting" /\ queue[c] # <<>>
    /\ queue' = [queue EXCEPT ![c] = Tail(@)]
    /\ Goto(c, IF Head(queue[c]) = "exit" THEN "leaving" ELSE "consuming")
    /\ natural' = IF Head(queue[c]) = "final" THEN natural \cup {c} ELSE natural
    /\ UNCHANGED <<queueing, semVars, entries, closeVars, workVars>>

(* The consumer asks for the next event; after the last one the generator  *)
(* returns.                                                                *)
Consume(c) ==
    /\ pc[c] = "consuming"
    /\ Goto(c, IF c \in natural THEN "leaving" ELSE "waiting")
    /\ UNCHANGED <<queueing, semVars, callVars, closeVars, workVars>>

(* No event for 60 s; the consumer closes the generator, even at its last  *)
(* event; a task is cancelled in either place.                             *)
Abandon(c) ==
    /\ \/ pc[c] = "waiting" /\ (queue[c] = <<>> \/ c \in Tasks)
       \/ pc[c] = "consuming"
    /\ natural' = natural \ {c}
    /\ Goto(c, "leaving")
    /\ UNCHANGED <<queueing, semVars, entries, queue, closeVars, workVars>>

Pop(c) ==
    /\ pc[c] = "leaving"
    /\ entries' = entries \ {c}
    /\ Goto(c, "popped")
    /\ UNCHANGED <<queueing, semVars, queue, natural, closeVars, workVars>>

(* send_request() goes on to tell the worker; of request() that is left to *)
(* the caller.                                                             *)
ReleasePermit(c) ==
    /\ pc[c] = "popped"
    /\ permits' = permits + 1
    /\ Goto(c, IF c \in Tasks /\ c \notin natural THEN "cancelling" ELSE "idle")
    /\ UNCHANGED <<queueing, lost, grab, callVars, closeVars, workVars>>

(* cancel(): from the finally block, or by anybody while the request runs. *)
Cancel(c) ==
    /\ pc[c] \in {"cancelling", "registered", "waiting", "consuming"}
    /\ stopping' = IF ~closed /\ alive /\ c \in working THEN stopping \cup {c} ELSE stopping
    /\ IF pc[c] = "cancelling" THEN Goto(c, "idle") ELSE UNCHANGED pc
    /\ UNCHANGED <<queueing, semVars, callVars, closeVars, alive, working, out>>

-----------------------------------------------------------------------------
(* close(), the reader thread, and the worker *)

(* Every caller in flight finds the sentinel at the end of its queue.      *)
WakeAll ==
    /\ queue' = [c \in Callers |-> IF c \in entries THEN Append(queue[c], "exit") ELSE queue[c]]
    /\ entries' = {}

SetClosed ==
    /\ ~closed /\ closed' = TRUE
    /\ UNCHANGED <<queueing, semVars, pc, callVars, woken, reading, crashed, workVars>>

CloseWakes ==
    /\ closed /\ ~woken /\ woken' = TRUE
    /\ WakeAll
    /\ UNCHANGED <<queueing, semVars, pc, natural, closed, reading, crashed, workVars>>

Dispatch ==
    /\ reading /\ out # <<>>
    /\ LET c == Head(out)[1] IN
       queue' = IF c \in entries THEN [queue EXCEPT ![c] = Append(@, Head(out)[2])] ELSE queue
    /\ out' = Tail(out)
    /\ UNCHANGED <<queueing, semVars, pc, entries, natural, closeVars, alive, working, stopping>>

(* Mistake: the end of stdout ends the reader and nothing else.            *)
ReaderStops ==
    /\ reading /\ ~alive /\ out = <<>>
    /\ reading' = FALSE
    /\ UNCHANGED <<queueing, semVars, pc, callVars, closed, woken, crashed, workVars>>

(* The end of stdout.                                                      *)
ReaderEnds ==
    /\ reading /\ ~alive /\ out = <<>>
    /\ reading' = FALSE
    /\ WakeAll
    /\ UNCHANGED <<queueing, semVars, pc, natural, closed, woken, crashed, workVars>>

(* An exception outside the JSON guard, of a line that is JSON but not an  *)
(* object: the thread is gone, the worker may live on, and requests are    *)
(* taken and written as before.                                            *)
ReaderFails ==
    /\ reading /\ (alive \/ out # <<>>)
    /\ reading' = FALSE /\ crashed' = TRUE
    /\ WakeAll
    /\ out' = <<>>
    /\ UNCHANGED <<queueing, semVars, pc, natural, closed, woken, alive, working, stopping>>

Emit(c, event) ==
    /\ alive /\ c \in working
    /\ Count(c, out) + Len(queue[c]) < Underway
    /\ out' = IF reading THEN Append(out, <<c, event>>) ELSE out

WorkerStep(c) ==
    /\ \/ Emit(c, "chunk") /\ UNCHANGED <<working, stopping>>
       \/ Emit(c, "final") /\ working' = working \ {c} /\ stopping' = stopping \ {c}
    /\ UNCHANGED <<queueing, semVars, pc, callVars, closeVars, alive>>

WorkerDies ==
    /\ alive /\ alive' = FALSE
    /\ working' = {} /\ stopping' = {}
    /\ UNCHANGED <<queueing, semVars, pc, callVars, closeVars, out>>

CallerStep(c) ==
    \/ Begin(c) \/ AcquireHere(c) \/ AcquireInExecutor(c) \/ LoopHears(c) \/ Resume(c)
    \/ CancelAcquire(c) \/ CheckClosed(c) \/ Register(c) \/ Write(c) \/ Receive(c)
    \/ Consume(c) \/ Abandon(c) \/ Pop(c) \/ ReleasePermit(c) \/ Cancel(c)

WorkerNext ==
    \/ \E c \in Callers : CallerStep(c) \/ WorkerStep(c)
    \/ SetClosed \/ CloseWakes \/ Dispatch \/ ReaderEnds \/ ReaderFails \/ WorkerDies

WorkerSpec == WorkerInit /\ [][WorkerNext]_workerVars

-----------------------------------------------------------------------------
(* Properties *)

Holders == {c \in Callers : pc[c] \in Holding \/ grab[c] \in {"posted", "set"}}

Events == {"chunk", "final", "exit"}

HasSentinel(c) == \E i \in DOMAIN queue[c] : queue[c][i] = "exit"

(* Type invariant.                                                         *)
WorkerTypeOK ==
    /\ queueing \in BOOLEAN /\ permits \in 0..Slots /\ lost \in 0..Slots
    /\ pc \in [Callers -> Phases] /\ grab \in [Callers -> Grabs]
    /\ entries \subseteq Callers /\ natural \subseteq Callers
    /\ queue \in [Callers -> Seq(Events)]
    /\ {closed, woken, reading, crashed, alive} \subseteq BOOLEAN
    /\ stopping \subseteq working /\ working \subseteq Callers
    /\ out \in Seq(Callers \X Events)

(* Every permit is free, with one caller, or among the lost ones: no exit  *)
(* of request() or send_request() releases twice or not at all.            *)
PermitsConserved == permits + Cardinality(Holders) + lost = Slots

(* Whoever is in flight when close() is called or the reader ends is woken *)
(* by a sentinel, not by the timeout: a caller that waits on without one   *)
(* has registered after a reader that crashed (the entries of all others   *)
(* were taken out in the same step), and that lasts until close().  Such a *)
(* caller waits its 60 s, whatever its worker does.                        *)
CallersInFlightAreWoken ==
    \A c \in Callers :
        pc[c] = "waiting" /\ (woken \/ ~reading) =>
            HasSentinel(c) \/ (crashed /\ ~woken /\ c \in entries)

(* "CRITICAL ordering": the reader never drops an event of a request whose *)
(* caller listens, unless the caller has its sentinel.                     *)
EventsFindTheirQueue ==
    \A c \in Callers :
        pc[c] \in {"registered", "waiting", "consuming"} /\ (c \in working \/ Count(c, out) > 0)
        => c \in entries \/ HasSentinel(c) \/ c \in natural

(* The entry of a request does not outlive its call.                       *)
EntriesAreOfLiveCalls ==
    \A c \in entries : pc[c] \in {"registered", "waiting", "consuming", "leaving"}

(* close(): no request is written to the worker after it.                  *)
NoWriteAfterClose == [][closed => working' \subseteq working]_workerVars

(* send_request: a permit that is acquired late is released, not leaked.   *)
NoPermitIsLost == lost = 0

(* The in-flight map serves exactly the calls that are under way: no event *)
(* of theirs is dropped, and nothing is kept for calls that are over.      *)
EventsReachTheirCaller ==
  /\ WorkerTypeOK
  /\ EventsFindTheirQueue
  /\ EntriesAreOfLiveCalls
=============================================================================
