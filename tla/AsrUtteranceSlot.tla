-------------------------- MODULE AsrUtteranceSlot --------------------------
(***************************************************************************)
(* main.py, sentence-level ASR locking: every utterance of a streaming     *)
(* session takes the inference gate, then the coordinator lock, then runs  *)
(* its backend calls on executor threads, and gives both back only when no *)
(* thread of its own is left in the backend.                               *)
(*                                                                         *)
(* The gate appears as the FIFO semaphore that AsrInferGate implements.    *)
(* The coordinator lock is the FIFO asyncio.Lock of the serialized mode;   *)
(* the HTTP handlers take it without passing the gate, and an HTTP decode  *)
(* (api_execution._decode) does not drain: cancelled, it gives the lock    *)
(* back with its thread still in the backend.                              *)
(***************************************************************************)
EXTENDS Integers, Sequences, FiniteSets

CONSTANTS Streams,      (* streaming sessions                              *)
          HttpRequests, (* HTTP ASR and TTS requests                       *)
          SlotPermits,  (* permits of the gate                             *)
          SlotBacklog,  (* its backlog bound                               *)
          Nobody

ASSUME SlotAssumption ==
    /\ SlotPermits \in Nat \ {0}
    /\ SlotBacklog \in Nat
    /\ Streams \cap HttpRequests = {}
    /\ Nobody \notin Streams \cup HttpRequests

VARIABLES owners, line,   (* the gate: owners of a permit, and its queue   *)
          holder,         (* owner of the coordinator lock                 *)
          parked,         (* FIFO of tasks awaiting that lock              *)
          place,          (* where each task stands                        *)
          threads,        (* tasks with a thread inside the backend        *)
          deserted,       (* those of them whose slot was given back early:*)
                          (* streams cancelled twice, HTTP decodes         *)
                          (* cancelled once                                *)
          serialized      (* coordinator mode: serialized, or concurrent   *)
                          (* (no lock)                                     *)

slotVars == <<owners, line, holder, parked, place, threads, deserted, serialized>>

Gate == INSTANCE FifoSemaphore WITH Clients <- Streams, Permits <- SlotPermits

(* idle; gate: awaiting or just granted a permit; lock: awaiting the       *)
(* coordinator lock; inside: in the slot, no call in flight; job: awaiting *)
(* an executor call; drain: cancelled, awaiting the call to finish         *)
Places == {"idle", "gate", "lock", "inside", "job", "drain"}

SlotTasks == Streams \cup HttpRequests

InSlot == {t \in Streams : place[t] \in {"inside", "job", "drain"}}

Without(q, i) == SubSeq(q, 1, i - 1) \o SubSeq(q, i + 1, Len(q))

SlotInit ==
    /\ Gate!Init
    /\ holder = Nobody /\ parked = <<>>
    /\ place = [t \in SlotTasks |-> "idle"]
    /\ threads = {} /\ deserted = {}
    /\ serialized \in BOOLEAN

-----------------------------------------------------------------------------
(* get_coordinator().acquire: nothing to do in concurrent mode.            *)
ArriveAtLock(t) ==
    IF ~serialized
    THEN place' = [place EXCEPT ![t] = "inside"] /\ UNCHANGED <<holder, parked>>
    ELSE IF holder = Nobody /\ parked = <<>>
    THEN holder' = t /\ place' = [place EXCEPT ![t] = "inside"] /\ UNCHANGED parked
    ELSE parked' = Append(parked, t) /\ place' = [place EXCEPT ![t] = "lock"]
         /\ UNCHANGED holder

(* The lock is free and its first waiter, which was woken, resumes.        *)
TakeLock(t) ==
    /\ holder = Nobody /\ parked # <<>> /\ t = Head(parked)
    /\ holder' = t
    /\ parked' = Tail(parked)
    /\ place' = [place EXCEPT ![t] = "inside"]
    /\ UNCHANGED <<owners, line, threads, deserted, serialized>>

(* The lock, or the place in its queue, is given up.                       *)
GiveLock(t) ==
    /\ holder' = IF holder = t THEN Nobody ELSE holder
    /\ IF place[t] = "lock" THEN \E i \in DOMAIN parked : parked[i] = t /\ parked' = Without(parked, i)
                            ELSE UNCHANGED parked
    /\ place' = [place EXCEPT ![t] = "idle"]

(* Both context managers unwind: the lock first, then the permit.          *)
LeaveSlot(t) == Gate!PassPermit(t) /\ GiveLock(t)

(* An utterance asks the gate: a free permit leads straight to the lock, a *)
(* full backlog is answered "busy" and changes nothing.                    *)
BeginUtterance(t) ==
    /\ place[t] = "idle" /\ t \notin threads
    /\ \/ Gate!TakePermit(t) /\ ArriveAtLock(t)
       \/ /\ Gate!JoinLine(t) /\ Len(line) < SlotBacklog
          /\ place' = [place EXCEPT ![t] = "gate"]
          /\ UNCHANGED <<holder, parked>>
    /\ UNCHANGED <<threads, deserted, serialized>>

Granted(t) ==
    /\ place[t] = "gate" /\ t \in owners
    /\ ArriveAtLock(t)
    /\ UNCHANGED <<owners, line, threads, deserted, serialized>>

Submit(t) ==
    /\ place[t] = "inside"
    /\ place' = [place EXCEPT ![t] = "job"]
    /\ threads' = threads \cup {t}
    /\ UNCHANGED <<owners, line, holder, parked, deserted, serialized>>

(* An executor thread returns: to its caller, to the drain of a cancelled  *)
(* slot, or to nobody.                                                     *)
WorkerReturns(t) ==
    /\ t \in threads
    /\ threads' = threads \ {t}
    /\ deserted' = deserted \ {t}
    /\ UNCHANGED serialized
    /\ CASE place[t] = "job" ->
              place' = [place EXCEPT ![t] = "inside"] /\ UNCHANGED <<owners, line, holder, parked>>
         [] place[t] = "drain" -> LeaveSlot(t)
         [] OTHER -> UNCHANGED <<owners, line, holder, parked, place>>

(* Mistake: the permit is not passed on.                                   *)
EndKeepsPermit(t) ==
    /\ place[t] = "inside"
    /\ holder' = IF holder = t THEN Nobody ELSE holder
    /\ place' = [place EXCEPT ![t] = "idle"]
    /\ UNCHANGED <<owners, line, parked, threads, deserted, serialized>>

EndUtterance(t) ==
    /\ place[t] = "inside"
    /\ LeaveSlot(t)
    /\ UNCHANGED <<threads, deserted, serialized>>

(* Mistake: a cancelled call gives the slot back at once.                  *)
CancelWithoutDrain(t) ==
    /\ place[t] = "job"
    /\ LeaveSlot(t)
    /\ UNCHANGED <<threads, deserted, serialized>>

(* The handler task is cancelled in the await it is in.  In a call: the    *)
(* thread cannot be stopped, so the slot is kept for the drain, unless the *)
(* pool had not started it.  In the drain: the slot is given back with the *)
(* thread still running.                                                   *)
CancelStream(t) ==
    \/ /\ place[t] = "gate" /\ t \notin owners
       /\ Gate!GiveUp(t)
       /\ place' = [place EXCEPT ![t] = "idle"]
       /\ UNCHANGED <<holder, parked, threads, deserted, serialized>>
    \/ /\ place[t] \in {"gate", "lock"} /\ t \in owners
       /\ LeaveSlot(t)
       /\ UNCHANGED <<threads, deserted, serialized>>
    \/ /\ place[t] = "job"
       /\ place' = [place EXCEPT ![t] = "drain"]
       /\ UNCHANGED <<owners, line, holder, parked, threads, deserted, serialized>>
    \/ /\ place[t] = "job"
       /\ LeaveSlot(t)
       /\ threads' = threads \ {t}
       /\ UNCHANGED <<deserted, serialized>>
    \/ /\ place[t] = "drain"
       /\ LeaveSlot(t)
       /\ deserted' = deserted \cup {t}
       /\ UNCHANGED <<threads, serialized>>

(* The HTTP handlers.  A decode goes to an executor thread; a synthesis    *)
(* runs on the loop, or is awaited to its end even if cancelled.           *)
OtherArrives(p) ==
    /\ place[p] = "idle" /\ p \notin threads
    /\ ArriveAtLock(p)
    /\ UNCHANGED <<owners, line, threads, deserted, serialized>>

OtherDecodes(p) ==
    /\ place[p] = "inside"
    /\ place' = [place EXCEPT ![p] = "job"]
    /\ threads' = threads \cup {p}
    /\ UNCHANGED <<owners, line, holder, parked, deserted, serialized>>

(* The thread returns: to the handler, which leaves, or to nobody.         *)
DecodeReturns(p) ==
    /\ p \in threads
    /\ threads' = threads \ {p}
    /\ deserted' = deserted \ {p}
    /\ IF place[p] = "job" THEN GiveLock(p) ELSE UNCHANGED <<holder, parked, place>>
    /\ UNCHANGED <<owners, line, serialized>>

OtherEnds(p) ==
    /\ place[p] = "inside"
    /\ GiveLock(p)
    /\ UNCHANGED <<owners, line, threads, deserted, serialized>>

(* Cancelled in the queue, or in the decode: nothing waits for the thread, *)
(* which is left in the backend unless the pool had not started it.        *)
OtherCancelled(p) ==
    /\ place[p] \in {"lock", "job"}
    /\ GiveLock(p)
    /\ \/ deserted' = deserted \cup (threads \cap {p}) /\ UNCHANGED threads
       \/ threads' = threads \ {p} /\ UNCHANGED deserted
    /\ UNCHANGED <<owners, line, serialized>>

HttpStep(p) ==
    OtherArrives(p) \/ OtherDecodes(p) \/ DecodeReturns(p) \/ OtherEnds(p) \/ OtherCancelled(p)

StreamStep(t) ==
    BeginUtterance(t) \/ Granted(t) \/ Submit(t) \/ WorkerReturns(t) \/ EndUtterance(t) \/ CancelStream(t)

SlotNext ==
    \/ \E t \in Streams : StreamStep(t)
    \/ \E p \in HttpRequests : HttpStep(p)
    \/ \E t \in SlotTasks : TakeLock(t)

SlotSpec == SlotInit /\ [][SlotNext]_slotVars

(* The loop resumes what it can; a backend call returns; a handler between *)
(* two calls makes the next or leaves, and does leave.                     *)
SlotFairness ==
    /\ \A t \in Streams : /\ WF_slotVars(Granted(t)) /\ WF_slotVars(WorkerReturns(t))
                          /\ SF_slotVars(EndUtterance(t))
    /\ \A p \in HttpRequests : WF_slotVars(OtherEnds(p)) /\ WF_slotVars(DecodeReturns(p))
    /\ \A t \in SlotTasks : WF_slotVars(TakeLock(t))

SlotFairSpec == SlotSpec /\ SlotFairness

-----------------------------------------------------------------------------
(* Properties *)

(* Type invariant.                                                         *)
SlotTypeOK ==
    /\ owners \subseteq Streams /\ line \in Seq(Streams)
    /\ holder \in SlotTasks \cup {Nobody} /\ parked \in Seq(SlotTasks)
    /\ place \in [SlotTasks -> Places]
    /\ deserted \subseteq threads /\ threads \subseteq SlotTasks /\ serialized \in BOOLEAN

(* The docstring of _asr_utterance_slot: the gate comes first, so that the *)
(* streams that wait for the unbounded lock, together with the ones that   *)
(* are inside, never exceed the permits.                                   *)
FewStreamsAtTheLock ==
    Cardinality({t \in Streams : place[t] = "lock"} \cup InSlot) <= SlotPermits

(* A thread is in the shared backend only while the task it works for      *)
(* keeps its slot.  Deserted threads are the exception: of a stream that   *)
(* was cancelled a second time, in its drain, and of an HTTP decode that   *)
(* was cancelled at all, for _decode has no drain.                         *)
ThreadsKeepTheirSlot ==
    threads \ deserted \subseteq {t \in SlotTasks : place[t] \in {"job", "drain"}}

(* In serialized mode every thread but the deserted ones works for the     *)
(* holder of the lock, and so does an HTTP handler in the device: a        *)
(* stream's thread keeps the others out even after its client went away.   *)
ThreadsExcludeOthers ==
    serialized => /\ \A t \in threads \ deserted : holder = t
                  /\ \A p \in HttpRequests : place[p] \in {"inside", "job"} => holder = p

(* No permit and no lock outlives the utterance it was taken for.          *)
NothingHeldAtIdle ==
    \A t \in SlotTasks : place[t] = "idle" =>
        /\ t \notin owners /\ holder # t
        /\ \A i \in DOMAIN line : line[i] # t
        /\ \A i \in DOMAIN parked : parked[i] # t

(* An utterance that was admitted to the backlog runs or is cancelled.     *)
BacklogDrains ==
    \A t \in Streams : place[t] \in {"gate", "lock"} ~> place[t] \in {"inside", "idle"}

(* The slot of a stream is held for as long as its thread needs it and no  *)
(* longer: through one cancellation, its drain and the queue of the lock.  *)
(* An HTTP request's is held until it returns or is cancelled, and then a  *)
(* thread of it may be left beside the next holder's (deserted).           *)
SlotIsKept ==
  /\ SlotTypeOK
  /\ FewStreamsAtTheLock
  /\ ThreadsKeepTheirSlot
  /\ ThreadsExcludeOthers
  /\ NothingHeldAtIdle
=============================================================================
