---------------------------- MODULE AsrInferGate ----------------------------
(***************************************************************************)
(* server/core/asr_infer_gate.py: the FIFO, bounded, cancellation-safe     *)
(* gate in front of the shared ASR runtime.                                *)
(*                                                                         *)
(* The gate lives on one asyncio event loop, so the code between two       *)
(* awaits is one action.  What makes it delicate is that a waiter's future *)
(* and the task that awaits it move at different moments: set_result and   *)
(* cancel() only SCHEDULE the task, which resumes in a later turn of the   *)
(* loop.  `phase` therefore separates the moment a future is resolved      *)
(* (granted, withdrawn) from the moment its task runs again.               *)
(***************************************************************************)
EXTENDS Integers, Sequences, FiniteSets

CONSTANTS Tasks,        (* the session tasks that run utterances           *)
          Concurrency,  (* simultaneous holders, the `concurrency` argument *)
          MaxWaiting,   (* backlog bound, the `max_waiting` argument       *)
          Unbounded     (* the value of MaxWaiting that stands for None    *)

ASSUME GateAssumption ==
    /\ Concurrency \in Nat \ {0}
    /\ MaxWaiting \in Nat \cup {Unbounded}

ASSUME TasksFinite == IsFiniteSet(Tasks)

VARIABLES running,   (* _running: permits handed out                       *)
          waiters,   (* _waiters: the deque of futures, named by task      *)
          phase      (* where each task stands in acquire()                *)

vars == <<running, waiters, phase>>

(* idle       outside the gate                                             *)
(* queued     awaiting a pending future that is in the deque               *)
(* withdrawn  its future was cancelled, the task has not resumed yet       *)
(* granted    its future has a result, the task has not resumed yet        *)
(* revoked    granted, then cancelled before it resumed                    *)
(* holding    in the critical section                                      *)
(* rejected   turned away with InferenceQueueFull                          *)
Phases == {"idle", "queued", "withdrawn", "granted", "revoked", "holding", "rejected"}

PermitPhases == {"granted", "revoked", "holding"}

-----------------------------------------------------------------------------
(* State functions *)

Pending(i) == phase[waiters[i]] = "queued"

(* The tasks that own a permit, whether or not they have noticed.          *)
Owners == {t \in Tasks : phase[t] \in PermitPhases}

BacklogFull == MaxWaiting # Unbounded /\ Len(waiters) >= MaxWaiting

Init ==
    /\ running = 0
    /\ waiters = <<>>
    /\ phase = [t \in Tasks |-> "idle"]

-----------------------------------------------------------------------------
(* Actions *)

(* Mistake: the newest waiter is served.                                   *)
WakeNewest(t, to) ==
    \/ \E i \in DOMAIN waiters :
          /\ Pending(i)
          /\ \A j \in (i + 1) .. Len(waiters) : ~Pending(j)
          /\ waiters' = SubSeq(waiters, 1, i - 1)
          /\ phase' = [phase EXCEPT ![t] = to, ![waiters[i]] = "granted"]
          /\ UNCHANGED running
    \/ /\ \A i \in DOMAIN waiters : ~Pending(i)
       /\ waiters' = <<>>
       /\ phase' = [phase EXCEPT ![t] = to]
       /\ running' = running - 1

(* _wake_next, run by task t as it leaves for phase `to`: pop futures that *)
(* are already done, resolve the first pending one, and give the permit    *)
(* back to the counter only when there is none.                            *)
WakeNext(t, to) ==
    \/ \E i \in DOMAIN waiters :
          /\ Pending(i)
          /\ \A j \in 1 .. (i - 1) : ~Pending(j)
          /\ waiters' = SubSeq(waiters, i + 1, Len(waiters))
          /\ phase' = [phase EXCEPT ![t] = to, ![waiters[i]] = "granted"]
          /\ UNCHANGED running
    \/ /\ \A i \in DOMAIN waiters : ~Pending(i)
       /\ waiters' = <<>>
       /\ phase' = [phase EXCEPT ![t] = to]
       /\ running' = running - 1

(* acquire(), fast path: no await between the test and the increment.      *)
EnterFast(t) ==
    /\ phase[t] = "idle"
    /\ running < Concurrency
    /\ running' = running + 1
    /\ phase' = [phase EXCEPT ![t] = "holding"]
    /\ UNCHANGED waiters

(* acquire(), backlog full: InferenceQueueFull.                            *)
Reject(t) ==
    /\ phase[t] = "idle"
    /\ running >= Concurrency
    /\ BacklogFull
    /\ phase' = [phase EXCEPT ![t] = "rejected"]
    /\ UNCHANGED <<running, waiters>>

(* acquire(), slow path up to `await fut`.                                 *)
Enqueue(t) ==
    /\ phase[t] = "idle"
    /\ running >= Concurrency
    /\ ~BacklogFull
    /\ waiters' = Append(waiters, t)
    /\ phase' = [phase EXCEPT ![t] = "queued"]
    /\ UNCHANGED running

(* The granted task resumes after `await fut` and enters the body.         *)
Resume(t) ==
    /\ phase[t] = "granted"
    /\ phase' = [phase EXCEPT ![t] = "holding"]
    /\ UNCHANGED <<running, waiters>>

(* task.cancel() on a task parked at `await fut`: a pending future is      *)
(* cancelled; one that already has its result is not, and the task will be *)
(* thrown CancelledError when it resumes.                                  *)
Cancel(t) ==
    /\ \/ phase[t] = "queued" /\ phase' = [phase EXCEPT ![t] = "withdrawn"]
       \/ phase[t] = "granted" /\ phase' = [phase EXCEPT ![t] = "revoked"]
    /\ UNCHANGED <<running, waiters>>

(* The cancelled task resumes, its future never granted: remove the future *)
(* if _wake_next has not popped it already.                                *)
ResumeWithdrawn(t) ==
    /\ phase[t] = "withdrawn"
    /\ \/ \E i \in DOMAIN waiters :
             /\ waiters[i] = t
             /\ waiters' = SubSeq(waiters, 1, i - 1) \o SubSeq(waiters, i + 1, Len(waiters))
       \/ /\ \A i \in DOMAIN waiters : waiters[i] # t
          /\ UNCHANGED waiters
    /\ phase' = [phase EXCEPT ![t] = "idle"]
    /\ UNCHANGED running

(* Mistake: the cancellation branch swallows the permit.                   *)
SwallowPermit(t) ==
    /\ phase[t] = "revoked"
    /\ phase' = [phase EXCEPT ![t] = "idle"]
    /\ UNCHANGED <<running, waiters>>

(* The cancelled task resumes owning a permit: pass it on.                 *)
ResumeRevoked(t) == phase[t] = "revoked" /\ WakeNext(t, "idle")

(* Leaving the critical section, normally or by an exception.              *)
Release(t) == phase[t] = "holding" /\ WakeNext(t, "idle")

(* The rejected session stays open and goes on to its next utterance.      *)
NextUtterance(t) ==
    /\ phase[t] = "rejected"
    /\ phase' = [phase EXCEPT ![t] = "idle"]
    /\ UNCHANGED <<running, waiters>>

Next ==
    \E t \in Tasks :
        \/ EnterFast(t) \/ Reject(t) \/ Enqueue(t)
        \/ Resume(t) \/ Cancel(t) \/ ResumeWithdrawn(t) \/ ResumeRevoked(t)
        \/ Release(t) \/ NextUtterance(t)

(* The event loop runs every task it has scheduled, and the body of the    *)
(* critical section (one utterance's inference) ends.  Nothing obliges a   *)
(* client to speak or anybody to cancel.                                   *)
Fairness ==
    \A t \in Tasks :
        /\ WF_vars(Resume(t))
        /\ WF_vars(ResumeWithdrawn(t))
        /\ WF_vars(ResumeRevoked(t))
        /\ WF_vars(Release(t))

Spec == Init /\ [][Next]_vars

FairSpec == Spec /\ Fairness

-----------------------------------------------------------------------------
(* Properties *)

(* Every value has its type: the counter, the deque, the phase of a task.  *)
TypeOK ==
    /\ running \in 0 .. Concurrency
    /\ waiters \in Seq(Tasks)
    /\ phase \in [Tasks -> Phases]

(* The counter `_running` is exactly the number of tasks that own a        *)
(* permit, including one that was handed it and cancelled in the same      *)
(* tick: no interleaving of _wake_next and cancellation loses or forges a  *)
(* permit.                                                                 *)
PermitsConserved == running = Cardinality(Owners)

(* The shared runtime is never entered by more than `concurrency` tasks,   *)
(* the reason the gate exists (asr_infer_gate.py, "the whole point").      *)
AtMostConcurrencyHolders == Cardinality({t \in Tasks : phase[t] = "holding"}) <= Concurrency

(* Ownership transfer, not a re-race: while a live waiter is in the deque  *)
(* no permit is free, so a newcomer's fast path cannot barge in.           *)
NoFreePermitWhileWaiting ==
    (\E t \in Tasks : phase[t] = "queued") => running = Concurrency

(* A task parked on its future is in the deque, and the deque holds no     *)
(* future twice and none whose task has moved on, so _wake_next can always *)
(* reach a waiter: one the deque has forgotten would wait for ever.        *)
WaitersAreInTheDeque ==
    /\ \A t \in Tasks : phase[t] = "queued" => \E i \in DOMAIN waiters : waiters[i] = t
    /\ \A i, j \in DOMAIN waiters : waiters[i] = waiters[j] => i = j
    /\ \A i \in DOMAIN waiters : phase[waiters[i]] \in {"queued", "withdrawn"}

(* A waiting utterance is eventually served or cancelled: a permit is      *)
(* never lost to a waiter that was cancelled on the way to it.             *)
EveryWaiterIsAnswered == \A t \in Tasks : phase[t] = "queued" ~> phase[t] # "queued"

(* How many of the first i members of w are in the set S, and those that   *)
(* are, in their order in w.                                               *)
CountIn(w, S, i) == Cardinality({j \in 1 .. i : w[j] \in S})

Among(w, S) ==
    [n \in 1 .. CountIn(w, S, Len(w)) |->
        w[CHOOSE i \in DOMAIN w : w[i] \in S /\ CountIn(w, S, i) = n]]

Live == {t \in Tasks : phase[t] = "queued"}

(* The gate implements the abstract semaphore: futures that are done but   *)
(* still in the deque, and tasks that have not resumed yet, are invisible. *)
Semaphore == INSTANCE FifoSemaphore
             WITH Clients <- Tasks, Permits <- Concurrency,
                  owners <- Owners, line <- Among(waiters, Live)

ImplementsSemaphore == Semaphore!Spec

(* The gate as a whole: permits are conserved, at most `concurrency` tasks *)
(* are inside, and no waiter is forgotten or passed by, whichever future   *)
(* is cancelled in the tick in which it is granted.                        *)
GateIsSound ==
  /\ TypeOK
  /\ PermitsConserved
  /\ AtMostConcurrencyHolders
  /\ NoFreePermitWhileWaiting
  /\ WaitersAreInTheDeque
=============================================================================
