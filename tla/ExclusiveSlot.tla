---------------------------- MODULE ExclusiveSlot ---------------------------
(***************************************************************************)
(* The backend coordinator in exclusive mode (coordinator.py): recognition *)
(* and synthesis share one lock, and whoever enters unloads the other      *)
(* modality and loads his own again if it was unloaded.  The managers know *)
(* nothing of it: a backend unloaded here is still READY there, and a      *)
(* reload swaps a backend without the coordinator's lock.                  *)
(*                                                                         *)
(* A party with a lease is an HTTP request or a synthesis stream: it takes *)
(* the lease of its manager, then the lock, and gives them back in the     *)
(* other order (TtsStream has the inside of a stream).  A recognition      *)
(* session on a WebSocket has none: it keeps the backend object it was     *)
(* opened with, takes the lock for each call or for the whole connection,  *)
(* and a reload does not wait for it.  A recognition that is cancelled     *)
(* leaves its executor thread behind.  The drain of a reload, its profile  *)
(* and how it closes sessions are in BackendManager.                       *)
(***************************************************************************)
EXTENDS Integers, Sequences, FiniteSets

CONSTANTS Clients   \* requests and sessions

Modalities == {"asr", "tts"}
OtherKind(k) == IF k = "asr" THEN "tts" ELSE "asr"

VARIABLES
  party,      \* a request or session: [kind, at, leased, old]; old: the
              \* manager swapped its backend since the session was opened
  lockQueue,  \* waiters of _lock, oldest first
  inSlot,     \* who holds _lock
  managers,   \* the state of each BackendManager
  resident,   \* kinds whose backend is loaded (is_ready())
  brought,    \* history: kinds a manager loaded since the last entry
  starter     \* the lazy start of tts: "idle", "waiting" or "done"

slotState == <<lockQueue, inSlot>>
exclVars == <<party, lockQueue, inSlot, managers, resident, brought, starter>>

Empty == "empty"
Starter == "starter"    \* whoever holds _tts_lazy_start_lock
ASSUME ClientAssumption == Empty \notin Clients /\ Starter \notin Clients

Away == [kind |-> "asr", at |-> "away", leased |-> FALSE, old |-> FALSE]
\* Requests that hold the lease of their manager.
Leasing(k) ==
  {c \in Clients : party[c].kind = k /\ party[c].leased /\ party[c].at \in {"waiting", "inside"}}
\* Sessions on the backend object of a manager.
OnBackend(k) ==
  {c \in Clients : party[c].kind = k /\ ~party[c].leased /\ party[c].at \in {"open", "waiting", "inside"}}

\* Exclusive profiles keep asr resident and load tts with its first request;
\* without LAZY_TTS startup loads both.
ExclInit ==
  /\ party = [c \in Clients |-> Away]
  /\ lockQueue = <<>> /\ inSlot = Empty
  /\ \/ managers = [k \in Modalities |-> "ready"] /\ resident = Modalities
     \/ managers = [k \in Modalities |-> IF k = "asr" THEN "ready" ELSE "init"] /\ resident = {"asr"}
  /\ brought = {} /\ starter = "idle"

-----------------------------------------------------------------------------
\* A waiter that is cancelled leaves the queue of the lock.
LeavesQueue(w) ==
  \E i \in DOMAIN lockQueue :
    /\ lockQueue[i] = w
    /\ lockQueue' = SubSeq(lockQueue, 1, i - 1) \o SubSeq(lockQueue, i + 1, Len(lockQueue))

At(c, place) == party' = [party EXCEPT ![c].at = place]
GoesAway(c) == party' = [party EXCEPT ![c] = Away]

\* manager.acquire(), then the queue of the lock.
Request(c, k) ==
  /\ party[c].at = "away" /\ managers[k] = "ready"
  /\ party' = [party EXCEPT ![c] = [Away EXCEPT !.kind = k, !.at = "waiting", !.leased = TRUE]]
  /\ lockQueue' = Append(lockQueue, c)
  /\ UNCHANGED <<inSlot, managers, resident, brought, starter>>

\* A recognition session opens on a loaded backend, in any state of its
\* manager.
OpenSession(c) ==
  /\ party[c].at = "away" /\ "asr" \in resident
  /\ party' = [party EXCEPT ![c] = [Away EXCEPT !.at = "open"]]
  /\ UNCHANGED <<slotState, managers, resident, brought, starter>>

SessionAsks(c) ==
  /\ party[c].at = "open"
  /\ At(c, "waiting")
  /\ lockQueue' = Append(lockQueue, c)
  /\ UNCHANGED <<inSlot, managers, resident, brought, starter>>

CloseSession(c) ==
  /\ party[c].at = "open"
  /\ GoesAway(c)
  /\ UNCHANGED <<slotState, managers, resident, brought, starter>>

\* The first request for tts starts its manager, one at a time.
RequestStart ==
  /\ managers["tts"] = "init" /\ starter = "idle"
  /\ starter' = "waiting"
  /\ lockQueue' = Append(lockQueue, Starter)
  /\ UNCHANGED <<party, inSlot, managers, resident, brought>>

\* Mistake: its own backend is taken to be loaded.
LetInAsIs(k) == resident \ {OtherKind(k)}

\* What is loaded when kind k has been let in: the other one is evicted and
\* its own is loaded again, which may fail.
LetIn(k) == (resident \ {OtherKind(k)}) \cup {k}

Enter(c) ==
  /\ inSlot = Empty /\ lockQueue # <<>> /\ Head(lockQueue) = c /\ c # Starter
  /\ lockQueue' = Tail(lockQueue)
  /\ brought' = {}
  /\ \/ resident' = LetIn(party[c].kind) /\ inSlot' = c /\ At(c, "inside")
     \* preload() raised: the lock and the lease are given back
     \/ /\ party[c].kind \notin resident
        /\ resident' = resident \ {OtherKind(party[c].kind)}
        /\ inSlot' = Empty /\ GoesAway(c)
     \* a reload that failed since the session was opened left no object
     \/ /\ party[c].old /\ managers[party[c].kind] = "failed" /\ party[c].kind \notin resident
        /\ resident' = resident \ {OtherKind(party[c].kind)}
        /\ inSlot' = c /\ At(c, "inside")
  /\ UNCHANGED <<managers, starter>>

\* The lazy start enters to evict asr, leaves and loads in one go; a load
\* that fails leaves the manager FAILED.
StarterEnters ==
  /\ inSlot = Empty /\ lockQueue # <<>> /\ Head(lockQueue) = Starter
  /\ lockQueue' = Tail(lockQueue)
  /\ starter' = "done"
  /\ \/ managers' = [managers EXCEPT !["tts"] = "ready"] /\ resident' = {"tts"} /\ brought' = {}
     \/ managers' = [managers EXCEPT !["tts"] = "failed"] /\ resident' = {} /\ brought' = {}
  /\ UNCHANGED <<party, inSlot>>

\* Done, or broken off: lock and lease are free, a session stays open.
Exit(c) ==
  /\ party[c].at = "inside"
  /\ inSlot' = Empty /\ IF party[c].leased THEN GoesAway(c) ELSE At(c, "open")
  /\ UNCHANGED <<lockQueue, managers, resident, brought, starter>>

\* The party of a recognition went away: lock and lease are free and the
\* thread decodes on.
Abandon(c) ==
  /\ party[c].at = "inside" /\ party[c].kind = "asr"
  /\ inSlot' = Empty /\ At(c, "detached")
  /\ UNCHANGED <<lockQueue, managers, resident, brought, starter>>

ThreadEnds(c) ==
  /\ party[c].at = "detached"
  /\ GoesAway(c)
  /\ UNCHANGED <<lockQueue, inSlot, managers, resident, brought, starter>>

CancelWaiting(c) ==
  /\ party[c].at = "waiting"
  /\ LeavesQueue(c)
  /\ GoesAway(c)
  /\ UNCHANGED <<inSlot, managers, resident, brought, starter>>

CancelStarter ==
  /\ starter = "waiting"
  /\ LeavesQueue(Starter)
  /\ starter' = "idle"
  /\ UNCHANGED <<party, inSlot, managers, resident, brought>>

-----------------------------------------------------------------------------
(* A reload of one modality.                                               *)

BeginReload(k) ==
  /\ managers[k] = "ready"
  /\ managers' = [managers EXCEPT ![k] = "draining"]
  /\ UNCHANGED <<party, slotState, resident, brought, starter>>

\* Nobody holds a lease: the swap, whose outcome is a loaded backend (the new
\* one or the old profile's) or none and FAILED.  The sessions keep the
\* object that it unloaded.
Swap(k) ==
  /\ managers[k] = "draining" /\ Leasing(k) = {}
  /\ \/ /\ managers' = [managers EXCEPT ![k] = "ready"]
        /\ resident' = resident \cup {k} /\ brought' = brought \cup {k}
     \/ /\ managers' = [managers EXCEPT ![k] = "failed"]
        /\ resident' = resident \ {k} /\ UNCHANGED brought
  /\ party' = [c \in Clients |-> IF c \in OnBackend(k) THEN [party[c] EXCEPT !.old = TRUE] ELSE party[c]]
  /\ UNCHANGED <<slotState, starter>>

\* The drain timed out: the backend stays.
DrainGivesUp(k) ==
  /\ managers[k] = "draining" /\ Leasing(k) # {}
  /\ managers' = [managers EXCEPT ![k] = "ready"]
  /\ UNCHANGED <<party, slotState, resident, brought, starter>>

ExclNext ==
  \/ \E c \in Clients : \/ \E k \in Modalities : Request(c, k)
                        \/ OpenSession(c) \/ SessionAsks(c) \/ CloseSession(c)
                        \/ Enter(c) \/ Exit(c) \/ Abandon(c) \/ ThreadEnds(c) \/ CancelWaiting(c)
  \/ RequestStart \/ StarterEnters \/ CancelStarter
  \/ \E k \in Modalities : BeginReload(k) \/ Swap(k) \/ DrainGivesUp(k)

ExclSpec == ExclInit /\ [][ExclNext]_exclVars

-----------------------------------------------------------------------------
\* Who waits for the lock.
Queued == {lockQueue[i] : i \in DOMAIN lockQueue}

ExclTypeOK ==
  /\ party \in [Clients -> [kind : Modalities, at : {"away", "open", "waiting", "inside", "detached"},
                          leased : BOOLEAN, old : BOOLEAN]]
  /\ inSlot \in Clients \cup {Empty} /\ lockQueue \in Seq(Clients \cup {Starter})
  /\ managers \in [Modalities -> {"init", "ready", "draining", "failed"}]
  /\ resident \subseteq Modalities /\ brought \subseteq Modalities /\ starter \in {"idle", "waiting", "done"}

\* The lock is held by the one request inside, and the queue knows whoever
\* waits.
LockIsConsistent ==
  /\ {c \in Clients : party[c].at = "inside"} = {inSlot} \ {Empty}
  /\ Queued \cap Clients = {c \in Clients : party[c].at = "waiting"}
  /\ (Starter \in Queued) = (starter = "waiting")

\* Whoever is inside has its backend, whatever was unloaded for others and
\* whatever is being reloaded; the exception are sessions whose backend a
\* reload has swapped since they were opened, for they hold no lease.
InsideHasItsBackend == inSlot # Empty => party[inSlot].old \/ party[inSlot].kind \in resident

\* No reload swaps a backend beneath a lease.
LeasesHold == \A c \in Clients : party[c].old => ~party[c].leased

\* While it is, the other modality is not resident, unless a reload has
\* loaded it since.
ExclusiveResidency == inSlot # Empty => resident \subseteq {party[inSlot].kind} \cup brought

ExclusiveSlotIsSound == ExclTypeOK /\ LockIsConsistent /\ InsideHasItsBackend /\ LeasesHold /\ ExclusiveResidency
=============================================================================
