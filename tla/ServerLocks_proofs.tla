------------------------- MODULE ServerLocks_proofs -------------------------
(* Theorems about the two locks of the server that queue their waiters: the *)
(* utterance slot of the ASR streams and the lock of exclusive mode, for    *)
(* any number of tasks.                                                     *)
EXTENDS AsrInferGate_proofs, AsrUtteranceSlot, ExclusiveSlot

-----------------------------------------------------------------------------
(* Queues of waiters.                                                       *)

(* Queues without repetition: who is in one, ...                          *)
In(x, q) == \E i \in DOMAIN q : q[i] = x
(* ... and nobody twice.                                                  *)
Distinct(q) == \A i, j \in DOMAIN q : q[i] = q[j] => i = j

(* The queue when x has joined it, ...                                    *)
JoinedBy(q, x, d) == d = Append(q, x)

(* ... and when x has left it from where it stood.                        *)
LeftBy(q, x, d) ==
  \E i \in DOMAIN q : q[i] = x /\ d = SubSeq(q, 1, i - 1) \o SubSeq(q, i + 1, Len(q))

(* Joining at the end (deque.append of asyncio.Lock and of the permits)   *)
(* adds the newcomer and nobody else.                                     *)
LEMMA JoinQueue ==
  ASSUME NEW S, NEW q \in Seq(S), NEW x \in S, Distinct(q), ~In(x, q), NEW d, JoinedBy(q, x, d)
  PROVE  d \in Seq(S) /\ Distinct(d) /\ \A y : In(y, d) <=> In(y, q) \/ y = x
<1>1. /\ d \in Seq(S) /\ DOMAIN q = 1..Len(q) /\ Len(q) \in Nat /\ DOMAIN d = 1..(Len(q) + 1)
      /\ \A i \in 1..Len(q) : d[i] = q[i]
      /\ d[Len(q) + 1] = x
  BY AppendProperties, LenProperties DEF JoinedBy
<1>2. QED
  BY <1>1 DEF In, Distinct

(* Leaving at the head (popleft) removes the first and nobody else.       *)
LEMMA LeaveHead ==
  ASSUME NEW S, NEW q \in Seq(S), q # <<>>, Distinct(q), NEW d, d = Tail(q)
  PROVE  /\ d \in Seq(S) /\ Distinct(d) /\ Head(q) \in S /\ In(Head(q), q)
         /\ \A y : In(y, d) <=> In(y, q) /\ y # Head(q)
<1>1. /\ DOMAIN q = 1..Len(q) /\ Len(q) \in Nat /\ Len(q) # 0 /\ Head(q) = q[1] /\ Head(q) \in S
      /\ d \in Seq(S) /\ DOMAIN d = 1..(Len(q) - 1) /\ \A i \in 1..(Len(q) - 1) : d[i] = q[i + 1]
  BY HeadTailProperties, LenProperties, EmptySeq
<1>2. Distinct(d)
  BY <1>1 DEF Distinct
<1>3. ASSUME NEW y, In(y, d) PROVE In(y, q) /\ y # Head(q)
  BY <1>1, <1>3 DEF In, Distinct
<1>4. ASSUME NEW y, In(y, q), y # Head(q) PROVE In(y, d)
  <2>1. PICK i \in DOMAIN q : q[i] = y
    BY <1>4 DEF In
  <2>2. i - 1 \in DOMAIN d /\ d[i - 1] = y
    BY <1>1, <1>4, <2>1
  <2>3. QED
    BY <2>2 DEF In
<1>5. In(Head(q), q)
  <2>1. 1 \in DOMAIN q /\ q[1] = Head(q)
    BY <1>1
  <2>2. QED
    BY <2>1 DEF In
<1>6. QED
  BY <1>1, <1>2, <1>3, <1>4, <1>5

(* What a sequence without its i-th element holds, element by element.    *)
LEMMA CutQueue ==
  ASSUME NEW n \in Nat, NEW q, DOMAIN q = 1..n, Distinct(q), NEW i \in 1..n,
         NEW d, DOMAIN d = 1..(n - 1),
         \A j \in 1..(i - 1) : d[j] = q[j],
         \A j \in i..(n - 1) : d[j] = q[j + 1]
  PROVE  Distinct(d) /\ \A y : In(y, d) <=> In(y, q) /\ y # q[i]
<1>2. \A j \in DOMAIN d : j \in 1..(i - 1) \/ j \in i..(n - 1)
  OBVIOUS
<1>3. Distinct(d)
  <2> SUFFICES ASSUME NEW j \in DOMAIN d, NEW k \in DOMAIN d, d[j] = d[k] PROVE j = k
    BY DEF Distinct
  <2>1. CASE j \in 1..(i - 1) /\ k \in 1..(i - 1)
    BY <2>1 DEF Distinct
  <2>2. CASE j \in 1..(i - 1) /\ k \in i..(n - 1)
    <3>1. q[j] = q[k + 1] /\ j \in DOMAIN q /\ k + 1 \in DOMAIN q /\ j # k + 1
      BY <2>2
    <3>2. QED
      BY <3>1 DEF Distinct
  <2>3. CASE j \in i..(n - 1) /\ k \in 1..(i - 1)
    <3>1. q[k] = q[j + 1] /\ k \in DOMAIN q /\ j + 1 \in DOMAIN q /\ k # j + 1
      BY <2>3
    <3>2. QED
      BY <3>1 DEF Distinct
  <2>4. CASE j \in i..(n - 1) /\ k \in i..(n - 1)
    <3>1. q[k + 1] = q[j + 1] /\ k + 1 \in DOMAIN q /\ j + 1 \in DOMAIN q
      BY <2>4
    <3>2. j + 1 = k + 1
      BY <3>1 DEF Distinct
    <3>3. QED
      BY <3>2
  <2>5. QED
    BY <1>2, <2>1, <2>2, <2>3, <2>4
<1>4. ASSUME NEW y, In(y, d) PROVE In(y, q) /\ y # q[i]
  <2>1. PICK j \in DOMAIN d : d[j] = y
    BY <1>4 DEF In
  <2>2. CASE j \in 1..(i - 1)
    BY <2>1, <2>2 DEF In, Distinct
  <2>3. CASE j \in i..(n - 1)
    <3>1. q[j + 1] = y /\ j + 1 \in DOMAIN q /\ j + 1 # i
      BY <2>1, <2>3
    <3>2. QED
      BY <3>1 DEF In, Distinct
  <2>4. QED
    BY <1>2, <2>2, <2>3
<1>5. ASSUME NEW y, In(y, q), y # q[i] PROVE In(y, d)
  <2>1. PICK j \in DOMAIN q : q[j] = y
    BY <1>5 DEF In
  <2>2. CASE j < i
    <3>1. j \in 1..(i - 1) /\ j \in DOMAIN d
      BY <2>2
    <3>2. QED
      BY <2>1, <3>1 DEF In
  <2>3. CASE j > i
    <3>1. j - 1 \in i..(n - 1) /\ j - 1 \in DOMAIN d /\ (j - 1) + 1 = j
      BY <2>3
    <3>2. d[j - 1] = y
      BY <2>1, <3>1
    <3>3. QED
      BY <3>1, <3>2 DEF In
  <2>4. QED
    BY <1>5, <2>1, <2>2, <2>3
<1>6. QED
  BY <1>3, <1>4, <1>5

(* Leaving from any place (remove, when a waiter is cancelled) removes    *)
(* that waiter and nobody else.                                           *)
LEMMA LeaveAnywhere ==
  ASSUME NEW S, NEW q \in Seq(S), Distinct(q), NEW x, NEW d, LeftBy(q, x, d)
  PROVE  d \in Seq(S) /\ Distinct(d) /\ \A y : In(y, d) <=> In(y, q) /\ y # x
<1>1. DOMAIN q = 1..Len(q) /\ Len(q) \in Nat
  BY LenProperties
<1>2. PICK i \in DOMAIN q : q[i] = x /\ d = SubSeq(q, 1, i - 1) \o SubSeq(q, i + 1, Len(q))
  BY DEF LeftBy
<1>3. /\ d \in Seq(S) /\ DOMAIN d = 1..(Len(q) - 1)
      /\ \A j \in 1..(i - 1) : d[j] = q[j]
      /\ \A j \in i..(Len(q) - 1) : d[j] = q[j + 1]
  <2>1. i \in DOMAIN q /\ d = SubSeq(q, 1, i - 1) \o SubSeq(q, i + 1, Len(q)) /\ q \in Seq(S)
    BY <1>2
  <2>2. QED
    BY ONLY <2>1, RemoveOne, SMTT(20)
<1>4. Distinct(d) /\ \A y : In(y, d) <=> In(y, q) /\ y # q[i]
  <2>1. i \in 1..Len(q) /\ Distinct(q)
    BY <1>1
  <2>2. QED
    BY ONLY <1>1, <1>3, <2>1, CutQueue
<1>5. QED
  BY <1>2, <1>3, <1>4

-----------------------------------------------------------------------------
(* Exclusive mode.                                                          *)

(* The lock, task by task: every waiter is in the queue, nobody twice.    *)
WaitersFacts ==
  /\ lockQueue \in Seq(Clients \cup {Starter})
  /\ \A c \in Clients : party[c].at = "waiting" <=> In(c, lockQueue)
  /\ starter = "waiting" <=> In(Starter, lockQueue)
  /\ Distinct(lockQueue)

(* The types of ExclTypeOK, with the queue left to WaitersFacts.          *)
PartyType ==
  /\ party \in [Clients -> [kind : Modalities, at : {"away", "open", "waiting", "inside", "detached"},
                          leased : BOOLEAN, old : BOOLEAN]]
  /\ inSlot \in Clients \cup {Empty}
  /\ managers \in [Modalities -> {"init", "ready", "draining", "failed"}]
  /\ resident \subseteq Modalities /\ brought \subseteq Modalities /\ starter \in {"idle", "waiting", "done"}

(* The party inside is the one the lock names, its backend is the         *)
(* resident one unless a reload swapped it beneath a session, no lease is *)
(* swapped beneath, and no second backend is resident that no reload      *)
(* loaded.                                                                *)
SlotFacts ==
  /\ \A c \in Clients : party[c].at = "inside" <=> inSlot = c
  /\ InsideHasItsBackend
  /\ LeasesHold
  /\ ExclusiveResidency

(* The queue of the lock and the places of the requests move together:    *)
(* acquire, hand-over, cancellation while waiting.                        *)
LEMMA QueueSteps ==
  ASSUME WaitersFacts, PartyType, [ExclNext]_exclVars
  PROVE  WaitersFacts'
<1> USE ClientAssumption DEF At, GoesAway, Away
<1>0. PICK S : S = Clients \cup {Starter}
  OBVIOUS
<1>1. ASSUME NEW c \in Clients, NEW k \in Modalities, Request(c, k) PROVE WaitersFacts'
  <2>1. /\ lockQueue' \in Seq(S) /\ Distinct(lockQueue')
        /\ \A y : In(y, lockQueue') <=> In(y, lockQueue) \/ y = c
    <3>1. ~In(c, lockQueue) /\ JoinedBy(lockQueue, c, lockQueue') /\ c \in S
      BY <1>0, <1>1 DEF Request, WaitersFacts, JoinedBy
    <3>2. lockQueue \in Seq(S) /\ Distinct(lockQueue)
      BY <1>0 DEF WaitersFacts
    <3>3. QED
      BY ONLY <3>1, <3>2, JoinQueue
  <2>2. QED
    BY <1>0, <1>1, <2>1 DEF Request, WaitersFacts, PartyType
<1>11. ASSUME NEW c \in Clients, SessionAsks(c) PROVE WaitersFacts'
  <2>1. /\ lockQueue' \in Seq(S) /\ Distinct(lockQueue')
        /\ \A y : In(y, lockQueue') <=> In(y, lockQueue) \/ y = c
    <3>1. ~In(c, lockQueue) /\ JoinedBy(lockQueue, c, lockQueue') /\ c \in S
      BY <1>0, <1>11 DEF SessionAsks, WaitersFacts, JoinedBy
    <3>2. lockQueue \in Seq(S) /\ Distinct(lockQueue)
      BY <1>0 DEF WaitersFacts
    <3>3. QED
      BY ONLY <3>1, <3>2, JoinQueue
  <2>2. QED
    BY <1>0, <1>11, <2>1 DEF SessionAsks, WaitersFacts, PartyType
<1>2. ASSUME NEW c \in Clients, Enter(c) PROVE WaitersFacts'
  <2>1. /\ lockQueue' \in Seq(S) /\ Distinct(lockQueue')
        /\ \A y : In(y, lockQueue') <=> In(y, lockQueue) /\ y # c
    <3>1. lockQueue \in Seq(S) /\ Distinct(lockQueue)
      BY <1>0 DEF WaitersFacts
    <3>2. lockQueue # <<>> /\ lockQueue' = Tail(lockQueue) /\ Head(lockQueue) = c
      BY <1>2 DEF Enter
    <3>3. QED
      BY ONLY <3>1, <3>2, LeaveHead
  <2>2. /\ \A e \in Clients \ {c} : party'[e].at = party[e].at
        /\ party'[c].at \in {"inside", "away"} /\ UNCHANGED starter
    BY <1>2 DEF Enter, PartyType
  <2>3. QED
    BY <1>0, <2>1, <2>2 DEF WaitersFacts
<1>3. ASSUME NEW c \in Clients, CancelWaiting(c) PROVE WaitersFacts'
  <2>1. LeftBy(lockQueue, c, lockQueue')
    BY <1>3 DEF CancelWaiting, LeavesQueue, LeftBy
  <2>2. /\ lockQueue' \in Seq(S) /\ Distinct(lockQueue')
        /\ \A y : In(y, lockQueue') <=> In(y, lockQueue) /\ y # c
    <3>1. lockQueue \in Seq(S) /\ Distinct(lockQueue)
      BY <1>0 DEF WaitersFacts
    <3>2. QED
      BY ONLY <2>1, <3>1, LeaveAnywhere
  <2>3. QED
    BY <1>0, <1>3, <2>2 DEF CancelWaiting, WaitersFacts, PartyType
<1>4. CASE RequestStart
  <2>1. /\ lockQueue' \in Seq(S) /\ Distinct(lockQueue')
        /\ \A y : In(y, lockQueue') <=> In(y, lockQueue) \/ y = Starter
    <3>1. ~In(Starter, lockQueue) /\ JoinedBy(lockQueue, Starter, lockQueue') /\ Starter \in S
      BY <1>0, <1>4 DEF RequestStart, WaitersFacts, JoinedBy
    <3>2. lockQueue \in Seq(S) /\ Distinct(lockQueue)
      BY <1>0 DEF WaitersFacts
    <3>3. QED
      BY ONLY <3>1, <3>2, JoinQueue
  <2>2. QED
    BY <1>0, <1>4, <2>1 DEF RequestStart, WaitersFacts
<1>5. CASE StarterEnters
  <2>1. /\ lockQueue' \in Seq(S) /\ Distinct(lockQueue')
        /\ \A y : In(y, lockQueue') <=> In(y, lockQueue) /\ y # Starter
    <3>1. lockQueue \in Seq(S) /\ Distinct(lockQueue)
      BY <1>0 DEF WaitersFacts
    <3>2. lockQueue # <<>> /\ lockQueue' = Tail(lockQueue) /\ Head(lockQueue) = Starter
      BY <1>5 DEF StarterEnters
    <3>3. QED
      BY ONLY <3>1, <3>2, LeaveHead
  <2>2. QED
    BY <1>0, <1>5, <2>1 DEF StarterEnters, WaitersFacts
<1>6. CASE CancelStarter
  <2>1. LeftBy(lockQueue, Starter, lockQueue')
    BY <1>6 DEF CancelStarter, LeavesQueue, LeftBy
  <2>2. /\ lockQueue' \in Seq(S) /\ Distinct(lockQueue')
        /\ \A y : In(y, lockQueue') <=> In(y, lockQueue) /\ y # Starter
    <3>1. lockQueue \in Seq(S) /\ Distinct(lockQueue)
      BY <1>0 DEF WaitersFacts
    <3>2. QED
      BY ONLY <2>1, <3>1, LeaveAnywhere
  <2>3. QED
    BY <1>0, <1>6, <2>2 DEF CancelStarter, WaitersFacts
<1>7. ASSUME NEW c \in Clients,
             Exit(c) \/ Abandon(c) \/ ThreadEnds(c) \/ OpenSession(c) \/ CloseSession(c)
      PROVE  WaitersFacts'
  <2>1. /\ UNCHANGED <<lockQueue, starter>>
        /\ \A e \in Clients : party'[e].at = "waiting" <=> party[e].at = "waiting"
    BY <1>7 DEF Exit, Abandon, ThreadEnds, OpenSession, CloseSession, slotState, PartyType
  <2>2. QED
    BY <2>1 DEF WaitersFacts
<1>8. ASSUME NEW k \in Modalities, BeginReload(k) \/ Swap(k) \/ DrainGivesUp(k) PROVE WaitersFacts'
  <2>1. /\ UNCHANGED <<lockQueue, starter>>
        /\ \A e \in Clients : party'[e].at = party[e].at
    BY <1>8 DEF BeginReload, Swap, DrainGivesUp, slotState, PartyType
  <2>2. QED
    BY <2>1 DEF WaitersFacts
<1>9. CASE UNCHANGED exclVars
  BY <1>9 DEF exclVars, WaitersFacts
<1>10. QED
  BY <1>1, <1>2, <1>3, <1>4, <1>5, <1>6, <1>7, <1>8, <1>9, <1>11 DEF ExclNext

(* Every step keeps the types.                                            *)
LEMMA TypeSteps ==
  ASSUME WaitersFacts, PartyType, [ExclNext]_exclVars
  PROVE  PartyType'
<1> DEFINE Parties == [kind : Modalities, at : {"away", "open", "waiting", "inside", "detached"},
                       leased : BOOLEAN, old : BOOLEAN]
<1> USE DEF PartyType, Modalities, OtherKind, LetIn
<1>0. /\ Away \in Parties /\ "asr" \in Modalities
      /\ \A k \in Modalities : [Away EXCEPT !.kind = k, !.at = "waiting", !.leased = TRUE] \in Parties
      /\ [Away EXCEPT !.at = "open"] \in Parties
  BY DEF Away
<1>1. ASSUME NEW c \in Clients, NEW at \in {"open", "waiting", "inside", "detached"}, At(c, at) \/ GoesAway(c)
      PROVE  party' \in [Clients -> Parties]
  BY <1>0, <1>1 DEF At, GoesAway
<1>2. ASSUME NEW c \in Clients, \E k \in Modalities : Request(c, k) PROVE PartyType'
  <2>1. PICK k \in Modalities : Request(c, k)
    BY <1>2
  <2>2. party' \in [Clients -> Parties]
    BY <1>0, <2>1 DEF Request
  <2>3. QED
    BY <2>1, <2>2 DEF Request
<1>3. ASSUME NEW c \in Clients, OpenSession(c) PROVE PartyType'
  BY <1>0, <1>3 DEF OpenSession, slotState
<1>4. ASSUME NEW c \in Clients, Enter(c) PROVE PartyType'
  <2>1. party' \in [Clients -> Parties]
    BY <1>1, <1>4 DEF Enter
  <2>2. QED
    BY <1>4, <2>1 DEF Enter
<1>5. ASSUME NEW c \in Clients,
             \/ Exit(c) \/ Abandon(c) \/ ThreadEnds(c) \/ CancelWaiting(c) \/ SessionAsks(c) \/ CloseSession(c)
      PROVE  PartyType'
  <2>1. party' \in [Clients -> Parties]
    BY <1>1, <1>5 DEF Exit, Abandon, ThreadEnds, CancelWaiting, SessionAsks, CloseSession
  <2>2. QED
    BY <1>5, <2>1 DEF Exit, Abandon, ThreadEnds, CancelWaiting, SessionAsks, CloseSession, slotState
<1>6. CASE RequestStart \/ StarterEnters \/ CancelStarter
  BY <1>6 DEF RequestStart, StarterEnters, CancelStarter
<1>7. ASSUME NEW k \in Modalities, BeginReload(k) \/ DrainGivesUp(k) PROVE PartyType'
  BY <1>7 DEF BeginReload, DrainGivesUp, slotState
<1>8. ASSUME NEW k \in Modalities, Swap(k) PROVE PartyType'
  <2>1. \A c \in Clients : [party[c] EXCEPT !.old = TRUE] \in Parties
    OBVIOUS
  <2>2. party' \in [Clients -> Parties]
    BY <1>8, <2>1 DEF Swap
  <2>3. QED
    BY <1>8, <2>2 DEF Swap, slotState
<1>9. CASE UNCHANGED exclVars
  BY <1>9 DEF exclVars
<1>10. QED
  BY <1>2, <1>3, <1>4, <1>5, <1>6, <1>7, <1>8, <1>9 DEF ExclNext

(* Every step of the swap, of a lease, of a session and of a reload keeps *)
(* the slot: whoever is let in finds its backend resident and the other   *)
(* unloaded, except a session that a failed reload left without one.      *)
LEMMA SlotSteps ==
  ASSUME WaitersFacts, PartyType, SlotFacts, [ExclNext]_exclVars
  PROVE  SlotFacts'
<1> USE ClientAssumption DEF SlotFacts, InsideHasItsBackend, LeasesHold, ExclusiveResidency, PartyType, At, GoesAway, Away,
  slotState
<1>1. ASSUME NEW c \in Clients, NEW k \in Modalities, Request(c, k) PROVE SlotFacts'
  BY <1>1 DEF Request
<1>2. ASSUME NEW c \in Clients, Enter(c) PROVE SlotFacts'
  BY <1>2, SMTT(30) DEF Enter, LetIn, OtherKind, Modalities
<1>3. ASSUME NEW c \in Clients,
             \/ Exit(c) \/ Abandon(c) \/ ThreadEnds(c) \/ CancelWaiting(c)
             \/ OpenSession(c) \/ SessionAsks(c) \/ CloseSession(c)
      PROVE  SlotFacts'
  BY <1>3 DEF Exit, Abandon, ThreadEnds, CancelWaiting, OpenSession, SessionAsks, CloseSession
<1>4. CASE RequestStart \/ StarterEnters \/ CancelStarter
  BY <1>4 DEF RequestStart, StarterEnters, CancelStarter
<1>5. ASSUME NEW k \in Modalities, BeginReload(k) \/ DrainGivesUp(k) PROVE SlotFacts'
  BY <1>5 DEF BeginReload, DrainGivesUp
<1>6. ASSUME NEW k \in Modalities, Swap(k) PROVE SlotFacts'
  <2>1. /\ \A c \in Clients : c \in OnBackend(k) => ~party[c].leased
        /\ inSlot # Empty /\ party[inSlot].kind = k => inSlot \in OnBackend(k)
    BY <1>6 DEF Swap, Leasing, OnBackend
  <2>2. /\ \A c \in Clients : /\ party'[c].at = party[c].at /\ party'[c].kind = party[c].kind
                             /\ party'[c].leased = party[c].leased
                             /\ party'[c].old = (party[c].old \/ c \in OnBackend(k))
        /\ UNCHANGED inSlot
    <3>1. \A c \in Clients : party'[c] = IF c \in OnBackend(k) THEN [party[c] EXCEPT !.old = TRUE] ELSE party[c]
      BY <1>6 DEF Swap
    <3>2. ASSUME NEW c \in Clients
          PROVE  /\ party'[c].at = party[c].at /\ party'[c].kind = party[c].kind
                 /\ party'[c].leased = party[c].leased
                 /\ party'[c].old = (party[c].old \/ c \in OnBackend(k))
      BY <3>1
    <3>3. QED
      BY <1>6, <3>2 DEF Swap
  <2>3. \A m \in Modalities \ {k} : m \in resident' <=> m \in resident
    BY <1>6 DEF Swap
  <2>4. InsideHasItsBackend' /\ LeasesHold'
    BY <2>1, <2>2, <2>3
  <2>5. ExclusiveResidency'
    BY <1>6, <2>2 DEF Swap
  <2>6. QED
    BY <2>2, <2>4, <2>5
<1>7. CASE UNCHANGED exclVars
  BY <1>7 DEF exclVars
<1>8. QED
  BY <1>1, <1>2, <1>3, <1>4, <1>5, <1>6, <1>7 DEF ExclNext

(* Exclusive mode (core/coordinator.py): for any set of clients and any   *)
(* sequence of requests, sessions, cancellations and reloads, the lock    *)
(* admits one party at a time; the party inside has the backend of its    *)
(* kind loaded, unless it is a recognition session, which holds no lease, *)
(* and a reload has swapped that backend since it was opened; and the     *)
(* other modality is not loaded unless a reload loaded it since.          *)
THEOREM ExclusiveSlotSound == ExclSpec => []ExclusiveSlotIsSound
<1> DEFINE Inv == WaitersFacts /\ PartyType /\ SlotFacts
<1>1. ExclInit => Inv
  BY ClientAssumption DEF ExclInit, WaitersFacts, PartyType, SlotFacts, In, Distinct, Away, Modalities,
     InsideHasItsBackend, LeasesHold, ExclusiveResidency
<1>2. Inv /\ [ExclNext]_exclVars => Inv'
  BY QueueSteps, TypeSteps, SlotSteps
<1>3. Inv => ExclusiveSlotIsSound
  <2> SUFFICES ASSUME Inv PROVE ExclusiveSlotIsSound
    OBVIOUS
  <2>1. \A y : y \in Queued <=> In(y, lockQueue)
    BY DEF Queued, In
  <2>2. {c \in Clients : party[c].at = "inside"} = {inSlot} \ {Empty}
    BY ClientAssumption DEF SlotFacts, PartyType
  <2>3. Queued \cap Clients = {c \in Clients : party[c].at = "waiting"}
    BY <2>1 DEF WaitersFacts
  <2>4. (Starter \in Queued) = (starter = "waiting")
    BY <2>1 DEF WaitersFacts
  <2>5. QED
    BY <2>2, <2>3, <2>4 DEF ExclusiveSlotIsSound, ExclTypeOK, LockIsConsistent, WaitersFacts, PartyType, SlotFacts
<1>4. QED
  BY <1>1, <1>2, <1>3, PTL DEF ExclSpec

-----------------------------------------------------------------------------
(* The utterance slot.                                                      *)

(* The places of a task that is inside the slot.                          *)
Held == {"inside", "job", "drain"}

(* Where the tasks are, and their executor threads: a thread serves a     *)
(* stream or an HTTP decode that is in its call or drains, or was         *)
(* deserted by one that is back at idle.                                  *)
PlaceFacts ==
  /\ place \in [SlotTasks -> Places]
  /\ \A p \in HttpRequests : place[p] \in {"idle", "lock", "inside", "job"}
  /\ threads \subseteq SlotTasks /\ deserted \subseteq threads /\ serialized \in BOOLEAN
  /\ \A t \in threads \ deserted : place[t] \in {"job", "drain"}
  /\ \A t \in deserted : place[t] = "idle"
  /\ \A t \in SlotTasks : place[t] \in {"job", "drain"} => t \in threads

(* The permits of max_concurrent_utterances: counted, with a queue of     *)
(* distinct streams that hold none; past the gate a stream holds one.     *)
PermitFacts ==
  /\ owners \subseteq Streams /\ IsFiniteSet(owners) /\ Cardinality(owners) <= SlotPermits
  /\ line \in Seq(Streams) /\ Distinct(line)
  /\ \A t \in Streams : In(t, line) => t \notin owners /\ place[t] = "gate"
  /\ \A t \in Streams : place[t] \in {"lock", "inside", "job", "drain"} => t \in owners
  /\ \A t \in Streams : place[t] = "idle" => t \notin owners

(* The serialization lock: its queue is who waits for it, its holder who  *)
(* is inside. Without serialization nobody waits.                         *)
LockFacts ==
  /\ parked \in Seq(SlotTasks) /\ Distinct(parked)
  /\ \A t \in SlotTasks : In(t, parked) <=> place[t] = "lock"
  /\ \A t \in SlotTasks : place[t] = "lock" => serialized
  /\ holder \in SlotTasks \cup {Nobody}
  /\ \A t \in SlotTasks : holder = t <=> serialized /\ place[t] \in Held

(* The semaphore counts with the same Cardinality.                        *)
LEMMA CardinalityIsShared == \A S : Gate!Cardinality(S) = Cardinality(S)
BY DEF Gate!Cardinality, Cardinality

(* Streams and HTTP requests are different tasks.                         *)
LEMMA NobodyIsNoTask ==
  /\ Nobody \notin SlotTasks /\ Streams \subseteq SlotTasks /\ HttpRequests \subseteq SlotTasks
  /\ Streams \cap HttpRequests = {}
BY SlotAssumption DEF SlotTasks

(* A task that arrives at the lock (serialized_slot) enters, or queues.   *)
LEMMA Arrive ==
  ASSUME PlaceFacts, LockFacts, NEW t \in SlotTasks, place[t] \in {"idle", "gate"}, ArriveAtLock(t),
         UNCHANGED serialized
  PROVE  /\ LockFacts'
         /\ \E p \in {"inside", "lock"} : place' = [place EXCEPT ![t] = p]
<1>1. CASE ~serialized
  <2>1. /\ place' = [place EXCEPT ![t] = "inside"] /\ UNCHANGED <<holder, parked>>
    BY <1>1 DEF ArriveAtLock
  <2>2. QED
    BY <1>1, <2>1 DEF PlaceFacts, LockFacts
<1>2. CASE serialized /\ holder = Nobody /\ parked = <<>>
  <2>1. /\ place' = [place EXCEPT ![t] = "inside"] /\ holder' = t /\ UNCHANGED parked
    BY <1>2 DEF ArriveAtLock
  <2>2. QED
    BY <1>2, <2>1, NobodyIsNoTask DEF PlaceFacts, LockFacts, Held
<1>3. CASE serialized /\ ~(holder = Nobody /\ parked = <<>>)
  <2>1. /\ place' = [place EXCEPT ![t] = "lock"] /\ parked' = Append(parked, t) /\ UNCHANGED holder
    BY <1>3 DEF ArriveAtLock
  <2>2. /\ parked' \in Seq(SlotTasks) /\ Distinct(parked')
        /\ \A y : In(y, parked') <=> In(y, parked) \/ y = t
    <3>1. parked \in Seq(SlotTasks) /\ Distinct(parked) /\ ~In(t, parked) /\ t \in SlotTasks
      BY DEF LockFacts
    <3>2. JoinedBy(parked, t, parked')
      BY <2>1 DEF JoinedBy
    <3>3. QED
      BY ONLY <3>1, <3>2, JoinQueue
  <2>3. QED
    BY <1>3, <2>1, <2>2 DEF PlaceFacts, LockFacts, Held
<1>4. QED
  BY <1>1, <1>2, <1>3

(* A task that leaves, cancelled or done, gives the lock back or leaves   *)
(* its queue.                                                             *)
LEMMA LeaveLock ==
  ASSUME PlaceFacts, LockFacts, NEW t \in SlotTasks, GiveLock(t), UNCHANGED serialized
  PROVE  LockFacts'
<1>1. /\ place' = [place EXCEPT ![t] = "idle"]
      /\ holder' = IF holder = t THEN Nobody ELSE holder
  BY DEF GiveLock
<1>2. /\ parked' \in Seq(SlotTasks) /\ Distinct(parked')
      /\ \A y : In(y, parked') <=> In(y, parked) /\ y # t
  <2>1. CASE place[t] = "lock"
    <3>1. LeftBy(parked, t, parked')
      BY <2>1 DEF GiveLock, Without, LeftBy
    <3>2. parked \in Seq(SlotTasks) /\ Distinct(parked)
      BY DEF LockFacts
    <3>3. QED
      BY ONLY <3>1, <3>2, LeaveAnywhere
  <2>2. CASE place[t] # "lock"
    BY <2>2, NobodyIsNoTask DEF GiveLock, LockFacts
  <2>3. QED
    BY <2>1, <2>2
<1>3. QED
  BY <1>1, <1>2, NobodyIsNoTask DEF PlaceFacts, LockFacts, Held

(* A permit that comes back goes to the head of the queue, or to the free *)
(* ones.                                                                  *)
LEMMA Pass ==
  ASSUME PermitFacts, NEW t \in Streams, Gate!PassPermit(t)
  PROVE  /\ owners' \subseteq Streams /\ IsFiniteSet(owners') /\ Cardinality(owners') <= SlotPermits
         /\ line' \in Seq(Streams) /\ Distinct(line') /\ t \notin owners'
         /\ \A y : In(y, line') => In(y, line) /\ y \notin owners'
         /\ \A y \in owners' : y \in owners \/ In(y, line)
         /\ \A y \in owners : y # t => y \in owners'
<1>1. t \in owners /\ Cardinality(owners) \in Nat
  BY FS_CardinalityType DEF PermitFacts, Gate!PassPermit
<1>2. IsFiniteSet(owners \ {t}) /\ Cardinality(owners \ {t}) = Cardinality(owners) - 1
  BY <1>1, FS_RemoveElement DEF PermitFacts
<1>3. CASE line = <<>>
  <2>1. owners' = owners \ {t} /\ line' = line
    BY <1>3 DEF Gate!PassPermit
  <2>2. QED
    BY <1>1, <1>2, <2>1, SlotAssumption, <1>3 DEF PermitFacts, In
<1>4. CASE line # <<>>
  <2>1. owners' = (owners \ {t}) \cup {Head(line)} /\ line' = Tail(line)
    BY <1>4 DEF Gate!PassPermit
  <2>2. /\ line' \in Seq(Streams) /\ Distinct(line') /\ Head(line) \in Streams /\ In(Head(line), line)
        /\ \A y : In(y, line') <=> In(y, line) /\ y # Head(line)
    <3>1. line \in Seq(Streams) /\ Distinct(line)
      BY DEF PermitFacts
    <3>2. QED
      BY ONLY <3>1, <2>1, <1>4, LeaveHead
  <2>3. Head(line) \notin owners
    BY <2>2 DEF PermitFacts
  <2>4. IsFiniteSet(owners') /\ Cardinality(owners') = Cardinality(owners)
    <3>1. Head(line) \notin owners \ {t}
      BY <2>3
    <3>2. /\ IsFiniteSet((owners \ {t}) \cup {Head(line)})
          /\ Cardinality((owners \ {t}) \cup {Head(line)}) = Cardinality(owners \ {t}) + 1
      BY <1>2, <3>1, FS_AddElement
    <3>3. QED
      BY <1>1, <1>2, <2>1, <3>2
  <2>5. \A y : In(y, line) => y \in Streams
    BY ElementOfSeq, LenProperties DEF In, PermitFacts
  <2>6. QED
    BY <1>1, <2>1, <2>2, <2>3, <2>4, <2>5 DEF PermitFacts
<1>5. QED
  BY <1>3, <1>4

(* A stream that leaves gives its permit back.                            *)
LEMMA LeavePermits ==
  ASSUME PlaceFacts, PermitFacts, NEW t \in Streams, LeaveSlot(t)
  PROVE  PermitFacts'
<1>1. place' = [place EXCEPT ![t] = "idle"] /\ Gate!PassPermit(t)
  BY DEF LeaveSlot, GiveLock
<1>2. t \in owners
  BY <1>1 DEF Gate!PassPermit
<1>3. \A y \in Streams : y # t => place'[y] = place[y]
  BY <1>1, NobodyIsNoTask DEF PlaceFacts
<1>4. place'[t] = "idle"
  BY <1>1, NobodyIsNoTask DEF PlaceFacts
<1>5. QED
  BY <1>1, <1>2, <1>3, <1>4, Pass DEF PermitFacts

(* Every step of a stream, of an HTTP request and of the executor keeps   *)
(* the three.                                                             *)
LEMMA SlotStep ==
  ASSUME PlaceFacts, PermitFacts, LockFacts, [SlotNext]_slotVars
  PROVE  PlaceFacts' /\ PermitFacts' /\ LockFacts'
<1> USE NobodyIsNoTask
<1>1. ASSUME NEW t \in Streams, BeginUtterance(t) PROVE PlaceFacts' /\ PermitFacts' /\ LockFacts'
  <2>1. place[t] = "idle" /\ t \notin threads /\ UNCHANGED <<threads, deserted, serialized>>
    BY <1>1 DEF BeginUtterance
  <2>2. CASE Gate!TakePermit(t) /\ ArriveAtLock(t)
    <3>1. LockFacts' /\ \E p \in {"inside", "lock"} : place' = [place EXCEPT ![t] = p]
      BY <2>1, <2>2, Arrive
    <3>2. /\ owners' = owners \cup {t} /\ line' = line /\ t \notin owners /\ ~In(t, line)
          /\ Cardinality(owners) < SlotPermits
      BY <2>2, CardinalityIsShared DEF Gate!TakePermit, Gate!Outside, In
    <3>3. IsFiniteSet(owners') /\ Cardinality(owners') <= SlotPermits
      <4>1. IsFiniteSet(owners) /\ Cardinality(owners) \in Nat
        BY FS_CardinalityType DEF PermitFacts
      <4>2. IsFiniteSet(owners \cup {t}) /\ Cardinality(owners \cup {t}) = Cardinality(owners) + 1
        BY <3>2, <4>1, FS_AddElement
      <4>3. QED
        BY <3>2, <4>1, <4>2, SlotAssumption
    <3>4. PermitFacts'
      BY <3>1, <3>2, <3>3 DEF PermitFacts, PlaceFacts
    <3>5. QED
      BY <2>1, <3>1, <3>4 DEF PlaceFacts, Places
  <2>3. CASE /\ Gate!JoinLine(t)
             /\ place' = [place EXCEPT ![t] = "gate"] /\ UNCHANGED <<holder, parked>>
    <3>1. line' = Append(line, t) /\ owners' = owners /\ t \notin owners /\ ~In(t, line)
      BY <2>3 DEF Gate!JoinLine, Gate!Outside, In
    <3>2. /\ line' \in Seq(Streams) /\ Distinct(line')
          /\ \A y : In(y, line') <=> In(y, line) \/ y = t
      <4>1. line \in Seq(Streams) /\ Distinct(line) /\ t \in Streams
        BY DEF PermitFacts
      <4>2. ~In(t, line) /\ JoinedBy(line, t, line')
        BY <3>1 DEF JoinedBy
      <4>3. QED
        BY ONLY <4>1, <4>2, JoinQueue
    <3>3. PermitFacts'
      <4>1. place'[t] = "gate" /\ \A y \in Streams : y # t => place'[y] = place[y]
        BY <2>3 DEF PlaceFacts
      <4>2. QED
        BY <3>1, <3>2, <4>1 DEF PermitFacts
    <3>4. LockFacts'
      BY <2>1, <2>3 DEF LockFacts, PlaceFacts, Held
    <3>5. QED
      BY <2>1, <2>3, <3>3, <3>4 DEF PlaceFacts, Places
  <2>4. QED
    BY <1>1, <2>2, <2>3 DEF BeginUtterance
<1>2. ASSUME NEW t \in Streams, Granted(t) PROVE PlaceFacts' /\ PermitFacts' /\ LockFacts'
  <2>1. /\ place[t] = "gate" /\ t \in owners /\ ArriveAtLock(t)
        /\ UNCHANGED <<owners, line, threads, deserted, serialized>>
    BY <1>2 DEF Granted
  <2>2. LockFacts' /\ \E p \in {"inside", "lock"} : place' = [place EXCEPT ![t] = p]
    BY <2>1, Arrive
  <2>3. QED
    BY <2>1, <2>2 DEF PlaceFacts, PermitFacts, Places
<1>3. ASSUME NEW t \in Streams, Submit(t) PROVE PlaceFacts' /\ PermitFacts' /\ LockFacts'
  <2>1. PlaceFacts'
    BY <1>3 DEF Submit, PlaceFacts, Places
  <2>2. PermitFacts' /\ LockFacts'
    BY <1>3 DEF Submit, PlaceFacts, PermitFacts, LockFacts, Held
  <2>3. QED
    BY <2>1, <2>2
<1>4. ASSUME NEW t \in Streams, LeaveSlot(t), UNCHANGED serialized, threads' \in {threads, threads \ {t}},
             deserted' \in {deserted, deserted \ {t}, deserted \cup {t}}, 
             deserted' \subseteq threads',
             t \in threads' => t \in deserted'
      PROVE  PlaceFacts' /\ PermitFacts' /\ LockFacts'
  <2>1. place' = [place EXCEPT ![t] = "idle"]
    BY <1>4 DEF LeaveSlot, GiveLock
  <2>2. PlaceFacts'
    BY <1>4, <2>1 DEF PlaceFacts, Places
  <2>3. QED
    BY <1>4, <2>2, LeavePermits, LeaveLock DEF LeaveSlot
<1>5. ASSUME NEW t \in Streams, WorkerReturns(t) PROVE PlaceFacts' /\ PermitFacts' /\ LockFacts'
  <2>1. /\ t \in threads /\ threads' = threads \ {t} /\ deserted' = deserted \ {t} /\ UNCHANGED serialized
    BY <1>5 DEF WorkerReturns
  <2>2. CASE place[t] = "job"
    <3>1. place' = [place EXCEPT ![t] = "inside"] /\ UNCHANGED <<owners, line, holder, parked>>
      BY <1>5, <2>2 DEF WorkerReturns
    <3>2. QED
      BY <2>1, <2>2, <3>1 DEF PlaceFacts, PermitFacts, LockFacts, Held, Places
  <2>3. CASE place[t] = "drain"
    <3>1. LeaveSlot(t)
      BY <1>5, <2>3 DEF WorkerReturns
    <3>2. deserted' \subseteq threads' /\ t \notin threads'
      BY <2>1 DEF PlaceFacts
    <3>3. QED
      BY <2>1, <3>1, <3>2, <1>4
  <2>4. CASE place[t] \notin {"job", "drain"}
    <3>1. UNCHANGED <<owners, line, holder, parked, place>>
      BY <1>5, <2>4 DEF WorkerReturns
    <3>2. QED
      BY <2>1, <2>4, <3>1 DEF PlaceFacts, PermitFacts, LockFacts
  <2>5. QED
    BY <2>2, <2>3, <2>4
<1>6. ASSUME NEW t \in Streams, EndUtterance(t) PROVE PlaceFacts' /\ PermitFacts' /\ LockFacts'
  <2>1. place[t] = "inside" /\ LeaveSlot(t) /\ UNCHANGED <<threads, deserted, serialized>>
    BY <1>6 DEF EndUtterance
  <2>2. deserted' \subseteq threads' /\ t \notin threads
    BY <2>1 DEF PlaceFacts
  <2>3. QED
    BY <2>1, <2>2, <1>4
<1>7. ASSUME NEW t \in Streams, CancelStream(t) PROVE PlaceFacts' /\ PermitFacts' /\ LockFacts'
  <2>1. CASE /\ place[t] = "gate" /\ t \notin owners
             /\ Gate!GiveUp(t)
             /\ place' = [place EXCEPT ![t] = "idle"]
             /\ UNCHANGED <<holder, parked, threads, deserted, serialized>>
    <3>1. owners' = owners /\ LeftBy(line, t, line')
      BY <2>1 DEF Gate!GiveUp, LeftBy
    <3>2. /\ line' \in Seq(Streams) /\ Distinct(line')
          /\ \A y : In(y, line') <=> In(y, line) /\ y # t
      <4>1. line \in Seq(Streams) /\ Distinct(line)
        BY DEF PermitFacts
      <4>2. QED
        BY ONLY <3>1, <4>1, LeaveAnywhere
    <3>3. PermitFacts'
      BY <2>1, <3>1, <3>2 DEF PermitFacts, PlaceFacts
    <3>4. LockFacts'
      BY <2>1 DEF LockFacts, PlaceFacts, Held
    <3>5. QED
      BY <2>1, <3>3, <3>4 DEF PlaceFacts, Places
  <2>2. CASE /\ place[t] \in {"gate", "lock"} /\ t \in owners
             /\ LeaveSlot(t) /\ UNCHANGED <<threads, deserted, serialized>>
    <3>1. deserted' \subseteq threads' /\ t \notin threads
      BY <2>2 DEF PlaceFacts
    <3>2. QED
      BY <2>2, <3>1, <1>4
  <2>3. CASE /\ place[t] = "job" /\ place' = [place EXCEPT ![t] = "drain"]
             /\ UNCHANGED <<owners, line, holder, parked, threads, deserted, serialized>>
    BY <2>3 DEF PlaceFacts, PermitFacts, LockFacts, Held, Places
  <2>4. CASE /\ place[t] = "job" /\ LeaveSlot(t) /\ threads' = threads \ {t} /\ UNCHANGED <<deserted, serialized>>
    <3>1. deserted' \subseteq threads' /\ t \notin threads'
      BY <2>4 DEF PlaceFacts
    <3>2. QED
      BY <2>4, <3>1, <1>4
  <2>5. CASE /\ place[t] = "drain" /\ LeaveSlot(t) /\ deserted' = deserted \cup {t}
             /\ UNCHANGED <<threads, serialized>>
    <3>1. t \in threads
      BY <2>5 DEF PlaceFacts
    <3>2. deserted' \subseteq threads' /\ t \in deserted'
      BY <2>5, <3>1 DEF PlaceFacts
    <3>3. QED
      BY <2>5, <3>2, <1>4
  <2>6. QED
    BY <1>7, <2>1, <2>2, <2>3, <2>4, <2>5 DEF CancelStream
<1>8. ASSUME NEW p \in HttpRequests, HttpStep(p) PROVE PlaceFacts' /\ PermitFacts' /\ LockFacts'
  <2>1. ASSUME GiveLock(p), UNCHANGED <<owners, line, serialized>>, threads' \in {threads, threads \ {p}},
               deserted' \in {deserted, deserted \ {p}, deserted \cup {p}},
               deserted' \subseteq threads', p \in threads' => p \in deserted'
        PROVE  PlaceFacts' /\ PermitFacts' /\ LockFacts'
    <3>1. place' = [place EXCEPT ![p] = "idle"]
      BY <2>1 DEF GiveLock
    <3>2. PlaceFacts'
      BY <2>1, <3>1 DEF PlaceFacts, Places
    <3>3. PermitFacts'
      BY <2>1, <3>1 DEF PlaceFacts, PermitFacts
    <3>4. QED
      BY <2>1, <3>2, <3>3, LeaveLock
  <2>2. CASE OtherArrives(p)
    <3>1. /\ place[p] = "idle" /\ p \notin threads /\ ArriveAtLock(p)
          /\ UNCHANGED <<owners, line, threads, deserted, serialized>>
      BY <2>2 DEF OtherArrives
    <3>2. LockFacts' /\ \E q \in {"inside", "lock"} : place' = [place EXCEPT ![p] = q]
      BY <3>1, Arrive
    <3>3. QED
      BY <3>1, <3>2 DEF PlaceFacts, PermitFacts, Places
  <2>3. CASE OtherDecodes(p)
    <3>1. PlaceFacts' /\ PermitFacts'
      BY <2>3 DEF OtherDecodes, PlaceFacts, PermitFacts, Places
    <3>2. LockFacts'
      BY <2>3 DEF OtherDecodes, PlaceFacts, LockFacts, Held
    <3>3. QED
      BY <3>1, <3>2
  <2>4. CASE DecodeReturns(p)
    <3>1. /\ p \in threads /\ threads' = threads \ {p} /\ deserted' = deserted \ {p}
          /\ UNCHANGED <<owners, line, serialized>>
      BY <2>4 DEF DecodeReturns
    <3>2. CASE place[p] = "job"
      <4>1. GiveLock(p) /\ deserted' \subseteq threads'
        BY <2>4, <3>1, <3>2 DEF DecodeReturns, PlaceFacts
      <4>2. QED
        BY <2>1, <3>1, <4>1
    <3>3. CASE place[p] # "job"
      <4>1. UNCHANGED <<holder, parked, place>>
        BY <2>4, <3>3 DEF DecodeReturns
      <4>2. QED
        BY <3>1, <3>3, <4>1 DEF PlaceFacts, PermitFacts, LockFacts
    <3>4. QED
      BY <3>2, <3>3
  <2>5. CASE OtherEnds(p)
    <3>1. place[p] = "inside" /\ GiveLock(p) /\ UNCHANGED <<owners, line, threads, deserted, serialized>>
      BY <2>5 DEF OtherEnds
    <3>2. deserted' \subseteq threads' /\ p \notin threads
      BY <3>1 DEF PlaceFacts
    <3>3. QED
      BY <2>1, <3>1, <3>2
  <2>6. CASE OtherCancelled(p)
    <3>1. /\ GiveLock(p) /\ UNCHANGED <<owners, line, serialized>>
          /\ \/ deserted' = deserted \cup (threads \cap {p}) /\ UNCHANGED threads
             \/ threads' = threads \ {p} /\ UNCHANGED deserted
          /\ p \notin deserted
      BY <2>6 DEF OtherCancelled, PlaceFacts
    <3>2. deserted' \subseteq threads' /\ (p \in threads' => p \in deserted')
      BY <3>1 DEF PlaceFacts
    <3>3. deserted' \in {deserted, deserted \ {p}, deserted \cup {p}} /\ threads' \in {threads, threads \ {p}}
      BY <3>1
    <3>4. QED
      BY <2>1, <3>1, <3>2, <3>3
  <2>7. QED
    BY <1>8, <2>2, <2>3, <2>4, <2>5, <2>6 DEF HttpStep
<1>10. ASSUME NEW t \in SlotTasks, TakeLock(t) PROVE PlaceFacts' /\ PermitFacts' /\ LockFacts'
  <2>1. /\ holder = Nobody /\ parked # <<>> /\ t = Head(parked) /\ holder' = t /\ parked' = Tail(parked)
        /\ place' = [place EXCEPT ![t] = "inside"] /\ UNCHANGED <<owners, line, threads, deserted, serialized>>
    BY <1>10 DEF TakeLock
  <2>2. /\ parked' \in Seq(SlotTasks) /\ Distinct(parked') /\ In(t, parked)
        /\ \A y : In(y, parked') <=> In(y, parked) /\ y # t
    <3>1. parked \in Seq(SlotTasks) /\ Distinct(parked)
      BY DEF LockFacts
    <3>2. QED
      BY ONLY <2>1, <3>1, LeaveHead
  <2>3. place[t] = "lock" /\ serialized
    BY <2>2 DEF LockFacts
  <2>4. LockFacts'
    BY <2>1, <2>2, <2>3 DEF PlaceFacts, LockFacts, Held
  <2>5. QED
    BY <2>1, <2>3, <2>4 DEF PlaceFacts, PermitFacts, Places
<1>11. CASE UNCHANGED slotVars
  BY <1>11 DEF slotVars, PlaceFacts, PermitFacts, LockFacts
<1>12. QED
  BY <1>1, <1>2, <1>3, <1>5, <1>6, <1>7, <1>8, <1>10, <1>11 DEF SlotNext, StreamStep

(* The utterance slot (main.py, _asr_utterance_slot): for any number of   *)
(* streams, permits and HTTP requests, every inference thread has the     *)
(* slot of the task it works for around it, through one cancellation of a *)
(* stream, except the deserted ones: those of streams cancelled again in  *)
(* their drain and of HTTP decodes cancelled once. No more streams than   *)
(* permits are at or behind the lock, and an idle task holds neither      *)
(* permit nor lock.                                                       *)
THEOREM SlotSound == SlotSpec => []SlotIsKept
<1> DEFINE Inv == PlaceFacts /\ PermitFacts /\ LockFacts
<1>1. SlotInit => Inv
  BY NobodyIsNoTask, FS_EmptySet, SlotAssumption
     DEF SlotInit, Gate!Init, PlaceFacts, PermitFacts, LockFacts, In, Distinct, Places, Held
<1>2. Inv /\ [SlotNext]_slotVars => Inv'
  BY SlotStep
<1>3. Inv => SlotIsKept
  <2> SUFFICES ASSUME Inv PROVE SlotIsKept
    OBVIOUS
  <2>1. FewStreamsAtTheLock
    <3>1. {t \in Streams : place[t] = "lock"} \cup InSlot \subseteq owners
      BY DEF PermitFacts, InSlot
    <3>2. QED
      BY <3>1, FS_Subset, FS_CardinalityType, SlotAssumption DEF PermitFacts, FewStreamsAtTheLock
  <2>2. SlotTypeOK /\ ThreadsKeepTheirSlot
    BY DEF SlotTypeOK, ThreadsKeepTheirSlot, PlaceFacts, PermitFacts, LockFacts
  <2>3. ThreadsExcludeOthers
    BY NobodyIsNoTask DEF ThreadsExcludeOthers, PlaceFacts, LockFacts, Held
  <2>4. NothingHeldAtIdle
    <3> SUFFICES ASSUME NEW t \in SlotTasks, place[t] = "idle"
                 PROVE  t \notin owners /\ holder # t /\ ~In(t, line) /\ ~In(t, parked)
      BY DEF NothingHeldAtIdle, In
    <3>1. holder # t /\ ~In(t, parked)
      BY DEF LockFacts, Held
    <3>2. t \notin owners
      BY DEF PermitFacts
    <3>3. ~In(t, line)
      <4>1. \A i \in DOMAIN line : line[i] \in Streams
        BY ElementOfSeq, LenProperties DEF PermitFacts
      <4>2. In(t, line) => t \in Streams
        BY <4>1 DEF In
      <4>3. QED
        BY <4>2 DEF PermitFacts
    <3>4. QED
      BY <3>1, <3>2, <3>3
  <2>5. QED
    BY <2>1, <2>2, <2>3, <2>4 DEF SlotIsKept
<1>4. QED
  BY <1>1, <1>2, <1>3, PTL DEF SlotSpec
=============================================================================
