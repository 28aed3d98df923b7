-------------------------- MODULE WorkerIO_proofs --------------------------
(***************************************************************************)
(* Theorems about WorkerIO, for any number of callers and slots.           *)
(***************************************************************************)
EXTENDS WorkerIO, FiniteSetTheorems, TLAPS

SemTypes ==
    /\ permits \in Nat /\ lost \in Nat
    /\ pc \in [Callers -> Phases] /\ grab \in [Callers -> Grabs]

(* The executor thread of an acquire serves a task that awaits it, or is   *)
(* left over from one that does not.                                       *)
GrabsFit ==
    \A c \in Callers :
        /\ pc[c] # "acquiring" => grab[c] \in {"none", "orphan"}
        /\ grab[c] = "orphan" => pc[c] = "idle"
        /\ c \in Threads => grab[c] = "none"
        /\ c \in Tasks /\ pc[c] = "acquiring" => grab[c] # "none"

IInv == SemTypes /\ GrabsFit /\ PermitsConserved

USE DEF Callers, Goto, semVars, callVars, closeVars, workVars

-----------------------------------------------------------------------------
LEMMA CallersFinite == IsFiniteSet(Callers)
BY WorkerAssumption, FS_Union

LEMMA HoldersFinite == IsFiniteSet(Holders) /\ Cardinality(Holders) \in Nat
<1>1. Holders \subseteq Callers
    BY DEF Holders
<1> QED BY <1>1, CallersFinite, FS_Subset, FS_CardinalityType

(* A permit goes from the semaphore to a caller that had none.             *)
LEMMA OneMoreHolder ==
    ASSUME IInv, NEW c \in Callers, c \notin Holders, Holders' = Holders \cup {c},
           permits > 0, permits' = permits - 1, lost' = lost
    PROVE  PermitsConserved' /\ permits' \in Nat
<1>1. Cardinality(Holders') = Cardinality(Holders) + 1
    BY HoldersFinite, FS_AddElement
<1> QED BY <1>1, HoldersFinite, WorkerAssumption DEF IInv, SemTypes, PermitsConserved

(* A caller hands its permit back, or loses it.                            *)
LEMMA OneHolderLess ==
    ASSUME IInv, NEW c \in Callers, c \in Holders, Holders' = Holders \ {c},
           \/ permits' = permits + 1 /\ lost' = lost
           \/ permits' = permits /\ lost' = lost + 1
    PROVE  PermitsConserved' /\ permits' \in Nat /\ lost' \in Nat
<1>1. Cardinality(Holders') = Cardinality(Holders) - 1
    BY HoldersFinite, FS_RemoveElement
<1>2. Cardinality(Holders') \in Nat
    BY HoldersFinite, FS_RemoveElement, FS_CardinalityType
<1> QED BY <1>1, <1>2, HoldersFinite, WorkerAssumption DEF IInv, SemTypes, PermitsConserved

(* Nobody's standing with the semaphore changes.                           *)
LEMMA SameHolders ==
    ASSUME IInv, Holders' = Holders, permits' = permits, lost' = lost
    PROVE  PermitsConserved'
BY DEF IInv, PermitsConserved

-----------------------------------------------------------------------------
LEMMA InitInv == WorkerInit => IInv
<1> SUFFICES ASSUME WorkerInit PROVE IInv
    OBVIOUS
<1>1. Holders = {}
    BY DEF WorkerInit, Holders, Holding
<1>2. Cardinality(Holders) = 0
    BY <1>1, FS_EmptySet
<1> QED BY <1>2, WorkerAssumption DEF WorkerInit, IInv, SemTypes, GrabsFit, PermitsConserved, Phases, Grabs

(* The steps of a caller that take or give back a permit.                  *)
LEMMA SemaphoreSteps ==
    ASSUME IInv, NEW c \in Callers,
           Begin(c) \/ AcquireHere(c) \/ AcquireInExecutor(c) \/ LoopHears(c)
           \/ Resume(c) \/ CancelAcquire(c) \/ CheckClosed(c) \/ ReleasePermit(c)
    PROVE  IInv'
<1> USE DEF Holding
<1>1. SemTypes' /\ GrabsFit'
    <2>1. CASE Begin(c)
        BY <2>1, WorkerAssumption DEF Begin, IInv, SemTypes, GrabsFit, Phases, Grabs
    <2>2. CASE AcquireHere(c)
        BY <2>2, WorkerAssumption DEF AcquireHere, IInv, SemTypes, GrabsFit, Phases, Grabs
    <2>3. CASE AcquireInExecutor(c)
        BY <2>3 DEF AcquireInExecutor, IInv, SemTypes, GrabsFit, Grabs
    <2>4. CASE LoopHears(c) \/ Resume(c)
        BY <2>4 DEF LoopHears, Resume, IInv, SemTypes, GrabsFit, Phases, Grabs
    <2>5. CASE CancelAcquire(c)
        BY <2>5 DEF CancelAcquire, IInv, SemTypes, GrabsFit, Phases, Grabs
    <2>6. CASE CheckClosed(c) \/ ReleasePermit(c)
        BY <2>6 DEF CheckClosed, ReleasePermit, IInv, SemTypes, GrabsFit, Phases, Grabs
    <2> QED BY <2>1, <2>2, <2>3, <2>4, <2>5, <2>6
<1>2. PermitsConserved'
    <2>1. CASE Begin(c)
        <3>1. CASE queueing
            <4>1. Holders' = Holders
                BY <2>1, <3>1 DEF Begin, Holders, IInv, SemTypes, GrabsFit
            <4> QED BY <4>1, <2>1, <3>1, SameHolders DEF Begin
        <3>2. CASE ~queueing
            <4>1. Holders' = Holders \cup {c} /\ c \notin Holders
                BY <2>1, <3>2 DEF Begin, Holders, IInv, SemTypes, GrabsFit
            <4> QED BY <4>1, <2>1, <3>2, OneMoreHolder DEF Begin
        <3> QED BY <3>1, <3>2
    <2>2. CASE AcquireHere(c)
        <3>1. Holders' = Holders \cup {c} /\ c \notin Holders
            BY <2>2 DEF AcquireHere, Holders, IInv, SemTypes, GrabsFit
        <3> QED BY <3>1, <2>2, OneMoreHolder DEF AcquireHere
    <2>3. CASE AcquireInExecutor(c) /\ grab[c] = "blocked"
        <3>1. Holders' = Holders \cup {c} /\ c \notin Holders
            BY <2>3 DEF AcquireInExecutor, Holders, IInv, SemTypes, GrabsFit
        <3> QED BY <3>1, <2>3, OneMoreHolder DEF AcquireInExecutor
    <2>4. CASE AcquireInExecutor(c) /\ grab[c] = "orphan"
        <3>1. Holders' = Holders
            BY <2>4 DEF AcquireInExecutor, Holders, IInv, SemTypes, GrabsFit
        <3> QED BY <3>1, <2>4, HoldersFinite, WorkerAssumption
                DEF AcquireInExecutor, IInv, SemTypes, PermitsConserved
    <2>5. CASE LoopHears(c) \/ Resume(c)
        <3>1. Holders' = Holders
            BY <2>5 DEF LoopHears, Resume, Holders, IInv, SemTypes, GrabsFit
        <3> QED BY <3>1, <2>5, SameHolders DEF LoopHears, Resume
    <2>6. CASE CancelAcquire(c) /\ grab[c] = "blocked"
        <3>1. Holders' = Holders
            BY <2>6 DEF CancelAcquire, Holders, IInv, SemTypes, GrabsFit
        <3> QED BY <3>1, <2>6, SameHolders DEF CancelAcquire
    <2>7. CASE CancelAcquire(c) /\ grab[c] # "blocked"
        <3>1. Holders' = Holders \ {c} /\ c \in Holders
            BY <2>7 DEF CancelAcquire, Holders, IInv, SemTypes, GrabsFit
        <3> QED BY <3>1, <2>7, OneHolderLess DEF CancelAcquire
    <2>8. CASE CheckClosed(c)
        <3>1. CASE closed
            <4>1. Holders' = Holders \ {c} /\ c \in Holders
                BY <2>8, <3>1 DEF CheckClosed, Holders, IInv, SemTypes, GrabsFit
            <4> QED BY <4>1, <2>8, <3>1, OneHolderLess DEF CheckClosed
        <3>2. CASE ~closed
            <4>1. Holders' = Holders
                BY <2>8, <3>2 DEF CheckClosed, Holders, IInv, SemTypes, GrabsFit
            <4> QED BY <4>1, <2>8, <3>2, SameHolders DEF CheckClosed
        <3> QED BY <3>1, <3>2
    <2>9. CASE ReleasePermit(c)
        <3>1. Holders' = Holders \ {c} /\ c \in Holders
            BY <2>9 DEF ReleasePermit, Holders, IInv, SemTypes, GrabsFit
        <3> QED BY <3>1, <2>9, OneHolderLess DEF ReleasePermit
    <2>10. AcquireInExecutor(c) => grab[c] \in {"blocked", "orphan"}
        BY DEF AcquireInExecutor
    <2> QED BY <2>1, <2>2, <2>3, <2>4, <2>5, <2>6, <2>7, <2>8, <2>9, <2>10
<1> QED BY <1>1, <1>2 DEF IInv

(* The other steps keep a holder a holder.                                 *)
LEMMA OtherCallerSteps ==
    ASSUME IInv, NEW c \in Callers,
           Register(c) \/ Write(c) \/ Receive(c) \/ Consume(c) \/ Abandon(c)
           \/ Pop(c) \/ Cancel(c)
    PROVE  IInv'
<1> DEFINE Moved(p) == pc' = [pc EXCEPT ![c] = p]
<1> USE DEF Register, Write, Receive, Consume, Abandon, Pop, Cancel
<1>1. UNCHANGED semVars
    OBVIOUS
<1>2. \/ pc' = pc
      \/ pc[c] \in Holding /\ \E p \in Holding : Moved(p)
      \/ pc[c] = "cancelling" /\ Moved("idle")
    BY DEF Holding
<1> HIDE DEF Register, Write, Receive, Consume, Abandon, Pop, Cancel
<1>3. SemTypes'
    BY <1>1, <1>2 DEF IInv, SemTypes, Phases
<1>4. GrabsFit'
    BY <1>1, <1>2 DEF IInv, SemTypes, GrabsFit, Holding
<1>5. Holders' = Holders
    BY <1>1, <1>2 DEF IInv, SemTypes, Holders, Holding
<1> QED BY <1>1, <1>3, <1>4, <1>5, SameHolders DEF IInv

-----------------------------------------------------------------------------
LEMMA SemaphoreStep == ASSUME IInv, [WorkerNext]_workerVars PROVE IInv'
<1>1. CASE \E c \in Callers : CallerStep(c)
    BY <1>1, SemaphoreSteps, OtherCallerSteps DEF CallerStep
<1>2. CASE \/ \E c \in Callers : WorkerStep(c)
           \/ SetClosed \/ CloseWakes \/ Dispatch \/ ReaderEnds \/ ReaderFails \/ WorkerDies
           \/ UNCHANGED workerVars
    <2>1. UNCHANGED <<semVars, pc>>
        BY <1>2 DEF WorkerStep, SetClosed, CloseWakes, Dispatch, ReaderEnds, ReaderFails, WorkerDies, workerVars
    <2>2. Holders' = Holders
        BY <2>1 DEF Holders
    <2> QED BY <2>1, <2>2, SameHolders DEF IInv, SemTypes, GrabsFit
<1> QED BY <1>1, <1>2 DEF WorkerNext

(* What the semaphore guarantees, and why: the inductive invariant.        *)
THEOREM SemaphoreInvariant == WorkerSpec => []IInv
<1>1. IInv /\ [WorkerNext]_workerVars => IInv'
    BY SemaphoreStep
<1> QED BY InitInv, <1>1, PTL DEF WorkerSpec

(* Every permit is free, held by one caller, or lost: none is duplicated.  *)
THEOREM PermitConservation == WorkerSpec => []PermitsConserved
<1>1. IInv => PermitsConserved
    BY DEF IInv
<1> QED BY <1>1, SemaphoreInvariant, PTL

(* close() sets the flag under the lock that every write takes.            *)
THEOREM NothingWrittenAfterClose == WorkerSpec => NoWriteAfterClose
<1>1. [WorkerNext]_workerVars => [closed => working' \subseteq working]_workerVars
    <2> SUFFICES ASSUME WorkerNext, closed PROVE working' \subseteq working
        BY DEF workerVars
    <2>1. CASE \E c \in Callers : CallerStep(c)
        BY <2>1 DEF CallerStep, Begin, AcquireHere, AcquireInExecutor, LoopHears, Resume,
                    CancelAcquire, CheckClosed, Register, Write, Receive, Consume, Abandon,
                    Pop, ReleasePermit, Cancel
    <2>2. CASE \/ \E c \in Callers : WorkerStep(c)
               \/ SetClosed \/ CloseWakes \/ Dispatch \/ ReaderEnds \/ ReaderFails \/ WorkerDies
        BY <2>2 DEF WorkerStep, SetClosed, CloseWakes, Dispatch, ReaderEnds, ReaderFails, WorkerDies
    <2> QED BY <2>1, <2>2 DEF WorkerNext
<1> QED BY <1>1, PTL DEF WorkerSpec, NoWriteAfterClose

-----------------------------------------------------------------------------
(* Waking the callers.                                                     *)

(* c will ask for another event.                                           *)
Listens(c) == pc[c] = "waiting" \/ (pc[c] = "consuming" /\ c \notin natural)

(* close() has woken the callers, or stdout has ended.                     *)
Silent == woken \/ (~reading /\ ~crashed)

WakeTypes ==
    /\ pc \in [Callers -> Phases] /\ entries \subseteq Callers
    /\ queue \in [Callers -> Seq(Events)] /\ out \in Seq(Callers \X Events)

(* Who listens has a queue that the reader or a WakeAll finds, or has the  *)
(* sentinel already; and once the callers have been woken for good it is   *)
(* the sentinel.                                                           *)
WakeInv ==
    /\ WakeTypes
    /\ woken => closed
    /\ ~reading /\ ~crashed => ~alive
    /\ \A c \in Callers : Listens(c) /\ Silent => HasSentinel(c)
    /\ \A c \in Callers : Listens(c) \/ pc[c] = "registered" => c \in entries \/ HasSentinel(c)

LEMMA SentinelStays ==
    ASSUME NEW q \in Seq(Events), NEW i \in DOMAIN q, q[i] = "exit", NEW e \in Events
    PROVE  /\ \E j \in DOMAIN Append(q, e) : Append(q, e)[j] = "exit"
           /\ Head(q) # "exit" => \E j \in DOMAIN Tail(q) : Tail(q)[j] = "exit"
<1>1. i \in DOMAIN Append(q, e) /\ Append(q, e)[i] = "exit"
    OBVIOUS
<1>2. ASSUME Head(q) # "exit" PROVE i - 1 \in DOMAIN Tail(q) /\ Tail(q)[i - 1] = "exit"
    <2>1. i # 1 /\ i \in 1..Len(q) /\ q # <<>>
        BY <1>2
    <2>2. Len(Tail(q)) = Len(q) - 1 /\ i - 1 \in 1..Len(Tail(q))
        BY <2>1
    <2> QED BY <2>1, <2>2
<1> QED BY <1>1, <1>2

LEMMA SentinelLast ==
    ASSUME NEW q \in Seq(Events)
    PROVE  \E j \in DOMAIN Append(q, "exit") : Append(q, "exit")[j] = "exit"
<1>1. Len(q) + 1 \in DOMAIN Append(q, "exit") /\ Append(q, "exit")[Len(q) + 1] = "exit"
    OBVIOUS
<1> QED BY <1>1

LEMMA WakeInit == WorkerInit => WakeInv
BY DEF WorkerInit, WakeInv, WakeTypes, Listens, Silent, HasSentinel, Phases

(* Every WakeAll puts the sentinel where somebody listens.                 *)
LEMMA WakingSteps ==
    ASSUME WakeInv, CloseWakes \/ ReaderEnds \/ ReaderFails
    PROVE  WakeInv'
<1>1. WakeAll /\ UNCHANGED <<pc, natural, closed, alive>> /\ out' \in {out, <<>>}
    BY DEF CloseWakes, ReaderEnds, ReaderFails
<1>2. WakeTypes'
    <2>2. out' \in Seq(Callers \X Events)
        <3> DEFINE E == Callers \X Events
        <3>1. out \in Seq(E)
            BY DEF WakeInv, WakeTypes
        <3>2. <<>> \in Seq(E)
            OBVIOUS
        <3> HIDE DEF E
        <3>3. out' \in Seq(E)
            BY <1>1, <3>1, <3>2
        <3> QED BY <3>3 DEF E
    <2>1. \A c \in Callers : Append(queue[c], "exit") \in Seq(Events)
        BY DEF WakeInv, WakeTypes, Events
    <2> QED BY <1>1, <2>1, <2>2 DEF WakeAll, WakeInv, WakeTypes
<1>3. (woken' => closed') /\ (~reading' /\ ~crashed' => ~alive')
    BY <1>1 DEF CloseWakes, ReaderEnds, ReaderFails, WakeInv
<1>4. ASSUME NEW c \in Callers, (Listens(c) \/ pc[c] = "registered")' PROVE HasSentinel(c)'
    <2>1. Listens(c) \/ pc[c] = "registered"
        BY <1>1, <1>4 DEF Listens
    <2>2. CASE c \in entries
        <3>1. queue'[c] = Append(queue[c], "exit")
            BY <1>1, <2>2 DEF WakeAll
        <3>2. queue[c] \in Seq(Events)
            BY DEF WakeInv, WakeTypes
        <3> QED BY <3>1, <3>2, SentinelLast DEF HasSentinel
    <2>3. CASE c \notin entries
        <3>1. queue'[c] = queue[c]
            BY <1>1, <2>3 DEF WakeAll
        <3>2. HasSentinel(c)
            BY <2>1, <2>3 DEF WakeInv
        <3> QED BY <3>1, <3>2 DEF HasSentinel
    <2> QED BY <2>2, <2>3
<1> QED BY <1>2, <1>3, <1>4 DEF WakeInv

LEMMA DispatchStep == ASSUME WakeInv, Dispatch PROVE WakeInv'
<1> DEFINE d == Head(out)[1]
           e == Head(out)[2]
<1>1. d \in Callers /\ e \in Events /\ out' \in Seq(Callers \X Events)
    <2>1. Head(out) \in Callers \X Events /\ Tail(out) \in Seq(Callers \X Events)
        BY DEF Dispatch, WakeInv, WakeTypes
    <2> QED BY <2>1 DEF Dispatch
<1>2. \/ queue' = queue
      \/ queue' = [queue EXCEPT ![d] = Append(queue[d], e)]
    BY DEF Dispatch
<1>3. UNCHANGED <<pc, natural, entries, closed, woken, reading, crashed, alive>>
    BY DEF Dispatch
<1>4. queue[d] \in Seq(Events) /\ Append(queue[d], e) \in Seq(Events)
    BY <1>1 DEF WakeInv, WakeTypes
<1>5. WakeTypes'
    BY <1>1, <1>2, <1>3, <1>4 DEF WakeInv, WakeTypes
<1>6. ASSUME NEW c \in Callers, HasSentinel(c) PROVE HasSentinel(c)'
    <2>1. CASE queue' = queue \/ c # d
        <3>1. queue'[c] = queue[c]
            BY <1>2, <2>1 DEF WakeInv, WakeTypes
        <3> QED BY <3>1, <1>6 DEF HasSentinel
    <2>2. CASE queue' = [queue EXCEPT ![d] = Append(queue[d], e)] /\ c = d
        <3>1. queue'[c] = Append(queue[c], e)
            BY <2>2 DEF WakeInv, WakeTypes
        <3>2. PICK i \in DOMAIN queue[c] : queue[c][i] = "exit"
            BY <1>6 DEF HasSentinel
        <3>3. queue[c] \in Seq(Events)
            BY <1>4, <2>2
        <3>4. \E j \in DOMAIN Append(queue[c], e) : Append(queue[c], e)[j] = "exit"
            <4> HIDE DEF e
            <4> QED BY <3>2, <3>3, <1>1, SentinelStays
        <3> QED BY <3>1, <3>4 DEF HasSentinel
    <2> QED BY <1>2, <2>1, <2>2
<1> QED BY <1>3, <1>5, <1>6 DEF WakeInv, Listens, Silent

LEMMA ReceiveStep ==
    ASSUME WakeInv, NEW c \in Callers, Receive(c)
    PROVE  WakeInv'
<1>1. /\ queue[c] \in Seq(Events) /\ queue[c] # <<>> /\ Tail(queue[c]) \in Seq(Events)
      /\ pc[c] = "waiting"
    BY DEF Receive, WakeInv, WakeTypes
<1>2. /\ queue' = [queue EXCEPT ![c] = Tail(queue[c])]
      /\ pc' = [pc EXCEPT ![c] = IF Head(queue[c]) = "exit" THEN "leaving" ELSE "consuming"]
      /\ UNCHANGED <<entries, closed, woken, reading, crashed, alive, out>>
      /\ \A b \in Callers \ {c} : b \in natural' <=> b \in natural
    BY DEF Receive
<1>3. WakeTypes'
    BY <1>1, <1>2 DEF WakeInv, WakeTypes, Phases, Holding
<1>4. ASSUME NEW b \in Callers, Listens(b)' PROVE Listens(b)
    BY <1>1, <1>2, <1>4 DEF Listens, WakeInv, WakeTypes
<1>5. ASSUME NEW b \in Callers, (Listens(b) \/ pc[b] = "registered")', HasSentinel(b)
      PROVE  HasSentinel(b)'
    <2>1. CASE b # c
        <3>1. queue'[b] = queue[b]
            BY <1>2, <2>1 DEF WakeInv, WakeTypes
        <3> QED BY <3>1, <1>5 DEF HasSentinel
    <2>2. CASE b = c
        <3>1. Head(queue[c]) # "exit"
            BY <1>2, <1>5, <2>2 DEF Listens, WakeInv, WakeTypes
        <3>2. queue'[c] = Tail(queue[c])
            BY <1>2 DEF WakeInv, WakeTypes
        <3>3. PICK i \in DOMAIN queue[c] : queue[c][i] = "exit"
            BY <1>5, <2>2 DEF HasSentinel
        <3>4. "exit" \in Events
            BY DEF Events
        <3> QED BY <3>1, <3>2, <3>3, <3>4, <1>1, <2>2, SentinelStays DEF HasSentinel
    <2> QED BY <2>1, <2>2
<1>6. \A b \in Callers : pc'[b] = "registered" => pc[b] = "registered"
    BY <1>2 DEF WakeInv, WakeTypes
<1> QED BY <1>2, <1>3, <1>4, <1>5, <1>6 DEF WakeInv, Silent

(* The other steps of a caller touch neither another queue nor the reader. *)
LEMMA QuietSteps ==
    ASSUME WakeInv, NEW c \in Callers,
           \/ Begin(c) \/ AcquireHere(c) \/ AcquireInExecutor(c) \/ LoopHears(c)
           \/ Resume(c) \/ CancelAcquire(c) \/ CheckClosed(c) \/ ReleasePermit(c)
           \/ Register(c) \/ Write(c) \/ Consume(c) \/ Abandon(c) \/ Pop(c) \/ Cancel(c)
    PROVE  WakeInv'
<1> USE DEF Begin, AcquireHere, AcquireInExecutor, LoopHears, Resume, CancelAcquire, CheckClosed,
            ReleasePermit, Register, Write, Consume, Abandon, Pop, Cancel
<1>1. UNCHANGED <<closed, woken, reading, crashed, alive, out>>
    OBVIOUS
<1>2. \/ pc' = pc
      \/ \E p \in Phases : pc' = [pc EXCEPT ![c] = p]
    BY DEF Phases, Holding
<1>3. \A b \in Callers \ {c} :
          /\ queue'[b] = queue[b]
          /\ b \in natural' <=> b \in natural
          /\ b \in entries' <=> b \in entries
    BY DEF WakeInv, WakeTypes
<1>4. entries' \subseteq Callers /\ queue' \in [Callers -> Seq(Events)]
    <2>1. entries' \subseteq entries \cup {c}
        OBVIOUS
    <2>2. queue' = queue \/ queue' = [queue EXCEPT ![c] = <<>>]
        <3>1. CASE Begin(c)
            BY <3>1
        <3>2. CASE ~Begin(c)
            <4>1. UNCHANGED queue
                <5> HIDE DEF Begin
                <5> QED BY <3>2
            <4> QED BY <4>1
        <3> QED BY <3>1, <3>2
    <2>3. [queue EXCEPT ![c] = <<>>] \in [Callers -> Seq(Events)]
        <3> HIDE DEF Begin, AcquireHere, AcquireInExecutor, LoopHears, Resume, CancelAcquire,
                     CheckClosed, ReleasePermit, Register, Write, Consume, Abandon, Pop, Cancel
        <3>1. <<>> \in Seq(Events)
            OBVIOUS
        <3> QED BY <3>1 DEF WakeInv, WakeTypes
    <2> HIDE DEF Begin, AcquireHere, AcquireInExecutor, LoopHears, Resume, CancelAcquire,
                 CheckClosed, ReleasePermit, Register, Write, Consume, Abandon, Pop, Cancel
    <2> QED BY <2>1, <2>2, <2>3 DEF WakeInv, WakeTypes
<1>5. Listens(c)' => \/ /\ Listens(c)
                        /\ queue'[c] = queue[c] /\ entries' = entries
                     \/ /\ pc[c] = "registered" /\ ~closed /\ alive
                        /\ queue'[c] = queue[c] /\ entries' = entries
    BY DEF Listens, WakeInv, WakeTypes
<1>6. pc'[c] = "registered" => \/ pc[c] = "registered" /\ queue'[c] = queue[c] /\ entries' = entries
                              \/ c \in entries'
    BY DEF WakeInv, WakeTypes
<1> HIDE DEF Begin, AcquireHere, AcquireInExecutor, LoopHears, Resume, CancelAcquire, CheckClosed,
            ReleasePermit, Register, Write, Consume, Abandon, Pop, Cancel
<1>7. WakeTypes'
    BY <1>1, <1>2, <1>4 DEF WakeInv, WakeTypes
<1>8. \A b \in Callers \ {c} : /\ Listens(b)' <=> Listens(b)
                               /\ HasSentinel(b)' <=> HasSentinel(b)
                               /\ pc'[b] = pc[b]
    BY <1>2, <1>3 DEF Listens, HasSentinel, WakeInv, WakeTypes
<1>9. Listens(c)' /\ Silent' => HasSentinel(c)'
    BY <1>1, <1>5 DEF WakeInv, Silent, HasSentinel
<1>10. Listens(c)' \/ pc'[c] = "registered" => c \in entries' \/ HasSentinel(c)'
    BY <1>1, <1>5, <1>6 DEF WakeInv, HasSentinel
<1> QED BY <1>1, <1>3, <1>7, <1>8, <1>9, <1>10 DEF WakeInv, Silent

LEMMA WorkerSteps ==
    ASSUME WakeInv, \/ \E c \in Callers : WorkerStep(c)
                    \/ SetClosed \/ WorkerDies \/ UNCHANGED workerVars
    PROVE  WakeInv'
<1>1. UNCHANGED <<pc, natural, entries, queue, woken, reading, crashed>> /\ (closed => closed') /\ (alive' => alive)
    BY DEF WorkerStep, Emit, SetClosed, WorkerDies, workerVars
<1>2. out' \in Seq(Callers \X Events)
    <2>1. CASE out' = out
        BY <2>1 DEF WakeInv, WakeTypes
    <2>2. ASSUME NEW c \in Callers, WorkerStep(c) PROVE out' \in Seq(Callers \X Events)
        <3>1. PICK x \in {"chunk", "final"} : out' = out \/ out' = Append(out, <<c, x>>)
            BY <2>2 DEF WorkerStep, Emit
        <3>2. <<c, x>> \in Callers \X Events
            BY DEF Events
        <3> QED BY <3>1, <3>2 DEF WakeInv, WakeTypes
    <2> QED BY <2>1, <2>2 DEF SetClosed, WorkerDies, workerVars
<1> QED BY <1>1, <1>2 DEF WakeInv, WakeTypes, Listens, Silent, HasSentinel

LEMMA WakeStep == ASSUME WakeInv, [WorkerNext]_workerVars PROVE WakeInv'
BY WakingSteps, DispatchStep, ReceiveStep, QuietSteps, WorkerSteps DEF WorkerNext, CallerStep

(* When close() is called or the reader ends, by the end of stdout or by   *)
(* an exception, whoever is in flight is woken; only who registers after a *)
(* reader that crashed can wait without a sentinel, until close().         *)
THEOREM InFlightCallersAreWoken == WorkerSpec => []CallersInFlightAreWoken
<1>1. WakeInv /\ [WorkerNext]_workerVars => WakeInv'
    BY WakeStep
<1>2. WakeInv => CallersInFlightAreWoken
    BY DEF WakeInv, CallersInFlightAreWoken, Listens, Silent
<1> QED BY WakeInit, <1>1, <1>2, PTL DEF WorkerSpec

-----------------------------------------------------------------------------
(* The in-flight map.                                                      *)

(* Before its request is written.                                          *)
Before == {"acquiring", "gated", "checked", "registered"}

(* Nothing of c's is with the worker or in the pipe.                       *)
NothingOut(c) == c \notin working /\ \A i \in DOMAIN out : out[i][1] # c

(* Whose request is not written yet has nothing under way, for its id is   *)
(* new; and an entry is of a call between its registration and its pop.    *)
BookInv ==
    /\ queueing \in BOOLEAN /\ natural \subseteq Callers
    /\ {closed, woken, reading, crashed, alive} \subseteq BOOLEAN
    /\ stopping \subseteq working /\ working \subseteq Callers
    /\ EntriesAreOfLiveCalls
    /\ \A c \in Callers : pc[c] \in Before => NothingOut(c)

(* Count by places: nobody's event is in the pipe, or somebody's is.       *)
LEMMA CountIsZero ==
    ASSUME NEW c, NEW s \in Seq(Callers \X Events), Count(c, s) = 0
    PROVE  \A i \in DOMAIN s : s[i][1] # c
<1>1. IsFiniteSet({i \in DOMAIN s : s[i][1] = c})
    <2>1. DOMAIN s = 1..Len(s) /\ Len(s) \in Nat
        OBVIOUS
    <2>2. IsFiniteSet(1..Len(s))
        BY <2>1, FS_Interval
    <2> QED BY <2>1, <2>2, FS_Subset
<1>2. {i \in DOMAIN s : s[i][1] = c} = {}
    BY <1>1, FS_EmptySet DEF Count
<1> QED BY <1>2

LEMMA NothingCounted ==
    ASSUME NEW c, NEW s, \A i \in DOMAIN s : s[i][1] # c
    PROVE  ~(Count(c, s) > 0)
<1>1. {i \in DOMAIN s : s[i][1] = c} = {}
    OBVIOUS
<1> QED BY <1>1, FS_EmptySet DEF Count

LEMMA BookInit == WorkerInit => BookInv
BY DEF WorkerInit, BookInv, EntriesAreOfLiveCalls, Before

(* A request begins with a new id.                                         *)
LEMMA BookBegin ==
    ASSUME WakeInv, BookInv, NEW c \in Callers, Begin(c)
    PROVE  BookInv'
<1>1. /\ pc[c] = "idle" /\ UNCHANGED <<queueing, entries, closed, woken, reading, crashed, alive, working, stopping, out>>
      /\ \E p \in {"gated", "acquiring"} : pc' = [pc EXCEPT ![c] = p]
      /\ natural' = natural \ {c} /\ c \notin working /\ Count(c, out) = 0
    BY DEF Begin
<1>2. NothingOut(c)
    BY <1>1, CountIsZero DEF NothingOut, WakeInv, WakeTypes
<1>3. c \notin entries
    BY <1>1 DEF BookInv, EntriesAreOfLiveCalls
<1>4. pc \in [Callers -> Phases]
    BY DEF WakeInv, WakeTypes
<1>5. \A b \in Callers : NothingOut(b)' <=> NothingOut(b)
    BY <1>1 DEF NothingOut
<1>6. EntriesAreOfLiveCalls'
    BY <1>1, <1>3, <1>4 DEF BookInv, EntriesAreOfLiveCalls
<1>7. \A b \in Callers : pc'[b] \in Before => NothingOut(b)'
    BY <1>1, <1>2, <1>4, <1>5 DEF BookInv
<1> QED BY <1>1, <1>6, <1>7 DEF BookInv

(* The steps of a caller that write nothing.                               *)
LEMMA BookCaller ==
    ASSUME WakeInv, BookInv, GrabsFit, NEW c \in Callers,
           \/ AcquireHere(c) \/ AcquireInExecutor(c) \/ LoopHears(c) \/ Resume(c) \/ CancelAcquire(c)
           \/ CheckClosed(c) \/ ReleasePermit(c) \/ Register(c) \/ Receive(c) \/ Consume(c)
           \/ Abandon(c) \/ Pop(c) \/ Cancel(c)
    PROVE  BookInv'
<1> DEFINE Moved(p) == pc' = [pc EXCEPT ![c] = p]
<1> USE DEF AcquireHere, AcquireInExecutor, LoopHears, Resume, CancelAcquire, CheckClosed,
            ReleasePermit, Register, Receive, Consume, Abandon, Pop, Cancel
<1>1. UNCHANGED <<queueing, closed, woken, reading, crashed, alive, working, out>>
    OBVIOUS
<1>2. natural' \subseteq Callers /\ stopping' \subseteq working
    BY DEF BookInv
<1>3. \/ pc' = pc /\ entries' = entries
      \/ pc[c] \in Before /\ entries' = entries
         /\ pc[c] # "registered" /\ \E p \in {"idle", "gated", "checked"} : Moved(p)
      \/ pc[c] = "checked" /\ entries' = entries \cup {c} /\ Moved("registered")
      \/ pc[c] \in {"waiting", "consuming"} /\ entries' = entries
         /\ \E p \in {"waiting", "consuming", "leaving"} : Moved(p)
      \/ entries' = entries \ {c} /\ Moved("popped")
      \/ pc[c] \in {"popped", "cancelling"} /\ entries' = entries /\ \E p \in {"cancelling", "idle"} : Moved(p)
    BY DEF Before
<1> HIDE DEF AcquireHere, AcquireInExecutor, LoopHears, Resume, CancelAcquire, CheckClosed,
            ReleasePermit, Register, Receive, Consume, Abandon, Pop, Cancel
<1>4. pc \in [Callers -> Phases] /\ entries \subseteq Callers
    BY DEF WakeInv, WakeTypes
<1>5. EntriesAreOfLiveCalls'
    <2>1. \A b \in Callers \ {c} : pc'[b] = pc[b] /\ (b \in entries' <=> b \in entries)
        BY <1>3, <1>4
    <2>2. c \in entries' => pc'[c] \in {"registered", "waiting", "consuming", "leaving"}
        BY <1>3, <1>4 DEF BookInv, EntriesAreOfLiveCalls, Before
    <2>3. entries' \subseteq Callers
        BY <1>3, <1>4
    <2> QED BY <2>1, <2>2, <2>3 DEF BookInv, EntriesAreOfLiveCalls
<1>6. \A b \in Callers : pc'[b] \in Before => pc[b] \in Before
    BY <1>3, <1>4 DEF Before
<1>7. \A b \in Callers : NothingOut(b)' <=> NothingOut(b)
    BY <1>1 DEF NothingOut
<1> QED BY <1>1, <1>2, <1>5, <1>6, <1>7 DEF BookInv

(* A request is written when its call is registered.                       *)
LEMMA BookWrite ==
    ASSUME WakeInv, BookInv, NEW c \in Callers, Write(c)
    PROVE  BookInv'
<1>1. /\ UNCHANGED <<queueing, entries, natural, closed, woken, reading, crashed, alive, stopping, out>>
      /\ pc[c] = "registered" /\ working' \in {working, working \cup {c}}
      /\ \E p \in {"waiting", "leaving"} : pc' = [pc EXCEPT ![c] = p]
    BY DEF Write
<1>2. pc \in [Callers -> Phases]
    BY DEF WakeInv, WakeTypes
<1>3. \A b \in Callers : b # c => (NothingOut(b)' <=> NothingOut(b))
    BY <1>1 DEF NothingOut
<1>4. \A b \in Callers : pc'[b] \in Before => b # c /\ pc[b] \in Before
    BY <1>1, <1>2 DEF Before
<1>5. EntriesAreOfLiveCalls'
    BY <1>1, <1>2 DEF BookInv, EntriesAreOfLiveCalls
<1> QED BY <1>1, <1>3, <1>4, <1>5 DEF BookInv

(* The worker prints events of requests it has; the reader takes them out. *)
LEMMA BookOthers ==
    ASSUME WakeInv, BookInv,
           \/ \E c \in Callers : WorkerStep(c)
           \/ SetClosed \/ CloseWakes \/ Dispatch \/ ReaderEnds \/ ReaderFails \/ WorkerDies \/ UNCHANGED workerVars
    PROVE  BookInv'
<1> DEFINE E == Callers \X Events
<1>1. /\ UNCHANGED <<queueing, pc, natural>> /\ entries' \subseteq entries
      /\ {closed', woken', reading', crashed', alive'} \subseteq BOOLEAN
      /\ stopping' \subseteq working' /\ working' \subseteq working
    BY DEF BookInv, WorkerStep, SetClosed, CloseWakes, ReaderEnds, ReaderFails, WakeAll, Dispatch, WorkerDies, workerVars
<1>2. out \in Seq(E)
    BY DEF WakeInv, WakeTypes
<1>3. ASSUME NEW b \in Callers, NothingOut(b) PROVE NothingOut(b)'
    <2>1. CASE out' = out
        BY <1>1, <1>3, <2>1 DEF NothingOut
    <2>2. ASSUME NEW c \in Callers, WorkerStep(c) PROVE NothingOut(b)'
        <3>1. PICK x \in Events : c \in working /\ (out' = out \/ out' = Append(out, <<c, x>>))
            BY <2>2 DEF WorkerStep, Emit, Events
        <3>2. c # b /\ <<c, x>> \in E
            BY <1>3, <3>1 DEF NothingOut
        <3>3. \A i \in DOMAIN out' : \/ i \in DOMAIN out /\ out'[i] = out[i]
                                     \/ out'[i] = <<c, x>>
            <4> HIDE DEF E
            <4> QED BY <1>2, <3>1, <3>2
        <3> QED BY <1>1, <1>3, <3>2, <3>3 DEF NothingOut
    <2>3. CASE Dispatch
        <3>1. out' = Tail(out) /\ out # <<>>
            BY <2>3 DEF Dispatch
        <3>2. \A i \in DOMAIN out' : i + 1 \in DOMAIN out /\ out'[i] = out[i + 1]
            <4> HIDE DEF E
            <4> QED BY <1>2, <3>1
        <3> QED BY <1>1, <1>3, <3>2 DEF NothingOut
    <2>4. CASE ReaderFails
        BY <1>1, <1>3, <2>4 DEF ReaderFails, NothingOut
    <2> QED BY <2>1, <2>2, <2>3, <2>4 DEF SetClosed, CloseWakes, ReaderEnds, WorkerDies, workerVars
<1> QED BY <1>1, <1>3 DEF BookInv, EntriesAreOfLiveCalls

(* The in-flight map (worker_io.py, _inflight): for any number of callers, *)
(* the reader finds the queue of every call whose caller still listens, or *)
(* the caller has its sentinel; and no entry outlives its call.            *)
THEOREM EventsReachCallers == WorkerSpec => []EventsReachTheirCaller
<1> DEFINE Books == IInv /\ WakeInv /\ BookInv
<1>1. WorkerInit => Books
    BY InitInv, WakeInit, BookInit
<1>2. Books /\ [WorkerNext]_workerVars => Books'
    <2> SUFFICES ASSUME Books, [WorkerNext]_workerVars PROVE Books'
        OBVIOUS
    <2>1. IInv'
        BY SemaphoreStep
    <2>2. WakeInv'
        BY WakeStep
    <2>3. BookInv'
        BY BookBegin, BookCaller, BookWrite, BookOthers DEF WorkerNext, CallerStep, IInv
    <2> QED BY <2>1, <2>2, <2>3
<1>3. Books => EventsReachTheirCaller
    <2> SUFFICES ASSUME Books PROVE EventsReachTheirCaller
        OBVIOUS
    <2>1. WorkerTypeOK
        <3>1. permits + lost <= Slots /\ permits \in Nat /\ lost \in Nat
            BY HoldersFinite, WorkerAssumption DEF IInv, SemTypes, PermitsConserved
        <3>2. permits \in 0..Slots /\ lost \in 0..Slots
            BY <3>1, WorkerAssumption
        <3> QED BY <3>2 DEF IInv, SemTypes, WakeInv, WakeTypes, BookInv, WorkerTypeOK
    <2>2. EventsFindTheirQueue
        <3> SUFFICES ASSUME NEW c \in Callers, pc[c] \in {"registered", "waiting", "consuming"},
                            c \in working \/ Count(c, out) > 0, c \notin natural, c \notin entries
                     PROVE  HasSentinel(c)
            BY DEF EventsFindTheirQueue
        <3>1. pc[c] # "registered"
            BY NothingCounted DEF BookInv, Before, NothingOut
        <3> QED BY <3>1 DEF WakeInv, Listens
    <2> QED BY <2>1, <2>2 DEF BookInv, EventsReachTheirCaller
<1> HIDE DEF Books
<1> QED BY <1>1, <1>2, <1>3, PTL DEF WorkerSpec
=============================================================================
