----------------------------- MODULE V2v_proofs -----------------------------
(* Theorems about V2vAdmission, for any number of connections and other     *)
(* requests, any limit and any wait; and about V2vSession, for any number   *)
(* of turns and sentences.                                                  *)
EXTENDS V2vSession, V2vAdmission, FiniteSetTheorems, TLAPS

(* The lock has one owner.                                                 *)
LockIsExclusive == \A c, d \in LockOwners : c = d

(* The queue of the lock lists waiting connections, each of them once.     *)
QueueIsProper ==
    /\ \A i \in 1..Len(lockq) : connAt[lockq[i]] = "lockwait"
    /\ \A i, j \in 1..Len(lockq) : lockq[i] = lockq[j] => i = j

(* A connection that polls has a poll left.                                *)
PollsAreBounded == LockOwners # {} => polls < PollSteps

(* Who waits holds no slot: Take must not count a party twice.             *)
WaitersHoldNothing == \A c \in Conns : connAt[c] \in Waiting => c \notin held

SlotInv ==
    /\ IsFiniteSet(held)
    /\ ActiveCountsTokens

IInv ==
    /\ AdmissionTypeOK /\ SlotInv /\ EverySlotHolderIsOnRecord
    /\ LockIsExclusive /\ QueueIsProper /\ PollsAreBounded /\ WaitersHoldNothing

-----------------------------------------------------------------------------
USE DEF tokenVars, evictVars

(* A slot taken by a party without one keeps the count exact.              *)
LEMMA TakeCounts ==
    ASSUME AdmissionTypeOK, SlotInv, NEW x \in Conns \cup Others, x \notin held, Take(x)
    PROVE  SlotInv' /\ active' \in 0..Limit /\ held' \subseteq Conns \cup Others
<1>1. Cardinality(held \cup {x}) = Cardinality(held) + 1
    BY FS_AddElement DEF SlotInv
<1>2. IsFiniteSet(held \cup {x})
    BY FS_AddElement DEF SlotInv
<1>3. active \in Nat /\ active < Limit /\ Limit \in Nat
    BY AdmissionAssumption DEF AdmissionTypeOK, Take
<1> QED
    BY <1>1, <1>2, <1>3 DEF SlotInv, ActiveCountsTokens, Take, AdmissionTypeOK

(* Giving a slot back keeps the count exact, also when it was given back   *)
(* before.                                                                 *)
LEMMA GiveCounts ==
    ASSUME AdmissionTypeOK, SlotInv, NEW x \in Conns \cup Others, Give(x)
    PROVE  SlotInv' /\ active' \in 0..Limit /\ held' \subseteq Conns \cup Others
<1>0. active \in Nat /\ active <= Limit /\ Limit \in Nat
    BY AdmissionAssumption DEF AdmissionTypeOK
<1>1. IsFiniteSet(held \ {x})
    BY FS_RemoveElement DEF SlotInv
<1>2. CASE x \in held
    <2>1. Cardinality(held \ {x}) = Cardinality(held) - 1
        BY <1>2, FS_RemoveElement DEF SlotInv
    <2>2. Cardinality(held \ {x}) \in Nat
        BY <1>1, FS_CardinalityType
    <2>3. active > 0 /\ active' = active - 1
        BY <2>1, <2>2, <1>0, <1>2 DEF SlotInv, ActiveCountsTokens, Give
    <2> QED BY <2>1, <2>3, <1>0, <1>1 DEF SlotInv, ActiveCountsTokens, Give, AdmissionTypeOK
<1>3. CASE x \notin held
    <2>1. held' = held /\ active' = active
        BY <1>3 DEF Give
    <2> QED BY <2>1 DEF SlotInv, ActiveCountsTokens, AdmissionTypeOK
<1> QED BY <1>2, <1>3

LEMMA InitInv == AdmissionInit => IInv
<1> SUFFICES ASSUME AdmissionInit PROVE IInv
    OBVIOUS
<1>1. IsFiniteSet(held) /\ Cardinality(held) = 0
    BY FS_EmptySet DEF AdmissionInit
<1>2. AdmissionTypeOK
    BY AdmissionAssumption DEF AdmissionInit, AdmissionTypeOK, ConnPlaces
<1>3. LockIsExclusive /\ QueueIsProper /\ PollsAreBounded /\ WaitersHoldNothing
    BY DEF PollsAreBounded, AdmissionInit, LockIsExclusive, LockOwners, QueueIsProper, WaitersHoldNothing, Waiting
<1> QED BY <1>1, <1>2, <1>3 DEF AdmissionInit, IInv, SlotInv, ActiveCountsTokens, EverySlotHolderIsOnRecord

(* Every step leaves the slots alone, takes one for a party without, or    *)
(* gives one back.                                                         *)
LEMMA SlotSteps ==
    ASSUME IInv, [AdmissionNext]_admissionVars
    PROVE  \/ UNCHANGED tokenVars
           \/ \E x \in Conns \cup Others : Give(x)
           \/ \E x \in Conns \cup Others : x \notin held /\ Take(x)
<1> USE DEF ReleaseEarly
<1>1. CASE UNCHANGED admissionVars
    BY <1>1 DEF admissionVars
<1>2. CASE \E p \in Others : OtherTakes(p) \/ OtherGives(p)
    BY <1>2 DEF OtherTakes, OtherGives
<1>3. ASSUME NEW c \in Conns, Arrive(c) PROVE UNCHANGED tokenVars \/ (c \notin held /\ Take(c))
    BY <1>3 DEF Arrive, UnderLock, Admit
<1>4. ASSUME NEW c \in Conns, GetLock(c) PROVE UNCHANGED tokenVars \/ (c \notin held /\ Take(c))
    <2>1. connAt[c] \in Waiting
        BY <1>4 DEF IInv, QueueIsProper, GetLock, AdmissionTypeOK, Waiting
    <2> QED BY <1>4, <2>1 DEF GetLock, UnderLock, Admit, IInv, WaitersHoldNothing
<1>5. ASSUME NEW c \in Conns, Poll(c) PROVE UNCHANGED tokenVars \/ (c \notin held /\ Take(c))
    BY <1>5 DEF Poll, Admit, IInv, WaitersHoldNothing, Waiting
<1>6. ASSUME NEW c \in Conns, Handler(c) PROVE UNCHANGED tokenVars \/ Give(c)
    BY <1>6 DEF Handler, GreetingSent, GreetingFails, SetupEnds, SetupDone, RunEnds,
                DispatcherStopped, TasksStopped, Closed, CancelLands
<1>7. ASSUME NEW c \in Conns, ForceClose(c) PROVE UNCHANGED tokenVars
    BY <1>7 DEF ForceClose
<1>8. ASSUME NEW c \in Conns, NEW h \in Conns, EvictHolder(c, h) PROVE UNCHANGED tokenVars
    BY <1>8 DEF EvictHolder
<1> QED BY <1>1, <1>2, <1>3, <1>4, <1>5, <1>6, <1>7, <1>8 DEF AdmissionNext

LEMMA SlotsPreserved ==
    ASSUME IInv, [AdmissionNext]_admissionVars
    PROVE  SlotInv' /\ active' \in 0..Limit /\ held' \subseteq Conns \cup Others
<1>1. CASE UNCHANGED tokenVars
    BY <1>1 DEF IInv, SlotInv, ActiveCountsTokens, AdmissionTypeOK
<1>2. CASE \E x \in Conns \cup Others : Give(x)
    BY <1>2, GiveCounts DEF IInv
<1>3. CASE \E x \in Conns \cup Others : x \notin held /\ Take(x)
    BY <1>3, TakeCounts DEF IInv
<1> QED BY <1>1, <1>2, <1>3, SlotSteps

(* What the invariant says besides the slots themselves.                   *)
RestOfTypes ==
    /\ v2vHolders \subseteq Conns
    /\ connAt \in [Conns -> ConnPlaces]
    /\ pending \subseteq {c \in Conns : connAt[c] \in Admitted}
    /\ raising \subseteq {c \in Conns : connAt[c] \in Unwinding}
    /\ lockq \in Seq(Conns) /\ toEvict \subseteq Conns /\ polls \in 0..PollSteps

Orderly ==
    /\ RestOfTypes /\ EverySlotHolderIsOnRecord
    /\ LockIsExclusive /\ QueueIsProper /\ PollsAreBounded /\ WaitersHoldNothing

LEMMA TypesSplit == AdmissionTypeOK <=> /\ RestOfTypes
                               /\ active \in 0..Limit /\ held \subseteq Conns \cup Others
BY DEF AdmissionTypeOK, RestOfTypes

LEMMA OtherSteps ==
    ASSUME Orderly, NEW p \in Others, OtherTakes(p) \/ OtherGives(p)
    PROVE  Orderly'
<1> USE DEF OtherTakes, OtherGives, Take, Give, Orderly
<1>1. RestOfTypes' /\ QueueIsProper' /\ LockIsExclusive' /\ PollsAreBounded'
    BY DEF RestOfTypes, QueueIsProper, LockIsExclusive, LockOwners, PollsAreBounded
<1>2. EverySlotHolderIsOnRecord' /\ WaitersHoldNothing'
    BY AdmissionAssumption DEF EverySlotHolderIsOnRecord, WaitersHoldNothing
<1> QED BY <1>1, <1>2

LEMMA SlotHandlerSteps ==
    ASSUME Orderly, NEW c \in Conns, Handler(c)
    PROVE  Orderly'
<1> USE DEF MoveTo, Orderly, ReleaseEarly, Give
<1>1. connAt[c] \in Admitted
    BY DEF Handler, GreetingSent, GreetingFails, SetupEnds, SetupDone, RunEnds,
           DispatcherStopped, TasksStopped, Closed, CancelLands, Admitted, RestOfTypes
<1>2. UNCHANGED evictVars
    BY DEF Handler, GreetingSent, GreetingFails, SetupEnds, SetupDone, RunEnds,
           DispatcherStopped, TasksStopped, Closed, CancelLands
<1>3. PICK p \in Admitted \cup {"idle"} : MoveTo(c, p)
    BY DEF Handler, GreetingSent, GreetingFails, SetupEnds, SetupDone, RunEnds,
           DispatcherStopped, TasksStopped, Closed, CancelLands, Admitted
<1>4. /\ held' \subseteq held /\ v2vHolders' \subseteq v2vHolders
      /\ held' # held \/ v2vHolders' # v2vHolders => c \notin held'
      /\ v2vHolders \ v2vHolders' \subseteq {c}
    BY DEF Handler, GreetingSent, GreetingFails, SetupEnds, SetupDone, RunEnds,
           DispatcherStopped, TasksStopped, Closed, CancelLands
<1>5. /\ pending' \subseteq pending /\ raising' \subseteq raising \cup {c}
      /\ p = "idle" => c \notin pending' /\ c \notin raising'
    BY <1>3 DEF Handler, GreetingSent, GreetingFails, SetupEnds, SetupDone, RunEnds,
           DispatcherStopped, TasksStopped, Closed, CancelLands, RestOfTypes, Unwinding
<1>12. raising' = raising \/ p = "idle" \/ (connAt[c] = "running" /\ p = "stopping")
    BY <1>3 DEF Handler, GreetingSent, GreetingFails, SetupEnds, SetupDone, RunEnds,
           DispatcherStopped, TasksStopped, Closed, CancelLands, RestOfTypes
<1>13. connAt[c] \in Unwinding => p \in Unwinding \cup {"idle"}
    BY <1>3 DEF Handler, GreetingSent, GreetingFails, SetupEnds, SetupDone, RunEnds,
           DispatcherStopped, TasksStopped, Closed, CancelLands, RestOfTypes, Unwinding
<1>6. RestOfTypes'
    <2>1. v2vHolders' \subseteq Conns /\ connAt' \in [Conns -> ConnPlaces]
        BY <1>3, <1>4 DEF RestOfTypes, ConnPlaces
    <2>2. pending' \subseteq {d \in Conns : connAt'[d] \in Admitted}
        BY <1>3, <1>5 DEF RestOfTypes
    <2>3. raising' \subseteq {d \in Conns : connAt'[d] \in Unwinding}
        BY <1>3, <1>5, <1>12, <1>13 DEF RestOfTypes, Unwinding
    <2> QED BY <1>2, <2>1, <2>2, <2>3 DEF RestOfTypes
<1>7. \A d \in Conns : connAt'[d] \in Waiting => connAt'[d] = connAt[d]
    BY <1>3 DEF RestOfTypes, Waiting, Admitted
<1>8. LockIsExclusive'
    BY <1>7, <1>3 DEF LockIsExclusive, LockOwners, RestOfTypes, Waiting, Admitted
<1>9. QueueIsProper'
    BY <1>1, <1>2, <1>3 DEF QueueIsProper, RestOfTypes, Admitted
<1>10. WaitersHoldNothing'
    BY <1>7, <1>4 DEF WaitersHoldNothing
<1>11. EverySlotHolderIsOnRecord'
    BY <1>4 DEF EverySlotHolderIsOnRecord
<1>14. PollsAreBounded'
    BY <1>2, <1>7 DEF PollsAreBounded, LockOwners, Waiting
<1> QED BY <1>6, <1>8, <1>9, <1>10, <1>11, <1>14

LEMMA CancellingSteps ==
    ASSUME Orderly, NEW c \in Conns,
           ForceClose(c) \/ \E h \in Conns : EvictHolder(c, h)
    PROVE  Orderly'
<1> USE DEF MoveTo, Orderly, EvictHolder, ForceClose
<1>1. RestOfTypes'
    BY DEF RestOfTypes, ConnPlaces, Waiting, Admitted, Unwinding
<1>2. LockIsExclusive' /\ PollsAreBounded'
    BY DEF LockIsExclusive, PollsAreBounded, LockOwners, RestOfTypes
<1>3. QueueIsProper'
    BY DEF QueueIsProper, RestOfTypes
<1>4. WaitersHoldNothing' /\ EverySlotHolderIsOnRecord'
    BY DEF WaitersHoldNothing, EverySlotHolderIsOnRecord, RestOfTypes, Waiting
<1> QED BY <1>1, <1>2, <1>3, <1>4

(* The four ways an admission step may leave a connection.                 *)
LEMMA AdmissionSteps ==
    ASSUME Orderly, NEW c \in Conns, Arrive(c) \/ GetLock(c) \/ Poll(c)
    PROVE  Orderly'
<1> USE DEF MoveTo, Orderly, UnderLock, Admit, Take, Poll, GetLock, Arrive
<1>1. RestOfTypes'
    <2>1. v2vHolders' \subseteq Conns /\ connAt' \in [Conns -> ConnPlaces]
        BY DEF RestOfTypes, ConnPlaces, Waiting, Admitted
    <2>2. connAt[c] \notin Admitted /\ \A d \in Conns \ {c} : connAt'[d] = connAt[d]
        BY DEF RestOfTypes, Admitted, QueueIsProper
    <2>3. UNCHANGED <<pending, raising>>
        OBVIOUS
    <2>4. lockq' \in Seq(Conns)
        <3>1. lockq \in Seq(Conns) /\ Append(lockq, c) \in Seq(Conns)
            BY DEF RestOfTypes
        <3>2. lockq # <<>> => Tail(lockq) \in Seq(Conns)
            BY <3>1
        <3> QED BY <3>1, <3>2
    <2>5. toEvict' \subseteq Conns
        BY DEF RestOfTypes
    <2>7. polls' \in 0..PollSteps
        BY AdmissionAssumption DEF RestOfTypes, PollsAreBounded, LockOwners
    <2> QED BY <2>1, <2>2, <2>3, <2>4, <2>5, <2>7 DEF RestOfTypes, Unwinding, Admitted
<1>2. /\ \A d \in Conns \ {c} : connAt'[d] = connAt[d]
      /\ connAt[c] \in {"idle", "lockwait", "polling"}
    BY DEF RestOfTypes, QueueIsProper
<1>3. WaitersHoldNothing'
    <2>1. \/ held' = held
          \/ held' = held \cup {c} /\ connAt'[c] \in {"setup", "greeting"}
        BY DEF RestOfTypes
    <2>2. connAt[c] = "idle" => c \notin held
        BY DEF QueueIsProper, RestOfTypes
    <2> QED BY <1>2, <2>1, <2>2 DEF WaitersHoldNothing, Waiting
<1>4. EverySlotHolderIsOnRecord'
    BY DEF EverySlotHolderIsOnRecord
<1>5. LockIsExclusive'
    BY <1>2 DEF LockIsExclusive, LockOwners, RestOfTypes
<1>6. PollsAreBounded'
    BY <1>2, AdmissionAssumption DEF PollsAreBounded, LockIsExclusive, LockOwners, RestOfTypes
<1>7. QueueIsProper'
    <2>1. CASE lockq' = lockq /\ connAt[c] # "lockwait"
        BY <1>2, <2>1 DEF QueueIsProper, RestOfTypes
    <2>2. CASE lockq' = Append(lockq, c) /\ connAt[c] = "idle" /\ connAt' = [connAt EXCEPT ![c] = "lockwait"]
        BY <2>2 DEF QueueIsProper, RestOfTypes
    <2>3. CASE GetLock(c)
        <3>1. lockq' = Tail(lockq) /\ lockq # <<>> /\ lockq[1] = c
            BY <2>3 DEF RestOfTypes
        <3>2. /\ Len(lockq') = Len(lockq) - 1
              /\ \A i \in 1..Len(lockq') : lockq'[i] = lockq[i + 1] /\ i + 1 \in 1..Len(lockq)
            BY <3>1 DEF RestOfTypes
        <3>3. \A i \in 1..Len(lockq') : lockq'[i] # c
            <4> HIDE DEF GetLock, UnderLock, Arrive, Poll, Admit
            <4>1. SUFFICES ASSUME NEW i \in 1..Len(lockq') PROVE lockq[i + 1] # lockq[1]
                BY <3>1, <3>2
            <4>2. i + 1 \in 1..Len(lockq) /\ 1 \in 1..Len(lockq) /\ i + 1 # 1
                BY <3>2 DEF RestOfTypes
            <4> QED BY <4>2 DEF QueueIsProper
        <3>4. \A i \in 1..Len(lockq') : connAt'[lockq'[i]] = "lockwait"
            <4> HIDE DEF GetLock, UnderLock, Arrive, Poll, Admit
            <4>1. \A i \in 1..Len(lockq') : lockq[i + 1] \in Conns /\ connAt[lockq[i + 1]] = "lockwait"
                BY <3>2 DEF QueueIsProper, RestOfTypes
            <4> QED BY <1>2, <3>2, <3>3, <4>1
        <3>5. \A i, j \in 1..Len(lockq') : lockq'[i] = lockq'[j] => i = j
            <4> HIDE DEF GetLock, UnderLock, Arrive, Poll, Admit
            <4>1. SUFFICES ASSUME NEW i \in 1..Len(lockq'), NEW j \in 1..Len(lockq'),
                                  lockq[i + 1] = lockq[j + 1]
                           PROVE  i = j
                BY <3>2
            <4>2. i + 1 \in 1..Len(lockq) /\ j + 1 \in 1..Len(lockq)
                BY <3>2
            <4>3. i + 1 = j + 1
                BY <4>1, <4>2 DEF QueueIsProper
            <4> QED BY <4>3
        <3> QED BY <3>4, <3>5 DEF QueueIsProper
    <2> QED BY <2>1, <2>2, <2>3
<1> QED BY <1>1, <1>3, <1>4, <1>5, <1>6, <1>7

-----------------------------------------------------------------------------
(* The invariant of the admission: what all the others follow from.        *)
THEOREM AdmissionInvariant == AdmissionSpec => []IInv
<1>1. IInv /\ [AdmissionNext]_admissionVars => IInv'
    <2> SUFFICES ASSUME IInv, [AdmissionNext]_admissionVars PROVE IInv'
        OBVIOUS
    <2>1. SlotInv' /\ active' \in 0..Limit /\ held' \subseteq Conns \cup Others
        BY SlotsPreserved
    <2>2. Orderly
        BY TypesSplit DEF IInv, Orderly
    <2>3. Orderly'
        <3>1. CASE \E p \in Others : OtherTakes(p) \/ OtherGives(p)
            BY <2>2, <3>1, OtherSteps
        <3>2. CASE \E c \in Conns : Arrive(c) \/ GetLock(c) \/ Poll(c)
            BY <2>2, <3>2, AdmissionSteps
        <3>3. CASE \E c \in Conns : Handler(c)
            BY <2>2, <3>3, SlotHandlerSteps
        <3>4. CASE \E c \in Conns : ForceClose(c) \/ \E h \in Conns : EvictHolder(c, h)
            BY <2>2, <3>4, CancellingSteps
        <3>5. CASE UNCHANGED admissionVars
            BY <2>2, <3>5 DEF admissionVars, Orderly, RestOfTypes, EverySlotHolderIsOnRecord, LockIsExclusive,
                              LockOwners, QueueIsProper, PollsAreBounded, WaitersHoldNothing
        <3> QED BY <3>1, <3>2, <3>3, <3>4, <3>5 DEF AdmissionNext
    <2>4. AdmissionTypeOK'
        BY <2>1, <2>3 DEF Orderly, AdmissionTypeOK, RestOfTypes
    <2> QED BY <2>1, <2>3, <2>4 DEF IInv, Orderly
<1> QED BY InitInv, <1>1, PTL DEF AdmissionSpec

(* Never more slots out than the limit, and every variable of its type.    *)
THEOREM TypeCorrect == AdmissionSpec => []AdmissionTypeOK
<1>1. IInv => AdmissionTypeOK
    BY DEF IInv
<1> QED BY <1>1, AdmissionInvariant, PTL

(* SessionToken: no path of a handler counts a release twice or loses one. *)
THEOREM SlotsAreConserved == AdmissionSpec => []ActiveCountsTokens
<1>1. IInv => ActiveCountsTokens
    BY DEF IInv, SlotInv
<1> QED BY <1>1, AdmissionInvariant, PTL

(* A /v2v session that has a slot can be found by an evictor.              *)
THEOREM HoldersAreOnRecord == AdmissionSpec => []EverySlotHolderIsOnRecord
<1>1. IInv => EverySlotHolderIsOnRecord
    BY DEF IInv
<1> QED BY <1>1, AdmissionInvariant, PTL

(* The module lock serialises the evictions.                               *)
THEOREM EvictionsAreSerial == AdmissionSpec => []OneEvictorAtATime
<1>1. IInv => OneEvictorAtATime
    <2> SUFFICES ASSUME IInv PROVE OneEvictorAtATime
        OBVIOUS
    <2>1. CASE LockOwners = {}
        BY <2>1, FS_EmptySet DEF OneEvictorAtATime
    <2>2. CASE LockOwners # {}
        <3>1. PICK c \in LockOwners : LockOwners = {c}
            BY <2>2 DEF IInv, LockIsExclusive
        <3>2. Cardinality({c}) = 1
            BY FS_Singleton
        <3> QED BY <3>1, <3>2 DEF OneEvictorAtATime
    <2> QED BY <2>1, <2>2
<1> QED BY <1>1, AdmissionInvariant, PTL

(* The slot of a legacy client is out only while its handler is in a place *)
(* whose exits give it back; a legacy client is never sent a greeting.     *)
LegacyInv ==
    /\ LegacyHandlersLeaveNoSlot
    /\ \A c \in Conns \ RealtimeClients : connAt[c] # "greeting"

LEMMA LegacyHandler ==
    ASSUME IInv, LegacyInv, NEW c \in Conns, Handler(c)
    PROVE  LegacyInv'
<1> USE DEF MoveTo, ReleaseEarly, Give
<1>1. connAt \in [Conns -> ConnPlaces]
    BY DEF IInv, AdmissionTypeOK
<1>2. /\ \A d \in Conns \ {c} : connAt'[d] = connAt[d]
      /\ held' \subseteq held /\ connAt'[c] # "greeting"
    BY <1>1 DEF Handler, GreetingSent, GreetingFails, SetupEnds, SetupDone, RunEnds,
                DispatcherStopped, TasksStopped, Closed, CancelLands
<1>3. c \in Conns \ RealtimeClients /\ connAt'[c] \notin Admitted => c \notin held'
    BY <1>1 DEF LegacyInv, Admitted, Handler, GreetingSent, GreetingFails, SetupEnds, SetupDone,
                RunEnds, DispatcherStopped, TasksStopped, Closed, CancelLands
<1> QED BY <1>2, <1>3 DEF LegacyInv, LegacyHandlersLeaveNoSlot

LEMMA LegacyAdmission ==
    ASSUME IInv, LegacyInv, NEW c \in Conns, Arrive(c) \/ GetLock(c) \/ Poll(c)
    PROVE  LegacyInv'
<1> USE DEF MoveTo
<1>1. connAt \in [Conns -> ConnPlaces]
    BY DEF IInv, AdmissionTypeOK
<1>2. \A d \in Conns \ {c} : connAt'[d] = connAt[d]
    BY <1>1 DEF Arrive, GetLock, Poll, UnderLock, Admit
<1>3. connAt[c] \notin Admitted
    BY DEF Arrive, GetLock, Poll, Admitted, IInv, QueueIsProper, AdmissionTypeOK
<1>4. \/ held' = held
      \/ held' = held \cup {c} /\ connAt'[c] \in Admitted
    BY <1>1 DEF Arrive, GetLock, Poll, UnderLock, Admit, Take, Admitted
<1>5. connAt'[c] = "greeting" => c \in RealtimeClients
    BY <1>1 DEF Arrive, GetLock, Poll, UnderLock, Admit
<1> QED BY <1>2, <1>3, <1>4, <1>5 DEF LegacyInv, LegacyHandlersLeaveNoSlot

LEMMA LegacyOthers ==
    ASSUME IInv, LegacyInv,
           \/ \E p \in Others : OtherTakes(p) \/ OtherGives(p)
           \/ \E c, h \in Conns : ForceClose(c) \/ EvictHolder(c, h)
           \/ UNCHANGED admissionVars
    PROVE  LegacyInv'
<1>1. connAt \in [Conns -> ConnPlaces]
    BY DEF IInv, AdmissionTypeOK
<1>2. CASE \E p \in Others : OtherTakes(p) \/ OtherGives(p)
    <2>1. connAt' = connAt /\ held' \cap Conns \subseteq held
        BY <1>2, AdmissionAssumption DEF OtherTakes, OtherGives, Take, Give
    <2> QED BY <2>1 DEF LegacyInv, LegacyHandlersLeaveNoSlot
<1>3. CASE \E c \in Conns : ForceClose(c)
    BY <1>3 DEF ForceClose, LegacyInv, LegacyHandlersLeaveNoSlot
<1>4. CASE \E c, h \in Conns : EvictHolder(c, h)
    BY <1>1, <1>4 DEF EvictHolder, MoveTo, LegacyInv, LegacyHandlersLeaveNoSlot, Admitted
<1>5. CASE UNCHANGED admissionVars
    BY <1>5 DEF admissionVars, LegacyInv, LegacyHandlersLeaveNoSlot
<1> QED BY <1>2, <1>3, <1>4, <1>5

(* main.py, around the outer try: a handler without a greeting releases    *)
(* its slot, whatever it runs into.                                        *)
THEOREM LegacySlotsComeBack == AdmissionSpec => []LegacyHandlersLeaveNoSlot
<1>1. AdmissionInit => LegacyInv
    BY DEF AdmissionInit, LegacyInv, LegacyHandlersLeaveNoSlot
<1>2. IInv /\ LegacyInv /\ [AdmissionNext]_admissionVars => LegacyInv'
    BY LegacyHandler, LegacyAdmission, LegacyOthers DEF AdmissionNext
<1>3. LegacyInv => LegacyHandlersLeaveNoSlot
    BY DEF LegacyInv
<1> QED BY <1>1, <1>2, <1>3, AdmissionInvariant, PTL DEF AdmissionSpec

(* The books of the admission, for any limit and any number of clients:    *)
(* the conjunction the runs check as AdmissionIsOrderly.                   *)
THEOREM AdmissionOrderly == AdmissionSpec => []AdmissionIsOrderly
<1>1. AdmissionTypeOK /\ ActiveCountsTokens /\ EverySlotHolderIsOnRecord /\ OneEvictorAtATime
      /\ LegacyHandlersLeaveNoSlot => AdmissionIsOrderly
    BY DEF AdmissionIsOrderly
<1> QED BY <1>1, TypeCorrect, SlotsAreConserved, HoldersAreOnRecord, EvictionsAreSerial,
             LegacySlotsComeBack, PTL

-----------------------------------------------------------------------------
(* The tasks of a session.                                                  *)

(* Types of the flags, ...                                                *)
SessionFlags ==
  /\ settings \in V2vSettings
  /\ clientClosed \in BOOLEAN /\ sessionClosed \in BOOLEAN /\ startedOnce \in BOOLEAN
  /\ tail \in BOOLEAN /\ voiced \in BOOLEAN /\ isEndpoint \in BOOLEAN /\ ttsFlush \in BOOLEAN /\ wiped \in BOOLEAN

(* ... and of the turn: an utterance the manager has open is open for the *)
(* handler too, unless the turn deadline cleared the flags of a turn it   *)
(* had not cancelled; the generation of the handler is never ahead, an    *)
(* open turn has its clock, and a turn being opened is within the bound.  *)
TurnFacts ==
  /\ asrActive \in BOOLEAN /\ asrActiveGen \in Gens /\ managerGen \in Gens /\ asrActiveGen <= managerGen
  /\ turnClock \in {"off", "running", "expired"} /\ (asrActive => turnClock # "off")
  /\ manager \in {"idle", "active", "finalizing"}
  /\ disp = "opening" => managerGen < MaxTurns
  /\ manager = "active" => asrActive \/ wiped

(* Where the three tasks, the synthesis and the handler stand.            *)
SessionPlaces ==
  /\ peer \in {"here", "left"}
  /\ endpointPending \in {"none", "vad", "client_eos"} /\ endpointPendingGen \in Gens
  /\ disp \in {"receive", "opening", "feeding", "cancelling"} \cup Ended
  /\ asrOut \in AsrAwaits \cup Ended
  /\ judgedGen \in Gens /\ finalizeGen \in Gens /\ ranGen \in Gens
  /\ ttsOut \in TtsAwaits \cup Ended /\ queued \in 0..MaxSentences
  /\ synth \in {"none", "running", "over"}
  /\ frame \in {"serving", "unwinding", "gathering", "released", "closed"}

(* No thread is left without its stop event; the dispatcher has ended     *)
(* before the handler gathers the tasks, and all of them before it        *)
(* releases.                                                              *)
ReleaseFacts ==
  /\ loose = FALSE
  /\ frame \in {"gathering", "released", "closed"} => disp \in Ended
  /\ frame \in {"released", "closed"} => asrOut \in Ended /\ ttsOut \in Ended

(* The inductive invariant.                                               *)
SessionInv == SessionFlags /\ TurnFacts /\ SessionPlaces /\ ReleaseFacts

(* It implies what the run checks.                                        *)
LEMMA SessionFacts == SessionInv => TurnsAreSound
<1> SUFFICES ASSUME SessionInv PROVE TurnsAreSound
  OBVIOUS
<1> USE DEF SessionInv
<1>1. V2vTypeOK
  <2>1. {judgedGen, finalizeGen, ranGen} \subseteq Gens /\ loose \in BOOLEAN
    BY DEF SessionPlaces, ReleaseFacts
  <2>2. QED
    BY <2>1 DEF V2vTypeOK, SessionFlags, TurnFacts, SessionPlaces
<1>2. OpenTurnIsFed /\ OrphanSynthIsStopped
  BY DEF OpenTurnIsFed, OrphanSynthIsStopped, TurnFacts, ReleaseFacts
<1>3. ReleasedSessionIsQuiet
  BY DEF ReleasedSessionIsQuiet, Work, ReleaseFacts
<1>4. QED
  BY <1>1, <1>2, <1>3 DEF TurnsAreSound

(* It holds when the tasks start.                                         *)
LEMMA SessionInit == V2vInit => SessionInv
<1> SUFFICES ASSUME V2vInit PROVE SessionInv
  OBVIOUS
<1> USE V2vAssumption DEF V2vInit, Gens
<1>1. SessionFlags
  <2>1. PICK s \in V2vSettings : multi = s[1] /\ frontVad = s[2] /\ owns = s[3]
    OBVIOUS
  <2>2. s = <<s[1], s[2], s[3]>>
    OBVIOUS
  <2>3. settings \in V2vSettings
    BY <2>1, <2>2 DEF settings
  <2>4. QED
    BY <2>3 DEF SessionFlags
<1>2. TurnFacts
  <2>1. asrActive = FALSE /\ asrActiveGen = 0 /\ managerGen = 0 /\ turnClock = "off" /\ manager = "idle" /\ disp = "receive"
    OBVIOUS
  <2>2. 0 \in Gens
    OBVIOUS
  <2>3. asrActiveGen <= managerGen /\ (asrActive => turnClock # "off")
    BY <2>1
  <2>4. asrActive \in BOOLEAN /\ asrActiveGen \in Gens /\ managerGen \in Gens
    BY <2>1, <2>2
  <2>5. QED
    BY <2>1, <2>3, <2>4 DEF TurnFacts
<1>3. SessionPlaces
  BY DEF SessionPlaces, AsrAwaits, TtsAwaits, Ended
<1>4. ReleaseFacts
  BY DEF ReleaseFacts
<1>5. QED
  BY <1>1, <1>2, <1>3, <1>4 DEF SessionInv

(* Every step keeps the types of the flags, ...                           *)
LEMMA SessionFlagsStep == ASSUME SessionInv, V2vNext PROVE SessionFlags'
<1> USE V2vAssumption DEF SessionInv, SessionFlags, settings, turnVars, endpointVars, managerVars, inputVars, dispVars, asrVars, sayVars
<1>1. CASE frame \in {"serving", "unwinding"} /\ SpeechStart
  BY <1>1 DEF SpeechStart, Receiving, Listening, BargeIn, LeaveSentence, Opens, Sends
<1>2. CASE frame \in {"serving", "unwinding"} /\ LazyOpen
  BY <1>2 DEF LazyOpen, Receiving, Listening, Opens
<1>3. CASE frame \in {"serving", "unwinding"} /\ SpeechEnd
  BY <1>3 DEF SpeechEnd, Receiving, Latch, LatchEndpoint, Sends
<1>4. CASE frame \in {"serving", "unwinding"} /\ (ClientEos \/ ClientText \/ ClientAbort)
  BY <1>4 DEF ClientEos, ClientText, ClientAbort, LeaveSentence
<1>5. CASE frame \in {"serving", "unwinding"} /\ Fed
  BY <1>5 DEF Fed, Latch, LatchEndpoint, Sends
<1>6. CASE frame \in {"serving", "unwinding"} /\ Opened
  BY <1>6 DEF Opened, ClearEndpoint
<1>7. CASE frame \in {"serving", "unwinding"} /\ (OpenRefused \/ AbortDone)
  BY <1>7 DEF OpenRefused, ClearEndpoint, Sends, AbortDone, ClearTurn
<1>8. CASE frame \in {"serving", "unwinding"} /\ FoundClosed
  BY <1>8 DEF FoundClosed, CancelWork, CancelAsrOut, CancelTtsOut, LoopEnds, LeaveSentence
<1>9. CASE frame \in {"serving", "unwinding"} /\ Disconnect
  BY <1>9 DEF Disconnect, CancelWork, CancelAsrOut, CancelTtsOut, LoopEnds, LeaveSentence
<1>10. CASE frame \in {"serving", "unwinding"} /\ DispatcherFails
  BY <1>10 DEF DispatcherFails
<1>11. CASE Tick
  <2>1. isEndpoint' \in BOOLEAN
    <3>1. CASE clientClosed
      BY <1>11, <3>1 DEF Tick, LoopEnds
    <3>2. CASE ~clientClosed
      BY <1>11, <3>2 DEF Tick
    <3>3. QED
      BY <3>1, <3>2
  <2>2. QED
    BY <1>11, <2>1 DEF Tick
<1>12. CASE DeadlineDone
  BY <1>12 DEF DeadlineDone, ClearTurn, ClearEndpoint, LoopEnds, Sends
<1>13. CASE Judge
  BY <1>13 DEF Judge, ClearEndpoint, BeginFinalize, LoopEnds, Sends
<1>14. CASE Announced \/ Finalize
  BY <1>14 DEF Announced, BeginFinalize, Sends, Finalize
<1>15. CASE FinalAccepted
  BY <1>15 DEF FinalAccepted, ClearTurn
<1>16. CASE FinalRejected
  BY <1>16 DEF FinalRejected, ClearTurn, ClearEndpoint, LoopEnds
<1>17. CASE Deliver \/ AsrFails
  BY <1>17 DEF Deliver, LoopEnds, Sends, AsrFails
<1>18. CASE TtsLeaves \/ TurnSpoken \/ TakeSentence
  BY <1>18 DEF TtsLeaves, TtsSteps, Sends, TurnSpoken, TakeSentence
<1>19. CASE StartSynth \/ SynthEnds \/ SentenceDone
  BY <1>19 DEF StartSynth, TtsSteps, Sends, SynthEnds, SentenceDone, LeaveSentence
<1>20. CASE SentenceOverdue \/ TtsFails
  BY <1>20 DEF SentenceOverdue, TtsSteps, LeaveSentence, Sends, TtsFails
<1>21. CASE GatherReturns
  BY <1>21 DEF GatherReturns, Sends
<1>22. CASE Unwind \/ Evict
  BY <1>22 DEF Unwind, CancelWork, CancelAsrOut, CancelTtsOut, LoopEnds, LeaveSentence, Evict
<1>23. CASE ReleaseSlot \/ CloseSocket
  BY <1>23 DEF ReleaseSlot, CloseSocket
<1>24. CASE ClientLeaves \/ ManagerDrops \/ TurnOverdue
  BY <1>24 DEF ClientLeaves, ManagerDrops, TurnOverdue
<1>25. QED
  BY <1>1, <1>2, <1>3, <1>4, <1>5, <1>6, <1>7, <1>8, <1>9, <1>10, <1>11, <1>12, <1>13, <1>14, <1>15, <1>16, <1>17, <1>18, <1>19, <1>20, <1>21, <1>22, <1>23, <1>24 DEF V2vNext, ClientActs, DispatcherResumes, AsrOutSteps, TtsOutSteps, HandlerSteps

(* ... the open turn with its flag, ...                                   *)
LEMMA TurnStep == ASSUME SessionInv, V2vNext PROVE TurnFacts'
<1> USE V2vAssumption DEF SessionInv, TurnFacts, SessionFlags, Gens, Ended, settings, turnVars, endpointVars, managerVars, inputVars, dispVars, asrVars, sayVars
<1>1. CASE frame \in {"serving", "unwinding"} /\ SpeechStart
  BY <1>1 DEF SpeechStart, Receiving, Listening, BargeIn, LeaveSentence, Opens, Sends
<1>2. CASE frame \in {"serving", "unwinding"} /\ LazyOpen
  BY <1>2 DEF LazyOpen, Receiving, Listening, Opens
<1>3. CASE frame \in {"serving", "unwinding"} /\ SpeechEnd
  BY <1>3 DEF SpeechEnd, Receiving, Latch, LatchEndpoint, Sends
<1>4. CASE frame \in {"serving", "unwinding"} /\ (ClientEos \/ ClientText \/ ClientAbort)
  BY <1>4 DEF ClientEos, ClientText, ClientAbort, LeaveSentence
<1>5. CASE frame \in {"serving", "unwinding"} /\ Fed
  BY <1>5 DEF Fed, Latch, LatchEndpoint, Sends
<1>6. CASE frame \in {"serving", "unwinding"} /\ Opened
  BY <1>6 DEF Opened, ClearEndpoint
<1>7. CASE frame \in {"serving", "unwinding"} /\ (OpenRefused \/ AbortDone)
  BY <1>7 DEF OpenRefused, ClearEndpoint, Sends, AbortDone, ClearTurn
<1>8. CASE frame \in {"serving", "unwinding"} /\ FoundClosed
  BY <1>8 DEF FoundClosed, CancelWork, CancelAsrOut, CancelTtsOut, LoopEnds, LeaveSentence
<1>9. CASE frame \in {"serving", "unwinding"} /\ Disconnect
  BY <1>9 DEF Disconnect, CancelWork, CancelAsrOut, CancelTtsOut, LoopEnds, LeaveSentence
<1>10. CASE frame \in {"serving", "unwinding"} /\ DispatcherFails
  BY <1>10 DEF DispatcherFails
<1>11. CASE Tick
  BY <1>11 DEF Tick, LoopEnds
<1>12. CASE DeadlineDone
  BY <1>12 DEF DeadlineDone, ClearTurn, ClearEndpoint, LoopEnds, Sends
<1>13. CASE Judge
  BY <1>13 DEF Judge, ClearEndpoint, BeginFinalize, LoopEnds, Sends
<1>14. CASE Announced \/ Finalize
  BY <1>14 DEF Announced, BeginFinalize, Sends, Finalize
<1>15. CASE FinalAccepted
  BY <1>15 DEF FinalAccepted, ClearTurn
<1>16. CASE FinalRejected
  BY <1>16 DEF FinalRejected, ClearTurn, ClearEndpoint, LoopEnds
<1>17. CASE Deliver \/ AsrFails
  BY <1>17 DEF Deliver, LoopEnds, Sends, AsrFails
<1>18. CASE TtsLeaves \/ TurnSpoken \/ TakeSentence
  BY <1>18 DEF TtsLeaves, TtsSteps, Sends, TurnSpoken, TakeSentence
<1>19. CASE StartSynth \/ SynthEnds \/ SentenceDone
  BY <1>19 DEF StartSynth, TtsSteps, Sends, SynthEnds, SentenceDone, LeaveSentence
<1>20. CASE SentenceOverdue \/ TtsFails
  BY <1>20 DEF SentenceOverdue, TtsSteps, LeaveSentence, Sends, TtsFails
<1>21. CASE GatherReturns
  BY <1>21 DEF GatherReturns, Sends
<1>22. CASE Unwind \/ Evict
  BY <1>22 DEF Unwind, CancelWork, CancelAsrOut, CancelTtsOut, LoopEnds, LeaveSentence, Evict
<1>23. CASE ReleaseSlot \/ CloseSocket
  BY <1>23 DEF ReleaseSlot, CloseSocket
<1>24. CASE ClientLeaves \/ ManagerDrops \/ TurnOverdue
  BY <1>24 DEF ClientLeaves, ManagerDrops, TurnOverdue
<1>25. QED
  BY <1>1, <1>2, <1>3, <1>4, <1>5, <1>6, <1>7, <1>8, <1>9, <1>10, <1>11, <1>12, <1>13, <1>14, <1>15, <1>16, <1>17, <1>18, <1>19, <1>20, <1>21, <1>22, <1>23, <1>24 DEF V2vNext, ClientActs, DispatcherResumes, AsrOutSteps, TtsOutSteps, HandlerSteps

(* ... the places, ...                                                    *)
LEMMA SessionPlacesStep == ASSUME SessionInv, V2vNext PROVE SessionPlaces'
<1> USE V2vAssumption DEF SessionInv, SessionPlaces, TurnFacts, Gens, AsrAwaits, TtsAwaits, Ended, settings, turnVars, endpointVars, managerVars, inputVars, dispVars, asrVars, sayVars
<1>1. CASE frame \in {"serving", "unwinding"} /\ SpeechStart
  BY <1>1 DEF SpeechStart, Receiving, Listening, BargeIn, LeaveSentence, Opens, Sends
<1>2. CASE frame \in {"serving", "unwinding"} /\ LazyOpen
  BY <1>2 DEF LazyOpen, Receiving, Listening, Opens
<1>3. CASE frame \in {"serving", "unwinding"} /\ SpeechEnd
  BY <1>3 DEF SpeechEnd, Receiving, Latch, LatchEndpoint, Sends
<1>4. CASE frame \in {"serving", "unwinding"} /\ (ClientEos \/ ClientText \/ ClientAbort)
  BY <1>4 DEF ClientEos, ClientText, ClientAbort, LeaveSentence
<1>5. CASE frame \in {"serving", "unwinding"} /\ Fed
  BY <1>5 DEF Fed, Latch, LatchEndpoint, Sends
<1>6. CASE frame \in {"serving", "unwinding"} /\ Opened
  BY <1>6 DEF Opened, ClearEndpoint
<1>7. CASE frame \in {"serving", "unwinding"} /\ (OpenRefused \/ AbortDone)
  BY <1>7 DEF OpenRefused, ClearEndpoint, Sends, AbortDone, ClearTurn
<1>8. CASE frame \in {"serving", "unwinding"} /\ FoundClosed
  BY <1>8 DEF FoundClosed, CancelWork, CancelAsrOut, CancelTtsOut, LoopEnds, LeaveSentence
<1>9. CASE frame \in {"serving", "unwinding"} /\ Disconnect
  BY <1>9 DEF Disconnect, CancelWork, CancelAsrOut, CancelTtsOut, LoopEnds, LeaveSentence
<1>10. CASE frame \in {"serving", "unwinding"} /\ DispatcherFails
  BY <1>10 DEF DispatcherFails
<1>11. CASE Tick
  <2>1. asrOut' \in AsrAwaits \cup Ended /\ judgedGen' \in Gens /\ finalizeGen' \in Gens /\ ranGen' \in Gens
    <3>1. CASE clientClosed
      BY <1>11, <3>1 DEF Tick, LoopEnds
    <3>2. CASE ~clientClosed
      <4>1. asrOut' \in {"deadline", "judge"} /\ judgedGen' = managerGen /\ UNCHANGED <<finalizeGen, ranGen>>
        BY <1>11, <3>2 DEF Tick
      <4>2. QED
        BY <4>1
    <3>3. QED
      BY <3>1, <3>2
  <2>2. QED
    BY <1>11, <2>1 DEF Tick
<1>12. CASE DeadlineDone
  BY <1>12 DEF DeadlineDone, ClearTurn, ClearEndpoint, LoopEnds, Sends
<1>13. CASE Judge
  BY <1>13 DEF Judge, ClearEndpoint, BeginFinalize, LoopEnds, Sends
<1>14. CASE Announced \/ Finalize
  BY <1>14 DEF Announced, BeginFinalize, Sends, Finalize
<1>15. CASE FinalAccepted
  BY <1>15 DEF FinalAccepted, ClearTurn
<1>16. CASE FinalRejected
  BY <1>16 DEF FinalRejected, ClearTurn, ClearEndpoint, LoopEnds
<1>17. CASE Deliver \/ AsrFails
  BY <1>17 DEF Deliver, LoopEnds, Sends, AsrFails
<1>18. CASE TtsLeaves \/ TurnSpoken \/ TakeSentence
  BY <1>18 DEF TtsLeaves, TtsSteps, Sends, TurnSpoken, TakeSentence
<1>19. CASE StartSynth \/ SynthEnds \/ SentenceDone
  BY <1>19 DEF StartSynth, TtsSteps, Sends, SynthEnds, SentenceDone, LeaveSentence
<1>20. CASE SentenceOverdue \/ TtsFails
  BY <1>20 DEF SentenceOverdue, TtsSteps, LeaveSentence, Sends, TtsFails
<1>21. CASE GatherReturns
  BY <1>21 DEF GatherReturns, Sends
<1>22. CASE Unwind \/ Evict
  BY <1>22 DEF Unwind, CancelWork, CancelAsrOut, CancelTtsOut, LoopEnds, LeaveSentence, Evict
<1>23. CASE ReleaseSlot \/ CloseSocket
  BY <1>23 DEF ReleaseSlot, CloseSocket
<1>24. CASE ClientLeaves \/ ManagerDrops \/ TurnOverdue
  BY <1>24 DEF ClientLeaves, ManagerDrops, TurnOverdue
<1>25. QED
  BY <1>1, <1>2, <1>3, <1>4, <1>5, <1>6, <1>7, <1>8, <1>9, <1>10, <1>11, <1>12, <1>13, <1>14, <1>15, <1>16, <1>17, <1>18, <1>19, <1>20, <1>21, <1>22, <1>23, <1>24 DEF V2vNext, ClientActs, DispatcherResumes, AsrOutSteps, TtsOutSteps, HandlerSteps

(* ... and the order of the end: what is cancelled is awaited before the  *)
(* slot goes.                                                             *)
LEMMA ReleaseStep == ASSUME SessionInv, V2vNext PROVE ReleaseFacts'
<1> USE V2vAssumption DEF SessionInv, ReleaseFacts, SessionPlaces, AsrAwaits, TtsAwaits, Ended, Work, settings, turnVars, endpointVars, managerVars, inputVars, dispVars, asrVars, sayVars
<1>1. CASE frame \in {"serving", "unwinding"} /\ SpeechStart
  BY <1>1 DEF SpeechStart, Receiving, Listening, BargeIn, LeaveSentence, Opens, Sends
<1>2. CASE frame \in {"serving", "unwinding"} /\ LazyOpen
  BY <1>2 DEF LazyOpen, Receiving, Listening, Opens
<1>3. CASE frame \in {"serving", "unwinding"} /\ SpeechEnd
  BY <1>3 DEF SpeechEnd, Receiving, Latch, LatchEndpoint, Sends
<1>4. CASE frame \in {"serving", "unwinding"} /\ (ClientEos \/ ClientText \/ ClientAbort)
  BY <1>4 DEF ClientEos, ClientText, ClientAbort, LeaveSentence
<1>5. CASE frame \in {"serving", "unwinding"} /\ Fed
  BY <1>5 DEF Fed, Latch, LatchEndpoint, Sends
<1>6. CASE frame \in {"serving", "unwinding"} /\ Opened
  BY <1>6 DEF Opened, ClearEndpoint
<1>7. CASE frame \in {"serving", "unwinding"} /\ (OpenRefused \/ AbortDone)
  BY <1>7 DEF OpenRefused, ClearEndpoint, Sends, AbortDone, ClearTurn
<1>8. CASE frame \in {"serving", "unwinding"} /\ FoundClosed
  BY <1>8 DEF FoundClosed, CancelWork, CancelAsrOut, CancelTtsOut, LoopEnds, LeaveSentence
<1>9. CASE frame \in {"serving", "unwinding"} /\ Disconnect
  BY <1>9 DEF Disconnect, CancelWork, CancelAsrOut, CancelTtsOut, LoopEnds, LeaveSentence
<1>10. CASE frame \in {"serving", "unwinding"} /\ DispatcherFails
  BY <1>10 DEF DispatcherFails
<1>11. CASE Tick
  BY <1>11 DEF Tick, LoopEnds
<1>12. CASE DeadlineDone
  BY <1>12 DEF DeadlineDone, ClearTurn, ClearEndpoint, LoopEnds, Sends
<1>13. CASE Judge
  BY <1>13 DEF Judge, ClearEndpoint, BeginFinalize, LoopEnds, Sends
<1>14. CASE Announced \/ Finalize
  BY <1>14 DEF Announced, BeginFinalize, Sends, Finalize
<1>15. CASE FinalAccepted
  BY <1>15 DEF FinalAccepted, ClearTurn
<1>16. CASE FinalRejected
  BY <1>16 DEF FinalRejected, ClearTurn, ClearEndpoint, LoopEnds
<1>17. CASE Deliver \/ AsrFails
  BY <1>17 DEF Deliver, LoopEnds, Sends, AsrFails
<1>18. CASE TtsLeaves \/ TurnSpoken \/ TakeSentence
  BY <1>18 DEF TtsLeaves, TtsSteps, Sends, TurnSpoken, TakeSentence
<1>19. CASE StartSynth \/ SynthEnds \/ SentenceDone
  BY <1>19 DEF StartSynth, TtsSteps, Sends, SynthEnds, SentenceDone, LeaveSentence
<1>20. CASE SentenceOverdue \/ TtsFails
  BY <1>20 DEF SentenceOverdue, TtsSteps, LeaveSentence, Sends, TtsFails
<1>21. CASE GatherReturns
  BY <1>21 DEF GatherReturns, Sends
<1>22. CASE Unwind \/ Evict
  BY <1>22 DEF Unwind, CancelWork, CancelAsrOut, CancelTtsOut, LoopEnds, LeaveSentence, Evict
<1>23. CASE ReleaseSlot \/ CloseSocket
  BY <1>23 DEF ReleaseSlot, CloseSocket
<1>24. CASE ClientLeaves \/ ManagerDrops \/ TurnOverdue
  BY <1>24 DEF ClientLeaves, ManagerDrops, TurnOverdue
<1>25. QED
  BY <1>1, <1>2, <1>3, <1>4, <1>5, <1>6, <1>7, <1>8, <1>9, <1>10, <1>11, <1>12, <1>13, <1>14, <1>15, <1>16, <1>17, <1>18, <1>19, <1>20, <1>21, <1>22, <1>23, <1>24 DEF V2vNext, ClientActs, DispatcherResumes, AsrOutSteps, TtsOutSteps, HandlerSteps

(* The /v2v session (main.py, v2v_stream): for any number of turns and    *)
(* sentences, in every setting, an open turn is fed, a synthesis whose    *)
(* task is gone has its stop event set, and after the release no task of  *)
(* the session works on.                                                  *)
THEOREM TurnsSound == V2vSpec => []TurnsAreSound
<1>1. SessionInv /\ [V2vNext]_v2vVars => SessionInv'
  <2> SUFFICES ASSUME SessionInv, [V2vNext]_v2vVars PROVE SessionInv'
    OBVIOUS
  <2>1. CASE V2vNext
    BY <2>1, SessionFlagsStep, TurnStep, SessionPlacesStep, ReleaseStep DEF SessionInv
  <2>2. CASE UNCHANGED v2vVars
    BY <2>2 DEF SessionInv, SessionFlags, TurnFacts, SessionPlaces, ReleaseFacts, v2vVars, settings, turnVars, endpointVars,
                managerVars, inputVars, dispVars, asrVars, sayVars
  <2>3. QED
    BY <2>1, <2>2
<1>2. QED
  BY <1>1, SessionInit, SessionFacts, PTL DEF V2vSpec
=============================================================================
