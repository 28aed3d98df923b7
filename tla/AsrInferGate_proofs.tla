------------------------- MODULE AsrInferGate_proofs -------------------------
(***************************************************************************)
(* The ASR inference gate conserves its permits and never lets more than   *)
(* Concurrency tasks into the shared runtime, for any finite set of tasks, *)
(* any concurrency and any backlog bound.                                  *)
(***************************************************************************)
EXTENDS AsrInferGate, FiniteSetTheorems, SequenceTheorems, WellFoundedInduction, TLAPS

(* The inductive invariant.  Permit conservation needs the deque to be     *)
(* well formed (a permit handed to a task that is not parked would be      *)
(* counted twice), and the absence of free permits while somebody waits    *)
(* needs every parked task to be in the deque.                             *)
GateInv ==
    /\ TypeOK
    /\ PermitsConserved
    /\ NoFreePermitWhileWaiting
    /\ WaitersAreInTheDeque

-----------------------------------------------------------------------------
(* The owners are finitely many, so counting them makes sense.             *)
LEMMA OwnersFinite == IsFiniteSet(Owners) /\ Cardinality(Owners) \in Nat
<1>1. Owners \subseteq Tasks
  BY DEF Owners
<1>2. QED
  BY <1>1, TasksFinite, FS_Subset, FS_CardinalityType

(* The same of the owners after a step.                                    *)
LEMMA OwnersFiniteNext == IsFiniteSet(Owners') /\ Cardinality(Owners') \in Nat
<1>1. Owners' \subseteq Tasks
  BY DEF Owners
<1>2. QED
  BY <1>1, TasksFinite, FS_Subset, FS_CardinalityType

(* Dropping the first i entries of the deque keeps the others in order.    *)
LEMMA DropFirst ==
  ASSUME NEW S, NEW s \in Seq(S), NEW i \in DOMAIN s,
         NEW d, d = SubSeq(s, i + 1, Len(s))
  PROVE  /\ d \in Seq(S)
         /\ Len(d) = Len(s) - i
         /\ DOMAIN d = 1 .. (Len(s) - i)
         /\ \A j \in 1 .. (Len(s) - i) : d[j] = s[i + j]
<1>1. i \in 1 .. Len(s) /\ Len(s) \in Nat
  BY LenProperties
<1>2. \A j \in (i + 1) .. Len(s) : s[j] \in S
  BY <1>1, ElementOfSeq
<1>3. /\ d \in Seq(S)
      /\ Len(d) = IF i + 1 <= Len(s) THEN Len(s) - (i + 1) + 1 ELSE 0
      /\ \A j \in 1 .. (Len(s) - (i + 1) + 1) : d[j] = s[(i + 1) + j - 1]
  BY <1>1, <1>2, SubSeqProperties
<1>4. Len(d) = Len(s) - i /\ \A j \in 1 .. (Len(s) - i) : d[j] = s[i + j]
  BY <1>1, <1>3
<1>5. DOMAIN d = 1 .. Len(d)
  BY <1>3, LenProperties
<1>6. QED
  BY <1>3, <1>4, <1>5

(* Removing entry i of the deque keeps the others in order.                *)
LEMMA RemoveOne ==
  ASSUME NEW S, NEW s \in Seq(S), NEW i \in DOMAIN s,
         NEW d, d = SubSeq(s, 1, i - 1) \o SubSeq(s, i + 1, Len(s))
  PROVE  /\ d \in Seq(S)
         /\ DOMAIN d = 1 .. (Len(s) - 1)
         /\ \A j \in 1 .. (i - 1) : d[j] = s[j]
         /\ \A j \in i .. (Len(s) - 1) : d[j] = s[j + 1]
<1>1. i \in 1 .. Len(s) /\ Len(s) \in Nat
  BY LenProperties
<1>2. PICK a : a = SubSeq(s, 1, i - 1)
  OBVIOUS
<1>3. PICK b : b = SubSeq(s, i + 1, Len(s))
  OBVIOUS
<1>4. a \in Seq(S) /\ Len(a) = i - 1 /\ \A j \in 1 .. (i - 1) : a[j] = s[j]
  <2>1. \A j \in 1 .. (i - 1) : s[j] \in S
    BY <1>1, ElementOfSeq
  <2>2. /\ a \in Seq(S)
        /\ Len(a) = IF 1 <= i - 1 THEN (i - 1) - 1 + 1 ELSE 0
        /\ \A j \in 1 .. ((i - 1) - 1 + 1) : a[j] = s[1 + j - 1]
    BY <1>1, <1>2, <2>1, SubSeqProperties
  <2>3. QED
    BY <1>1, <2>2
<1>5. b \in Seq(S) /\ Len(b) = Len(s) - i /\ \A j \in 1 .. (Len(s) - i) : b[j] = s[i + j]
  BY <1>3, DropFirst
<1>6. /\ a \o b \in Seq(S)
      /\ Len(a \o b) = Len(a) + Len(b)
      /\ \A j \in 1 .. (Len(a) + Len(b)) :
            (a \o b)[j] = IF j <= Len(a) THEN a[j] ELSE b[j - Len(a)]
  <2>1. a \in Seq(S) /\ b \in Seq(S)
    BY <1>4, <1>5
  <2>2. QED
    BY <2>1, ConcatProperties
<1>7. /\ d \in Seq(S)
      /\ Len(d) = Len(s) - 1
      /\ \A j \in 1 .. (Len(s) - 1) : d[j] = IF j <= i - 1 THEN a[j] ELSE b[j - (i - 1)]
  <2>1. d = a \o b
    BY <1>2, <1>3
  <2>2. Len(a) = i - 1 /\ Len(b) = Len(s) - i
    BY <1>4, <1>5
  <2>3. Len(a) + Len(b) = Len(s) - 1
    BY <1>1, <2>2
  <2>4. QED
    BY <1>6, <2>1, <2>2, <2>3
<1>8. DOMAIN d = 1 .. (Len(s) - 1)
  BY <1>7, LenProperties
<1>9. \A j \in 1 .. (i - 1) : d[j] = s[j]
  <2>1. TAKE j \in 1 .. (i - 1)
  <2>2. j \in 1 .. (Len(s) - 1) /\ j <= i - 1
    BY <1>1
  <2>3. QED
    BY <1>4, <1>7, <2>2
<1>10. \A j \in i .. (Len(s) - 1) : d[j] = s[j + 1]
  <2>1. TAKE j \in i .. (Len(s) - 1)
  <2>2. d[j] = b[j - (i - 1)] /\ j - (i - 1) \in 1 .. (Len(s) - i)
    <3>1. j \in 1 .. (Len(s) - 1) /\ ~(j <= i - 1) /\ j - (i - 1) \in 1 .. (Len(s) - i)
      BY <1>1
    <3>2. QED
      BY <1>7, <3>1
  <2>3. b[j - (i - 1)] = s[i + (j - (i - 1))]
    BY <1>5, <2>2
  <2>4. i + (j - (i - 1)) = j + 1
    BY <1>1
  <2>5. QED
    BY <2>2, <2>3, <2>4
<1>11. QED
  BY <1>7, <1>8, <1>9, <1>10
-----------------------------------------------------------------------------
(* Handing a permit over: _wake_next gives the leaving task's permit to a  *)
(* waiter, or back to the counter, and never leaves a waiter beside a free *)
(* permit.                                                                 *)
LEMMA WakeNextKeepsInv ==
  ASSUME GateInv, NEW t \in Tasks, phase[t] \in PermitPhases, WakeNext(t, "idle")
  PROVE  GateInv'
<1> USE DEF GateInv, Phases, PermitPhases
<1>1. t \in Owners
  BY DEF Owners
<1>2. /\ IsFiniteSet(Owners \ {t})
      /\ Cardinality(Owners \ {t}) = running - 1
      /\ running - 1 \in Nat
  <2>1. IsFiniteSet(Owners \ {t}) /\ Cardinality(Owners \ {t}) = Cardinality(Owners) - 1
    BY <1>1, OwnersFinite, FS_RemoveElement
  <2>2. Cardinality(Owners \ {t}) \in Nat
    BY <2>1, FS_CardinalityType
  <2>3. QED
    BY <2>1, <2>2 DEF PermitsConserved
<1>3. CASE \E i \in DOMAIN waiters :
             /\ Pending(i)
             /\ \A j \in 1 .. (i - 1) : ~Pending(j)
             /\ waiters' = SubSeq(waiters, i + 1, Len(waiters))
             /\ phase' = [phase EXCEPT ![t] = "idle", ![waiters[i]] = "granted"]
             /\ UNCHANGED running
  <2>1. PICK i \in DOMAIN waiters :
             /\ Pending(i)
             /\ \A j \in 1 .. (i - 1) : ~Pending(j)
             /\ waiters' = SubSeq(waiters, i + 1, Len(waiters))
             /\ phase' = [phase EXCEPT ![t] = "idle", ![waiters[i]] = "granted"]
             /\ running' = running
    BY <1>3
  <2>2. waiters \in Seq(Tasks) /\ i \in 1 .. Len(waiters) /\ Len(waiters) \in Nat
    BY LenProperties DEF TypeOK
  <2>3. /\ waiters' \in Seq(Tasks)
        /\ DOMAIN waiters' = 1 .. (Len(waiters) - i)
        /\ \A j \in 1 .. (Len(waiters) - i) : waiters'[j] = waiters[i + j]
    BY <2>1, <2>2, DropFirst
  <2>4. \A j \in DOMAIN waiters' : i + j \in DOMAIN waiters /\ waiters'[j] = waiters[i + j]
    BY <2>2, <2>3, LenProperties
  <2>5. waiters[i] \in Tasks /\ waiters[i] # t /\ phase[waiters[i]] = "queued"
    BY <2>1, <2>2, ElementOfSeq DEF Pending
  <2>6. phase' \in [Tasks -> Phases]
    BY <2>1, <2>5 DEF TypeOK
  <2>7. \A u \in Tasks : phase'[u] = IF u = waiters[i] THEN "granted"
                                     ELSE IF u = t THEN "idle" ELSE phase[u]
    BY <2>1, <2>5 DEF TypeOK
  <2>8. TypeOK'
    BY <2>1, <2>3, <2>6 DEF TypeOK
  <2>9. PermitsConserved'
    <3>1. Owners' = (Owners \ {t}) \cup {waiters[i]}
      BY <2>5, <2>7 DEF Owners
    <3>2. waiters[i] \notin Owners \ {t}
      BY <2>5 DEF Owners
    <3>3. Cardinality(Owners') = running - 1 + 1
      BY <1>2, <3>1, <3>2, FS_AddElement
    <3>4. QED
      BY <1>2, <2>1, <3>3 DEF PermitsConserved, TypeOK
  <2>10. NoFreePermitWhileWaiting'
    BY <2>1, <2>5 DEF NoFreePermitWhileWaiting
  <2>11. WaitersAreInTheDeque'
    <3>1. ASSUME NEW u \in Tasks, phase'[u] = "queued"
          PROVE  \E j \in DOMAIN waiters' : waiters'[j] = u
      <4>1. phase[u] = "queued" /\ u # waiters[i]
        BY <2>7, <3>1
      <4>2. PICK k \in DOMAIN waiters : waiters[k] = u
        BY <4>1 DEF WaitersAreInTheDeque
      <4>3. k > i
        <5>1. CASE k < i
          <6>1. k \in 1 .. (i - 1)
            BY <2>2, <4>2, <5>1, LenProperties
          <6>2. QED
            BY <2>1, <4>1, <4>2, <6>1 DEF Pending
        <5>2. QED
          BY <2>2, <4>1, <4>2, <5>1, LenProperties
      <4>4. k - i \in DOMAIN waiters' /\ i + (k - i) = k
        BY <2>2, <2>3, <4>2, <4>3, LenProperties
      <4>5. QED
        BY <2>3, <4>2, <4>4
    <3>2. ASSUME NEW j \in DOMAIN waiters', NEW k \in DOMAIN waiters', waiters'[j] = waiters'[k]
          PROVE  j = k
      <4>1. i + j = i + k
        BY <2>4, <3>2 DEF WaitersAreInTheDeque
      <4>2. QED
        BY <2>2, <2>3, <4>1
    <3>3. ASSUME NEW j \in DOMAIN waiters'
          PROVE  phase'[waiters'[j]] \in {"queued", "withdrawn"}
      <4>1. i + j \in DOMAIN waiters /\ waiters'[j] = waiters[i + j] /\ i + j # i
        BY <2>2, <2>3, <2>4
      <4>2. waiters[i + j] # waiters[i]
        BY <4>1 DEF WaitersAreInTheDeque
      <4>3. phase[waiters[i + j]] \in {"queued", "withdrawn"} /\ waiters[i + j] \in Tasks
        BY <2>2, <4>1, ElementOfSeq, LenProperties DEF WaitersAreInTheDeque
      <4>4. QED
        BY <2>7, <4>1, <4>2, <4>3
    <3>4. QED
      BY <3>1, <3>2, <3>3 DEF WaitersAreInTheDeque
  <2>12. QED
    BY <2>8, <2>9, <2>10, <2>11
<1>4. CASE /\ \A i \in DOMAIN waiters : ~Pending(i)
           /\ waiters' = <<>>
           /\ phase' = [phase EXCEPT ![t] = "idle"]
           /\ running' = running - 1
  <2>1. TypeOK'
    <3>1. running' \in 0 .. Concurrency
      BY <1>2, <1>4, GateAssumption DEF TypeOK
    <3>2. waiters' \in Seq(Tasks)
      BY <1>4, EmptySeq
    <3>3. phase' \in [Tasks -> Phases]
      BY <1>4 DEF TypeOK
    <3>4. QED
      BY <3>1, <3>2, <3>3 DEF TypeOK
  <2>2. PermitsConserved'
    <3>1. Owners' = Owners \ {t}
      BY <1>4 DEF Owners, TypeOK
    <3>2. QED
      BY <1>2, <1>4, <3>1 DEF PermitsConserved
  <2>3. \A u \in Tasks : phase'[u] # "queued"
    BY <1>4 DEF TypeOK, WaitersAreInTheDeque, Pending
  <2>4. NoFreePermitWhileWaiting' /\ WaitersAreInTheDeque'
    BY <1>4, <2>3 DEF NoFreePermitWhileWaiting, WaitersAreInTheDeque
  <2>5. QED
    BY <2>1, <2>2, <2>4
<1>5. QED
  BY <1>3, <1>4 DEF WakeNext
(* A cancelled task takes its own future out of the deque, nobody else's.  *)
LEMMA WithdrawKeepsInv ==
  ASSUME GateInv, NEW t \in Tasks, ResumeWithdrawn(t)
  PROVE  GateInv'
<1>1. /\ running' = running
      /\ phase' \in [Tasks -> Phases]
      /\ \A u \in Tasks : phase'[u] = IF u = t THEN "idle" ELSE phase[u]
  BY DEF GateInv, TypeOK, ResumeWithdrawn, Phases
<1>2. Owners' = Owners
  BY <1>1 DEF ResumeWithdrawn, Owners, PermitPhases
<1>3. PermitsConserved' /\ NoFreePermitWhileWaiting'
  BY <1>1, <1>2 DEF GateInv, PermitsConserved, NoFreePermitWhileWaiting
<1>4. waiters \in Seq(Tasks) /\ Len(waiters) \in Nat /\ DOMAIN waiters = 1 .. Len(waiters)
  BY LenProperties DEF GateInv, TypeOK
<1>5. \A j \in DOMAIN waiters : waiters[j] \in Tasks
  BY <1>4, ElementOfSeq
<1>6. CASE \E i \in DOMAIN waiters :
             /\ waiters[i] = t
             /\ waiters' = SubSeq(waiters, 1, i - 1) \o SubSeq(waiters, i + 1, Len(waiters))
  <2>1. PICK i \in DOMAIN waiters :
             /\ waiters[i] = t
             /\ waiters' = SubSeq(waiters, 1, i - 1) \o SubSeq(waiters, i + 1, Len(waiters))
    BY <1>6
  <2>2. /\ waiters' \in Seq(Tasks)
        /\ DOMAIN waiters' = 1 .. (Len(waiters) - 1)
        /\ \A j \in 1 .. (i - 1) : waiters'[j] = waiters[j]
        /\ \A j \in i .. (Len(waiters) - 1) : waiters'[j] = waiters[j + 1]
    <3>1. /\ waiters' = SubSeq(waiters, 1, i - 1) \o SubSeq(waiters, i + 1, Len(waiters))
          /\ i \in DOMAIN waiters /\ waiters \in Seq(Tasks)
      BY <1>4, <2>1
    <3> QED BY ONLY <3>1, RemoveOne, ZenonT(40)
  <2> DEFINE old(j) == IF j < i THEN j ELSE j + 1
  <2>3. \A j \in DOMAIN waiters' :
           old(j) \in DOMAIN waiters /\ old(j) # i /\ waiters'[j] = waiters[old(j)]
    <3>1. TAKE j \in DOMAIN waiters'
    <3>2. j \in 1 .. (Len(waiters) - 1) /\ i \in 1 .. Len(waiters)
      BY <1>4, <2>1, <2>2
    <3>3. CASE j < i
      <4>1. j \in 1 .. (i - 1) /\ j \in 1 .. Len(waiters)
        BY <1>4, <3>2, <3>3
      <4>2. QED
        BY <1>4, <2>2, <3>3, <4>1
    <3>4. CASE j >= i
      <4>1. j \in i .. (Len(waiters) - 1) /\ j + 1 \in 1 .. Len(waiters) /\ j + 1 # i /\ ~(j < i)
        BY <1>4, <3>2, <3>4
      <4>2. QED
        BY <1>4, <2>2, <4>1
    <3>5. QED
      BY <3>2, <3>3, <3>4
  <2>4. TypeOK'
    BY <1>1, <2>2 DEF GateInv, TypeOK
  <2>5. ASSUME NEW u \in Tasks, phase'[u] = "queued"
        PROVE  \E j \in DOMAIN waiters' : waiters'[j] = u
    <3>1. PICK k \in DOMAIN waiters : waiters[k] = u /\ u # t
      BY <1>1, <2>5 DEF GateInv, WaitersAreInTheDeque
    <3>2. k \in 1 .. Len(waiters) /\ i \in 1 .. Len(waiters) /\ k # i
      BY <1>4, <2>1, <3>1
    <3>3. CASE k < i
      <4>1. k \in 1 .. (i - 1) /\ k \in 1 .. (Len(waiters) - 1)
        BY <1>4, <3>2, <3>3
      <4>2. QED
        BY <2>2, <3>1, <4>1
    <3>4. CASE k > i
      <4>1. k - 1 \in i .. (Len(waiters) - 1) /\ (k - 1) + 1 = k
        BY <1>4, <3>2, <3>4
      <4>2. k - 1 \in 1 .. (Len(waiters) - 1)
        BY <1>4, <3>2, <3>4
      <4>3. waiters'[k - 1] = u
        BY <2>2, <3>1, <4>1
      <4>4. QED
        BY <2>2, <4>2, <4>3
    <3>5. QED
      BY <3>2, <3>3, <3>4
  <2>6. ASSUME NEW j \in DOMAIN waiters', NEW k \in DOMAIN waiters', waiters'[j] = waiters'[k]
        PROVE  j = k
    <3>1. old(j) = old(k)
      BY <2>3, <2>6 DEF GateInv, WaitersAreInTheDeque
    <3>2. QED
      BY <1>4, <2>1, <2>2, <3>1
  <2>7. ASSUME NEW j \in DOMAIN waiters'
        PROVE  phase'[waiters'[j]] \in {"queued", "withdrawn"}
    <3>1. waiters[old(j)] # t /\ waiters[old(j)] \in Tasks
      BY <1>5, <2>1, <2>3 DEF GateInv, WaitersAreInTheDeque
    <3>2. QED
      BY <1>1, <2>3, <3>1 DEF GateInv, WaitersAreInTheDeque
  <2>8. WaitersAreInTheDeque'
    BY <2>5, <2>6, <2>7 DEF WaitersAreInTheDeque
  <2>9. QED
    BY <1>3, <2>4, <2>8 DEF GateInv
<1>7. CASE (\A i \in DOMAIN waiters : waiters[i] # t) /\ waiters' = waiters
  <2>1. TypeOK'
    BY <1>1, <1>7 DEF GateInv, TypeOK
  <2>2. WaitersAreInTheDeque'
    BY <1>1, <1>5, <1>7 DEF GateInv, WaitersAreInTheDeque
  <2>3. QED
    BY <1>3, <2>1, <2>2 DEF GateInv
<1>8. QED
  BY <1>6, <1>7 DEF ResumeWithdrawn
(* A newcomer joins the deque only when no permit is free.                 *)
LEMMA EnqueueKeepsInv ==
  ASSUME GateInv, NEW t \in Tasks, Enqueue(t)
  PROVE  GateInv'
<1>1. /\ phase[t] = "idle" /\ running' = running /\ running = Concurrency
      /\ phase' \in [Tasks -> Phases]
      /\ \A u \in Tasks : phase'[u] = IF u = t THEN "queued" ELSE phase[u]
  BY GateAssumption DEF GateInv, TypeOK, Enqueue, Phases
<1>2. Owners' = Owners
  BY <1>1 DEF Owners, PermitPhases
<1>3. PermitsConserved' /\ NoFreePermitWhileWaiting'
  BY <1>1, <1>2 DEF GateInv, PermitsConserved, NoFreePermitWhileWaiting
<1>4. waiters \in Seq(Tasks) /\ Len(waiters) \in Nat /\ DOMAIN waiters = 1 .. Len(waiters)
  BY LenProperties DEF GateInv, TypeOK
<1>5. \A j \in DOMAIN waiters : waiters[j] \in Tasks /\ waiters[j] # t
  BY <1>1, <1>4, ElementOfSeq DEF GateInv, WaitersAreInTheDeque
<1>6. /\ waiters' \in Seq(Tasks)
      /\ Len(waiters') = Len(waiters) + 1
      /\ \A j \in 1 .. Len(waiters) : waiters'[j] = waiters[j]
      /\ waiters'[Len(waiters) + 1] = t
  BY <1>4, AppendProperties DEF Enqueue
<1>7. DOMAIN waiters' = 1 .. (Len(waiters) + 1)
  BY <1>6, LenProperties
<1>8. TypeOK'
  BY <1>1, <1>6 DEF GateInv, TypeOK
<1>9. WaitersAreInTheDeque'
  <2>1. ASSUME NEW u \in Tasks, phase'[u] = "queued"
        PROVE  \E j \in DOMAIN waiters' : waiters'[j] = u
    <3>1. CASE u = t
      BY <1>4, <1>6, <1>7, <3>1
    <3>2. CASE u # t
      BY <1>1, <1>4, <1>6, <1>7, <2>1, <3>2 DEF GateInv, WaitersAreInTheDeque
    <3>3. QED
      BY <3>1, <3>2
  <2>2. \A j \in DOMAIN waiters' : j \in DOMAIN waiters \/ j = Len(waiters) + 1
    BY <1>4, <1>7
  <2>3. \A j, k \in DOMAIN waiters' : waiters'[j] = waiters'[k] => j = k
    BY <1>4, <1>5, <1>6, <2>2 DEF GateInv, WaitersAreInTheDeque
  <2>4. \A j \in DOMAIN waiters' : phase'[waiters'[j]] \in {"queued", "withdrawn"}
    BY <1>1, <1>4, <1>5, <1>6, <2>2 DEF GateInv, WaitersAreInTheDeque
  <2>5. QED
    BY <2>1, <2>3, <2>4 DEF WaitersAreInTheDeque
<1>10. QED
  BY <1>3, <1>8, <1>9 DEF GateInv

(* The steps that leave the deque alone.                                   *)
LEMMA OtherStepsKeepInv ==
  ASSUME GateInv, NEW t \in Tasks,
         EnterFast(t) \/ Reject(t) \/ Resume(t) \/ Cancel(t) \/ NextUtterance(t)
  PROVE  GateInv'
<1>1. waiters' = waiters /\ \A j \in DOMAIN waiters : waiters[j] \in Tasks
  BY LenProperties, ElementOfSeq
     DEF GateInv, TypeOK, EnterFast, Reject, Resume, Cancel, NextUtterance
<1>2. PICK to \in Phases :
        /\ phase' = [phase EXCEPT ![t] = to]
        /\ \/ phase[t] \in {"idle", "granted", "rejected"} /\ to # "queued"
           \/ phase[t] = "queued" /\ to = "withdrawn"
  BY DEF EnterFast, Reject, Resume, Cancel, NextUtterance, Phases
<1>3. phase' \in [Tasks -> Phases] /\ \A u \in Tasks : phase'[u] = IF u = t THEN to ELSE phase[u]
  BY <1>2 DEF GateInv, TypeOK
<1>4. WaitersAreInTheDeque'
  BY <1>1, <1>2, <1>3 DEF GateInv, WaitersAreInTheDeque
<1>5. CASE EnterFast(t)
  <2>1. phase[t] = "idle" /\ phase'[t] = "holding" /\ running' = running + 1 /\ running < Concurrency
    BY <1>5 DEF EnterFast, GateInv, TypeOK
  <2>2. Owners' = Owners \cup {t} /\ t \notin Owners
    BY <1>3, <2>1 DEF Owners, PermitPhases
  <2>3. PermitsConserved'
    BY <2>1, <2>2, OwnersFinite, FS_AddElement DEF GateInv, PermitsConserved
  <2>4. TypeOK'
    BY <1>1, <1>3, <2>1, GateAssumption DEF GateInv, TypeOK
  <2>5. NoFreePermitWhileWaiting'
    BY <1>3, <2>1, GateAssumption DEF GateInv, TypeOK, NoFreePermitWhileWaiting
  <2>6. QED
    BY <1>4, <2>3, <2>4, <2>5 DEF GateInv
<1>6. CASE Reject(t) \/ Resume(t) \/ Cancel(t) \/ NextUtterance(t)
  <2>1. running' = running
    BY <1>6 DEF Reject, Resume, Cancel, NextUtterance
  <2>2. Owners' = Owners
    BY <1>3, <1>6 DEF GateInv, TypeOK, Owners, PermitPhases, Reject, Resume, Cancel, NextUtterance
  <2>3. TypeOK' /\ PermitsConserved' /\ NoFreePermitWhileWaiting'
    BY <1>1, <1>2, <1>3, <2>1, <2>2 DEF GateInv, TypeOK, PermitsConserved, NoFreePermitWhileWaiting
  <2>4. QED
    BY <1>4, <2>3 DEF GateInv
<1>7. QED
  BY <1>5, <1>6

(* The invariant holds at the start and every step keeps it.               *)
THEOREM GateInvariant == Spec => []GateInv
<1>1. Init => GateInv
  <2> SUFFICES ASSUME Init PROVE GateInv
    OBVIOUS
  <2>1. Owners = {}
    BY DEF Init, Owners, PermitPhases
  <2>2. TypeOK
    BY EmptySeq, GateAssumption DEF Init, TypeOK, Phases
  <2>3. PermitsConserved
    BY <2>1, FS_EmptySet DEF Init, PermitsConserved
  <2>4. NoFreePermitWhileWaiting /\ WaitersAreInTheDeque
    BY DEF Init, NoFreePermitWhileWaiting, WaitersAreInTheDeque
  <2>5. QED
    BY <2>2, <2>3, <2>4 DEF GateInv
<1>2. GateInv /\ [Next]_vars => GateInv'
  <2> SUFFICES ASSUME GateInv, [Next]_vars PROVE GateInv'
    OBVIOUS
  <2>1. CASE UNCHANGED vars
    BY <2>1 DEF vars, GateInv, TypeOK, PermitsConserved, Owners, NoFreePermitWhileWaiting,
                WaitersAreInTheDeque
  <2>2. CASE Next
    <3>1. PICK t \in Tasks :
            \/ EnterFast(t) \/ Reject(t) \/ Enqueue(t)
            \/ Resume(t) \/ Cancel(t) \/ ResumeWithdrawn(t) \/ ResumeRevoked(t)
            \/ Release(t) \/ NextUtterance(t)
      BY <2>2 DEF Next
    <3>2. CASE ResumeRevoked(t) \/ Release(t)
      BY <3>2, WakeNextKeepsInv DEF ResumeRevoked, Release, PermitPhases
    <3>3. CASE ResumeWithdrawn(t)
      BY <3>3, WithdrawKeepsInv
    <3>4. CASE Enqueue(t)
      BY <3>4, EnqueueKeepsInv
    <3>5. CASE EnterFast(t) \/ Reject(t) \/ Resume(t) \/ Cancel(t) \/ NextUtterance(t)
      BY <3>5, OtherStepsKeepInv
    <3>6. QED
      BY <3>1, <3>2, <3>3, <3>4, <3>5
  <2>3. QED
    BY <2>1, <2>2
<1>3. QED
  BY <1>1, <1>2, PTL DEF Spec

(* The counter and the deque keep their types: in particular _running      *)
(* never leaves 0 .. concurrency.                                          *)
THEOREM TypeCorrect == Spec => []TypeOK
<1>1. GateInv => TypeOK
  BY DEF GateInv
<1>2. QED
  BY <1>1, GateInvariant, PTL

(* No permit is lost or forged, whatever is cancelled when.                *)
THEOREM PermitConservation == Spec => []PermitsConserved
<1>1. GateInv => PermitsConserved
  BY DEF GateInv
<1>2. QED
  BY <1>1, GateInvariant, PTL

(* No newcomer can take a permit past a waiting task.                      *)
THEOREM NoBarging == Spec => []NoFreePermitWhileWaiting
<1>1. GateInv => NoFreePermitWhileWaiting
  BY DEF GateInv
<1>2. QED
  BY <1>1, GateInvariant, PTL

(* At most Concurrency tasks are inside the shared runtime.                *)
THEOREM MutualExclusion == Spec => []AtMostConcurrencyHolders
<1>1. GateInv => AtMostConcurrencyHolders
  <2> SUFFICES ASSUME GateInv PROVE AtMostConcurrencyHolders
    OBVIOUS
  <2> DEFINE holders == {t \in Tasks : phase[t] = "holding"}
  <2>1. holders \subseteq Owners
    BY DEF Owners, PermitPhases
  <2>2. Cardinality(holders) <= Cardinality(Owners) /\ Cardinality(holders) \in Nat
    BY <2>1, OwnersFinite, FS_Subset, FS_CardinalityType
  <2>3. Cardinality(Owners) <= Concurrency
    BY DEF GateInv, TypeOK, PermitsConserved
  <2>4. Cardinality(holders) <= Concurrency
    BY <2>2, <2>3, OwnersFinite, GateAssumption
  <2>5. QED
    BY <2>4 DEF AtMostConcurrencyHolders
<1>2. QED
  BY <1>1, GateInvariant, PTL

(* The gate as a whole, for any number of tasks, permits and waiters: the  *)
(* conjunction the runs check as GateIsSound.                              *)
THEOREM GateSound == Spec => []GateIsSound
<1>1. GateInv /\ AtMostConcurrencyHolders => GateIsSound
  BY DEF GateInv, GateIsSound
<1>2. QED
  BY <1>1, GateInvariant, MutualExclusion, PTL

-----------------------------------------------------------------------------
(* The gate as a semaphore.                                                 *)

(* A set of naturals that is not empty has a least element, from the      *)
(* order of the naturals being well-founded.                              *)
LEMMA LeastNumber ==
  ASSUME NEW T \in SUBSET Nat, T # {}
  PROVE  \E m \in T : \A k \in T : m <= k
<1> DEFINE R == OpToRel(<, Nat)
<1>1. IsWellFoundedOn(R, Nat)
  BY NatLessThanWellFounded
<1>2. \E x \in T : \A y \in T : ~(<<y, x>> \in R)
  <2> HIDE DEF R
  <2> QED
    BY <1>1, WFMin
<1>3. PICK x \in T : \A y \in T : ~(<<y, x>> \in R)
  BY <1>2
<1>4. \A y \in T : ~(y < x)
  BY <1>3 DEF OpToRel
<1> QED
  BY <1>4

(* CountIn grows by one with every member that is in the set, ...         *)
LEMMA CountSteps ==
  ASSUME NEW w, NEW S
  PROVE  /\ CountIn(w, S, 0) = 0
         /\ \A i \in Nat : CountIn(w, S, i) \in Nat
         /\ \A i \in Nat : CountIn(w, S, i + 1) = CountIn(w, S, i) + (IF w[i + 1] \in S THEN 1 ELSE 0)
<1> DEFINE Upto(i) == {j \in 1 .. i : w[j] \in S}
<1>1. \A i \in Nat : IsFiniteSet(Upto(i)) /\ Cardinality(Upto(i)) \in Nat
  <2> TAKE i \in Nat
  <2>1. IsFiniteSet(1 .. i) /\ Upto(i) \in SUBSET (1 .. i)
    BY FS_Interval
  <2> QED
    BY <2>1, FS_Subset, FS_CardinalityType
<1>2. Upto(0) = {}
  OBVIOUS
<1>3. ASSUME NEW i \in Nat
      PROVE  Cardinality(Upto(i + 1)) = Cardinality(Upto(i)) + (IF w[i + 1] \in S THEN 1 ELSE 0)
  <2>1. i + 1 \notin Upto(i)
    OBVIOUS
  <2>2. CASE w[i + 1] \in S
    <3>1. Upto(i + 1) = Upto(i) \cup {i + 1}
      BY <2>2
    <3> HIDE DEF Upto
    <3> QED
      BY <1>1, <2>1, <2>2, <3>1, FS_AddElement
  <2>3. CASE w[i + 1] \notin S
    <3>1. Upto(i + 1) = Upto(i)
      BY <2>3
    <3> HIDE DEF Upto
    <3> QED
      BY <1>1, <2>3, <3>1
  <2> QED
    BY <2>2, <2>3
<1> QED
  BY <1>1, <1>2, <1>3, FS_EmptySet DEF CountIn

(* ... so it never falls, and grows strictly at such a member.            *)
LEMMA CountMonotone ==
  ASSUME NEW w, NEW S, NEW i \in Nat, NEW j \in Nat, i <= j
  PROVE  CountIn(w, S, i) <= CountIn(w, S, j) /\ (i < j /\ w[j] \in S => CountIn(w, S, i) < CountIn(w, S, j))
<1> DEFINE Upto(n) == {k \in 1 .. n : w[k] \in S}
<1>1. \A n \in Nat : IsFiniteSet(Upto(n)) /\ Cardinality(Upto(n)) \in Nat
  <2> TAKE n \in Nat
  <2>1. IsFiniteSet(1 .. n) /\ Upto(n) \in SUBSET (1 .. n)
    BY FS_Interval
  <2> QED
    BY <2>1, FS_Subset, FS_CardinalityType
<1>2. Upto(i) \in SUBSET Upto(j)
  OBVIOUS
<1>3. i < j /\ w[j] \in S => Upto(i) # Upto(j)
  <2> SUFFICES ASSUME i < j, w[j] \in S PROVE Upto(i) # Upto(j)
    OBVIOUS
  <2>1. j \in Upto(j) /\ j \notin Upto(i)
    OBVIOUS
  <2> QED
    BY <2>1
<1> HIDE DEF Upto
<1>4. Cardinality(Upto(i)) <= Cardinality(Upto(j))
  BY <1>1, <1>2, FS_Subset
<1>5. i < j /\ w[j] \in S => Cardinality(Upto(i)) # Cardinality(Upto(j))
  BY <1>1, <1>2, <1>3, FS_Subset
<1> QED
  BY <1>1, <1>4, <1>5 DEF CountIn, Upto

(* Places of w in their order, ...                                        *)
Ahead(w) == {p \in (DOMAIN w) \X (DOMAIN w) : p[1] < p[2]}
(* s lists the members of S, each of them, in the order B.                *)
Lists(s, S, B) ==
  /\ s \in Seq(S)
  /\ \A x \in S : \E n \in 1 .. Len(s) : s[n] = x
  /\ \A m, n \in 1 .. Len(s) : m < n => <<s[m], s[n]>> \in B

(* No two members of S are ahead of each other.                           *)
Strictly(S, B) == \A x, y \in S : <<x, y>> \in B => <<y, x>> \notin B

(* ... and what stands at them: x is somewhere ahead of y.                *)
Order(w) == {<<w[p[1]], w[p[2]]>> : p \in Ahead(w)}

(* Two lists of the same members in the same order agree wherever the     *)
(* first has a member: a first place at which they differ would put two   *)
(* members ahead of each other.                                           *)
LEMMA ListsAgree ==
  ASSUME NEW S, NEW B, Strictly(S, B),
         NEW s, NEW t, Lists(s, S, B), Lists(t, S, B)
  PROVE  /\ \A n \in 1 .. Len(s) : n <= Len(t) /\ s[n] = t[n]
<1>1. /\ Len(s) \in Nat /\ Len(t) \in Nat
      /\ \A n \in 1 .. Len(s) : s[n] \in S
      /\ \A n \in 1 .. Len(t) : t[n] \in S
  BY LenProperties, ElementOfSeq DEF Lists
<1>0. \A x, y \in S : <<x, y>> \in B => <<y, x>> \notin B
  BY DEF Strictly
<1> DEFINE wrong == {n \in 1 .. Len(s) : ~(n <= Len(t) /\ s[n] = t[n])}
<1>2. SUFFICES ASSUME wrong # {} PROVE FALSE
  OBVIOUS
<1>3. PICK n \in wrong : \A k \in wrong : n <= k
  <2>1. wrong \in SUBSET Nat
    BY <1>1
  <2> HIDE DEF wrong
  <2> QED
    BY <1>2, <2>1, LeastNumber
<1>4. /\ n \in 1 .. Len(s) /\ ~(n <= Len(t) /\ s[n] = t[n])
      /\ \A k \in 1 .. Len(s) : k < n => k <= Len(t) /\ s[k] = t[k]
  BY <1>1, <1>3
<1>5. PICK m \in 1 .. Len(t) : t[m] = s[n]
  BY <1>1, <1>4 DEF Lists
<1>6. CASE m < n
  <2>1. m \in 1 .. Len(s) /\ s[m] = s[n]
    BY <1>1, <1>4, <1>5, <1>6
  <2>2. <<s[m], s[n]>> \in B
    BY <1>4, <1>6, <2>1 DEF Lists
  <2> QED
    BY <1>0, <1>1, <1>4, <2>1, <2>2
<1>7. CASE m = n
  BY <1>1, <1>4, <1>5, <1>7
<1>8. CASE m > n
  <2>1. n \in 1 .. Len(t) /\ t[n] # s[n]
    BY <1>1, <1>4, <1>5, <1>8
  <2>2. <<t[n], s[n]>> \in B
    BY <1>5, <1>8, <2>1 DEF Lists
  <2>3. PICK k \in 1 .. Len(s) : s[k] = t[n]
    BY <1>1, <2>1 DEF Lists
  <2>4. CASE k < n
    <3>1. k \in 1 .. Len(t) /\ t[k] = t[n]
      BY <1>1, <1>4, <2>3, <2>4
    <3>2. <<t[k], t[n]>> \in B
      BY <2>1, <2>4, <3>1 DEF Lists
    <3> QED
      BY <1>0, <1>1, <2>1, <3>1, <3>2
  <2>5. CASE k = n
    BY <2>1, <2>3, <2>5
  <2>6. CASE k > n
    <3>1. <<s[n], t[n]>> \in B
      BY <1>4, <2>3, <2>6 DEF Lists
    <3> QED
      BY <1>0, <1>1, <1>4, <2>1, <2>2, <3>1
  <2> QED
    BY <1>1, <1>4, <2>3, <2>4, <2>5, <2>6
<1> QED
  BY <1>1, <1>4, <1>5, <1>6, <1>7, <1>8

(* Hence there is one such list.                                          *)
LEMMA ListsAreOne ==
  ASSUME NEW S, NEW B, Strictly(S, B),
         NEW s, NEW t, Lists(s, S, B), Lists(t, S, B)
  PROVE  s = t
<1>1. \A n \in 1 .. Len(s) : n <= Len(t) /\ s[n] = t[n]
  BY ListsAgree
<1>2. \A n \in 1 .. Len(t) : n <= Len(s) /\ t[n] = s[n]
  BY ListsAgree
<1>3. Len(s) \in Nat /\ Len(t) \in Nat /\ s \in Seq(S) /\ t \in Seq(S)
  BY LenProperties DEF Lists
<1>4. Len(s) = Len(t)
  <2>1. Len(s) > 0 => Len(s) <= Len(t)
    BY <1>1, <1>3
  <2>2. Len(t) > 0 => Len(t) <= Len(s)
    BY <1>2, <1>3
  <2> QED
    BY <1>3, <2>1, <2>2
<1> QED
  BY <1>1, <1>3, <1>4, SeqEqual

(* The waiters picked out of the deque are such a list, as nobody is in   *)
(* the deque twice.                                                       *)
LEMMA AmongLists ==
  ASSUME NEW T, NEW w \in Seq(T), NEW S \in SUBSET T,
         \A i, j \in DOMAIN w : w[i] = w[j] => i = j,
         \A x \in S : \E i \in DOMAIN w : w[i] = x
  PROVE  /\ Lists(Among(w, S), S, Order(w))
         /\ Strictly(S, Order(w))
<1> DEFINE C(i) == CountIn(w, S, i)
           N == C(Len(w))
           At(n) == CHOOSE i \in DOMAIN w : w[i] \in S /\ C(i) = n
           s == [n \in 1 .. N |-> w[At(n)]]
<1>1. Len(w) \in Nat /\ DOMAIN w = 1 .. Len(w)
  BY LenProperties
<1>2. /\ C(0) = 0 /\ \A i \in Nat : C(i) \in Nat
      /\ \A i \in Nat : C(i + 1) = C(i) + (IF w[i + 1] \in S THEN 1 ELSE 0)
  BY CountSteps
<1>3. \A i, j \in Nat : i <= j => C(i) <= C(j) /\ (i < j /\ w[j] \in S => C(i) < C(j))
  BY CountMonotone
<1>4. Among(w, S) = s
  BY DEF Among
<1> HIDE DEF C
<1>5. ASSUME NEW n \in 1 .. N
      PROVE  At(n) \in DOMAIN w /\ w[At(n)] \in S /\ C(At(n)) = n
  <2> DEFINE far == {i \in 1 .. Len(w) : C(i) >= n}
  <2>1. far \in SUBSET Nat /\ far # {}
    <3>1. N \in Nat /\ Len(w) # 0
      BY <1>1, <1>2
    <3>2. Len(w) \in far
      BY <1>1, <3>1
    <3> QED
      BY <3>2
  <2>2. PICK i \in far : \A k \in far : i <= k
    <3> HIDE DEF far
    <3> QED
      BY <2>1, LeastNumber
  <2>3. /\ i \in 1 .. Len(w) /\ i - 1 \in Nat /\ (i - 1) + 1 = i /\ C(i) \in Nat /\ C(i - 1) \in Nat
        /\ C(i) >= n
    <3>1. i \in 1 .. Len(w) /\ C(i) >= n
      BY <2>2
    <3>2. i \in Nat /\ i - 1 \in Nat /\ (i - 1) + 1 = i
      BY <1>1, <3>1
    <3> QED
      BY <1>2, <3>1, <3>2
  <2>4. C(i - 1) < n
    <3>1. CASE i = 1
      BY <1>2, <2>3, <3>1
    <3>2. CASE i > 1
      <4>1. i - 1 \in 1 .. Len(w) /\ i - 1 \notin far
        BY <1>1, <2>2, <2>3, <3>2
      <4> QED
        BY <2>3, <4>1
    <3> QED
      BY <2>3, <3>1, <3>2
  <2>5. C(i) = C(i - 1) + (IF w[i] \in S THEN 1 ELSE 0)
    BY <1>2, <2>3
  <2>6. w[i] \in S /\ C(i) = n
    BY <2>3, <2>4, <2>5
  <2>7. \E j \in DOMAIN w : w[j] \in S /\ C(j) = n
    BY <1>1, <2>3, <2>6
  <2> QED
    BY <2>7
<1>6. \A n \in 1 .. N : s[n] = w[At(n)]
  OBVIOUS
<1>7. s \in Seq(S) /\ Len(s) = N
  <2>1. N \in Nat
    BY <1>1, <1>2
  <2>2. \A n \in 1 .. N : w[At(n)] \in S
    BY <1>5
  <2> HIDE DEF N, At
  <2>3. s \in [1 .. N -> S]
    BY <2>2
  <2> HIDE DEF s
  <2> QED
    BY <2>1, <2>3, SeqDef, LenProperties
<1> HIDE DEF At, s
<1>8. ASSUME NEW x \in S
      PROVE  \E n \in 1 .. N : s[n] = x
  <2>1. PICK i \in DOMAIN w : w[i] = x
    OBVIOUS
  <2>2. C(i) \in 1 .. N
    <3>1. i \in Nat /\ i - 1 \in Nat /\ (i - 1) + 1 = i /\ i <= Len(w)
      BY <1>1
    <3>2. C(i) = C(i - 1) + 1 /\ C(i) \in Nat /\ C(i - 1) \in Nat
      BY <1>2, <2>1, <3>1
    <3>3. C(i) <= N /\ N \in Nat
      BY <1>1, <1>2, <1>3, <3>1
    <3> HIDE DEF N
    <3> QED
      BY <3>2, <3>3
  <2>3. At(C(i)) \in DOMAIN w /\ w[At(C(i))] \in S /\ C(At(C(i))) = C(i)
    BY <1>5, <2>2
  <2>4. At(C(i)) = i
    <3> DEFINE k == At(C(i))
    <3>1. k \in DOMAIN w /\ w[k] \in S /\ C(k) = C(i)
      BY <2>3
    <3> HIDE DEF k
    <3>2. k \in Nat /\ i \in Nat /\ w[i] \in S
      BY <1>1, <2>1, <3>1
    <3>3. ~(k < i) /\ ~(i < k)
      <4>1. C(k) \in Nat /\ C(i) \in Nat
        BY <1>2, <3>2
      <4> QED
        BY <1>3, <3>1, <3>2, <4>1
    <3> QED
      BY <3>2, <3>3 DEF k
  <2> QED
    BY <1>6, <2>1, <2>2, <2>4
<1>9. ASSUME NEW m \in 1 .. N, NEW n \in 1 .. N, m < n
      PROVE  <<s[m], s[n]>> \in Order(w)
  <2>1. /\ At(m) \in DOMAIN w /\ C(At(m)) = m
        /\ At(n) \in DOMAIN w /\ C(At(n)) = n
    BY <1>5
  <2>2. At(m) < At(n)
    BY <1>1, <1>3, <1>9, <2>1
  <2>3. <<At(m), At(n)>> \in Ahead(w)
    BY <2>1, <2>2 DEF Ahead
  <2>4. <<s[m], s[n]>> = <<w[At(m)], w[At(n)]>>
    BY <1>6
  <2> QED
    BY <2>3, <2>4 DEF Order
<1>10. Lists(Among(w, S), S, Order(w))
  BY <1>4, <1>7, <1>8, <1>9 DEF Lists
<1>11. ASSUME NEW x \in S, NEW y \in S, <<x, y>> \in Order(w), <<y, x>> \in Order(w)
       PROVE  FALSE
  <2>1. PICK p \in Ahead(w) : <<x, y>> = <<w[p[1]], w[p[2]]>>
    BY <1>11 DEF Order
  <2>2. PICK q \in Ahead(w) : <<y, x>> = <<w[q[1]], w[q[2]]>>
    BY <1>11 DEF Order
  <2>3. p[1] \in DOMAIN w /\ p[2] \in DOMAIN w /\ q[1] \in DOMAIN w /\ q[2] \in DOMAIN w
        /\ p[1] < p[2] /\ q[1] < q[2]
    BY DEF Ahead
  <2>4. w[p[1]] = w[q[2]] /\ w[p[2]] = w[q[1]]
    BY <2>1, <2>2
  <2>5. p[1] = q[2] /\ p[2] = q[1]
    BY <2>3, <2>4
  <2> QED
    BY <1>1, <2>3, <2>5
<1> QED
  BY <1>10, <1>11 DEF Strictly

(* The queue the semaphore sees: the tasks whose futures are pending.     *)
Line == Among(waiters, Live)

(* Both modules count the owners the same way.                            *)
LEMMA CountingAlike == Semaphore!Cardinality(Owners) = Cardinality(Owners)
BY DEF Semaphore!Cardinality, Cardinality

(* It lists the live tasks in the order of the deque, ...                 *)
LEMMA LineFacts ==
  ASSUME GateInv
  PROVE  Lists(Line, Live, Order(waiters)) /\ Line \in Seq(Live) /\ waiters \in Seq(Tasks)
<1>1. /\ waiters \in Seq(Tasks) /\ Live \in SUBSET Tasks
      /\ \A i, j \in DOMAIN waiters : waiters[i] = waiters[j] => i = j
      /\ \A x \in Live : \E i \in DOMAIN waiters : waiters[i] = x
  BY DEF GateInv, TypeOK, WaitersAreInTheDeque, Live
<1>2. Lists(Line, Live, Order(waiters))
  BY <1>1, AmongLists DEF Line
<1> QED
  BY <1>1, <1>2 DEF Lists

(* ... and after a step it is whatever lists them then.                   *)
LEMMA LineBecomes ==
  ASSUME GateInv', NEW s, Lists(s, Live', Order(waiters'))
  PROVE  Line' = s
<1>1. /\ waiters' \in Seq(Tasks) /\ Live' \in SUBSET Tasks
      /\ \A i, j \in DOMAIN waiters' : waiters'[i] = waiters'[j] => i = j
      /\ \A x \in Live' : \E i \in DOMAIN waiters' : waiters'[i] = x
  BY DEF GateInv, TypeOK, WaitersAreInTheDeque, Live
<1>2. Lists(Among(waiters', Live'), Live', Order(waiters')) /\ Strictly(Live', Order(waiters'))
  BY <1>1, AmongLists
<1>3. Among(waiters', Live') = s
  BY <1>2, ListsAreOne
<1> QED
  BY <1>3 DEF Line

(* What it is for x to be ahead of y.                                     *)
LEMMA OrderSays ==
  ASSUME NEW w, NEW x, NEW y
  PROVE  <<x, y>> \in Order(w) <=> \E i, j \in DOMAIN w : i < j /\ w[i] = x /\ w[j] = y
<1>1. ASSUME NEW i \in DOMAIN w, NEW j \in DOMAIN w, i < j, w[i] = x, w[j] = y
      PROVE  <<x, y>> \in Order(w)
  <2>1. <<i, j>> \in Ahead(w)
    BY <1>1 DEF Ahead
  <2> QED
    BY <1>1, <2>1 DEF Order
<1>2. ASSUME <<x, y>> \in Order(w)
      PROVE  \E i, j \in DOMAIN w : i < j /\ w[i] = x /\ w[j] = y
  <2>1. PICK p \in Ahead(w) : <<x, y>> = <<w[p[1]], w[p[2]]>>
    BY <1>2 DEF Order
  <2>2. p[1] \in DOMAIN w /\ p[2] \in DOMAIN w /\ p[1] < p[2]
    BY DEF Ahead
  <2> QED
    BY <2>1, <2>2
<1> QED
  BY <1>1, <1>2

(* A step that wakes nobody and keeps the order of the live tasks leaves  *)
(* the queue as it is, whatever dead futures it drops.                    *)
LEMMA LineStands ==
  ASSUME GateInv, GateInv', Live' = Live,
         \A x, y \in Live : <<x, y>> \in Order(waiters) => <<x, y>> \in Order(waiters')
  PROVE  Line' = Line
<1>1. Lists(Line, Live, Order(waiters)) /\ Line \in Seq(Live)
  BY LineFacts
<1>2. \A n \in 1 .. Len(Line) : Line[n] \in Live
  BY <1>1, ElementOfSeq
<1>3. Lists(Line, Live', Order(waiters'))
  BY <1>1, <1>2 DEF Lists
<1> QED
  BY <1>3, LineBecomes

(* _wake_next: the permit of the leaving task goes to the head of the     *)
(* queue, past every dead future, or back to the pool.                    *)
LEMMA Passed ==
  ASSUME GateInv, GateInv', NEW t \in Tasks, phase[t] \in PermitPhases, WakeNext(t, "idle")
  PROVE  Semaphore!PassPermit(t)
<1>0. /\ phase \in [Tasks -> Phases] /\ t \in Owners /\ Lists(Line, Live, Order(waiters)) /\ Line \in Seq(Live)
      /\ waiters \in Seq(Tasks) /\ Len(waiters) \in Nat /\ DOMAIN waiters = 1 .. Len(waiters)
      /\ \A i \in DOMAIN waiters : waiters[i] \in Tasks
  BY LineFacts, LenProperties, ElementOfSeq DEF GateInv, TypeOK, Owners
<1>1. ASSUME NEW i \in DOMAIN waiters, Pending(i), \A j \in 1 .. (i - 1) : ~Pending(j),
             waiters' = SubSeq(waiters, i + 1, Len(waiters)),
             phase' = [phase EXCEPT ![t] = "idle", ![waiters[i]] = "granted"]
      PROVE  Semaphore!PassPermit(t)
  <2> DEFINE next == waiters[i]
  <2>1. /\ next \in Tasks /\ next # t /\ phase[next] = "queued" /\ next \in Live
        /\ \A u \in Tasks : phase'[u] = IF u = next THEN "granted" ELSE IF u = t THEN "idle" ELSE phase[u]
    BY <1>0, <1>1 DEF Pending, PermitPhases, Live
  <2>2. Owners' = (Owners \ {t}) \cup {next} /\ Live' = Live \ {next}
    <3>1. \A u \in Tasks : u \in Owners' <=> u \in (Owners \ {t}) \cup {next}
      BY <2>1 DEF Owners, PermitPhases
    <3>2. \A u \in Tasks : u \in Live' <=> u \in Live \ {next}
      BY <2>1 DEF Live, PermitPhases
    <3> QED
      BY <2>1, <3>1, <3>2 DEF Owners, Live
  <2>3. /\ DOMAIN waiters' = 1 .. (Len(waiters) - i)
        /\ \A j \in 1 .. (Len(waiters) - i) : waiters'[j] = waiters[i + j]
    BY <1>0, <1>1, DropFirst
  <2>4. ASSUME NEW x \in Live
        PROVE  <<x, next>> \notin Order(waiters)
    <3>1. SUFFICES ASSUME NEW a \in DOMAIN waiters, NEW b \in DOMAIN waiters,
                          a < b, waiters[a] = x, waiters[b] = next
                   PROVE  FALSE
      BY OrderSays
    <3>2. b = i
      BY <1>1, <3>1 DEF GateInv, WaitersAreInTheDeque
    <3>3. a \in 1 .. (i - 1)
      BY <1>0, <3>1, <3>2
    <3>4. Pending(a)
      BY <3>1 DEF Pending, Live
    <3> QED
      BY <1>1, <3>3, <3>4
  <2>5. ASSUME NEW x \in Live', NEW y \in Live', <<x, y>> \in Order(waiters)
        PROVE  <<x, y>> \in Order(waiters')
    <3>1. PICK a \in DOMAIN waiters, b \in DOMAIN waiters : a < b /\ waiters[a] = x /\ waiters[b] = y
      BY <2>5, OrderSays
    <3>2. a # i /\ Pending(a) /\ ~(a \in 1 .. (i - 1))
      BY <1>1, <2>2, <3>1 DEF Pending, Live
    <3>3. a > i /\ b > i /\ a - i \in 1 .. (Len(waiters) - i) /\ b - i \in 1 .. (Len(waiters) - i)
          /\ a - i < b - i /\ i + (a - i) = a /\ i + (b - i) = b
      BY <1>0, <1>1, <3>1, <3>2
    <3>4. waiters'[a - i] = x /\ waiters'[b - i] = y
      BY <2>3, <3>1, <3>3
    <3> QED
      BY <2>3, <3>3, <3>4, OrderSays
  <2>6. /\ Len(Line) \in Nat /\ \A n \in 1 .. Len(Line) : Line[n] \in Live
    BY <1>0, LenProperties, ElementOfSeq
  <2>7. Line # <<>> /\ Head(Line) = next
    <3>1. PICK k \in 1 .. Len(Line) : Line[k] = next
      BY <1>0, <2>1 DEF Lists
    <3>2. Line # <<>> /\ Head(Line) = Line[1] /\ 1 \in 1 .. Len(Line)
      BY <1>0, <2>6, <3>1, EmptySeq, HeadTailProperties
    <3>3. k > 1 => <<Line[1], next>> \in Order(waiters)
      BY <1>0, <3>1, <3>2 DEF Lists
    <3> QED
      BY <2>4, <2>6, <3>1, <3>2, <3>3
  <2>8. Lists(Tail(Line), Live', Order(waiters'))
    <3> DEFINE rest == Tail(Line)
    <3>1. /\ rest \in Seq(Live) /\ Len(rest) = Len(Line) - 1
          /\ \A n \in 1 .. Len(rest) : rest[n] = Line[n + 1]
      BY <1>0, <2>7, HeadTailProperties
    <3> HIDE DEF rest
    <3>2. Line[1] = next /\ Len(Line) > 0
      BY <1>0, <2>6, <2>7, EmptySeq, HeadTailProperties
    <3>3. \A n \in 1 .. Len(rest) : n + 1 \in 1 .. Len(Line) /\ 1 < n + 1 /\ 1 \in 1 .. Len(Line)
      BY <2>6, <3>1, <3>2
    <3>4. \A n \in 1 .. Len(rest) : rest[n] # next
      <4>1. TAKE n \in 1 .. Len(rest)
      <4>2. <<Line[1], Line[n + 1]>> \in Order(waiters)
        BY <1>0, <3>3 DEF Lists
      <4> QED
        BY <2>1, <2>4, <3>1, <3>2, <4>2
    <3>5. \A n \in 1 .. Len(rest) : rest[n] \in Live'
      BY <2>2, <2>6, <3>1, <3>3, <3>4
    <3>6. rest \in Seq(Live')
      <4>1. Len(rest) \in Nat /\ rest \in [1 .. Len(rest) -> Live]
        BY <3>1, LenProperties
      <4>2. rest \in [1 .. Len(rest) -> Live']
        BY <3>5, <4>1
      <4> QED
        BY <4>1, <4>2, SeqDef
    <3>7. ASSUME NEW x \in Live'
          PROVE  \E n \in 1 .. Len(rest) : rest[n] = x
      <4>1. PICK k \in 1 .. Len(Line) : Line[k] = x
        BY <1>0, <2>2 DEF Lists
      <4>2. k # 1
        BY <2>2, <3>2, <4>1
      <4>3. k - 1 \in 1 .. Len(rest) /\ (k - 1) + 1 = k
        BY <2>6, <3>1, <4>2
      <4> QED
        BY <3>1, <4>1, <4>3
    <3>8. ASSUME NEW m \in 1 .. Len(rest), NEW n \in 1 .. Len(rest), m < n
          PROVE  <<rest[m], rest[n]>> \in Order(waiters')
      <4>1. m + 1 \in 1 .. Len(Line) /\ n + 1 \in 1 .. Len(Line) /\ m + 1 < n + 1
        BY <3>3, <3>8
      <4>2. <<Line[m + 1], Line[n + 1]>> \in Order(waiters)
        BY <1>0, <4>1 DEF Lists
      <4> QED
        BY <2>5, <3>1, <3>5, <4>2
    <3> QED
      BY <3>6, <3>7, <3>8 DEF Lists, rest
  <2>9. Line' = Tail(Line)
    BY <2>8, LineBecomes
  <2> QED
    BY <1>0, <2>2, <2>7, <2>9 DEF Semaphore!PassPermit, Line
<1>2. ASSUME \A i \in DOMAIN waiters : ~Pending(i), waiters' = <<>>, phase' = [phase EXCEPT ![t] = "idle"]
      PROVE  Semaphore!PassPermit(t)
  <2>1. Live = {}
    BY <1>2 DEF Live, Pending, GateInv, WaitersAreInTheDeque
  <2>2. Owners' = Owners \ {t} /\ Live' = {}
    BY <1>0, <1>2, <2>1 DEF Owners, Live, PermitPhases
  <2>3. Line = <<>>
    <3>1. Len(Line) \in Nat /\ \A n \in 1 .. Len(Line) : Line[n] \in Live
      BY <1>0, LenProperties, ElementOfSeq
    <3>2. Len(Line) = 0
      BY <2>1, <3>1
    <3> QED
      BY <1>0, <3>2, EmptySeq
  <2>4. Line' = Line
    BY <2>1, <2>2, LineStands
  <2> QED
    BY <1>0, <2>2, <2>3, <2>4 DEF Semaphore!PassPermit, Line
<1> QED
  BY <1>1, <1>2 DEF WakeNext

(* cancel() of a pending future takes its task out of the queue at once,  *)
(* though the future stays in the deque until the task resumes.           *)
LEMMA GaveUp ==
  ASSUME GateInv, GateInv', NEW t \in Tasks, phase[t] = "queued", phase' = [phase EXCEPT ![t] = "withdrawn"],
         waiters' = waiters
  PROVE  Semaphore!GiveUp(t)
<1>1. /\ Lists(Line, Live, Order(waiters)) /\ Line \in Seq(Live) /\ phase \in [Tasks -> Phases] /\ t \in Live
      /\ Len(Line) \in Nat /\ DOMAIN Line = 1 .. Len(Line) /\ \A n \in 1 .. Len(Line) : Line[n] \in Live
  BY LineFacts, LenProperties, ElementOfSeq DEF GateInv, TypeOK, Live
<1>2. Owners' = Owners /\ Live' = Live \ {t}
  BY <1>1 DEF Owners, Live, PermitPhases
<1>3. PICK i \in 1 .. Len(Line) : Line[i] = t
  BY <1>1 DEF Lists
<1>4. \A m, n \in 1 .. Len(Line) : Line[m] = Line[n] => m = n
  <2>1. Strictly(Live, Order(waiters))
    BY AmongLists DEF GateInv, TypeOK, WaitersAreInTheDeque, Live
  <2>2. \A m, n \in 1 .. Len(Line) : m < n => Line[m] # Line[n]
    BY <1>1, <2>1 DEF Lists, Strictly
  <2> QED
    BY <1>1, <2>2
<1> DEFINE old(n) == IF n < i THEN n ELSE n + 1
<1>0. PICK rest : rest = SubSeq(Line, 1, i - 1) \o SubSeq(Line, i + 1, Len(Line))
  OBVIOUS
<1>5. /\ rest \in Seq(Live) /\ DOMAIN rest = 1 .. (Len(Line) - 1)
      /\ \A n \in 1 .. (i - 1) : rest[n] = Line[n]
      /\ \A n \in i .. (Len(Line) - 1) : rest[n] = Line[n + 1]
  <2>1. i \in DOMAIN Line /\ Line \in Seq(Live)
    BY <1>1, <1>3
  <2> QED
    BY ONLY <1>0, <2>1, RemoveOne, ZenonT(40)
<1>6. /\ Len(rest) = Len(Line) - 1
      /\ \A n \in 1 .. Len(rest) : old(n) \in 1 .. Len(Line) /\ old(n) # i /\ rest[n] = Line[old(n)]
  <2>1. Len(rest) = Len(Line) - 1
    <3>1. Len(rest) \in Nat /\ DOMAIN rest = 1 .. Len(rest)
      BY <1>5, LenProperties
    <3>2. Len(Line) - 1 \in Nat
      BY <1>1, <1>3
    <3>3. 1 .. Len(rest) = 1 .. (Len(Line) - 1)
      BY <1>5, <3>1
    <3> QED
      BY <3>1, <3>2, <3>3
  <2>2. ASSUME NEW n \in 1 .. Len(rest)
        PROVE  old(n) \in 1 .. Len(Line) /\ old(n) # i /\ rest[n] = Line[old(n)]
    <3>1. CASE n < i
      <4>1. n \in 1 .. (i - 1)
        BY <1>3, <3>1
      <4> QED
        BY <1>1, <1>5, <2>1, <3>1, <4>1
    <3>2. CASE ~(n < i)
      <4>1. n \in i .. (Len(Line) - 1)
        BY <1>1, <1>3, <2>1, <3>2
      <4> QED
        BY <1>1, <1>5, <2>1, <3>2, <4>1
    <3> QED
      BY <3>1, <3>2
  <2> QED
    BY <2>1, <2>2
<1>7. \A n \in 1 .. Len(rest) : rest[n] \in Live'
  BY <1>1, <1>2, <1>3, <1>4, <1>6
<1>8. rest \in Seq(Live')
  <2>1. Len(rest) \in Nat /\ rest \in [1 .. Len(rest) -> Live]
    BY <1>5, LenProperties
  <2>2. rest \in [1 .. Len(rest) -> Live']
    BY <1>7, <2>1
  <2> QED
    BY <2>1, <2>2, SeqDef
<1>9. ASSUME NEW x \in Live'
      PROVE  \E n \in 1 .. Len(rest) : rest[n] = x
  <2>1. PICK k \in 1 .. Len(Line) : Line[k] = x
    BY <1>1, <1>2 DEF Lists
  <2>2. k # i
    BY <1>2, <1>3, <2>1
  <2>3. CASE k < i
    <3>1. k \in 1 .. Len(rest) /\ old(k) = k
      BY <1>1, <1>3, <1>6, <2>1, <2>3
    <3> QED
      BY <1>6, <2>1, <3>1
  <2>4. CASE k > i
    <3>1. k - 1 \in 1 .. Len(rest) /\ old(k - 1) = k
      BY <1>1, <1>3, <1>6, <2>1, <2>4
    <3> QED
      BY <1>6, <2>1, <3>1
  <2> QED
    BY <1>1, <2>1, <2>2, <2>3, <2>4
<1>10. ASSUME NEW m \in 1 .. Len(rest), NEW n \in 1 .. Len(rest), m < n
       PROVE  <<rest[m], rest[n]>> \in Order(waiters')
  <2>1. old(m) < old(n)
    BY <1>1, <1>3, <1>10
  <2> QED
    BY <1>1, <1>6, <2>1 DEF Lists
<1>11. Line' = rest
  <2>1. Lists(rest, Live', Order(waiters'))
    BY <1>8, <1>9, <1>10 DEF Lists
  <2> QED
    BY <2>1, LineBecomes
<1> QED
  BY <1>0, <1>1, <1>2, <1>3, <1>11 DEF Semaphore!GiveUp, Line

(* acquire() without a free permit joins the queue behind everybody.      *)
LEMMA Joined ==
  ASSUME GateInv, GateInv', NEW t \in Tasks, Enqueue(t)
  PROVE  Semaphore!JoinLine(t)
<1>1. /\ Lists(Line, Live, Order(waiters)) /\ Line \in Seq(Live) /\ phase \in [Tasks -> Phases]
      /\ Len(Line) \in Nat /\ DOMAIN Line = 1 .. Len(Line) /\ \A n \in 1 .. Len(Line) : Line[n] \in Live
      /\ waiters \in Seq(Tasks) /\ Len(waiters) \in Nat /\ DOMAIN waiters = 1 .. Len(waiters)
  BY LineFacts, LenProperties, ElementOfSeq DEF GateInv, TypeOK
<1>2. /\ Owners' = Owners /\ Live' = Live \cup {t} /\ t \notin Live /\ t \notin Owners
      /\ Cardinality(Owners) = Concurrency
  <2>1. phase[t] = "idle" /\ phase' = [phase EXCEPT ![t] = "queued"] /\ running >= Concurrency
    BY DEF Enqueue
  <2>2. Cardinality(Owners) = Concurrency
    BY <2>1, GateAssumption DEF GateInv, TypeOK, PermitsConserved
  <2> QED
    BY <1>1, <2>1, <2>2 DEF Owners, Live, PermitPhases
<1>3. /\ DOMAIN waiters' = 1 .. (Len(waiters) + 1) /\ waiters'[Len(waiters) + 1] = t
      /\ \A i \in 1 .. Len(waiters) : waiters'[i] = waiters[i]
  <2>1. waiters' = Append(waiters, t)
    BY DEF Enqueue
  <2> QED
    BY <1>1, <2>1, AppendProperties, LenProperties
<1>4. \A x, y \in Live : <<x, y>> \in Order(waiters) => <<x, y>> \in Order(waiters')
  <2>1. SUFFICES ASSUME NEW x \in Live, NEW y \in Live, <<x, y>> \in Order(waiters)
                 PROVE  <<x, y>> \in Order(waiters')
    OBVIOUS
  <2>2. PICK i \in DOMAIN waiters, j \in DOMAIN waiters : i < j /\ waiters[i] = x /\ waiters[j] = y
    BY <2>1, OrderSays
  <2>3. i \in DOMAIN waiters' /\ j \in DOMAIN waiters' /\ waiters'[i] = x /\ waiters'[j] = y
    BY <1>1, <1>3, <2>2
  <2> QED
    BY <2>2, <2>3, OrderSays
<1>5. \A x \in Live : <<x, t>> \in Order(waiters')
  <2>1. TAKE x \in Live
  <2>2. PICK i \in DOMAIN waiters : waiters[i] = x
    BY DEF GateInv, WaitersAreInTheDeque, Live
  <2>3. /\ i \in DOMAIN waiters' /\ Len(waiters) + 1 \in DOMAIN waiters' /\ i < Len(waiters) + 1
        /\ waiters'[i] = x
    BY <1>1, <1>3, <2>2
  <2> QED
    BY <1>3, <2>3, OrderSays
<1> DEFINE longer == Append(Line, t)
<1>6. /\ Line \in Seq(Live') /\ longer \in Seq(Live') /\ Len(longer) = Len(Line) + 1
      /\ longer[Len(Line) + 1] = t /\ \A n \in 1 .. Len(Line) : longer[n] = Line[n]
  <2>1. Line \in [1 .. Len(Line) -> Live']
    BY <1>1, <1>2
  <2>2. Line \in Seq(Live') /\ t \in Live'
    BY <1>1, <1>2, <2>1, SeqDef
  <2> QED
    BY <2>2, AppendProperties
<1> HIDE DEF longer
<1>7. ASSUME NEW x \in Live'
      PROVE  \E n \in 1 .. Len(longer) : longer[n] = x
  <2>1. CASE x = t
    BY <1>1, <1>6, <2>1
  <2>2. CASE x \in Live
    <3>1. PICK n \in 1 .. Len(Line) : Line[n] = x
      BY <1>1, <2>2 DEF Lists
    <3> QED
      BY <1>1, <1>6, <3>1
  <2> QED
    BY <1>2, <2>1, <2>2
<1>8. ASSUME NEW m \in 1 .. Len(longer), NEW n \in 1 .. Len(longer), m < n
      PROVE  <<longer[m], longer[n]>> \in Order(waiters')
  <2>1. m \in 1 .. Len(Line) /\ longer[m] = Line[m] /\ Line[m] \in Live
    BY <1>1, <1>6, <1>8
  <2>2. CASE n = Len(Line) + 1
    BY <1>5, <1>6, <2>1, <2>2
  <2>3. CASE n \in 1 .. Len(Line)
    <3>1. <<Line[m], Line[n]>> \in Order(waiters)
      BY <1>1, <1>8, <2>1, <2>3 DEF Lists
    <3> QED
      BY <1>1, <1>4, <1>6, <2>1, <2>3, <3>1
  <2> QED
    BY <1>1, <1>6, <2>2, <2>3
<1>9. Line' = longer
  <2>1. Lists(longer, Live', Order(waiters'))
    BY <1>6, <1>7, <1>8 DEF Lists
  <2> QED
    BY <2>1, LineBecomes
<1>10. Semaphore!Outside(t)
  BY <1>1, <1>2 DEF Semaphore!Outside, Line
<1> QED
  BY <1>2, <1>9, <1>10, CountingAlike DEF Semaphore!JoinLine, Line, longer

(* acquire() on the fast path takes a permit only when nobody is queued.  *)
LEMMA Taken ==
  ASSUME GateInv, GateInv', NEW t \in Tasks, EnterFast(t)
  PROVE  Semaphore!TakePermit(t)
<1>1. /\ Lists(Line, Live, Order(waiters)) /\ Line \in Seq(Live) /\ phase \in [Tasks -> Phases]
      /\ Len(Line) \in Nat /\ DOMAIN Line = 1 .. Len(Line) /\ \A n \in 1 .. Len(Line) : Line[n] \in Live
  BY LineFacts, LenProperties, ElementOfSeq DEF GateInv, TypeOK
<1>2. /\ phase[t] = "idle" /\ phase' = [phase EXCEPT ![t] = "holding"] /\ running < Concurrency
      /\ waiters' = waiters
  BY DEF EnterFast
<1>3. Owners' = Owners \cup {t} /\ t \notin Owners /\ Cardinality(Owners) < Concurrency
  BY <1>1, <1>2 DEF Owners, PermitPhases, GateInv, PermitsConserved
<1>4. Live = {} /\ Live' = {}
  <2>1. Live = {}
    BY <1>2, GateAssumption DEF Live, GateInv, TypeOK, NoFreePermitWhileWaiting
  <2> QED
    BY <1>1, <1>2, <2>1 DEF Live
<1>5. Line = <<>>
  <2>1. Len(Line) = 0
    BY <1>1, <1>4
  <2> QED
    BY <1>1, <2>1, EmptySeq
<1>6. Line' = Line
  BY <1>4, LineStands
<1>7. Semaphore!Outside(t)
  BY <1>1, <1>3, <1>5 DEF Semaphore!Outside, Line
<1> QED
  BY <1>3, <1>5, <1>6, <1>7, CountingAlike DEF Semaphore!TakePermit, Line

(* A cancelled task that takes its dead future out of the deque changes   *)
(* nothing for the others.                                                *)
LEMMA Withdrawn ==
  ASSUME GateInv, GateInv', NEW t \in Tasks, ResumeWithdrawn(t)
  PROVE  Owners' = Owners /\ Line' = Line
<1>1. /\ phase \in [Tasks -> Phases] /\ phase[t] = "withdrawn" /\ phase' = [phase EXCEPT ![t] = "idle"]
      /\ waiters \in Seq(Tasks) /\ Len(waiters) \in Nat /\ DOMAIN waiters = 1 .. Len(waiters)
  BY LenProperties DEF GateInv, TypeOK, ResumeWithdrawn
<1>2. Owners' = Owners /\ Live' = Live /\ t \notin Live
  BY <1>1 DEF Owners, Live, PermitPhases
<1>3. CASE waiters' = waiters
  BY <1>2, <1>3, LineStands
<1>4. ASSUME NEW i \in DOMAIN waiters, waiters[i] = t,
             waiters' = SubSeq(waiters, 1, i - 1) \o SubSeq(waiters, i + 1, Len(waiters))
      PROVE  Line' = Line
  <2>1. /\ waiters' \in Seq(Tasks) /\ DOMAIN waiters' = 1 .. (Len(waiters) - 1)
        /\ \A j \in 1 .. (i - 1) : waiters'[j] = waiters[j]
        /\ \A j \in i .. (Len(waiters) - 1) : waiters'[j] = waiters[j + 1]
    <3>1. waiters' = SubSeq(waiters, 1, i - 1) \o SubSeq(waiters, i + 1, Len(waiters)) /\ i \in DOMAIN waiters /\ waiters \in Seq(Tasks)
      BY <1>1, <1>4
    <3> QED
      BY ONLY <3>1, RemoveOne, ZenonT(40)
  <2> DEFINE new(j) == IF j < i THEN j ELSE j - 1
  <2>2. ASSUME NEW j \in DOMAIN waiters, j # i
        PROVE  new(j) \in DOMAIN waiters' /\ waiters'[new(j)] = waiters[j]
    <3>1. CASE j < i
      <4>1. j \in 1 .. (i - 1) /\ j \in DOMAIN waiters'
        BY <1>1, <2>1, <3>1
      <4> QED
        BY <2>1, <3>1, <4>1
    <3>2. CASE ~(j < i)
      <4>1. j - 1 \in i .. (Len(waiters) - 1) /\ j - 1 \in DOMAIN waiters' /\ (j - 1) + 1 = j
        BY <1>1, <2>1, <2>2, <3>2
      <4> QED
        BY <2>1, <3>2, <4>1
    <3> QED
      BY <3>1, <3>2
  <2>3. ASSUME NEW x \in Live, NEW y \in Live, <<x, y>> \in Order(waiters)
        PROVE  <<x, y>> \in Order(waiters')
    <3>1. PICK a \in DOMAIN waiters, b \in DOMAIN waiters : a < b /\ waiters[a] = x /\ waiters[b] = y
      BY <2>3, OrderSays
    <3>2. a # i /\ b # i
      BY <1>2, <1>4, <3>1
    <3>3. new(a) < new(b)
      BY <1>1, <3>1, <3>2
    <3>4. /\ new(a) \in DOMAIN waiters' /\ waiters'[new(a)] = x
          /\ new(b) \in DOMAIN waiters' /\ waiters'[new(b)] = y
      BY <2>2, <3>1, <3>2
    <3> HIDE DEF new
    <3> QED
      BY <3>3, <3>4, OrderSays
  <2> QED
    BY <1>2, <2>3, LineStands
<1> QED
  BY <1>2, <1>3, <1>4 DEF ResumeWithdrawn

(* Nor does a task that resumes with its permit, is turned away, goes on, *)
(* or is cancelled after it was granted.                                  *)
LEMMA Unseen ==
  ASSUME GateInv, GateInv', NEW t \in Tasks, waiters' = waiters,
         NEW to \in Phases, phase' = [phase EXCEPT ![t] = to], phase[t] # "queued", to # "queued",
         phase[t] \in PermitPhases <=> to \in PermitPhases
  PROVE  Owners' = Owners /\ Line' = Line
<1>1. Owners' = Owners /\ Live' = Live
  BY DEF GateInv, TypeOK, Owners, Live
<1> QED
  BY <1>1, LineStands

(* The gate (core/asr_infer_gate.py) implements the semaphore, step by    *)
(* step, for any finite set of tasks, any concurrency and any backlog     *)
(* bound: a freed permit goes to the caller that has waited longest and   *)
(* not given up, whichever futures are cancelled in the tick in which     *)
(* they are granted.                                                      *)
THEOREM GateIsASemaphore == Spec => ImplementsSemaphore
<1>1. Init => Semaphore!Init
  <2>1. SUFFICES ASSUME Init PROVE Owners = {} /\ Line = <<>>
    BY DEF Semaphore!Init, Line
  <2>2. Owners = {}
    BY <2>1 DEF Init, Owners, PermitPhases
  <2>3. CountIn(waiters, Live, Len(waiters)) = 0
    BY <2>1, CountSteps, EmptySeq DEF Init
  <2>4. Line = <<>>
    BY <2>3, EmptySeq DEF Line, Among
  <2> QED
    BY <2>2, <2>4
<1>2. GateInv /\ GateInv' /\ [Next]_vars => [Semaphore!Next]_(Semaphore!semVars)
  <2>1. SUFFICES ASSUME GateInv, GateInv', [Next]_vars
                 PROVE  [Semaphore!Next]_(Semaphore!semVars)
    OBVIOUS
  <2>2. Owners' = Owners /\ Line' = Line => UNCHANGED Semaphore!semVars
    BY DEF Semaphore!semVars, Line
  <2>3. CASE UNCHANGED vars
    <3>1. waiters' = waiters /\ phase' = phase
      BY <2>3 DEF vars
    <3> QED
      BY <2>2, <3>1 DEF Owners, Live, Line
  <2>4. ASSUME NEW t \in Tasks, EnterFast(t)
        PROVE  Semaphore!Next
    BY <2>1, <2>4, Taken DEF Semaphore!Next
  <2>5. ASSUME NEW t \in Tasks, Enqueue(t)
        PROVE  Semaphore!Next
    BY <2>1, <2>5, Joined DEF Semaphore!Next
  <2>6. ASSUME NEW t \in Tasks, Reject(t) \/ Resume(t) \/ NextUtterance(t)
        PROVE  UNCHANGED Semaphore!semVars
    <3>1. \E to \in Phases : /\ phase' = [phase EXCEPT ![t] = to] /\ phase[t] # "queued" /\ to # "queued"
                             /\ phase[t] \in PermitPhases <=> to \in PermitPhases
      BY <2>6 DEF Reject, Resume, NextUtterance, Phases, PermitPhases
    <3>2. waiters' = waiters
      BY <2>6 DEF Reject, Resume, NextUtterance
    <3> QED
      BY <2>1, <2>2, <3>1, <3>2, Unseen
  <2>7. ASSUME NEW t \in Tasks, Cancel(t)
        PROVE  [Semaphore!Next]_(Semaphore!semVars)
    <3>1. CASE phase[t] = "queued" /\ phase' = [phase EXCEPT ![t] = "withdrawn"]
      <4>1. waiters' = waiters
        BY <2>7 DEF Cancel
      <4>2. Semaphore!GiveUp(t)
        BY <2>1, <3>1, <4>1, GaveUp
      <4> QED
        BY <4>2 DEF Semaphore!Next
    <3>2. CASE phase[t] = "granted" /\ phase' = [phase EXCEPT ![t] = "revoked"]
      <4>1. waiters' = waiters /\ "revoked" \in Phases /\ phase[t] \in PermitPhases /\ "revoked" \in PermitPhases
        BY <2>7, <3>2 DEF Cancel, Phases, PermitPhases
      <4>2. Owners' = Owners /\ Line' = Line
        BY <2>1, <3>2, <4>1, Unseen
      <4> QED
        BY <2>2, <4>2
    <3> QED
      BY <2>7, <3>1, <3>2 DEF Cancel
  <2>8. ASSUME NEW t \in Tasks, ResumeWithdrawn(t)
        PROVE  UNCHANGED Semaphore!semVars
    BY <2>1, <2>2, <2>8, Withdrawn
  <2>9. ASSUME NEW t \in Tasks, ResumeRevoked(t) \/ Release(t)
        PROVE  Semaphore!Next
    <3>1. phase[t] \in PermitPhases /\ WakeNext(t, "idle")
      BY <2>9 DEF ResumeRevoked, Release, PermitPhases
    <3>2. Semaphore!PassPermit(t)
      BY <2>1, <3>1, Passed
    <3> QED
      BY <3>2 DEF Semaphore!Next
  <2> QED
    BY <2>1, <2>3, <2>4, <2>5, <2>6, <2>7, <2>8, <2>9 DEF Next
<1> QED
  BY <1>1, <1>2, GateInvariant, PTL DEF Spec, ImplementsSemaphore, Semaphore!Spec
=============================================================================
