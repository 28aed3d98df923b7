------------------------ MODULE BackendManager_proofs ------------------------
(***************************************************************************)
(* The backend manager never takes a backend from a request that holds it, *)
(* never keeps two of them resident, and implements the abstract hot swap, *)
(* for any number of requests, sessions and administrators.                *)
(***************************************************************************)
EXTENDS BackendManager, FiniteSetTheorems, TLAPS

(* What is resident is what is installed; a failed manager may keep one    *)
(* half-built object.                                                      *)
Residency ==
    /\ current = None <=> mstate \in {"init", "failed"}
    /\ current # None => loaded = {current}
    /\ loaded = {} \/ \E b \in Instances : loaded = {b}

(* An admitted request holds the installed backend.                        *)
ServedByCurrent ==
    \A r \in Requests : /\ req[r] = "serving" => reqOn[r] = current /\ current # None
                        /\ req[r] = "idle" => reqOn[r] = None

(* DRAINING belongs to exactly one reload(), and past its drain nothing is *)
(* in flight.                                                              *)
OneReload ==
    /\ \A a \in Admins : admin[a] \in Reloading => mstate = "draining"
    /\ \A a, b \in Admins : admin[a] \in Reloading /\ admin[b] \in Reloading => a = b
    /\ \A a \in Admins : admin[a] \in {"drained", "running"} => inflight = 0

(* The installed backend reads the env it was built from, and the          *)
(* reference a rollback will use is the one on record in that env.         *)
ProfileInForce ==
    /\ mstate = "init" => env.from = StartProfile
    /\ current # None => /\ builtFrom = env /\ env.from \in Profiles
                         /\ lastRef # None => env.from = lastRef
    /\ current # None /\ Seeded => lastRef # None
    /\ \A a \in Admins : admin[a] \in Reloading =>
          /\ oldRef[a] \in Profiles
          /\ lastRef # None => oldRef[a] = lastRef

(* Registered sessions that still serve are on the installed backend, and  *)
(* none of them is left once a reload has closed its list.                 *)
SessionsFollow ==
    /\ \A s \in handles : ws[s] \notin {"idle", "abandoned"}
    /\ \A s \in handles : ws[s] \in {"open", "busy"} => wsOn[s] = current /\ current # None
    /\ \A s \in handles \ toClose : (\E a \in Admins : admin[a] \in Reloading) =>
          ws[s] \notin {"open", "busy"}
    /\ mstate # "draining" => toClose = {}
    /\ \A a \in Admins : admin[a] \in Reloading /\ toClose # {} => admin[a] = "closing"

(* The inductive invariant.                                                *)
IInv ==
    /\ TypeOK
    /\ InflightCountsServing
    /\ Residency
    /\ ServedByCurrent
    /\ OneReload
    /\ ProfileInForce
    /\ SessionsFollow

-----------------------------------------------------------------------------
(* The requests inside acquire() are finitely many.                        *)
LEMMA ServingFinite == IsFiniteSet(Serving) /\ Cardinality(Serving) \in Nat
<1>1. Serving \subseteq Requests
  BY DEF Serving
<1>2. QED
  BY <1>1, ManagerAssumption, FS_Subset, FS_CardinalityType

(* A request enters acquire() and is counted.                              *)
LEMMA CountUp ==
  ASSUME TypeOK, InflightCountsServing, NEW r \in Requests, req[r] # "serving",
         req' = [req EXCEPT ![r] = "serving"], inflight' = inflight + 1
  PROVE  InflightCountsServing'
<1>1. Serving' = Serving \cup {r} /\ r \notin Serving
  BY DEF Serving, TypeOK
<1>2. Cardinality(Serving \cup {r}) = Cardinality(Serving) + 1
  BY <1>1, ServingFinite, FS_AddElement
<1>3. QED
  BY <1>1, <1>2 DEF InflightCountsServing

(* A request leaves acquire(), by whichever way, and is no longer counted. *)
LEMMA CountDown ==
  ASSUME TypeOK, InflightCountsServing, NEW r \in Requests, req[r] = "serving",
         NEW to \in {"idle", "detached"}, req' = [req EXCEPT ![r] = to],
         inflight' = inflight - 1
  PROVE  InflightCountsServing' /\ inflight' \in Nat
<1>1. Serving' = Serving \ {r} /\ r \in Serving
  BY DEF Serving, TypeOK
<1>2. Cardinality(Serving \ {r}) = Cardinality(Serving) - 1
  BY <1>1, ServingFinite, FS_RemoveElement
<1>3. inflight' = Cardinality(Serving')
  BY <1>1, <1>2 DEF InflightCountsServing
<1>4. IsFiniteSet(Serving') /\ Cardinality(Serving') \in Nat
  BY <1>1, ServingFinite, FS_RemoveElement, FS_CardinalityType
<1>5. QED
  BY <1>3, <1>4 DEF InflightCountsServing

(* Nobody enters or leaves.                                                *)
LEMMA CountKept ==
  ASSUME InflightCountsServing, UNCHANGED inflight,
         \A r \in Requests : req'[r] = "serving" <=> req[r] = "serving"
  PROVE  InflightCountsServing'
BY DEF InflightCountsServing, Serving

(* Nothing in flight means no request inside acquire().                    *)
LEMMA NothingServing ==
  ASSUME InflightCountsServing, inflight = 0
  PROVE  \A r \in Requests : req[r] # "serving"
<1>1. Serving = {}
  BY ServingFinite, FS_EmptySet DEF InflightCountsServing
<1>2. QED
  BY <1>1 DEF Serving

-----------------------------------------------------------------------------
(* The invariant holds when the manager is constructed.                    *)
LEMMA InitInv == Init => IInv
<1> SUFFICES ASSUME Init PROVE IInv
  OBVIOUS
<1>1. Serving = {}
  BY DEF Init, Serving
<1>2. InflightCountsServing
  BY <1>1, FS_EmptySet DEF InflightCountsServing, Init
<1>3. TypeOK
  BY ManagerAssumption DEF Init, Environments, TypeOK, States, ReqPhases, WsPhases, Resting, Ended, Reloading
<1>4. Residency /\ ServedByCurrent /\ SessionsFollow
  BY DEF Init, Residency, ServedByCurrent, SessionsFollow, Reloading
<1>5. OneReload /\ ProfileInForce
  BY ManagerAssumption DEF Init, Environments, OneReload, ProfileInForce, Reloading
<1>6. QED
  BY <1>2, <1>3, <1>4, <1>5 DEF IInv

(* start() installs a backend or leaves the manager FAILED.               *)
LEMMA StartInv ==
  ASSUME IInv, Start
  PROVE  IInv'
<1> USE DEF IInv, Reloading, Resting, Ended, Return, backVars, profVars, reqVars, wsVars, adminVars
<1>1. InflightCountsServing'
  BY CountKept DEF Start, Fresh, TypeOK
<1>0. env.from = StartProfile /\ env \in [from : Profiles, strays : SUBSET Profiles]
  BY ManagerAssumption DEF Start, ProfileInForce, TypeOK
<1>2. TypeOK'
  <2>1. loaded' \subseteq Instances
    BY DEF Start, Fresh
  <2>2. mstate' \in States /\ current' \in Instances \cup {None}
    BY DEF Start, Fresh, TypeOK, States
  <2>3. builtFrom' \in [from : Profiles, strays : SUBSET Profiles] \cup {None} /\ lastRef' \in Profiles \cup {None}
    BY <1>0, ManagerAssumption DEF Start, TypeOK
  <2>4. QED
    BY <2>1, <2>2, <2>3 DEF Start, TypeOK
<1>3. Residency' /\ ServedByCurrent'
  BY NothingServing, ManagerAssumption DEF Start, Fresh, TypeOK, Residency, ServedByCurrent, OneReload
<1>4. OneReload'
  BY NothingServing DEF Start, Fresh, TypeOK, OneReload, Residency, ServedByCurrent
<1>5. ProfileInForce'
  BY <1>0, ManagerAssumption DEF Start, Fresh, TypeOK, OneReload, Residency, ProfileInForce
<1>6. SessionsFollow'
  BY ManagerAssumption DEF Start, Fresh, TypeOK, OneReload, Residency, SessionsFollow, WsPhases
<1>7. QED
  BY <1>1, <1>2, <1>3, <1>4, <1>5, <1>6

(* A request is admitted with the installed backend.                      *)
LEMMA AcquireInv ==
  ASSUME IInv, NEW r \in Requests, Acquire(r)
  PROVE  IInv'
<1> USE DEF IInv, Reloading, Resting, Ended, Return, backVars, profVars, reqVars, wsVars, adminVars
<1>1. InflightCountsServing'
  BY CountUp DEF Acquire, IsReady
<1>2. TypeOK'
  BY <1>1, ManagerAssumption DEF Acquire, IsReady, TypeOK, States, ReqPhases, WsPhases
<1>3. Residency' /\ ServedByCurrent'
  BY NothingServing, ManagerAssumption DEF Acquire, IsReady, TypeOK, Residency, ServedByCurrent, OneReload
<1>4. OneReload'
  BY NothingServing DEF Acquire, IsReady, TypeOK, OneReload, Residency, ServedByCurrent
<1>5. ProfileInForce'
  BY ManagerAssumption DEF Acquire, IsReady, TypeOK, OneReload, Residency, ProfileInForce
<1>6. SessionsFollow'
  BY ManagerAssumption DEF Acquire, IsReady, TypeOK, OneReload, Residency, SessionsFollow, WsPhases
<1>7. QED
  BY <1>1, <1>2, <1>3, <1>4, <1>5, <1>6

(* A request ends.                                                        *)
LEMMA LeaveInv ==
  ASSUME IInv, NEW r \in Requests, Leave(r)
  PROVE  IInv'
<1> USE DEF IInv, Reloading, Resting, Ended, Return, backVars, profVars, reqVars, wsVars, adminVars
<1>1. InflightCountsServing' /\ inflight' \in Nat
  BY CountDown DEF Leave
<1>2. TypeOK'
  BY <1>1, ManagerAssumption DEF Leave, TypeOK, States, ReqPhases, WsPhases
<1>3. Residency' /\ ServedByCurrent'
  BY NothingServing, ManagerAssumption DEF Leave, TypeOK, Residency, ServedByCurrent, OneReload
<1>4. OneReload'
  BY NothingServing DEF Leave, TypeOK, OneReload, Residency, ServedByCurrent
<1>5. ProfileInForce'
  BY ManagerAssumption DEF Leave, TypeOK, OneReload, Residency, ProfileInForce
<1>6. SessionsFollow'
  BY ManagerAssumption DEF Leave, TypeOK, OneReload, Residency, SessionsFollow, WsPhases
<1>7. QED
  BY <1>1, <1>2, <1>3, <1>4, <1>5, <1>6

(* A request is cancelled and leaves its thread behind.                   *)
LEMMA DetachInv ==
  ASSUME IInv, NEW r \in Requests, Detach(r)
  PROVE  IInv'
<1> USE DEF IInv, Reloading, Resting, Ended, Return, backVars, profVars, reqVars, wsVars, adminVars
<1>1. InflightCountsServing' /\ inflight' \in Nat
  BY CountDown DEF Detach
<1>2. TypeOK'
  BY <1>1, ManagerAssumption DEF Detach, TypeOK, States, ReqPhases, WsPhases
<1>3. Residency' /\ ServedByCurrent'
  BY NothingServing, ManagerAssumption DEF Detach, TypeOK, Residency, ServedByCurrent, OneReload
<1>4. OneReload'
  BY NothingServing DEF Detach, TypeOK, OneReload, Residency, ServedByCurrent
<1>5. ProfileInForce'
  BY ManagerAssumption DEF Detach, TypeOK, OneReload, Residency, ProfileInForce
<1>6. SessionsFollow'
  BY ManagerAssumption DEF Detach, TypeOK, OneReload, Residency, SessionsFollow, WsPhases
<1>7. QED
  BY <1>1, <1>2, <1>3, <1>4, <1>5, <1>6

(* The thread of a cancelled request comes back.                          *)
LEMMA ThreadEndsInv ==
  ASSUME IInv, NEW r \in Requests, ThreadEnds(r)
  PROVE  IInv'
<1> USE DEF IInv, Reloading, Resting, Ended, Return, backVars, profVars, reqVars, wsVars, adminVars
<1>1. InflightCountsServing'
  BY CountKept DEF ThreadEnds, TypeOK
<1>2. TypeOK'
  BY <1>1, ManagerAssumption DEF ThreadEnds, TypeOK, States, ReqPhases, WsPhases
<1>3. Residency' /\ ServedByCurrent'
  BY NothingServing, ManagerAssumption DEF ThreadEnds, TypeOK, Residency, ServedByCurrent, OneReload
<1>4. OneReload'
  BY NothingServing DEF ThreadEnds, TypeOK, OneReload, Residency, ServedByCurrent
<1>5. ProfileInForce'
  BY ManagerAssumption DEF ThreadEnds, TypeOK, OneReload, Residency, ProfileInForce
<1>6. SessionsFollow'
  BY ManagerAssumption DEF ThreadEnds, TypeOK, OneReload, Residency, SessionsFollow, WsPhases
<1>7. QED
  BY <1>1, <1>2, <1>3, <1>4, <1>5, <1>6

(* A session connects and registers if the manager is READY.              *)
LEMMA ConnectInv ==
  ASSUME IInv, NEW s \in Sessions, Connect(s)
  PROVE  IInv'
<1> USE DEF IInv, Reloading, Resting, Ended, Return, backVars, profVars, reqVars, wsVars, adminVars
<1>1. InflightCountsServing'
  BY CountKept DEF Connect, IsReady, TypeOK
<1>2. TypeOK'
  BY <1>1, ManagerAssumption DEF Connect, IsReady, TypeOK, States, ReqPhases, WsPhases
<1>3. Residency' /\ ServedByCurrent'
  BY NothingServing, ManagerAssumption DEF Connect, IsReady, TypeOK, Residency, ServedByCurrent, OneReload
<1>4. OneReload'
  BY NothingServing DEF Connect, IsReady, TypeOK, OneReload, Residency, ServedByCurrent
<1>5. ProfileInForce'
  BY ManagerAssumption DEF Connect, IsReady, TypeOK, OneReload, Residency, ProfileInForce
<1>6. SessionsFollow'
  BY ManagerAssumption DEF Connect, IsReady, TypeOK, OneReload, Residency, SessionsFollow, WsPhases
<1>7. QED
  BY <1>1, <1>2, <1>3, <1>4, <1>5, <1>6

(* A session hands an utterance to a worker.                              *)
LEMMA UtterInv ==
  ASSUME IInv, NEW s \in Sessions, Utter(s)
  PROVE  IInv'
<1> USE DEF IInv, Reloading, Resting, Ended, Return, backVars, profVars, reqVars, wsVars, adminVars
<1>1. InflightCountsServing'
  BY CountKept DEF Utter, TypeOK
<1>2. TypeOK'
  BY <1>1, ManagerAssumption DEF Utter, TypeOK, States, ReqPhases, WsPhases
<1>3. Residency' /\ ServedByCurrent'
  BY NothingServing, ManagerAssumption DEF Utter, TypeOK, Residency, ServedByCurrent, OneReload
<1>4. OneReload'
  BY NothingServing DEF Utter, TypeOK, OneReload, Residency, ServedByCurrent
<1>5. ProfileInForce'
  BY ManagerAssumption DEF Utter, TypeOK, OneReload, Residency, ProfileInForce
<1>6. SessionsFollow'
  BY ManagerAssumption DEF Utter, TypeOK, OneReload, Residency, SessionsFollow, WsPhases
<1>7. QED
  BY <1>1, <1>2, <1>3, <1>4, <1>5, <1>6

(* A worker leaves the backend.                                           *)
LEMMA WorkerReturnsInv ==
  ASSUME IInv, NEW s \in Sessions, WorkerReturns(s)
  PROVE  IInv'
<1> USE DEF IInv, Reloading, Resting, Ended, Return, backVars, profVars, reqVars, wsVars, adminVars
<1>1. InflightCountsServing'
  BY CountKept DEF WorkerReturns, TypeOK
<1>2. TypeOK'
  BY <1>1, ManagerAssumption DEF WorkerReturns, TypeOK, States, ReqPhases, WsPhases
<1>3. Residency' /\ ServedByCurrent'
  BY NothingServing, ManagerAssumption DEF WorkerReturns, TypeOK, Residency, ServedByCurrent, OneReload
<1>4. OneReload'
  BY NothingServing DEF WorkerReturns, TypeOK, OneReload, Residency, ServedByCurrent
<1>5. ProfileInForce'
  BY ManagerAssumption DEF WorkerReturns, TypeOK, OneReload, Residency, ProfileInForce
<1>6. SessionsFollow'
  BY ManagerAssumption DEF WorkerReturns, TypeOK, OneReload, Residency, SessionsFollow, WsPhases
<1>7. QED
  BY <1>1, <1>2, <1>3, <1>4, <1>5, <1>6

(* A session handler returns.                                             *)
LEMMA DisconnectInv ==
  ASSUME IInv, NEW s \in Sessions, Disconnect(s)
  PROVE  IInv'
<1> USE DEF IInv, Reloading, Resting, Ended, Return, backVars, profVars, reqVars, wsVars, adminVars
<1>1. InflightCountsServing'
  BY CountKept DEF Disconnect, TypeOK
<1>2. TypeOK'
  BY <1>1, ManagerAssumption DEF Disconnect, TypeOK, States, ReqPhases, WsPhases
<1>3. Residency' /\ ServedByCurrent'
  BY NothingServing, ManagerAssumption DEF Disconnect, TypeOK, Residency, ServedByCurrent, OneReload
<1>4. OneReload'
  BY NothingServing DEF Disconnect, TypeOK, OneReload, Residency, ServedByCurrent
<1>5. ProfileInForce'
  BY ManagerAssumption DEF Disconnect, TypeOK, OneReload, Residency, ProfileInForce
<1>6. SessionsFollow'
  BY ManagerAssumption DEF Disconnect, TypeOK, OneReload, Residency, SessionsFollow, WsPhases
<1>7. QED
  BY <1>1, <1>2, <1>3, <1>4, <1>5, <1>6

(* The worker of an abandoned session leaves the backend.                 *)
LEMMA AbandonedEndsInv ==
  ASSUME IInv, NEW s \in Sessions, AbandonedEnds(s)
  PROVE  IInv'
<1> USE DEF IInv, Reloading, Resting, Ended, Return, backVars, profVars, reqVars, wsVars, adminVars
<1>1. InflightCountsServing'
  BY CountKept DEF AbandonedEnds, TypeOK
<1>2. TypeOK'
  BY <1>1, ManagerAssumption DEF AbandonedEnds, TypeOK, States, ReqPhases, WsPhases
<1>3. Residency' /\ ServedByCurrent'
  BY NothingServing, ManagerAssumption DEF AbandonedEnds, TypeOK, Residency, ServedByCurrent, OneReload
<1>4. OneReload'
  BY NothingServing DEF AbandonedEnds, TypeOK, OneReload, Residency, ServedByCurrent
<1>5. ProfileInForce'
  BY ManagerAssumption DEF AbandonedEnds, TypeOK, OneReload, Residency, ProfileInForce
<1>6. SessionsFollow'
  BY ManagerAssumption DEF AbandonedEnds, TypeOK, OneReload, Residency, SessionsFollow, WsPhases
<1>7. QED
  BY <1>1, <1>2, <1>3, <1>4, <1>5, <1>6

(* A reload is refused.                                                   *)
LEMMA RefuseReloadInv ==
  ASSUME IInv, NEW a \in Admins, RefuseReload(a)
  PROVE  IInv'
<1> USE DEF IInv, Reloading, Resting, Ended, Return, backVars, profVars, reqVars, wsVars, adminVars
<1>1. InflightCountsServing'
  BY CountKept DEF RefuseReload, TypeOK
<1>2. TypeOK'
  BY <1>1, ManagerAssumption DEF RefuseReload, TypeOK, States, ReqPhases, WsPhases
<1>3. Residency' /\ ServedByCurrent'
  BY NothingServing, ManagerAssumption DEF RefuseReload, TypeOK, Residency, ServedByCurrent, OneReload
<1>4. OneReload'
  BY NothingServing DEF RefuseReload, TypeOK, OneReload, Residency, ServedByCurrent
<1>5. ProfileInForce'
  BY ManagerAssumption DEF RefuseReload, TypeOK, OneReload, Residency, ProfileInForce
<1>6. SessionsFollow'
  BY ManagerAssumption DEF RefuseReload, TypeOK, OneReload, Residency, SessionsFollow, WsPhases
<1>7. QED
  BY <1>1, <1>2, <1>3, <1>4, <1>5, <1>6

(* A reload closes the door.                                              *)
LEMMA BeginReloadInv ==
  ASSUME IInv, NEW a \in Admins, NEW t \in Profiles \cup {None}, BeginReload(a, t)
  PROVE  IInv'
<1> USE DEF IInv, Reloading, Resting, Ended, Return, backVars, profVars, reqVars, wsVars, adminVars
<1>1. InflightCountsServing'
  BY CountKept DEF BeginReload, Admissible, IsReady, Onward, TypeOK
<1>2. TypeOK'
  BY <1>1, ManagerAssumption DEF BeginReload, Admissible, IsReady, Onward, TypeOK, States, ReqPhases, WsPhases
<1>3. Residency' /\ ServedByCurrent'
  BY NothingServing, ManagerAssumption DEF BeginReload, Admissible, IsReady, Onward, TypeOK, Residency, ServedByCurrent, OneReload
<1>4. OneReload'
  BY NothingServing DEF BeginReload, Admissible, IsReady, Onward, TypeOK, OneReload, Residency, ServedByCurrent
<1>5. ProfileInForce'
  BY ManagerAssumption DEF BeginReload, Admissible, IsReady, Onward, TypeOK, OneReload, Residency, ProfileInForce
<1>6. SessionsFollow'
  BY ManagerAssumption DEF BeginReload, Admissible, IsReady, Onward, TypeOK, OneReload, Residency, SessionsFollow, WsPhases
<1>7. QED
  BY <1>1, <1>2, <1>3, <1>4, <1>5, <1>6

(* A reload closes a session.                                             *)
LEMMA CloseSessionInv ==
  ASSUME IInv, NEW a \in Admins, NEW s \in Sessions, CloseSession(a, s)
  PROVE  IInv'
<1> USE DEF IInv, Reloading, Resting, Ended, Return, backVars, profVars, reqVars, wsVars, adminVars
<1>1. InflightCountsServing'
  BY CountKept DEF CloseSession, Onward, TypeOK
<1>2. TypeOK'
  BY <1>1, ManagerAssumption DEF CloseSession, Onward, TypeOK, States, ReqPhases, WsPhases
<1>3. Residency' /\ ServedByCurrent'
  BY NothingServing, ManagerAssumption DEF CloseSession, Onward, TypeOK, Residency, ServedByCurrent, OneReload
<1>4. OneReload'
  BY NothingServing DEF CloseSession, Onward, TypeOK, OneReload, Residency, ServedByCurrent
<1>5. ProfileInForce'
  BY ManagerAssumption DEF CloseSession, Onward, TypeOK, OneReload, Residency, ProfileInForce
<1>6. SessionsFollow'
  BY ManagerAssumption DEF CloseSession, Onward, TypeOK, OneReload, Residency, SessionsFollow, WsPhases
<1>7. QED
  BY <1>1, <1>2, <1>3, <1>4, <1>5, <1>6

(* The last request has left.                                             *)
LEMMA DrainedInv ==
  ASSUME IInv, NEW a \in Admins, Drained(a)
  PROVE  IInv'
<1> USE DEF IInv, Reloading, Resting, Ended, Return, backVars, profVars, reqVars, wsVars, adminVars
<1>1. InflightCountsServing'
  BY CountKept DEF Drained, TypeOK
<1>2. TypeOK'
  BY <1>1, ManagerAssumption DEF Drained, TypeOK, States, ReqPhases, WsPhases
<1>3. Residency' /\ ServedByCurrent'
  BY NothingServing, ManagerAssumption DEF Drained, TypeOK, Residency, ServedByCurrent, OneReload
<1>4. OneReload'
  BY NothingServing DEF Drained, TypeOK, OneReload, Residency, ServedByCurrent
<1>5. ProfileInForce'
  BY ManagerAssumption DEF Drained, TypeOK, OneReload, Residency, ProfileInForce
<1>6. SessionsFollow'
  BY ManagerAssumption DEF Drained, TypeOK, OneReload, Residency, SessionsFollow, WsPhases
<1>7. QED
  BY <1>1, <1>2, <1>3, <1>4, <1>5, <1>6

(* The drain timed out and the door opens again.                          *)
LEMMA DrainTimeoutInv ==
  ASSUME IInv, NEW a \in Admins, DrainTimeout(a)
  PROVE  IInv'
<1> USE DEF IInv, Reloading, Resting, Ended, Return, backVars, profVars, reqVars, wsVars, adminVars
<1>1. InflightCountsServing'
  BY CountKept DEF DrainTimeout, TypeOK
<1>2. TypeOK'
  BY <1>1, ManagerAssumption DEF DrainTimeout, TypeOK, States, ReqPhases, WsPhases
<1>3. Residency' /\ ServedByCurrent'
  BY NothingServing, ManagerAssumption DEF DrainTimeout, TypeOK, Residency, ServedByCurrent, OneReload
<1>4. OneReload'
  BY NothingServing DEF DrainTimeout, TypeOK, OneReload, Residency, ServedByCurrent
<1>5. ProfileInForce'
  BY ManagerAssumption DEF DrainTimeout, TypeOK, OneReload, Residency, ProfileInForce
<1>6. SessionsFollow'
  BY ManagerAssumption DEF DrainTimeout, TypeOK, OneReload, Residency, SessionsFollow, WsPhases
<1>7. QED
  BY <1>1, <1>2, <1>3, <1>4, <1>5, <1>6

(* The request that asked for the reload is cancelled.                     *)
LEMMA CancelReloadInv ==
  ASSUME IInv, NEW a \in Admins, CancelReload(a)
  PROVE  IInv'
<1> USE DEF IInv, Reloading, Resting, Ended, Return, backVars, profVars, reqVars, wsVars, adminVars
<1>1. InflightCountsServing'
  BY CountKept DEF CancelReload, TypeOK
<1>2. TypeOK'
  BY <1>1, ManagerAssumption DEF CancelReload, TypeOK, States, ReqPhases, WsPhases
<1>3. Residency' /\ ServedByCurrent'
  BY NothingServing, ManagerAssumption DEF CancelReload, TypeOK, Residency, ServedByCurrent, OneReload
<1>4. OneReload'
  BY NothingServing DEF CancelReload, TypeOK, OneReload, Residency, ServedByCurrent
<1>5. ProfileInForce'
  BY ManagerAssumption DEF CancelReload, TypeOK, OneReload, Residency, ProfileInForce
<1>6. SessionsFollow'
  BY ManagerAssumption DEF CancelReload, TypeOK, OneReload, Residency, SessionsFollow, WsPhases
<1>7. QED
  BY <1>1, <1>2, <1>3, <1>4, <1>5, <1>6

(* The new backend is installed.                                          *)
LEMMA SwapSucceedsInv ==
  ASSUME IInv, NEW a \in Admins, SwapSucceeds(a)
  PROVE  IInv'
<1> USE DEF IInv, Reloading, Resting, Ended, Return, backVars, profVars, reqVars, wsVars, adminVars
<1>1. InflightCountsServing'
  BY CountKept DEF SwapSucceeds, Replace, Fresh, TypeOK
<1>0. /\ current # None /\ env \in [from : Profiles, strays : SUBSET Profiles]
      /\ mstate = "draining" /\ oldRef[a] \in Profiles /\ Deployable \subseteq Profiles
  BY ManagerAssumption DEF SwapSucceeds, TypeOK, OneReload, Residency, ProfileInForce
<1>2. TypeOK'
  <2>1. loaded' \subseteq Instances /\ current' \in Instances \cup {None}
    BY DEF SwapSucceeds, Replace, Fresh, TypeOK
  <2>2. env' \in [from : Profiles \cup {Torn}, strays : SUBSET Profiles] /\ named' \in Profiles
    BY <1>0, ManagerAssumption DEF SwapSucceeds, Applied, Environments, TypeOK
  <2>3. builtFrom' \in [from : Profiles, strays : SUBSET Profiles] \cup {None} /\ lastRef' \in Profiles \cup {None}
    BY <1>0, ManagerAssumption DEF SwapSucceeds, Applied, Environments, TypeOK
  <2>4. mstate' \in States /\ admin' \in [Admins -> Ended \cup Reloading]
    BY DEF SwapSucceeds, TypeOK, States
  <2>5. QED
    BY <2>1, <2>2, <2>3, <2>4 DEF SwapSucceeds, TypeOK
<1>3. Residency' /\ ServedByCurrent'
  BY NothingServing, ManagerAssumption DEF SwapSucceeds, Replace, Fresh, TypeOK, Residency, ServedByCurrent, OneReload
<1>4. OneReload'
  BY NothingServing DEF SwapSucceeds, Replace, Fresh, TypeOK, OneReload, Residency, ServedByCurrent
<1>5. ProfileInForce'
  BY <1>0, ManagerAssumption DEF SwapSucceeds, Applied, Environments, Replace, Fresh, TypeOK, OneReload, Residency, ProfileInForce
<1>6. SessionsFollow'
  BY ManagerAssumption DEF SwapSucceeds, Replace, Fresh, TypeOK, OneReload, Residency, SessionsFollow, WsPhases
<1>7. QED
  BY <1>1, <1>2, <1>3, <1>4, <1>5, <1>6

(* The old profile is installed again.                                    *)
LEMMA SwapRollsBackInv ==
  ASSUME IInv, NEW a \in Admins, SwapRollsBack(a)
  PROVE  IInv'
<1> USE DEF IInv, Reloading, Resting, Ended, Return, backVars, profVars, reqVars, wsVars, adminVars
<1>1. InflightCountsServing'
  BY CountKept DEF SwapRollsBack, Replace, Fresh, TypeOK
<1>0. /\ current # None /\ env \in [from : Profiles, strays : SUBSET Profiles]
      /\ mstate = "draining" /\ oldRef[a] \in Profiles /\ Deployable \subseteq Profiles
  BY ManagerAssumption DEF SwapRollsBack, TypeOK, OneReload, Residency, ProfileInForce
<1>2. TypeOK'
  <2>1. loaded' \subseteq Instances /\ current' \in Instances \cup {None}
    BY DEF SwapRollsBack, Replace, Fresh, TypeOK
  <2>2. env' \in [from : Profiles \cup {Torn}, strays : SUBSET Profiles] /\ named' \in Profiles
    BY <1>0, ManagerAssumption DEF SwapRollsBack, Applied, Environments, TypeOK
  <2>3. builtFrom' \in [from : Profiles, strays : SUBSET Profiles] \cup {None} /\ lastRef' \in Profiles \cup {None}
    BY <1>0, ManagerAssumption DEF SwapRollsBack, Applied, Environments, TypeOK
  <2>4. mstate' \in States /\ admin' \in [Admins -> Ended \cup Reloading]
    BY DEF SwapRollsBack, TypeOK, States
  <2>5. QED
    BY <2>1, <2>2, <2>3, <2>4 DEF SwapRollsBack, TypeOK
<1>3. Residency' /\ ServedByCurrent'
  BY NothingServing, ManagerAssumption DEF SwapRollsBack, Replace, Fresh, TypeOK, Residency, ServedByCurrent, OneReload
<1>4. OneReload'
  BY NothingServing DEF SwapRollsBack, Replace, Fresh, TypeOK, OneReload, Residency, ServedByCurrent
<1>5. ProfileInForce'
  BY <1>0, ManagerAssumption DEF SwapRollsBack, Applied, Environments, Replace, Fresh, TypeOK, OneReload, Residency, ProfileInForce
<1>6. SessionsFollow'
  BY ManagerAssumption DEF SwapRollsBack, Replace, Fresh, TypeOK, OneReload, Residency, SessionsFollow, WsPhases
<1>7. QED
  BY <1>1, <1>2, <1>3, <1>4, <1>5, <1>6

(* The rollback failed too.                                               *)
LEMMA SwapFailsInv ==
  ASSUME IInv, NEW a \in Admins, SwapFails(a)
  PROVE  IInv'
<1> USE DEF IInv, Reloading, Resting, Ended, Return, backVars, profVars, reqVars, wsVars, adminVars
<1>1. InflightCountsServing'
  BY CountKept DEF SwapFails, Fresh, TypeOK
<1>0. /\ current # None /\ env \in [from : Profiles, strays : SUBSET Profiles]
      /\ mstate = "draining" /\ oldRef[a] \in Profiles /\ Deployable \subseteq Profiles
  BY ManagerAssumption DEF SwapFails, TypeOK, OneReload, Residency, ProfileInForce
<1>2. TypeOK'
  <2>1. loaded' \subseteq Instances /\ current' \in Instances \cup {None}
    BY DEF SwapFails, Fresh, TypeOK
  <2>2. env' \in [from : Profiles \cup {Torn}, strays : SUBSET Profiles] /\ named' \in Profiles
    BY <1>0, ManagerAssumption DEF SwapFails, Environments, TypeOK
  <2>3. builtFrom' \in [from : Profiles, strays : SUBSET Profiles] \cup {None} /\ lastRef' \in Profiles \cup {None}
    BY <1>0, ManagerAssumption DEF SwapFails, Environments, TypeOK
  <2>4. mstate' \in States /\ admin' \in [Admins -> Ended \cup Reloading]
    BY DEF SwapFails, TypeOK, States
  <2>5. QED
    BY <2>1, <2>2, <2>3, <2>4 DEF SwapFails, TypeOK
<1>3. Residency' /\ ServedByCurrent'
  BY NothingServing, ManagerAssumption DEF SwapFails, Fresh, TypeOK, Residency, ServedByCurrent, OneReload
<1>4. OneReload'
  BY NothingServing DEF SwapFails, Fresh, TypeOK, OneReload, Residency, ServedByCurrent
<1>5. ProfileInForce'
  BY <1>0, ManagerAssumption DEF SwapFails, Environments, Fresh, TypeOK, OneReload, Residency, ProfileInForce
<1>6. SessionsFollow'
  BY ManagerAssumption DEF SwapFails, Fresh, TypeOK, OneReload, Residency, SessionsFollow, WsPhases
<1>7. QED
  BY <1>1, <1>2, <1>3, <1>4, <1>5, <1>6

(* The other manager loads a profile.                                     *)
LEMMA OtherKindInv ==
  ASSUME IInv, NEW t \in Deployable, OtherKindReload(t)
  PROVE  IInv'
<1> USE DEF IInv, Reloading, Resting, Ended, Return, backVars, profVars, reqVars, wsVars, adminVars
<1>1. InflightCountsServing'
  BY CountKept DEF OtherKindReload, TypeOK
<1>2. TypeOK'
  BY <1>1, ManagerAssumption DEF OtherKindReload, TypeOK, States, ReqPhases, WsPhases
<1>3. Residency' /\ ServedByCurrent'
  BY NothingServing, ManagerAssumption DEF OtherKindReload, TypeOK, Residency, ServedByCurrent, OneReload
<1>4. OneReload'
  BY NothingServing DEF OtherKindReload, TypeOK, OneReload, Residency, ServedByCurrent
<1>5. ProfileInForce'
  BY ManagerAssumption DEF OtherKindReload, TypeOK, OneReload, Residency, ProfileInForce
<1>6. SessionsFollow'
  BY ManagerAssumption DEF OtherKindReload, TypeOK, OneReload, Residency, SessionsFollow, WsPhases
<1>7. QED
  BY <1>1, <1>2, <1>3, <1>4, <1>5, <1>6

-----------------------------------------------------------------------------
LEMMA StepInv == IInv /\ [Next]_vars => IInv'
<1> SUFFICES ASSUME IInv, [Next]_vars PROVE IInv'
  OBVIOUS
<1>1. CASE UNCHANGED vars
  BY <1>1, CountKept DEF IInv, vars, TypeOK, Residency, ServedByCurrent, OneReload,
     ProfileInForce, SessionsFollow
<1>2. CASE OtherStep
  BY <1>2, StartInv, AcquireInv, LeaveInv, DetachInv, ThreadEndsInv, ConnectInv, UtterInv,
     WorkerReturnsInv, DisconnectInv, AbandonedEndsInv, RefuseReloadInv, BeginReloadInv,
     CancelReloadInv,
     OtherKindInv DEF OtherStep
<1>3. CASE \E a \in Admins : ReloadStep(a)
  BY <1>3, CloseSessionInv, DrainedInv, DrainTimeoutInv, SwapSucceedsInv, SwapRollsBackInv,
     SwapFailsInv DEF ReloadStep, Swap
<1>4. QED
  BY <1>1, <1>2, <1>3 DEF Next

(* In every reachable state of the manager the invariant holds.            *)
THEOREM ManagerInvariant == Spec => []IInv
BY InitInv, StepInv, PTL DEF Spec

(* Types.                                                                  *)
THEOREM TypeCorrect == Spec => []TypeOK
<1>1. IInv => TypeOK
  BY DEF IInv
<1>2. QED
  BY <1>1, ManagerInvariant, PTL

(* _inflight_http is exactly the number of requests inside acquire().      *)
THEOREM InflightIsExact == Spec => []InflightCountsServing
<1>1. IInv => InflightCountsServing
  BY DEF IInv
<1>2. QED
  BY <1>1, ManagerInvariant, PTL

(* No reload, whatever its outcome, unloads a backend that a request       *)
(* inside acquire() was given.                                             *)
THEOREM NoUnloadUnderRequests == Spec => []ServedBackendIsLoaded
<1>1. IInv => ServedBackendIsLoaded
  BY DEF IInv, Residency, ServedByCurrent, Serving, ServedBackendIsLoaded
<1>2. QED
  BY <1>1, ManagerInvariant, PTL

(* READY stands for a loaded backend built from the env as it stands, with *)
(* the last successful reload's profile on record in it.                   *)
THEOREM ReadyIsSound == Spec => []ReadyBackendIsSound
<1>1. IInv => ReadyBackendIsSound
  BY ManagerAssumption DEF IInv, Residency, ProfileInForce, ReadyBackendIsSound
<1>2. QED
  BY <1>1, ManagerInvariant, PTL

(* At most one backend object is resident at any time.                     *)
THEOREM SingleResidency == Spec => []OneBackendResident
<1>1. IInv => OneBackendResident
  <2> SUFFICES ASSUME IInv PROVE OneBackendResident
    OBVIOUS
  <2>1. CASE loaded = {}
    BY <2>1, FS_EmptySet DEF OneBackendResident
  <2>2. CASE \E b \in Instances : loaded = {b}
    <3>1. PICK b \in Instances : loaded = {b}
      BY <2>2
    <3>2. Cardinality({b}) = 1
      BY FS_Singleton
    <3>3. QED
      BY <3>1, <3>2 DEF OneBackendResident
  <2>3. QED
    BY <2>1, <2>2 DEF IInv, Residency
<1>2. QED
  BY <1>1, ManagerInvariant, PTL

(* No registered session outlives a swap on the old backend.               *)
THEOREM SessionsAreCurrent == Spec => []RegisteredSessionsAreCurrent
<1>1. IInv => RegisteredSessionsAreCurrent
  BY DEF IInv, Residency, SessionsFollow, RegisteredSessionsAreCurrent
<1>2. QED
  BY <1>1, ManagerInvariant, PTL

-----------------------------------------------------------------------------
(* A manager seeded at startup rolls back to the profile in force, whatever *)
(* the other manager loads meanwhile, and what its two apply_profile calls  *)
(* leave off the record is of that profile or of the one that failed.       *)
THEOREM RollbackIsFaithful == ASSUME Seeded PROVE Spec => RollbackReappliesProfile
<1> DEFINE Back(a) == admin[a] \in Reloading /\ admin'[a] = "rolled_back"
           Faithful == \A a \in Admins : Back(a) =>
               /\ env'.from = env.from
               /\ env'.strays \subseteq env.strays \cup {target[a], env.from}
<1>1. ASSUME IInv, Next PROVE Faithful
  <2>0. admin \in [Admins -> Ended \cup Reloading]
    BY <1>1 DEF IInv, TypeOK
  <2>1. CASE OtherStep
    <3>1. ASSUME NEW a \in Admins, CancelReload(a) PROVE Faithful
      BY <2>0, <3>1 DEF CancelReload, Return, Reloading
    <3>2. ASSUME NEW a \in Admins, RefuseReload(a) PROVE Faithful
      BY <2>0, <3>2 DEF RefuseReload, Reloading
    <3>3. ASSUME NEW a \in Admins, NEW t \in Profiles \cup {None}, BeginReload(a, t) PROVE Faithful
      BY <2>0, <3>3 DEF BeginReload, Onward, Reloading
    <3>4. ASSUME UNCHANGED admin PROVE Faithful
      BY <3>4 DEF Reloading
    <3>5. QED
      BY <2>1, <3>1, <3>2, <3>3, <3>4 DEF OtherStep, Start, Acquire, Leave, Detach, ThreadEnds, Connect,
         Utter, WorkerReturns, Disconnect, AbandonedEnds, OtherKindReload, adminVars
  <2>2. ASSUME NEW a \in Admins, ReloadStep(a) PROVE Faithful
    <3>1. CASE SwapRollsBack(a)
      <4>1. current # None /\ admin[a] \in Reloading
        BY <1>1, <3>1 DEF SwapRollsBack, IInv, Residency, OneReload, Reloading
      <4>2. lastRef # None
        BY <1>1, <4>1 DEF IInv, ProfileInForce
      <4>3. oldRef[a] = env.from
        BY <1>1, <4>1, <4>2 DEF IInv, ProfileInForce
      <4>4. /\ env'.from = env.from
            /\ env'.strays \subseteq env.strays \cup {target[a], env.from}
        BY <3>1, <4>3 DEF SwapRollsBack, Applied, Environments
      <4>5. \A b \in Admins : Back(b) => b = a
        BY <2>0, <3>1 DEF SwapRollsBack, Return, Reloading
      <4>6. QED
        BY <4>4, <4>5
    <3>2. CASE ~SwapRollsBack(a)
      <4>1. \A b \in Admins : admin[b] \in Reloading => admin'[b] # "rolled_back"
        <5>2. CASE \E s \in Sessions : CloseSession(a, s)
          <6>1. PICK s \in Sessions : CloseSession(a, s)
            BY <5>2
          <6>2. admin' = [admin EXCEPT ![a] = Onward(toClose')]
            BY <6>1 DEF CloseSession
          <6>3. Onward(toClose') # "rolled_back"
            BY DEF Onward
          <6>4. QED
            BY <2>0, <6>2, <6>3 DEF Reloading
        <5>3. CASE Drained(a) \/ DrainTimeout(a) \/ SwapSucceeds(a) \/ SwapFails(a)
          BY <2>0, <5>3 DEF Drained, DrainTimeout, SwapSucceeds, SwapFails, Return, Reloading
        <5>4. QED
          BY <2>2, <3>2, <5>2, <5>3 DEF ReloadStep, Swap
      <4>2. QED
        BY <4>1
    <3>3. QED
      BY <3>1, <3>2
  <2>3. QED
    BY <1>1, <2>1, <2>2 DEF Next
<1>2. IInv /\ [Next]_vars => [Faithful]_vars
  BY <1>1
<1>3. QED
  BY <1>2, ManagerInvariant, PTL DEF Spec, RollbackReappliesProfile

-----------------------------------------------------------------------------
(* The door of the abstract hot swap is closed and nobody uses the backend *)
(* when a reload replaces it.                                              *)
LEMMA NobodyHolds ==
  ASSUME IInv, NEW a \in Admins, admin[a] \in {"drained", "running"}
  PROVE  mstate = "draining" /\ HS!Unused /\ \A r \in Requests : req[r] # "serving"
<1>1. \A r \in Requests : req[r] # "serving"
  BY NothingServing DEF IInv, OneReload
<1>2. mstate = "draining"
  BY DEF IInv, OneReload, Reloading
<1>3. QED
  BY <1>1, <1>2 DEF HS!Unused

(* A step of the manager opens, closes, installs, retires, begins or ends, *)
(* or changes nothing the abstract hot swap sees.                          *)
LEMMA StepRefines == ASSUME IInv, Next PROVE [HS!Next]_HS!vars
<1> USE DEF IInv, backVars, profVars, reqVars, wsVars, adminVars
<1> DEFINE Users == [r \in Requests |-> IF req[r] = "serving" THEN reqOn[r] ELSE None]
<1>1. CASE Start
  <2>1. HS!Unused /\ mstate = "init" /\ current = None
    BY <1>1 DEF Start, HS!Unused, ServedByCurrent, Residency
  <2>2. Users' = Users
    BY <1>1 DEF Start
  <2>3. CASE mstate' = "ready"
    <3>1. PICK b \in Instances : current' = b
      BY <1>1, <2>3 DEF Start, Fresh
    <3>2. HS!Install(b)
      BY <2>1, <2>2, <2>3, <3>1 DEF HS!Install
    <3>3. QED
      BY <3>2 DEF HS!Next
  <2>4. CASE mstate' # "ready"
    BY <1>1, <2>1, <2>2, <2>4 DEF Start, HS!vars
  <2>5. QED
    BY <2>3, <2>4
<1>2. ASSUME NEW r \in Requests, Acquire(r) PROVE [HS!Next]_HS!vars
  <2>1. Users' = [Users EXCEPT ![r] = current]
    BY <1>2 DEF Acquire, TypeOK
  <2>2. HS!Begin(r)
    BY <1>2, <2>1 DEF Acquire, IsReady, HS!Begin
  <2>3. QED
    BY <2>2 DEF HS!Next
<1>3. ASSUME NEW r \in Requests, Leave(r) \/ Detach(r) PROVE [HS!Next]_HS!vars
  <2>1. Users' = [Users EXCEPT ![r] = None]
    BY <1>3 DEF Leave, Detach, TypeOK
  <2>2. HS!End(r)
    BY <1>3, <2>1 DEF Leave, Detach, HS!End
  <2>3. QED
    BY <2>2 DEF HS!Next
<1>4. ASSUME NEW r \in Requests, ThreadEnds(r) PROVE [HS!Next]_HS!vars
  <2>1. Users' = Users
    BY <1>4 DEF ThreadEnds, TypeOK
  <2>2. QED
    BY <1>4, <2>1 DEF ThreadEnds, HS!vars
<1>5. ASSUME NEW s \in Sessions,
             Connect(s) \/ Utter(s) \/ WorkerReturns(s) \/ Disconnect(s) \/ AbandonedEnds(s)
      PROVE  [HS!Next]_HS!vars
  BY <1>5 DEF Connect, Utter, WorkerReturns, Disconnect, AbandonedEnds, HS!vars
<1>6. ASSUME NEW a \in Admins, RefuseReload(a) PROVE [HS!Next]_HS!vars
  BY <1>6 DEF RefuseReload, HS!vars
<1>7. ASSUME NEW a \in Admins, NEW t \in Profiles \cup {None}, BeginReload(a, t)
      PROVE  [HS!Next]_HS!vars
  <2>1. HS!Close
    BY <1>7 DEF BeginReload, Admissible, IsReady, HS!Close
  <2>2. QED
    BY <2>1 DEF HS!Next
<1>15. ASSUME NEW a \in Admins, CancelReload(a) PROVE [HS!Next]_HS!vars
  BY <1>15 DEF CancelReload, HS!vars
<1>8. ASSUME NEW t \in Deployable, OtherKindReload(t) PROVE [HS!Next]_HS!vars
  BY <1>8 DEF OtherKindReload, HS!vars
<1>9. ASSUME NEW a \in Admins, NEW s \in Sessions, CloseSession(a, s) PROVE [HS!Next]_HS!vars
  BY <1>9 DEF CloseSession, HS!vars
<1>10. ASSUME NEW a \in Admins, Drained(a) PROVE [HS!Next]_HS!vars
  BY <1>10 DEF Drained, HS!vars
<1>11. ASSUME NEW a \in Admins, DrainTimeout(a) PROVE [HS!Next]_HS!vars
  <2>1. mstate = "draining" /\ current # None
    BY <1>11 DEF DrainTimeout, OneReload, Residency, Reloading
  <2>2. HS!Reopen
    BY <1>11, <2>1 DEF DrainTimeout, HS!Reopen
  <2>3. QED
    BY <2>2 DEF HS!Next
<1>12. ASSUME NEW a \in Admins, SwapSucceeds(a) \/ SwapRollsBack(a) PROVE [HS!Next]_HS!vars
  <2>1. mstate = "draining" /\ HS!Unused
    BY <1>12, NobodyHolds DEF SwapSucceeds, SwapRollsBack
  <2>2. PICK b \in Instances : current' = b
    BY <1>12 DEF SwapSucceeds, SwapRollsBack, Replace, Fresh
  <2>3. HS!Install(b)
    BY <1>12, <2>1, <2>2 DEF SwapSucceeds, SwapRollsBack, HS!Install
  <2>4. QED
    BY <2>3 DEF HS!Next
<1>13. ASSUME NEW a \in Admins, SwapFails(a) PROVE [HS!Next]_HS!vars
  <2>1. mstate = "draining" /\ HS!Unused
    BY <1>13, NobodyHolds DEF SwapFails
  <2>2. HS!Retire
    BY <1>13, <2>1 DEF SwapFails, HS!Retire
  <2>3. QED
    BY <2>2 DEF HS!Next
<1>14. QED
  BY <1>1, <1>2, <1>3, <1>4, <1>5, <1>6, <1>7, <1>8, <1>9, <1>10, <1>11, <1>12, <1>13, <1>15
     DEF Next, OtherStep, ReloadStep, Swap

(* The manager implements the abstract hot swap.                           *)
THEOREM RefinesHotSwap == Spec => ImplementsHotSwap
<1>1. Init => HS!Init
  BY DEF Init, HS!Init
<1>2. IInv /\ [Next]_vars => [HS!Next]_HS!vars
  <2>1. ASSUME IInv, UNCHANGED vars PROVE UNCHANGED HS!vars
    BY <2>1 DEF vars, HS!vars
  <2>2. QED
    BY <2>1, StepRefines
<1>3. QED
  BY <1>1, <1>2, ManagerInvariant, PTL DEF Spec, ImplementsHotSwap, HS!Spec

(* The books of the manager, for any number of requests, sessions, admins  *)
(* and profiles: the conjunction the runs check as ManagerIsSound.         *)
THEOREM ManagerSound == Spec => []ManagerIsSound
<1>1. TypeOK /\ InflightCountsServing /\ OneBackendResident /\ RegisteredSessionsAreCurrent
        => ManagerIsSound
  BY DEF ManagerIsSound
<1>2. QED
  BY <1>1, TypeCorrect, InflightIsExact, SingleResidency, SessionsAreCurrent, PTL
=============================================================================
