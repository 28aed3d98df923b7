--------------------------- MODULE BackendManager ---------------------------
(***************************************************************************)
(* server/core/backend_manager.py: one BackendManager (asr or tts), with   *)
(* the HTTP requests that go through acquire(), the WebSocket sessions     *)
(* that register with it, and the executor threads both of them start.     *)
(*                                                                         *)
(* Everything runs on one event loop.  _state_lock is never held across an *)
(* await, so each of its sections is part of the step around it.  reload() *)
(* yields in two places only, the ws.close() calls and the wait for the    *)
(* drain; unload, apply_profile, factory and preload are synchronous and   *)
(* form one step with the state changes around them (RELOADING exists only *)
(* inside that step).  What does overlap a step is an executor thread.     *)
(*                                                                         *)
(* The environment is seen as one value: the profile whose keys are on     *)
(* record in it, and the strays, the profiles of which it may hold keys    *)
(* that no record names.  ProfileEnv has it key by key.                    *)
(***************************************************************************)
EXTENDS Integers, FiniteSets

CONSTANTS Requests,       (* HTTP requests                                 *)
          Sessions,       (* WebSocket connections                         *)
          Admins,         (* concurrent callers of reload()                *)
          Profiles,       (* profile references                            *)
          Instances,      (* backend objects, reused once nobody holds one *)
          HotReloadable,  (* profiles whose backend supports_hot_reload    *)
          Deployable,     (* profiles that parse and miss no artifact      *)
          StartProfile,   (* the profile applied at startup                *)
          Seeded,         (* startup found it in OVS_PROFILE*, not by a    *)
                          (* LANGUAGE_MODE / OVS_PRESET heuristic          *)
          None, Torn      (* no value; an env left half written            *)

ASSUME ManagerAssumption ==
    /\ IsFiniteSet(Requests)
    /\ HotReloadable \subseteq Profiles
    /\ Deployable \subseteq Profiles
    /\ StartProfile \in Profiles
    /\ Seeded \in BOOLEAN
    /\ None \notin Instances \cup Profiles
    /\ Torn \notin Profiles \cup {None}

VARIABLES mstate,    (* _state                                             *)
          current,   (* _current                                           *)
          loaded,    (* backend objects built and not unloaded             *)
          builtFrom, (* the env _current read when it was built            *)
          env,       (* this kind's part of the process env                *)
          named,     (* profile_loader._CURRENT_PROFILE, shared by both    *)
                     (* managers                                           *)
          lastRef,   (* _last_profile_ref                                  *)
          inflight,  (* _inflight_http                                     *)
          req, reqOn,   (* phase of a request and the backend it holds     *)
          ws, wsOn,     (* phase of a session and the backend it captured  *)
          handles,   (* _ws_handles: the registered sessions               *)
          admin, target, (* phase of a reload() and its profile_ref        *)
          oldRef,    (* old_profile_ref, taken before the drain            *)
          toClose    (* sessions _force_close_ws_sessions has yet to reach *)

reqVars == <<inflight, req, reqOn>>
wsVars == <<ws, wsOn, handles>>
profVars == <<env, named, lastRef>>
backVars == <<current, loaded, builtFrom>>
adminVars == <<admin, target, oldRef, toClose>>
vars == <<mstate, current, loaded, builtFrom, env, named, lastRef, inflight,
          req, reqOn, ws, wsOn, handles, admin, target, oldRef, toClose>>

States == {"init", "ready", "draining", "failed"}

(* idle, serving; detached: the awaiting request was cancelled and has left*)
(* acquire(), its run_in_executor thread has not come back.                *)
ReqPhases == {"idle", "serving", "detached"}

(* idle; open: between utterances; busy: a worker thread is in the backend;*)
(* closing: cancelled, no worker; drains: cancelled, _AsrSlotJobs.drain    *)
(* awaits the worker; abandoned: cancelled again, the handler has returned *)
(* and the worker is still in the backend.                                 *)
WsPhases == {"idle", "open", "busy", "closing", "drains", "abandoned"}

Resting == {"idle", "refused", "timed_out", "reloaded", "rolled_back", "failed"}
(* A caller whose reload() was cancelled at an await calls no more.        *)
Ended == Resting \cup {"cancelled"}
(* closing: awaiting a ws.close(); draining: awaiting the notification or  *)
(* the timer; drained: notified, not yet resumed; running: on the loop, and*)
(* nothing else is until the reload has finished.                          *)
Reloading == {"closing", "draining", "drained", "running"}

-----------------------------------------------------------------------------
Serving == {r \in Requests : req[r] = "serving"}

(* The backend objects an executor thread is inside of.                    *)
InUse == {reqOn[r] : r \in {q \in Requests : req[q] # "idle"}}
         \cup {wsOn[s] : s \in {t \in Sessions : ws[t] \in {"busy", "drains", "abandoned"}}}

(* A factory call builds a new object: the unloaders clear the module      *)
(* globals the factories cache their backend in.                           *)
Fresh == {b \in Instances : /\ b # current /\ b \notin loaded
                            /\ \A r \in Requests : reqOn[r] # b
                            /\ \A s \in Sessions : wsOn[s] # b}

IsReady == mstate = "ready" /\ current # None

Environments(p, strays) == {[from |-> p, strays |-> left] : left \in SUBSET strays}

(* What an apply_profile(p) that returns may leave in an env with these    *)
(* strays: the keys of p on record; of the strays, those that p did not    *)
(* overwrite; and p's own engine paths off the record when the resolver    *)
(* failed, which is only logged.                                           *)
Applied(p, strays) == Environments(p, strays \cup {p})

(* The full apply of startup; the engine paths that startup exports on top *)
(* of it are not recorded.                                                 *)
Init ==
    /\ mstate = "init"
    /\ current = None /\ loaded = {} /\ builtFrom = None
    /\ env \in Environments(StartProfile, {StartProfile}) /\ named = StartProfile
    /\ lastRef = None
    /\ inflight = 0
    /\ req = [r \in Requests |-> "idle"] /\ reqOn = [r \in Requests |-> None]
    /\ ws = [s \in Sessions |-> "idle"] /\ wsOn = [s \in Sessions |-> None]
    /\ handles = {}
    /\ admin = [a \in Admins |-> "idle"] /\ target = [a \in Admins |-> None]
    /\ oldRef = [a \in Admins |-> None]
    /\ toClose = {}

(* start(): build and preload; a backend whose preload raised stays built. *)
Start ==
    /\ mstate = "init"
    /\ \/ \E b \in Fresh :
             /\ mstate' = "ready" /\ current' = b /\ loaded' = {b}
             /\ builtFrom' = env
             /\ lastRef' = IF Seeded THEN StartProfile ELSE None
       \/ /\ mstate' = "failed"
          /\ loaded' \in {{}} \cup {{b} : b \in Fresh}
          /\ UNCHANGED <<current, builtFrom, lastRef>>
    /\ UNCHANGED <<env, named, reqVars, wsVars, adminVars>>

-----------------------------------------------------------------------------
(* HTTP requests: acquire() *)

(* Mistake: admission looks at _current only.                              *)
AcquireInAnyState(r) ==
    /\ req[r] = "idle"
    /\ current # None
    /\ req' = [req EXCEPT ![r] = "serving"]
    /\ reqOn' = [reqOn EXCEPT ![r] = current]
    /\ inflight' = inflight + 1
    /\ UNCHANGED <<mstate, backVars, profVars, wsVars, adminVars>>

Acquire(r) ==
    /\ req[r] = "idle"
    /\ IsReady
    /\ req' = [req EXCEPT ![r] = "serving"]
    /\ reqOn' = [reqOn EXCEPT ![r] = current]
    /\ inflight' = inflight + 1
    /\ UNCHANGED <<mstate, backVars, profVars, wsVars, adminVars>>

Leave(r) ==
    /\ req[r] = "serving"
    /\ req' = [req EXCEPT ![r] = "idle"]
    /\ reqOn' = [reqOn EXCEPT ![r] = None]
    /\ inflight' = inflight - 1
    /\ UNCHANGED <<mstate, backVars, profVars, wsVars, adminVars>>

(* The request is cancelled while it awaits run_in_executor: the context   *)
(* manager unwinds, the thread goes on.                                    *)
Detach(r) ==
    /\ req[r] = "serving"
    /\ req' = [req EXCEPT ![r] = "detached"]
    /\ inflight' = inflight - 1
    /\ UNCHANGED <<mstate, reqOn, backVars, profVars, wsVars, adminVars>>

ThreadEnds(r) ==
    /\ req[r] = "detached"
    /\ req' = [req EXCEPT ![r] = "idle"]
    /\ reqOn' = [reqOn EXCEPT ![r] = None]
    /\ UNCHANGED <<mstate, inflight, backVars, profVars, wsVars, adminVars>>

-----------------------------------------------------------------------------
(* WebSocket sessions *)

(* Mistake: the session registers with the manager in any state.           *)
ConnectRegistered(s) ==
    /\ ws[s] = "idle" /\ s \notin toClose /\ current # None
    /\ ws' = [ws EXCEPT ![s] = "open"]
    /\ wsOn' = [wsOn EXCEPT ![s] = current]
    /\ handles' = handles \cup {s}
    /\ UNCHANGED <<mstate, backVars, profVars, reqVars, adminVars>>

(* The handler registers only with a manager that is ready, and captures   *)
(* the backend of the module global, which is still there while draining.  *)
(* (The name of a session stands for a new connection once it is in use    *)
(* nowhere.)                                                               *)
Connect(s) ==
    /\ ws[s] = "idle" /\ s \notin toClose /\ current # None
    /\ ws' = [ws EXCEPT ![s] = "open"]
    /\ wsOn' = [wsOn EXCEPT ![s] = current]
    /\ handles' = IF IsReady THEN handles \cup {s} ELSE handles
    /\ UNCHANGED <<mstate, backVars, profVars, reqVars, adminVars>>

Utter(s) ==
    /\ ws[s] = "open"
    /\ ws' = [ws EXCEPT ![s] = "busy"]
    /\ UNCHANGED <<mstate, wsOn, handles, backVars, profVars, reqVars, adminVars>>

WorkerReturns(s) ==
    /\ \/ ws[s] = "busy" /\ ws' = [ws EXCEPT ![s] = "open"]
       \/ ws[s] = "drains" /\ ws' = [ws EXCEPT ![s] = "closing"]
    /\ UNCHANGED <<mstate, wsOn, handles, backVars, profVars, reqVars, adminVars>>

(* The handler's finally block.                                            *)
Disconnect(s) ==
    /\ ws[s] \in {"open", "closing"}
    /\ ws' = [ws EXCEPT ![s] = "idle"]
    /\ wsOn' = [wsOn EXCEPT ![s] = None]
    /\ handles' = handles \ {s}
    /\ UNCHANGED <<mstate, backVars, profVars, reqVars, adminVars>>

AbandonedEnds(s) ==
    /\ ws[s] = "abandoned"
    /\ ws' = [ws EXCEPT ![s] = "idle"]
    /\ wsOn' = [wsOn EXCEPT ![s] = None]
    /\ UNCHANGED <<mstate, handles, backVars, profVars, reqVars, adminVars>>

-----------------------------------------------------------------------------
(* reload() *)

Admissible(t) ==
    /\ \A a \in Admins : admin[a] \notin Reloading
    /\ IsReady
    /\ builtFrom.from \in HotReloadable
    /\ t \in Deployable \cup {None}

(* 409 or 400: nothing but the answer.                                     *)
RefuseReload(a) ==
    /\ admin[a] \in Resting
    /\ \E t \in Profiles \cup {None} : ~Admissible(t)
    /\ admin' = [admin EXCEPT ![a] = "refused"]
    /\ UNCHANGED <<mstate, target, oldRef, toClose, backVars, profVars, reqVars, wsVars>>

(* Where a reload stands once it has sessions `rest` to close: with none   *)
(* left _wait_for_http_drain returns at once when nothing is in flight.    *)
Onward(rest) == IF rest # {} THEN "closing" ELSE IF inflight > 0 THEN "draining" ELSE "running"

(* What a failure will re-apply is settled here: the reference of the last *)
(* successful reload, else the name of whatever the process loaded last.   *)
BeginReload(a, t) ==
    /\ admin[a] \in Resting
    /\ Admissible(t)
    /\ mstate' = "draining"
    /\ admin' = [admin EXCEPT ![a] = Onward(handles)]
    /\ target' = [target EXCEPT ![a] = t]
    /\ oldRef' = [oldRef EXCEPT ![a] = IF lastRef # None THEN lastRef ELSE named]
    /\ toClose' = handles
    /\ UNCHANGED <<backVars, profVars, reqVars, wsVars>>

(* ws.close(1012), then task.cancel(), which ends an idle session at once, *)
(* starts the drain of a busy one and cuts short a drain under way.        *)
CloseSession(a, s) ==
    /\ admin[a] = "closing" /\ s \in toClose
    /\ toClose' = toClose \ {s}
    /\ admin' = [admin EXCEPT ![a] = Onward(toClose')]
    /\ ws' = [ws EXCEPT ![s] = CASE @ = "open"   -> "closing"
                                 [] @ = "busy"   -> "drains"
                                 [] @ = "drains" -> "abandoned"
                                 [] OTHER        -> @]
    /\ handles' = IF ws[s] = "drains" THEN handles \ {s} ELSE handles
    /\ UNCHANGED <<mstate, target, oldRef, wsOn, backVars, profVars, reqVars>>

(* Mistake: a drain that timed out goes on to the swap.                    *)
DrainedOrNot(a) ==
    /\ admin[a] = "draining"
    /\ admin' = [admin EXCEPT ![a] = "drained"]
    /\ UNCHANGED <<mstate, target, oldRef, toClose, backVars, profVars, reqVars, wsVars>>

(* The last request to leave notifies the condition.                       *)
Drained(a) ==
    /\ admin[a] = "draining" /\ inflight = 0
    /\ admin' = [admin EXCEPT ![a] = "drained"]
    /\ UNCHANGED <<mstate, target, oldRef, toClose, backVars, profVars, reqVars, wsVars>>

(* reload() returns or raises; its locals are gone.                        *)
Return(a, outcome) ==
    /\ admin' = [admin EXCEPT ![a] = outcome]
    /\ target' = [target EXCEPT ![a] = None]
    /\ oldRef' = [oldRef EXCEPT ![a] = None]

(* Mistake: the refusal leaves the manager in DRAINING.                    *)
DrainTimeoutStuck(a) ==
    /\ admin[a] = "draining"
    /\ Return(a, "timed_out")
    /\ UNCHANGED <<mstate, toClose, backVars, profVars, reqVars, wsVars>>

(* wait_for gives up; the timer may beat a notification already sent.      *)
DrainTimeout(a) ==
    /\ admin[a] = "draining"
    /\ Return(a, "timed_out")
    /\ mstate' = "ready"
    /\ UNCHANGED <<toClose, backVars, profVars, reqVars, wsVars>>

(* The caller's request is cancelled while reload() awaits a ws.close() or  *)
(* the drain.  Nothing there puts _state back, and no reload is admitted    *)
(* after it.                                                               *)
CancelReload(a) ==
    /\ admin[a] \in {"closing", "draining", "drained"}
    /\ Return(a, "cancelled")
    /\ toClose' = {}
    /\ UNCHANGED <<mstate, backVars, profVars, reqVars, wsVars>>

(* The old backend is unloaded and a new one stays.                        *)
Replace == \E b \in Fresh : current' = b /\ loaded' = (loaded \ {current}) \cup {b}

SwapSucceeds(a) ==
    /\ admin[a] \in {"drained", "running"}
    /\ Replace
    /\ IF target[a] = None
       THEN UNCHANGED profVars
       ELSE /\ env' \in Applied(target[a], env.strays)
            /\ named' = target[a] /\ lastRef' = target[a]
    /\ builtFrom' = env'
    /\ mstate' = "ready"
    /\ Return(a, "reloaded")
    /\ UNCHANGED <<toClose, reqVars, wsVars>>

(* Mistake: the reference is recorded before the backend is built.         *)
RollBackToTarget(a) ==
    /\ admin[a] \in {"drained", "running"}
    /\ Replace
    /\ env' \in IF target[a] = None THEN {env} ELSE Applied(target[a], env.strays)
    /\ named' = env'.from /\ lastRef' = env'.from
    /\ builtFrom' = env'
    /\ mstate' = "ready"
    /\ Return(a, "rolled_back")
    /\ UNCHANGED <<toClose, reqVars, wsVars>>

(* Mistake: the failed new backend is not unloaded, so the factory hands   *)
(* out the cached object again.                                            *)
RollBackCached(a) ==
    /\ admin[a] \in {"drained", "running"}
    /\ Replace
    /\ env' = IF target[a] = None THEN env ELSE [env EXCEPT !.from = oldRef[a]]
    /\ named' = IF target[a] = None THEN named ELSE oldRef[a]
    /\ builtFrom' = IF target[a] = None THEN env ELSE [env EXCEPT !.from = target[a]]
    /\ mstate' = "ready"
    /\ Return(a, "rolled_back")
    /\ UNCHANGED <<lastRef, toClose, reqVars, wsVars>>

(* Mistake: as above, and the failed object keeps its memory.              *)
RollBackLeaky(a) ==
    /\ admin[a] \in {"drained", "running"}
    /\ \E b, c \in Fresh : b # c /\ current' = b
                           /\ loaded' = (loaded \ {current}) \cup {b, c}
    /\ env' = IF target[a] = None THEN env ELSE [env EXCEPT !.from = oldRef[a]]
    /\ named' = IF target[a] = None THEN named ELSE oldRef[a]
    /\ builtFrom' = env'
    /\ mstate' = "ready"
    /\ Return(a, "rolled_back")
    /\ UNCHANGED <<lastRef, toClose, reqVars, wsVars>>

(* The new backend is unloaded if it was built, the old reference applied  *)
(* again, and a second backend built from it.  An apply of the target that *)
(* raised half way recorded nothing, so what it wrote and the old profile  *)
(* does not write is still there; the same holds for the paths of a        *)
(* resolver that failed.                                                   *)
SwapRollsBack(a) ==
    /\ admin[a] \in {"drained", "running"}
    /\ Replace
    /\ IF target[a] = None
       THEN UNCHANGED <<env, named>>
       ELSE /\ env' \in Applied(oldRef[a], env.strays \cup {target[a]})
            /\ named' = oldRef[a]
    /\ builtFrom' = env'
    /\ mstate' = "ready"
    /\ Return(a, "rolled_back")
    /\ UNCHANGED <<lastRef, toClose, reqVars, wsVars>>

(* The rollback raises too: apply_profile(old), or the factory, or the     *)
(* preload, which leaves its backend built.  An apply_profile that raises  *)
(* leaves the env as it was or half written.                               *)
SwapFails(a) ==
    /\ admin[a] \in {"drained", "running"}
    /\ current' = None
    /\ loaded' \in {loaded \ {current}} \cup {(loaded \ {current}) \cup {b} : b \in Fresh}
    /\ \/ UNCHANGED <<env, named>>
       \/ /\ target[a] # None
          /\ \E left \in {<<Torn, named>>, <<Torn, target[a]>>, <<target[a], target[a]>>,
                          <<oldRef[a], oldRef[a]>>} :
                /\ env' \in Environments(left[1], env.strays \cup {target[a], oldRef[a]})
                /\ named' = left[2]
    /\ mstate' = "failed"
    /\ Return(a, "failed")
    /\ UNCHANGED <<builtFrom, lastRef, toClose, reqVars, wsVars>>

(* The other manager reloads: apply_profile replaces _CURRENT_PROFILE and, *)
(* being scoped to the other kind, none of this kind's env.                *)
OtherKindReload(t) ==
    /\ mstate # "init"
    /\ named' = t
    /\ UNCHANGED <<mstate, env, lastRef, backVars, reqVars, wsVars, adminVars>>

-----------------------------------------------------------------------------
Swap(a) == SwapSucceeds(a) \/ SwapRollsBack(a) \/ SwapFails(a)

ReloadStep(a) ==
    \/ \E s \in Sessions : CloseSession(a, s)
    \/ Drained(a) \/ DrainTimeout(a) \/ Swap(a)

LoopIsFree == \A a \in Admins : admin[a] # "running"

OtherStep ==
    \/ Start
    \/ \E r \in Requests : Acquire(r) \/ Leave(r) \/ Detach(r) \/ ThreadEnds(r)
    \/ \E s \in Sessions : \/ Connect(s) \/ Utter(s) \/ WorkerReturns(s)
                           \/ Disconnect(s) \/ AbandonedEnds(s)
    \/ \E a \in Admins : \/ RefuseReload(a)
                         \/ \E t \in Profiles \cup {None} : BeginReload(a, t)
                         \/ CancelReload(a)
    \/ \E t \in Deployable : OtherKindReload(t)

Next == (LoopIsFree /\ OtherStep) \/ \E a \in Admins : ReloadStep(a)

Spec == Init /\ [][Next]_vars

(* The loop runs a coroutine that can run and a timer that has expired.    *)
(* Nothing obliges a request, a session or a thread to end.                *)
Fairness == \A a \in Admins : WF_vars(ReloadStep(a))

FairSpec == Spec /\ Fairness

-----------------------------------------------------------------------------
(* Properties *)

(* Type invariant of the manager and of the parties around it.             *)
TypeOK ==
    /\ mstate \in States
    /\ current \in Instances \cup {None}
    /\ loaded \subseteq Instances
    /\ builtFrom \in [from : Profiles, strays : SUBSET Profiles] \cup {None}
    /\ env \in [from : Profiles \cup {Torn}, strays : SUBSET Profiles]
    /\ named \in Profiles
    /\ lastRef \in Profiles \cup {None}
    /\ inflight \in Nat
    /\ req \in [Requests -> ReqPhases] /\ reqOn \in [Requests -> Instances \cup {None}]
    /\ ws \in [Sessions -> WsPhases] /\ wsOn \in [Sessions -> Instances \cup {None}]
    /\ handles \subseteq Sessions /\ toClose \subseteq Sessions
    /\ admin \in [Admins -> Ended \cup Reloading]
    /\ target \in [Admins -> Deployable \cup {None}]
    /\ oldRef \in [Admins -> Profiles \cup {None}]

(* _inflight_http counts the requests inside acquire(), whichever way each *)
(* of them leaves it.                                                      *)
InflightCountsServing == inflight = Cardinality(Serving)

(* A request inside acquire() never sees its backend unloaded under it.    *)
ServedBackendIsLoaded == \A r \in Serving : reqOn[r] \in loaded

(* A manager that answers READY has a live backend, which was built from   *)
(* the environment as it now stands: no half-written one, and on record in *)
(* it is the profile of the last successful reload.  Beside the recorded   *)
(* keys there may be strays, and the backend has read them as well.        *)
ReadyBackendIsSound ==
    mstate = "ready" => /\ current \in loaded
                        /\ builtFrom = env /\ env.from # Torn
                        /\ lastRef # None => env.from = lastRef

(* Two backends are never resident at once: on the small boards that is an *)
(* out-of-memory kill.                                                     *)
OneBackendResident == Cardinality(loaded) <= 1

(* A registered session that reload() has not closed runs on the backend   *)
(* that is installed: a swap leaves no registered session behind on the    *)
(* old one.                                                                *)
RegisteredSessionsAreCurrent ==
    \A s \in handles \ toClose :
        ws[s] \in {"open", "busy"} => wsOn[s] = current /\ current \in loaded

(* A reload that reports "rolled_back" leaves on record the profile that   *)
(* was in force before it.  It need not leave the environment that was     *)
(* there before: keys of the profile that failed may stay behind, but of   *)
(* these two profiles only, never of a third.                              *)
RollbackReappliesProfile ==
    [][\A a \in Admins : admin[a] \in Reloading /\ admin'[a] = "rolled_back" =>
          /\ env'.from = env.from
          /\ env'.strays \subseteq env.strays \cup {target[a], env.from}]_vars

(* The window in which every request is answered 503 is finite, even when  *)
(* the request that is being waited for never ends: unless the reload is   *)
(* cancelled, which leaves the manager draining for good.                  *)
DrainingIsTransient ==
    mstate = "draining" ~> \/ mstate \in {"ready", "failed"}
                           \/ \E a \in Admins : admin[a] = "cancelled"

(* The docstring of reload(): "unloading a backend that is still serving   *)
(* an executor thread is unsafe".                                          *)
UnloadSparesExecutorThreads ==
    [][\A b \in InUse \cap loaded : b \in loaded']_vars

(* The manager serves HTTP as the abstract hot swap says.                  *)
HS == INSTANCE HotSwap WITH
        live <- current,
        open <- mstate = "ready",
        users <- [r \in Requests |-> IF req[r] = "serving" THEN reqOn[r] ELSE None]

ImplementsHotSwap == HS!Spec

(* The books of the manager: the in-flight count is exact, one backend at  *)
(* most is resident, and no registered session is left on an old one,      *)
(* after any number of reloads, time-outs and rollbacks.                   *)
ManagerIsSound ==
  /\ TypeOK
  /\ InflightCountsServing
  /\ OneBackendResident
  /\ RegisteredSessionsAreCurrent
=============================================================================
