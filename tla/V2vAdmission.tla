--------------------------- MODULE V2vAdmission ---------------------------
(***************************************************************************)
(* Admission to the session limiter (server/core/session_limiter.py) as    *)
(* the handler of /v2v/stream uses it (server/main.py), together with the  *)
(* other endpoints that draw on the same slots: reject instead of queue,   *)
(* and, for the single-client deployment, eviction of the session that     *)
(* holds the slot.                                                         *)
(*                                                                         *)
(* The code between two awaits is one step.  The name of a connection may  *)
(* stand for a new connection once the old one is nowhere on record.  A    *)
(* refusal on the spot (429, 4429) changes nothing and has no action.      *)
(***************************************************************************)
EXTENDS Integers, Sequences, FiniteSets

CONSTANTS Conns,           (* /v2v/stream connections                      *)
          RealtimeClients, (* those that may offer the Realtime v2 protocol*)
          Others,          (* HTTP requests and /asr, /tts sockets         *)
          Limit,           (* SessionLimiter limit                         *)
          EvictOnFull,     (* OVS_V2V_EVICT_ON_FULL is set                 *)
          PollSteps        (* bounded wait of an eviction, in polls        *)

ASSUME AdmissionAssumption ==
    /\ IsFiniteSet(Conns) /\ IsFiniteSet(Others) /\ Conns \cap Others = {}
    /\ RealtimeClients \subseteq Conns
    /\ Limit \in Nat \ {0} /\ PollSteps \in Nat \ {0}
    /\ EvictOnFull \in BOOLEAN

VARIABLES active,   (* _active                                             *)
          held,     (* whose SessionToken is not _released                 *)
          v2vHolders,  (* _V2V_HOLDERS                                        *)
          connAt,    (* where the handler of a connection stands            *)
          pending,  (* handlers with a CancelledError on its way           *)
          raising,  (* handlers whose finally block will re-raise it       *)
          lockq,    (* waiters of _v2v_evict_lock                          *)
          toEvict,  (* the snapshot of holders the evictor still has       *)
          polls     (* polls the evictor has made                          *)

admissionVars == <<active, held, v2vHolders, connAt, pending, raising, lockq, toEvict, polls>>
tokenVars == <<active, held>>
evictVars == <<lockq, toEvict, polls>>

(* greeting: admitted, sending session.created ahead of the outer try;     *)
(* setup: inside the outer try; running: inside the inner one; stopping,   *)
(* gathering: its finally awaits the dispatcher, then the work tasks;      *)
(* closing: its finally, after the release.                                *)
Waiting == {"lockwait", "evicting", "polling"}
Admitted == {"greeting", "setup", "running", "stopping", "gathering", "closing"}
Unwinding == {"stopping", "gathering", "closing"}
ConnPlaces == {"idle"} \cup Waiting \cup Admitted

EvictEnabled == EvictOnFull /\ Limit = 1

LockOwners == {c \in Conns : connAt[c] \in {"evicting", "polling"}}

AdmissionInit ==
    /\ active = 0 /\ held = {} /\ v2vHolders = {}
    /\ connAt = [c \in Conns |-> "idle"]
    /\ pending = {} /\ raising = {}
    /\ lockq = <<>> /\ toEvict = {} /\ polls = 0

-----------------------------------------------------------------------------
(* SessionLimiter *)

Take(x) ==
    /\ active < Limit
    /\ active' = active + 1
    /\ held' = held \cup {x}

(* Mistake: the _released flag of the token is not looked at.              *)
GiveAgain(x) ==
    /\ active' = IF active > 0 THEN active - 1 ELSE active
    /\ held' = held \ {x}

(* A token is released once, however often the handler asks for it.        *)
Give(x) ==
    /\ active' = IF x \in held /\ active > 0 THEN active - 1 ELSE active
    /\ held' = held \ {x}

OtherTakes(p) ==
    /\ p \notin held
    /\ Take(p)
    /\ UNCHANGED <<v2vHolders, connAt, pending, raising, evictVars>>

OtherGives(p) ==
    /\ p \in held
    /\ Give(p)
    /\ UNCHANGED <<v2vHolders, connAt, pending, raising, evictVars>>

-----------------------------------------------------------------------------
(* Admission of a /v2v connection *)

MoveTo(c, p) == connAt' = [connAt EXCEPT ![c] = p]

(* The slot is taken and the handler runs on to its next await.            *)
Admit(c) ==
    /\ Take(c)
    /\ v2vHolders' = v2vHolders \cup {c}
    /\ \/ MoveTo(c, "setup")
       \/ c \in RealtimeClients /\ MoveTo(c, "greeting")

(* First thing under the lock: the slot may be free by now; if it is not,  *)
(* and no /v2v session is on record, somebody else's request holds it.     *)
UnderLock(c) ==
    \/ /\ Admit(c)
       /\ UNCHANGED <<toEvict, polls>>
    \/ /\ active >= Limit /\ v2vHolders = {}
       /\ MoveTo(c, "idle")
       /\ UNCHANGED <<tokenVars, v2vHolders, toEvict, polls>>
    \/ /\ active >= Limit /\ v2vHolders # {}
       /\ MoveTo(c, "evicting")
       /\ toEvict' = v2vHolders /\ polls' = 0
       /\ UNCHANGED <<tokenVars, v2vHolders>>

Arrive(c) ==
    /\ connAt[c] = "idle" /\ c \notin held \cup v2vHolders
    /\ \/ /\ Admit(c)
          /\ UNCHANGED <<lockq, toEvict, polls>>
       \/ /\ active >= Limit /\ EvictEnabled
          /\ LockOwners = {} /\ lockq = <<>>
          /\ UnderLock(c)
          /\ UNCHANGED lockq
       \/ /\ active >= Limit /\ EvictEnabled
          /\ LockOwners # {} \/ lockq # <<>>
          /\ MoveTo(c, "lockwait")
          /\ lockq' = Append(lockq, c)
          /\ UNCHANGED <<tokenVars, v2vHolders, toEvict, polls>>
    /\ UNCHANGED <<pending, raising>>

GetLock(c) ==
    /\ lockq # <<>> /\ Head(lockq) = c
    /\ LockOwners = {}
    /\ lockq' = Tail(lockq)
    /\ UnderLock(c)
    /\ UNCHANGED <<pending, raising>>

(* ws.close(1012) of one holder has returned (or raised, which is ignored);*)
(* its task is cancelled if it still runs.                                 *)
EvictHolder(c, h) ==
    /\ connAt[c] = "evicting" /\ h \in toEvict
    /\ toEvict' = toEvict \ {h}
    /\ pending' = IF connAt[h] \in Admitted THEN pending \cup {h} ELSE pending
    /\ MoveTo(c, IF toEvict' = {} THEN "polling" ELSE "evicting")
    /\ UNCHANGED <<tokenVars, v2vHolders, raising, lockq, polls>>

Poll(c) ==
    /\ connAt[c] = "polling"
    /\ \/ /\ Admit(c)
          /\ UNCHANGED polls
       \/ /\ active >= Limit
          /\ polls' = polls + 1
          /\ MoveTo(c, IF polls' = PollSteps THEN "idle" ELSE "polling")
          /\ UNCHANGED <<tokenVars, v2vHolders>>
    /\ UNCHANGED <<pending, raising, lockq, toEvict>>

-----------------------------------------------------------------------------
(* The handler of an admitted connection *)

ReleaseEarly(c) == Give(c) /\ v2vHolders' = v2vHolders \ {c}

GreetingSent(c) ==
    /\ connAt[c] = "greeting" /\ c \notin pending
    /\ MoveTo(c, "setup")
    /\ UNCHANGED <<tokenVars, v2vHolders, pending, raising, evictVars>>

(* send_json raises: the exception leaves the handler ahead of every       *)
(* guard.                                                                  *)
GreetingFails(c) ==
    /\ connAt[c] = "greeting" /\ c \notin pending
    /\ MoveTo(c, "idle")
    /\ UNCHANGED <<tokenVars, v2vHolders, pending, raising, evictVars>>

(* An early exit, an exception, or the end of the relay and engine paths.  *)
SetupEnds(c) ==
    /\ connAt[c] = "setup" /\ c \notin pending
    /\ ReleaseEarly(c)
    /\ MoveTo(c, "idle")
    /\ UNCHANGED <<pending, raising, evictVars>>

SetupDone(c) ==
    /\ connAt[c] = "setup" /\ c \notin pending
    /\ MoveTo(c, "running")
    /\ UNCHANGED <<tokenVars, v2vHolders, pending, raising, evictVars>>

(* The client left, the work is done, or it failed.                        *)
RunEnds(c) ==
    /\ connAt[c] = "running" /\ c \notin pending
    /\ MoveTo(c, "stopping")
    /\ UNCHANGED <<tokenVars, v2vHolders, pending, raising, evictVars>>

DispatcherStopped(c) ==
    /\ connAt[c] = "stopping" /\ c \notin pending
    /\ MoveTo(c, "gathering")
    /\ UNCHANGED <<tokenVars, v2vHolders, pending, raising, evictVars>>

(* The work tasks are over: the slot is released, the handle stays.        *)
TasksStopped(c) ==
    /\ connAt[c] = "gathering" /\ c \notin pending
    /\ Give(c)
    /\ MoveTo(c, "closing")
    /\ UNCHANGED <<v2vHolders, pending, raising, evictVars>>

(* End of the finally block; only an exception on its way out reaches the  *)
(* handler of the outer try, which calls _v2v_release_early.               *)
Closed(c) ==
    /\ connAt[c] = "closing" /\ c \notin pending
    /\ Give(c)
    /\ v2vHolders' = IF c \in raising THEN v2vHolders \ {c} ELSE v2vHolders
    /\ raising' = raising \ {c}
    /\ MoveTo(c, "idle")
    /\ UNCHANGED <<pending, evictVars>>

(* BackendManager.reload() cancels the sessions registered with it.        *)
ForceClose(c) ==
    /\ connAt[c] \in Admitted \ {"closing"} /\ c \notin pending
    /\ pending' = pending \cup {c}
    /\ UNCHANGED <<tokenVars, v2vHolders, connAt, raising, evictVars>>

(* Mistake: the outer guard does not cover the finally block.              *)
CancelUnguarded(c) ==
    /\ c \in pending
    /\ pending' = pending \ {c}
    /\ \/ /\ connAt[c] \in {"greeting", "gathering"}
          /\ MoveTo(c, "idle")
          /\ raising' = raising \ {c}
          /\ UNCHANGED <<tokenVars, v2vHolders>>
       \/ /\ connAt[c] \in {"setup", "closing"}
          /\ ReleaseEarly(c)
          /\ MoveTo(c, "idle")
          /\ raising' = raising \ {c}
       \/ /\ connAt[c] \in {"running", "stopping"}
          /\ MoveTo(c, IF connAt[c] = "running" THEN "stopping" ELSE "gathering")
          /\ UNCHANGED <<tokenVars, v2vHolders, raising>>
    /\ UNCHANGED evictVars

(* The CancelledError arrives at the await the handler is in.  A running   *)
(* handler swallows it if its client has already closed; the wait for the  *)
(* dispatcher always does.                                                 *)
CancelLands(c) ==
    /\ c \in pending
    /\ pending' = pending \ {c}
    /\ \/ /\ connAt[c] = "greeting"
          /\ MoveTo(c, "idle")
          /\ UNCHANGED <<tokenVars, v2vHolders, raising>>
       \/ /\ connAt[c] \in {"setup", "gathering", "closing"}
          /\ ReleaseEarly(c)
          /\ raising' = raising \ {c}
          /\ MoveTo(c, "idle")
       \/ /\ connAt[c] = "running"
          /\ raising' \in {raising, raising \cup {c}}
          /\ MoveTo(c, "stopping")
          /\ UNCHANGED <<tokenVars, v2vHolders>>
       \/ /\ connAt[c] = "stopping"
          /\ MoveTo(c, "gathering")
          /\ UNCHANGED <<tokenVars, v2vHolders, raising>>
    /\ UNCHANGED evictVars

Handler(c) ==
    \/ GreetingSent(c) \/ GreetingFails(c) \/ SetupEnds(c) \/ SetupDone(c) \/ RunEnds(c)
    \/ DispatcherStopped(c) \/ TasksStopped(c) \/ Closed(c) \/ CancelLands(c)

AdmissionNext ==
    \/ \E p \in Others : OtherTakes(p) \/ OtherGives(p)
    \/ \E c \in Conns : Arrive(c) \/ GetLock(c) \/ Poll(c) \/ Handler(c) \/ ForceClose(c)
    \/ \E c, h \in Conns : EvictHolder(c, h)

AdmissionSpec == AdmissionInit /\ [][AdmissionNext]_admissionVars

(* The loop delivers a cancellation, a ws.close() returns, the timer of a  *)
(* poll fires, and the tasks a finally block has cancelled end.  Nothing   *)
(* makes a client send or leave.                                           *)
AdmissionFairness ==
    \A c \in Conns :
        /\ WF_admissionVars(GetLock(c)) /\ WF_admissionVars(Poll(c))
        /\ WF_admissionVars(\E h \in Conns : EvictHolder(c, h))
        /\ WF_admissionVars(CancelLands(c)) /\ WF_admissionVars(DispatcherStopped(c))
        /\ WF_admissionVars(TasksStopped(c)) /\ WF_admissionVars(Closed(c))

AdmissionFairSpec == AdmissionSpec /\ AdmissionFairness

-----------------------------------------------------------------------------
(* Properties *)

(* Type invariant.                                                         *)
AdmissionTypeOK ==
    /\ active \in 0..Limit
    /\ held \subseteq Conns \cup Others
    /\ v2vHolders \subseteq Conns
    /\ connAt \in [Conns -> ConnPlaces]
    /\ pending \subseteq {c \in Conns : connAt[c] \in Admitted}
    /\ raising \subseteq {c \in Conns : connAt[c] \in Unwinding}
    /\ lockq \in Seq(Conns) /\ toEvict \subseteq Conns /\ polls \in 0..PollSteps

(* However many of its exits a handler runs through, each releasing the    *)
(* token again, _active is the number of the tokens out.                   *)
ActiveCountsTokens == active = Cardinality(held)

(* An evictor can only reach a session through _V2V_HOLDERS: every /v2v    *)
(* session that has a slot is on record there.                             *)
EverySlotHolderIsOnRecord == held \cap Conns \subseteq v2vHolders

(* The lock lets one connection at a time close others and poll.           *)
OneEvictorAtATime == Cardinality(LockOwners) <= 1

(* main.py, around the outer try: however setup or the main loop ends,     *)
(* cancellation included, the slot of the handler is released.             *)
NoSlotOutlivesItsHandler ==
    \A c \in Conns : c \in held => connAt[c] \in Admitted

(* The same for the clients of the legacy protocol, whose handler has no   *)
(* await between admission and the outer try.                              *)
LegacyHandlersLeaveNoSlot ==
    \A c \in Conns \ RealtimeClients : c \in held => connAt[c] \in Admitted

(* A connection that asked for admission is admitted or refused: the lock  *)
(* goes round and the wait for the slot is bounded.                        *)
EveryNewcomerIsAnswered ==
    \A c \in Conns : connAt[c] \in Waiting ~> connAt[c] \notin Waiting

(* Eviction and reload rely on it: a handler past the greeting that is     *)
(* cancelled, wherever it is and however often, frees its slot.            *)
CancelledSessionsFreeTheirSlot ==
    \A c \in Conns : (c \in pending /\ connAt[c] # "greeting") ~> c \notin held

(* Nobody waits for ever: not the newcomer at the lock or in the poll, nor *)
(* whoever wants the slot of a handler that was told to go.                *)
AdmissionSettles == EveryNewcomerIsAnswered /\ CancelledSessionsFreeTheirSlot

(* The books of the admission: the counter is the number of tokens out,    *)
(* whoever holds one can be evicted, evictions are serial, and a handler   *)
(* that is gone has left no slot behind (the greeting's apart).            *)
AdmissionIsOrderly ==
  /\ AdmissionTypeOK
  /\ ActiveCountsTokens
  /\ EverySlotHolderIsOnRecord
  /\ OneEvictorAtATime
  /\ LegacyHandlersLeaveNoSlot
=============================================================================
