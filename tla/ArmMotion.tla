------------------------------ MODULE ArmMotion ------------------------------
(* The arm of the voice_rebot_arm application: the actuator with its bus     *)
(* lock and its connection, the action plugin, the grasp plugin, and the     *)
(* verify panel's HTTP threads (torque, test, cancel).                       *)
(*                                                                           *)
(* A section under the actuator's lock is one step; a read outside the lock  *)
(* is a step of its own.  The plugin connects in a worker thread that cannot *)
(* be cancelled and is called again until it succeeds, so that one wrapper   *)
(* of the SDK is published at most.  How many frames a sequence and how many *)
(* motions a pick have is left open.                                         *)
EXTENDS Naturals

VARIABLES
  generation,   \* number of calls of disconnect()
  published,    \* _robot is not None
  torque,       \* _torque_state == "on"
  power,        \* motors of the SDK wrapper: "none" before it connects, "dead" once torn down
  looping,      \* the connect loop has not been cancelled
  conn,         \* where the connect thread is; "retry" while the loop sleeps, "over" at its end
  connGen,      \* the generation connect() was called in
  plugin,       \* where the application's shutdown is
  seq,          \* the threads in execute_sequence
  testRunning,  \* the panel's busy flag
  cancelEvent,  \* the panel's cancel event
  panelTorque,  \* the panel's copy of the torque state
  toggle,       \* the panel's two torque handlers
  graspTask,    \* _grasp_task is in flight
  grasp,        \* the worker thread of the grasp plugin
  kind,         \* what it runs
  graspCancel,  \* its cancel event
  stray         \* kinds of bus operation that reached a torn-down wrapper (history)

armVars ==
  <<generation, published, torque, power, looping, conn, connGen, plugin, seq, testRunning,
    cancelEvent, panelTorque, toggle, graspTask, grasp, kind, graspCancel, stray>>

arm == <<generation, published, torque, power>>
loop == <<looping, conn, connGen>>
panel == <<testRunning, cancelEvent, panelTorque, toggle>>
pick == <<graspTask, grasp, kind, graspCancel>>

SequenceThreads == {"action", "test"}
Powered == power \in {"on", "off"}

ArmInit ==
  /\ generation = 0 /\ published = FALSE /\ torque = FALSE /\ power = "none"
  /\ looping = TRUE /\ conn = "retry" /\ connGen = 0 /\ plugin = "running"
  /\ seq = [t \in SequenceThreads |-> "idle"]
  /\ testRunning = FALSE /\ cancelEvent = FALSE /\ panelTorque = TRUE
  /\ toggle = [on \in BOOLEAN |-> "idle"]
  /\ graspTask = FALSE /\ grasp = "idle" /\ kind = "search" /\ graspCancel = FALSE
  /\ stray = {}

-----------------------------------------------------------------------------
(* Connection.                                                               *)

\* An attempt has failed: the loop sleeps and tries again, unless it is gone.
Retried == IF looping THEN "retry" ELSE "over"

ConnectCalled ==
  /\ conn = "retry" /\ looping
  /\ conn' = "called" /\ connGen' = generation
  /\ UNCHANGED <<arm, looping, plugin, seq, panel, pick, stray>>

\* ActuatorClosed ends the loop.
ConnectEnters ==
  /\ conn = "called"
  /\ conn' = IF generation # connGen THEN "over" ELSE "resolving"
  /\ UNCHANGED <<arm, looping, connGen, plugin, seq, panel, pick, stray>>

\* No bus, or the SDK fails before the motors have power.
ConnectFails ==
  /\ conn = "resolving"
  /\ conn' = Retried
  /\ UNCHANGED <<arm, looping, connGen, plugin, seq, panel, pick, stray>>

Energise ==
  /\ conn = "resolving"
  /\ conn' = "energised" /\ power' = "on"
  /\ UNCHANGED <<generation, published, torque, looping, connGen, plugin, seq, panel, pick, stray>>

\* A half-connected wrapper is disconnected before the next attempt.
EnergisedFails ==
  /\ conn = "energised"
  /\ conn' = Retried /\ power' = "none"
  /\ UNCHANGED <<generation, published, torque, looping, connGen, plugin, seq, panel, pick, stray>>

\* Mistake: a wrapper is published although disconnect() came in between.
PublishUnchecked ==
  /\ conn = "energised"
  /\ published' = TRUE /\ torque' = TRUE /\ conn' = "over"
  /\ UNCHANGED <<generation, power, looping, connGen, plugin, seq, panel, pick, stray>>

Publish ==
  /\ conn = "energised"
  /\ IF generation = connGen
     THEN published' = TRUE /\ torque' = TRUE /\ conn' = "over"
     ELSE conn' = "handing" /\ UNCHANGED <<published, torque>>
  /\ UNCHANGED <<generation, power, looping, connGen, plugin, seq, panel, pick, stray>>

\* The wrapper that came too late is disconnected.
HandBack ==
  /\ conn = "handing"
  /\ conn' = "over" /\ power' = "none"
  /\ UNCHANGED <<generation, published, torque, looping, connGen, plugin, seq, panel, pick, stray>>

-----------------------------------------------------------------------------
(* Sequences: dispatched actions and tests of the panel.  An action with     *)
(* response_mode "await" (execute_action) asks nobody either: to the others  *)
(* it is what a test is that nobody cancels.                                 *)

\* busy_action(): the plugin's own task or the grasp plugin's.
BusyAction == seq["action"] # "idle" \/ graspTask

DispatchAction ==
  /\ ~BusyAction
  /\ seq' = [seq EXCEPT !["action"] = "start"]
  /\ UNCHANGED <<arm, loop, plugin, panel, pick, stray>>

\* /actions/{name}/test and /actions/preview claim the panel's busy flag ...
TestAction ==
  /\ panelTorque /\ ~testRunning
  /\ testRunning' = TRUE /\ seq' = [seq EXCEPT !["test"] = "claimed"]
  /\ UNCHANGED <<arm, loop, plugin, cancelEvent, panelTorque, toggle, pick, stray>>

\* ... and clear the event afterwards, before the thread starts.
TestStarts ==
  /\ seq["test"] = "claimed"
  /\ cancelEvent' = FALSE /\ seq' = [seq EXCEPT !["test"] = "start"]
  /\ UNCHANGED <<arm, loop, plugin, testRunning, panelTorque, toggle, pick, stray>>

CancelAction ==
  /\ ~cancelEvent /\ cancelEvent' = TRUE
  /\ UNCHANGED <<arm, loop, plugin, seq, testRunning, panelTorque, toggle, pick, stray>>

\* The test's thread gives the busy flag back.
SeqEnds(t) ==
  /\ seq' = [seq EXCEPT ![t] = "idle"]
  /\ testRunning' = (testRunning /\ t # "test")
  /\ UNCHANGED <<cancelEvent, panelTorque, toggle>>

SeqStarts(t) ==
  /\ seq[t] = "start"
  /\ IF ~published \/ ~torque
     THEN SeqEnds(t)
     ELSE seq' = [seq EXCEPT ![t] = "frame"] /\ UNCHANGED panel
  /\ UNCHANGED <<arm, loop, plugin, pick, stray>>

\* Between two frames: no frame is left, or the cancel event or the torque flag
\* ends the sequence.
SeqFrame(t) ==
  /\ seq[t] = "frame"
  /\ \/ SeqEnds(t)
     \/ /\ ~(t = "test" /\ cancelEvent) /\ torque
        /\ seq' = [seq EXCEPT ![t] = "apply"] /\ UNCHANGED panel
  /\ UNCHANGED <<arm, loop, plugin, pick, stray>>

\* The reference is read again under the lock.  A move needs the controller,
\* which torque off has ended; the gripper does not.
SeqApply(t) ==
  /\ seq[t] = "apply"
  /\ \/ (~published \/ power # "on") /\ SeqEnds(t)
     \/ /\ published
        /\ seq' = [seq EXCEPT ![t] = "frame"] /\ UNCHANGED panel
  /\ stray' = IF published /\ power = "dead" THEN stray \cup {"sequence"} ELSE stray
  /\ UNCHANGED <<arm, loop, plugin, pick>>

-----------------------------------------------------------------------------
(* Torque handlers of the panel.                                             *)

ToggleCalled(on) ==
  /\ toggle[on] = "idle" /\ published
  /\ toggle' = [toggle EXCEPT ![on] = "checked"]
  /\ UNCHANGED <<arm, loop, plugin, seq, testRunning, cancelEvent, panelTorque, pick, stray>>

\* Without a wrapper (it was unpublished since) only the flag changes.
SetTorque(on) ==
  /\ toggle[on] = "checked"
  /\ torque' = on
  /\ power' = IF ~published THEN power ELSE IF on THEN "on" ELSE "off"
  /\ toggle' = [toggle EXCEPT ![on] = "mirror"]
  /\ UNCHANGED <<generation, published, loop, plugin, seq, testRunning, cancelEvent, panelTorque, pick, stray>>

MirrorTorque(on) ==
  /\ toggle[on] = "mirror"
  /\ panelTorque' = on /\ toggle' = [toggle EXCEPT ![on] = "idle"]
  /\ UNCHANGED <<arm, loop, plugin, seq, testRunning, cancelEvent, pick, stray>>

-----------------------------------------------------------------------------
(* The grasp plugin: grasp, search and put_down share one task slot.         *)

\* Mistake: the grasp plugin knows of its own task only.
GraspBusyAlone == graspTask

GraspBusy == graspTask \/ seq["action"] # "idle"

\* A new cancel event; the worker runs on the wrapper the loop saw.  (A
\* second worker beside one that stop() has given up is left out.)
DispatchMotion(k) ==
  /\ published /\ torque /\ ~GraspBusy /\ grasp = "idle"
  /\ graspCancel' = FALSE /\ graspTask' = TRUE /\ grasp' = "step" /\ kind' = k
  /\ UNCHANGED <<arm, loop, plugin, seq, panel, stray>>

DispatchGrasp == DispatchMotion("grasp")
DispatchSearch == DispatchMotion("search")
DispatchPutDown == DispatchMotion("put_down")

\* Perception cannot be set up: the event is new, the task is not.
DispatchFails ==
  /\ published /\ torque /\ ~GraspBusy /\ grasp = "idle" /\ graspCancel
  /\ graspCancel' = FALSE
  /\ UNCHANGED <<arm, loop, plugin, seq, panel, graspTask, grasp, kind, stray>>

\* Stop intent and sleep.
CancelGrasp ==
  /\ ~graspCancel /\ graspCancel' = TRUE
  /\ UNCHANGED <<arm, loop, plugin, seq, panel, graspTask, grasp, kind, stray>>

\* The worker returns and its task is done.
GraspReturns == grasp' = "idle" /\ graspTask' = FALSE /\ kind' = "search"
GraspAt(pc) == grasp' = pc /\ UNCHANGED <<graspTask, kind>>

\* _check_cancel: grasp and put_down open the gripper before they leave.
CheckCancel ==
  /\ grasp = "step"
  /\ \/ ~graspCancel /\ GraspAt("op")
     \/ graspCancel /\ kind = "search" /\ GraspReturns
     \/ graspCancel /\ kind # "search" /\ GraspAt("park")
  /\ UNCHANGED <<arm, loop, plugin, seq, panel, graspCancel, stray>>

\* An exception: grasp parks, the others keep what they hold.
GraspFails ==
  IF kind = "grasp" THEN GraspAt("park") ELSE GraspReturns

\* Most motions, not all, are preceded by a look at the cancel event; the last
\* one returns.
GraspGoesOn == GraspReturns \/ GraspAt("step") \/ GraspAt("op")

\* One motion under acquire_motion_lock, which refuses an unpublished arm.
GraspOp ==
  /\ grasp = "op"
  /\ ((~published \/ power # "on") /\ GraspFails) \/ (published /\ GraspGoesOn)
  /\ stray' = IF published /\ power = "dead" THEN stray \cup {"motion"} ELSE stray
  /\ UNCHANGED <<arm, loop, plugin, seq, panel, graspCancel>>

\* _open_gripper_safe, without the lock, on the worker's own reference.
SafePark ==
  /\ grasp = "park" /\ GraspReturns
  /\ stray' = IF power = "dead" THEN stray \cup {"park"} ELSE stray
  /\ UNCHANGED <<arm, loop, plugin, seq, panel, graspCancel>>

-----------------------------------------------------------------------------
(* Shutdown: the plugins stop in reverse order of registration.              *)

StopGrasp ==
  /\ plugin = "running"
  /\ plugin' = "joining" /\ graspCancel' = TRUE
  /\ UNCHANGED <<arm, loop, seq, panel, graspTask, grasp, kind, stray>>

\* The worker is over, or six seconds are: the task is cancelled, the thread stays.
GraspStopped ==
  /\ plugin = "joining"
  /\ plugin' = "stopping" /\ graspTask' = FALSE
  /\ UNCHANGED <<arm, loop, seq, panel, grasp, kind, graspCancel, stray>>

\* The connect loop is cancelled; a thread it waits for goes on.
StopArm ==
  /\ plugin = "stopping"
  /\ plugin' = "disconnecting" /\ looping' = FALSE
  /\ conn' = IF conn = "retry" THEN "over" ELSE conn
  /\ UNCHANGED <<arm, connGen, seq, panel, pick, stray>>

\* disconnect(): unpublish under the lock, tear down outside it.
Disconnect ==
  /\ plugin = "disconnecting"
  /\ generation' = generation + 1 /\ published' = FALSE /\ torque' = FALSE
  /\ plugin' = IF published THEN "teardown" ELSE "stopped"
  /\ UNCHANGED <<power, loop, seq, panel, pick, stray>>

TearDownArm ==
  /\ plugin = "teardown"
  /\ power' = "dead" /\ plugin' = "stopped"
  /\ UNCHANGED <<generation, published, torque, loop, seq, panel, pick, stray>>

-----------------------------------------------------------------------------
ConnectStep == ConnectEnters \/ ConnectFails \/ Energise \/ EnergisedFails \/ Publish \/ HandBack
StopStep == GraspStopped \/ StopArm \/ Disconnect \/ TearDownArm

ArmNext ==
  \/ ConnectCalled \/ ConnectStep
  \/ DispatchAction \/ TestAction \/ TestStarts \/ CancelAction
  \/ \E t \in SequenceThreads : SeqStarts(t) \/ SeqFrame(t) \/ SeqApply(t)
  \/ \E on \in BOOLEAN : ToggleCalled(on) \/ SetTorque(on) \/ MirrorTorque(on)
  \/ DispatchGrasp \/ DispatchSearch \/ DispatchPutDown
  \/ DispatchFails \/ CancelGrasp \/ CheckCancel \/ GraspOp \/ SafePark
  \/ StopGrasp \/ StopStep

\* The connect thread runs, and a shutdown once begun goes on.
ArmFairness == WF_armVars(ConnectStep) /\ WF_armVars(StopStep)

ArmSpec == ArmInit /\ [][ArmNext]_armVars /\ ArmFairness

-----------------------------------------------------------------------------
\* Types; and the panel's busy flag is up exactly while its thread lives, so
\* that neither two tests run nor tests are refused for ever.
ArmTypeOK ==
  /\ generation \in 0..1 /\ connGen \in 0..1
  /\ published \in BOOLEAN /\ torque \in BOOLEAN /\ looping \in BOOLEAN
  /\ power \in {"none", "on", "off", "dead"}
  /\ conn \in {"retry", "called", "resolving", "energised", "handing", "over"}
  /\ plugin \in {"running", "joining", "stopping", "disconnecting", "teardown", "stopped"}
  /\ seq \in [SequenceThreads -> {"idle", "claimed", "start", "frame", "apply"}]
  /\ cancelEvent \in BOOLEAN /\ panelTorque \in BOOLEAN
  /\ testRunning = (seq["test"] # "idle")
  /\ toggle \in [BOOLEAN -> {"idle", "checked", "mirror"}]
  /\ graspTask \in BOOLEAN /\ graspCancel \in BOOLEAN
  /\ grasp \in {"idle", "step", "op", "park"} /\ kind \in {"grasp", "search", "put_down"}
  /\ stray \subseteq {"sequence", "motion", "park"}

\* Motors have power only for an arm somebody can release: the published one,
\* or one in the hands of a connect or a disconnect that is still going on.
\* connect() and disconnect() race over the generation.
PoweredArmIsHeld ==
  Powered => published \/ conn \in {"energised", "handing"} \/ plugin = "teardown"

\* No motion and no sequence command reaches a wrapper that disconnect() has
\* torn down, although the worker keeps its reference for seconds; the one
\* exception is the safe-park, which takes no lock.
OnlySafeParkStrays == stray \subseteq {"park"}

\* While the application runs, a dispatched action and a worker of the grasp
\* plugin never drive the arm together: the two plugins ask each other.  Of a
\* test of the panel, and of an action that is awaited, nothing is promised:
\* they ask nobody, and may move the arm beside either.
DispatchedMotionsExclude ==
  plugin = "running" => ~(seq["action"] # "idle" /\ grasp # "idle")

\* A shutdown, whenever it meets the connection, ends with the motors off.
ShutdownReleasesTheArm ==
  plugin = "joining" ~> plugin = "stopped" /\ conn = "over" /\ ~Powered

\* The arm: no power without an owner; of all commands the safe-park alone
\* reaches a wrapper that was torn down; and the two plugins, not the panel,
\* keep out of each other's motions.
ArmIsSafe ==
  /\ ArmTypeOK
  /\ PoweredArmIsHeld
  /\ OnlySafeParkStrays
  /\ DispatchedMotionsExclude
=============================================================================
