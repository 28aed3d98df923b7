------------------------------ MODULE SlvClient ------------------------------
(***************************************************************************)
(* The agent's transport (agent/ovs_agent/slv_client.py): one WebSocket to *)
(* /v2v/stream that is torn down and reopened by three tasks, the          *)
(* microphone pump, the dispatch loop and wake(), most of which put a      *)
(* timeout on the call and cancel it where it stands; and the tool schemas *)
(* the application announces to every session (app_base.py).               *)
(*                                                                         *)
(* Frames are not modelled: an event is any frame a reader delivers.  The  *)
(* server is external and may close any socket at any moment: gracefully,  *)
(* evicted (1012), or lost, which stands for every other code.             *)
(***************************************************************************)
EXTENDS Integers, FiniteSets

CONSTANTS
  Attempts,   \* len(_RECONNECT_BACKOFFS) + 1
  MaxSockets  \* bound on the sockets opened in a behaviour

ASSUME SlvAssumption == Attempts \in Nat \ {0} /\ MaxSockets \in Nat \ {0}

Tasks == {"mic", "dispatch", "wake"}
Sockets == 1..MaxSockets
NoSocket == 0
Free == "free"

VARIABLES
  ws,            \* _ws: the current socket, or NoSocket
  live,          \* the sockets that are open
  readerTask,    \* _reader_task: the socket of the current reader, or NoSocket
  reading,       \* the sockets whose reader runs
  readerDone,    \* _reader_done
  closeCode,     \* _last_close_code
  sendLock,      \* the task that holds _send_lock
  reconnectLock, \* the task that holds _reconnect_lock, and has set _reconnecting
  sessionGen,    \* _session_gen
  advertisedGen, \* _advertised_gen of the application
  closed,        \* _closed
  at,            \* the await each task is in
  doing,         \* the call each task makes
  attempt,       \* attempts of the call that holds the send lock
  opened,        \* history: sockets opened
  tooled,        \* history: the socket last sent the tool schemas
  cut            \* history: where the latest opening was abandoned

connection == <<ws, live, readerTask, reading, readerDone, closeCode>>
lockVars == <<sendLock, reconnectLock>>
sessionVars == <<sessionGen, advertisedGen, tooled>>
openVars == <<attempt, opened, cut>>
slvVars == <<connection, lockVars, sessionVars, openVars, closed, at, doing>>

Awaits == {"idle", "wantReconnect", "wantSend", "pause", "dialing", "config", "grace", "sending"}

\* reconnect: under wait_for; refresh: the same call without a timeout.
Calls == {"nothing", "audio", "advertise", "reconnect", "refresh"}

SlvTypeOK ==
  /\ ws \in Sockets \cup {NoSocket} /\ readerTask \in Sockets \cup {NoSocket}
  /\ live \subseteq Sockets /\ reading \subseteq Sockets
  /\ readerDone \in BOOLEAN /\ closed \in BOOLEAN
  /\ closeCode \in {"none", "evicted", "lost"}
  /\ sendLock \in Tasks \cup {Free} /\ reconnectLock \in Tasks \cup {Free}
  /\ sessionGen \in 0..MaxSockets /\ advertisedGen \in 0..MaxSockets
  /\ at \in [Tasks -> Awaits] /\ doing \in [Tasks -> Calls]
  /\ attempt \in 0..Attempts /\ opened \in 0..MaxSockets
  /\ tooled \in Sockets /\ cut \in {"no", "early", "grace"}

\* run(): the boot connection is up and the tools have been announced.
SlvInit ==
  /\ ws = 1 /\ live = {1} /\ readerTask = 1 /\ reading = {1}
  /\ readerDone = FALSE /\ closeCode = "none"
  /\ sendLock = Free /\ reconnectLock = Free
  /\ sessionGen = 1 /\ advertisedGen = 1 /\ tooled = 1
  /\ closed = FALSE
  /\ at = [a \in Tasks |-> "idle"] /\ doing = [a \in Tasks |-> "nothing"]
  /\ attempt = 0 /\ opened = 1 /\ cut = "no"

\* is_reconnecting: set and cleared under the lock
Reconnecting == reconnectLock # Free

ReaderRuns == readerTask \in reading

\* is_healthy
Healthy == ~closed /\ ws # NoSocket /\ ReaderRuns

Reconnects(a) == doing[a] \in {"reconnect", "refresh"}

-----------------------------------------------------------------------------
(* Steps of a call.                                                         *)

Goto(a, place) == at' = [at EXCEPT ![a] = place]

\* Mistake: a call that fails keeps the lock of the send path.
ReleaseOuter(a) ==
  /\ UNCHANGED sendLock
  /\ reconnectLock' = IF reconnectLock = a THEN Free ELSE reconnectLock

\* async with: both locks come back however the call ends.
Release(a) ==
  /\ sendLock' = IF sendLock = a THEN Free ELSE sendLock
  /\ reconnectLock' = IF reconnectLock = a THEN Free ELSE reconnectLock

\* The call returns or raises.
Return(a) == Goto(a, "idle") /\ doing' = [doing EXCEPT ![a] = "nothing"] /\ Release(a)

\* reconnect() behind its lock.
EnterReconnect(a) ==
  /\ at[a] = "wantReconnect" /\ reconnectLock = Free
  /\ IF closed
     THEN Return(a)
     ELSE reconnectLock' = a /\ Goto(a, "wantSend") /\ UNCHANGED <<sendLock, doing>>
  /\ UNCHANGED <<connection, sessionVars, openVars, closed>>

\* Mistake: the new session is opened beside the old one, left for the server to drop.
TearDownForgets(a) ==
  /\ at[a] = "wantSend" /\ Reconnects(a) /\ sendLock = Free
  /\ sendLock' = a
  /\ ws' = NoSocket /\ readerTask' = NoSocket
  /\ reading' = reading \ {readerTask}
  /\ readerDone' = (readerDone \/ ReaderRuns)
  /\ attempt' = 0
  /\ Goto(a, "pause")
  /\ UNCHANGED <<reconnectLock, live, closeCode, sessionVars, opened, cut, closed, doing>>

\* reconnect() with the send lock: the old reader is cancelled, which sets the event, the old
\* socket closed: its close frame is out before the first await.
TearDown(a) ==
  /\ at[a] = "wantSend" /\ Reconnects(a) /\ sendLock = Free
  /\ sendLock' = a
  /\ ws' = NoSocket /\ readerTask' = NoSocket
  /\ reading' = reading \ {readerTask}
  /\ live' = live \ {ws}
  /\ readerDone' = (readerDone \/ ReaderRuns)
  /\ attempt' = 0
  /\ Goto(a, "pause")
  /\ UNCHANGED <<reconnectLock, closeCode, sessionVars, opened, cut, closed, doing>>

\* send_audio and _send_json with the send lock: a dead transport is revived first.
EnterSend(a) ==
  /\ at[a] = "wantSend" /\ ~Reconnects(a) /\ sendLock = Free
  /\ IF ws = NoSocket /\ closed
     THEN Return(a)
     ELSE /\ sendLock' = a /\ Goto(a, IF ws = NoSocket THEN "pause" ELSE "sending")
          /\ UNCHANGED <<reconnectLock, doing>>
  /\ attempt' = 0
  /\ UNCHANGED <<connection, sessionVars, opened, cut, closed>>

\* _open_with_retry: one more attempt, after the pause or the back-off.
BeginAttempt(a) ==
  /\ at[a] = "pause"
  /\ attempt' = attempt + 1
  /\ readerDone' = FALSE
  /\ cut' = "no"
  /\ Goto(a, "dialing")
  /\ UNCHANGED <<ws, live, readerTask, reading, closeCode, lockVars, sessionVars, opened,
                 closed, doing>>

Dialed(a) ==
  /\ at[a] = "dialing" /\ opened < MaxSockets
  /\ opened' = opened + 1
  /\ ws' = opened + 1
  /\ live' = live \cup {opened + 1}
  /\ Goto(a, "config")
  /\ UNCHANGED <<readerTask, reading, readerDone, closeCode, lockVars, sessionVars,
                 attempt, cut, closed, doing>>

\* ws_connect raises: no retry, the exception leaves the call.
DialFails(a) ==
  /\ at[a] = "dialing"
  /\ Return(a)
  /\ cut' = "early" /\ attempt' = 0
  /\ UNCHANGED <<connection, sessionVars, opened, closed>>

\* Another attempt after a back-off, unless that was the last one.
NextAttempt(a) ==
  IF attempt < Attempts THEN Goto(a, "pause") /\ UNCHANGED <<lockVars, doing>> ELSE Return(a)

\* config or the V2 handshake has gone through: the reader starts, the grace wait begins.
Configured(a) ==
  /\ at[a] = "config" /\ ws \in live
  /\ readerTask' = ws
  /\ reading' = reading \cup {ws}
  /\ Goto(a, "grace")
  /\ UNCHANGED <<ws, live, readerDone, closeCode, lockVars, sessionVars, openVars, closed,
                 doing>>

\* The server closed the socket first (retried), or the negotiation failed (not retried).
ConfigFails(a) ==
  /\ at[a] = "config"
  /\ live' = live \ {ws}
  /\ ws' = NoSocket
  /\ cut' = "early"
  /\ \/ ws \notin live /\ NextAttempt(a)
     \/ ws \in live /\ Return(a)
  /\ UNCHANGED <<readerTask, reading, readerDone, closeCode, sessionVars, attempt, opened,
                 closed>>

\* What a call does once its session is up: a reconnect is followed by the tool schemas.
AfterOpen(a) ==
  IF Reconnects(a)
  THEN /\ Release(a) /\ Goto(a, "wantSend")
       /\ doing' = [doing EXCEPT ![a] = "advertise"]
  ELSE Goto(a, "sending") /\ UNCHANGED <<lockVars, doing>>

\* The session has survived the grace window.
GraceOver(a) ==
  /\ at[a] = "grace" /\ ~readerDone
  /\ sessionGen' = sessionGen + 1
  /\ closeCode' = "none"
  /\ AfterOpen(a)
  /\ UNCHANGED <<ws, live, readerTask, reading, readerDone, advertisedGen, tooled,
                 openVars, closed>>

\* The event fired inside the window, whichever reader set it: tear down, back off.
GraceDied(a) ==
  /\ at[a] = "grace" /\ readerDone
  /\ live' = live \ {ws} /\ reading' = reading \ {readerTask}
  /\ ws' = NoSocket /\ readerTask' = NoSocket
  /\ NextAttempt(a)
  /\ UNCHANGED <<readerDone, closeCode, sessionVars, openVars, closed>>

\* The frame goes out, or the socket turns out to be closed and the handle is dropped.  Either
\* way the application takes the schemas for delivered.
Send(a) ==
  /\ at[a] = "sending"
  /\ ws' = IF ws \in live THEN ws ELSE NoSocket
  /\ tooled' = IF ws \in live /\ doing[a] = "advertise" THEN ws ELSE tooled
  /\ advertisedGen' = IF doing[a] = "advertise" THEN sessionGen ELSE advertisedGen
  /\ Return(a)
  /\ UNCHANGED <<live, readerTask, reading, readerDone, closeCode, sessionGen, openVars,
                 closed>>

\* wait_for gives up on send_audio, or on the reconnect of wake() and of the dispatch loop.
TimedOut(a) ==
  /\ at[a] # "idle" /\ doing[a] \in {"audio", "reconnect"}
  /\ cut' = CASE at[a] \in {"dialing", "config"} -> "early"
              [] at[a] = "grace" -> "grace"
              [] OTHER -> cut
  /\ attempt' = IF sendLock = a THEN 0 ELSE attempt
  /\ Return(a)
  /\ UNCHANGED <<connection, sessionVars, opened, closed>>

-----------------------------------------------------------------------------
(* What starts a call.                                                      *)

Begin(a, what) ==
  /\ doing' = [doing EXCEPT ![a] = what]
  /\ Goto(a, IF what \in {"reconnect", "refresh"} THEN "wantReconnect" ELSE "wantSend")
  /\ UNCHANGED <<connection, lockVars, sessionVars, openVars, closed>>

\* A microphone chunk, skipped while a reconnect is under way.
MicChunk ==
  /\ at["mic"] = "idle" /\ ~Reconnecting
  /\ Begin("mic", "audio")

\* wake(): the session is dead, or has been idle for long.  The thinking watchdog's reconnect
\* is the same call.
WakeUp ==
  /\ at["wake"] = "idle" /\ ~closed
  /\ Begin("wake", "reconnect")

\* _dispatch_one on an event of a session the tools have not been announced to.
EventOfNewSession ==
  /\ at["dispatch"] = "idle" /\ reading # {}
  /\ sessionGen # advertisedGen
  /\ Begin("dispatch", "advertise")

\* asr_final with session_complete: the dispatch loop reopens the session itself.
SessionComplete ==
  /\ at["dispatch"] = "idle" /\ reading # {} /\ ~closed
  /\ sessionGen = advertisedGen
  /\ Begin("dispatch", "refresh")

\* events() has returned: reconnect, unless somebody else is at it or we were superseded.
ReaderExited ==
  /\ at["dispatch"] = "idle" /\ readerDone /\ ~closed /\ ~ReaderRuns
  /\ ~Reconnecting /\ closeCode # "evicted"
  /\ Begin("dispatch", "reconnect")

\* events() is woken by the event while the current reader runs: a leftover, cleared.
StaleDone ==
  /\ at["dispatch"] = "idle" /\ readerDone /\ ~closed /\ ReaderRuns
  /\ readerDone' = FALSE
  /\ UNCHANGED <<ws, live, readerTask, reading, closeCode, lockVars, sessionVars, openVars,
                 closed, at, doing>>

\* A keepalive ping and send_tool_result never revive the transport: they can only find out
\* that the socket is gone.
FindGone ==
  /\ ws # NoSocket /\ ws \notin live /\ ~closed /\ sendLock = Free
  /\ ws' = NoSocket
  /\ UNCHANGED <<live, readerTask, reading, readerDone, closeCode, lockVars, sessionVars, openVars,
                 closed, at, doing>>

Close ==
  /\ ~closed
  /\ closed' = TRUE
  /\ reading' = reading \ {readerTask}
  /\ readerDone' = (readerDone \/ ReaderRuns)
  /\ live' = live \ {ws}
  /\ ws' = NoSocket
  /\ UNCHANGED <<readerTask, closeCode, lockVars, sessionVars, openVars, at, doing>>

-----------------------------------------------------------------------------
(* The server, and the readers that notice it.                              *)

\* The server or the network closes a socket.
SocketDies(n) ==
  /\ n \in live
  /\ live' = live \ {n}
  /\ UNCHANGED <<ws, readerTask, reading, readerDone, closeCode, lockVars, sessionVars,
                 openVars, closed, at, doing>>

\* The reader leaves its loop.  A graceful close leaves the code as it was.
ReaderEnds(n) ==
  /\ n \in reading /\ n \notin live
  /\ reading' = reading \ {n}
  /\ closeCode' \in {closeCode, "evicted", "lost"}
  /\ readerDone' = TRUE
  /\ UNCHANGED <<ws, live, readerTask, lockVars, sessionVars, openVars, closed, at, doing>>

Step(a) ==
  \/ EnterReconnect(a) \/ TearDown(a) \/ EnterSend(a) \/ BeginAttempt(a)
  \/ Dialed(a) \/ DialFails(a)
  \/ Configured(a) \/ ConfigFails(a) \/ GraceOver(a) \/ GraceDied(a) \/ Send(a)

SlvNext ==
  \/ \E a \in Tasks : Step(a) \/ TimedOut(a)
  \/ MicChunk \/ WakeUp \/ EventOfNewSession \/ SessionComplete \/ StaleDone \/ ReaderExited
  \/ \E n \in Sockets : SocketDies(n) \/ ReaderEnds(n)
  \/ FindGone \/ Close

\* The event loop runs what is ready, timers fire, a dial ends one way or the other.
SlvFairness ==
  /\ \A a \in Tasks : WF_slvVars(Step(a))
  /\ WF_slvVars(StaleDone) /\ WF_slvVars(ReaderExited)
  /\ \A n \in Sockets : WF_slvVars(ReaderEnds(n))

SlvSpec == SlvInit /\ [][SlvNext]_slvVars /\ SlvFairness

-----------------------------------------------------------------------------
(* The client never has two live sessions at the server: whoever reopens    *)
(* the transport, and wherever it was cancelled, the old socket is closed   *)
(* or dead before a new one is dialled.  Two live sessions would evict each *)
(* other for ever.                                                          *)
OneSessionAtATime == Cardinality(live) <= 1

(* A session in use has been sent the tool schemas, or the application can  *)
(* tell from the generation that it has not.  Left out is a session whose   *)
(* opening was cancelled in the grace window.                               *)
ToolsFollowTheSession ==
  sendLock = Free /\ Healthy /\ sessionGen = advertisedGen /\ cut = "no" => ws = tooled

(* The dispatch loop never waits for events that cannot come: a reader runs *)
(* or the event that ends the wait is set.  Left out is an opening given up *)
(* before its reader was started.                                           *)
DispatchIsNotDeaf ==
  ~closed /\ sendLock = Free /\ cut # "early" => ReaderRuns \/ readerDone

(* No task keeps the transport to itself: send lock and reconnect lock come *)
(* back whatever the server does.                                           *)
LocksComeBack ==
  /\ sendLock # Free ~> sendLock = Free
  /\ Reconnecting ~> ~Reconnecting

(* The transport: one live session, a dispatch loop that hears it, and      *)
(* tools advertised to it, wherever an opening was cancelled.               *)
TransportIsSound ==
  /\ SlvTypeOK
  /\ OneSessionAtATime
  /\ DispatchIsNotDeaf
  /\ ToolsFollowTheSession
=============================================================================
