---------------------------- MODULE Agent_proofs ----------------------------
(* Theorems about the agent: its transport, its conversation state, the     *)
(* breaker before its LLM, its arm application and its streaming            *)
(* translation.                                                             *)
EXTENDS SlvClient, Conversation, LlmAvailability, ArmMotion, StreamingTranslation, FiniteSetTheorems,
        SequenceTheorems, WellFoundedInduction, TLAPS

-----------------------------------------------------------------------------
(* The transport.                                                           *)

(* The awaits of a call that holds _send_lock.                            *)
Holding == {"pause", "dialing", "config", "grace", "sending"}

(* Types of the flags, ...                                                *)
SlvFlags == readerDone \in BOOLEAN /\ closed \in BOOLEAN

(* ... of sockets, locks and histories, ...                               *)
SlvPlaces ==
  /\ ws \in Sockets \cup {NoSocket} /\ readerTask \in Sockets \cup {NoSocket}
  /\ live \subseteq Sockets /\ reading \subseteq Sockets
  /\ closeCode \in {"none", "evicted", "lost"}
  /\ sendLock \in Tasks \cup {Free} /\ reconnectLock \in Tasks \cup {Free}
  /\ tooled \in Sockets /\ cut \in {"no", "early", "grace"}

(* ... and of the calls.                                                  *)
SlvCalls == at \in [Tasks -> Awaits] /\ doing \in [Tasks -> Calls]

(* The generation of the application is never ahead of that of the        *)
(* session, and a session being opened has not been counted yet; a call   *)
(* that pauses has an attempt left.                                       *)
SlvCounts ==
  /\ sessionGen \in Nat /\ advertisedGen \in Nat /\ attempt \in 0..Attempts
  /\ opened \in 1..MaxSockets
  /\ advertisedGen <= sessionGen /\ sessionGen <= opened
  /\ \A a \in Tasks : at[a] \in {"config", "grace"} => sessionGen < opened
  /\ \A a \in Tasks : at[a] = "pause" => attempt < Attempts

(* The send lock is held by the one call that is past it, and an attempt  *)
(* starts with a clean record.                                            *)
LockIsWhereItIs ==
  /\ \A a \in Tasks : at[a] \in Holding <=> sendLock = a
  /\ \A a \in Tasks : at[a] \in {"dialing", "config", "grace"} => cut = "no"

(* Only the current socket may be open, and there is none while one is    *)
(* about to be dialled.                                                   *)
OnlyTheCurrentLives ==
  /\ live \subseteq {ws}
  /\ \A a \in Tasks : at[a] \in {"pause", "dialing"} => ws = NoSocket

(* A reader runs or the event that ends the wait is set, except while an  *)
(* opening is under way or after one that was given up early.             *)
SomebodyListens ==
  \/ closed \/ cut = "early" \/ ReaderRuns \/ readerDone
  \/ \E a \in Tasks : at[a] \in {"dialing", "config"}

(* A session in use whose generation has been advertised is the one that  *)
(* was sent the tools, also while calls are in flight.                    *)
ToolsAreOut ==
  \/ closed \/ ws = NoSocket \/ ~ReaderRuns \/ sessionGen # advertisedGen \/ cut # "no"
  \/ \E a \in Tasks : at[a] \in {"dialing", "config", "grace"}
  \/ ws = tooled

(* The inductive invariant.                                               *)
SlvInv ==
  /\ SlvFlags /\ SlvPlaces /\ SlvCalls /\ SlvCounts /\ LockIsWhereItIs
  /\ OnlyTheCurrentLives /\ SomebodyListens /\ ToolsAreOut

(* It implies what the run checks.                                        *)
LEMMA SlvFacts == SlvInv => TransportIsSound
<1> SUFFICES ASSUME SlvInv PROVE TransportIsSound
  OBVIOUS
<1> USE SlvAssumption
<1>1. SlvTypeOK
  <2>1. /\ sessionGen \in 0..MaxSockets /\ advertisedGen \in 0..MaxSockets
        /\ opened \in 0..MaxSockets /\ attempt \in 0..Attempts
    BY DEF SlvInv, SlvCounts
  <2> QED  BY <2>1 DEF SlvInv, SlvFlags, SlvPlaces, SlvCalls, SlvTypeOK
<1>2. OneSessionAtATime
  <2>1. live \subseteq {ws}
    BY DEF SlvInv, OnlyTheCurrentLives
  <2>2. IsFiniteSet({ws}) /\ Cardinality({ws}) = 1
    BY FS_Singleton
  <2>3. Cardinality(live) <= Cardinality({ws})
    BY <2>1, <2>2, FS_Subset
  <2> QED  BY <2>2, <2>3 DEF OneSessionAtATime
<1>3. sendLock = Free => \A a \in Tasks : at[a] \notin Holding
  BY DEF SlvInv, LockIsWhereItIs, Tasks, Free
<1>4. DispatchIsNotDeaf
  BY <1>3 DEF SlvInv, SomebodyListens, DispatchIsNotDeaf, Holding
<1>5. ToolsFollowTheSession
  BY <1>3 DEF SlvInv, ToolsAreOut, ToolsFollowTheSession, Healthy, Holding
<1> QED  BY <1>1, <1>2, <1>4, <1>5 DEF TransportIsSound

(* Every step keeps the types of the flags, ...                           *)
LEMMA SlvFlagsStep == ASSUME SlvInv, SlvNext PROVE SlvFlags'
<1> USE DEF SlvInv, SlvFlags
<1>1. ASSUME NEW a \in Tasks, Step(a) \/ TimedOut(a) PROVE SlvFlags'
  BY <1>1 DEF Step, TimedOut, EnterReconnect, TearDown, EnterSend, BeginAttempt, Dialed, DialFails,
     Configured, ConfigFails, GraceOver, GraceDied, Send, connection, ReaderRuns
<1>2. CASE MicChunk \/ WakeUp \/ EventOfNewSession \/ SessionComplete \/ StaleDone \/ ReaderExited
           \/ FindGone \/ Close
  BY <1>2 DEF MicChunk, WakeUp, EventOfNewSession, SessionComplete, StaleDone, ReaderExited, FindGone, Close,
     Begin, connection, ReaderRuns
<1>3. ASSUME NEW n \in Sockets, SocketDies(n) \/ ReaderEnds(n) PROVE SlvFlags'
  BY <1>3 DEF SocketDies, ReaderEnds
<1> QED  BY <1>1, <1>2, <1>3 DEF SlvNext

(* ... of sockets and locks, ...                                          *)
LEMMA SlvPlacesStep == ASSUME SlvInv, SlvNext PROVE SlvPlaces'
<1> USE SlvAssumption DEF SlvInv, SlvPlaces, SlvCounts, Sockets
<1> USE DEF Release, Return, connection, lockVars, sessionVars, openVars
<1>1. ASSUME NEW a \in Tasks, EnterReconnect(a) PROVE SlvPlaces'
  BY <1>1 DEF EnterReconnect
<1>2. ASSUME NEW a \in Tasks, TearDown(a) PROVE SlvPlaces'
  BY <1>2 DEF TearDown
<1>3. ASSUME NEW a \in Tasks, EnterSend(a) PROVE SlvPlaces'
  BY <1>3 DEF EnterSend
<1>4. ASSUME NEW a \in Tasks, BeginAttempt(a) PROVE SlvPlaces'
  BY <1>4 DEF BeginAttempt
<1>5. ASSUME NEW a \in Tasks, Dialed(a) PROVE SlvPlaces'
  BY <1>5 DEF Dialed
<1>6. ASSUME NEW a \in Tasks, DialFails(a) PROVE SlvPlaces'
  BY <1>6 DEF DialFails
<1>7. ASSUME NEW a \in Tasks, Configured(a) PROVE SlvPlaces'
  BY <1>7 DEF Configured
<1>8. ASSUME NEW a \in Tasks, ConfigFails(a) PROVE SlvPlaces'
  BY <1>8 DEF ConfigFails, NextAttempt
<1>9. ASSUME NEW a \in Tasks, GraceOver(a) PROVE SlvPlaces'
  BY <1>9 DEF GraceOver, AfterOpen
<1>10. ASSUME NEW a \in Tasks, GraceDied(a) PROVE SlvPlaces'
  BY <1>10 DEF GraceDied, NextAttempt
<1>11. ASSUME NEW a \in Tasks, Send(a) PROVE SlvPlaces'
  BY <1>11 DEF Send
<1>12. ASSUME NEW a \in Tasks, TimedOut(a) PROVE SlvPlaces'
  BY <1>12 DEF TimedOut
<1>13. CASE MicChunk \/ WakeUp \/ EventOfNewSession \/ SessionComplete \/ ReaderExited
  <2>1. UNCHANGED <<connection, lockVars, sessionVars, openVars>>
    BY <1>13 DEF MicChunk, WakeUp, EventOfNewSession, SessionComplete, ReaderExited, Begin
  <2> QED  BY <2>1
<1>14. CASE StaleDone \/ FindGone \/ Close
  BY <1>14 DEF StaleDone, FindGone, Close
<1>15. ASSUME NEW n \in Sockets, SocketDies(n) \/ ReaderEnds(n) PROVE SlvPlaces'
  BY <1>15 DEF SocketDies, ReaderEnds
<1> QED  BY <1>1, <1>2, <1>3, <1>4, <1>5, <1>6, <1>7, <1>8, <1>9, <1>10, <1>11, <1>12, <1>13, <1>14, <1>15
         DEF SlvNext, Step

(* ... of the calls, ...                                                  *)
LEMMA SlvCallsStep == ASSUME SlvInv, SlvNext PROVE SlvCalls'
<1> USE DEF SlvInv, SlvCalls, Awaits, Calls, Goto, Return
<1>1. ASSUME NEW a \in Tasks, Step(a) \/ TimedOut(a) PROVE SlvCalls'
  BY <1>1 DEF Step, TimedOut, EnterReconnect, TearDown, EnterSend, BeginAttempt, Dialed, DialFails,
     Configured, ConfigFails, GraceOver, GraceDied, Send, NextAttempt, AfterOpen
<1>2. CASE MicChunk \/ WakeUp \/ EventOfNewSession \/ SessionComplete \/ ReaderExited
  BY <1>2 DEF MicChunk, WakeUp, EventOfNewSession, SessionComplete, ReaderExited, Begin
<1>3. CASE StaleDone \/ FindGone \/ Close
  BY <1>3 DEF StaleDone, FindGone, Close
<1>4. ASSUME NEW n \in Sockets, SocketDies(n) \/ ReaderEnds(n) PROVE SlvCalls'
  BY <1>4 DEF SocketDies, ReaderEnds
<1> QED  BY <1>1, <1>2, <1>3, <1>4 DEF SlvNext

(* ... the lock with the call that holds it, ...                          *)
LEMMA SlvLockStep == ASSUME SlvInv, SlvNext PROVE LockIsWhereItIs'
<1> USE DEF SlvInv, SlvPlaces, SlvCalls, LockIsWhereItIs, Tasks, Awaits, Holding, Free
<1> USE DEF Goto, Release, Return, lockVars, openVars
<1>1. ASSUME NEW a \in Tasks PROVE EnterReconnect(a) \/ TearDown(a) \/ EnterSend(a) => LockIsWhereItIs'
  BY DEF EnterReconnect, TearDown, EnterSend
<1>2. ASSUME NEW a \in Tasks PROVE BeginAttempt(a) \/ Dialed(a) \/ DialFails(a) => LockIsWhereItIs'
  BY DEF BeginAttempt, Dialed, DialFails
<1>3. ASSUME NEW a \in Tasks PROVE Configured(a) \/ ConfigFails(a) => LockIsWhereItIs'
  BY DEF Configured, ConfigFails, NextAttempt
<1>4. ASSUME NEW a \in Tasks PROVE GraceOver(a) \/ GraceDied(a) => LockIsWhereItIs'
  BY DEF GraceOver, GraceDied, NextAttempt, AfterOpen
<1>5. ASSUME NEW a \in Tasks PROVE Send(a) \/ TimedOut(a) => LockIsWhereItIs'
  BY DEF Send, TimedOut
<1>6. CASE MicChunk \/ WakeUp \/ EventOfNewSession \/ SessionComplete \/ ReaderExited
  BY <1>6 DEF MicChunk, WakeUp, EventOfNewSession, SessionComplete, ReaderExited, Begin
<1>7. CASE StaleDone \/ FindGone \/ Close
  BY <1>7 DEF StaleDone, FindGone, Close
<1>8. ASSUME NEW n \in Sockets, SocketDies(n) \/ ReaderEnds(n) PROVE LockIsWhereItIs'
  BY <1>8 DEF SocketDies, ReaderEnds
<1> QED  BY <1>1, <1>2, <1>3, <1>4, <1>5, <1>6, <1>7, <1>8 DEF SlvNext, Step

(* ... the one socket that may be open, ...                               *)
LEMMA SlvSocketStep == ASSUME SlvInv, SlvNext PROVE OnlyTheCurrentLives'
<1> USE DEF SlvInv, SlvPlaces, SlvCalls, OnlyTheCurrentLives, LockIsWhereItIs, Tasks, Awaits, Holding, Free, Sockets, NoSocket
<1> USE DEF Goto, Release, Return, lockVars, connection
<1>1. ASSUME NEW a \in Tasks PROVE EnterReconnect(a) \/ TearDown(a) \/ EnterSend(a) => OnlyTheCurrentLives'
  BY DEF EnterReconnect, TearDown, EnterSend
<1>2. ASSUME NEW a \in Tasks PROVE BeginAttempt(a) \/ DialFails(a) => OnlyTheCurrentLives'
  BY DEF BeginAttempt, DialFails
<1>9. ASSUME NEW a \in Tasks, Dialed(a) PROVE OnlyTheCurrentLives'
  <2>3. ws = 0 /\ 0 \notin live
    BY <1>9, SlvAssumption DEF Dialed
  <2>4. live = {}
    BY <2>3
  <2>1. live' = {opened + 1} /\ ws' = opened + 1
    BY <1>9, <2>4 DEF Dialed
  <2>2. \A b \in Tasks : at'[b] \notin {"pause", "dialing"}
    BY <1>9 DEF Dialed
  <2> QED  BY <2>1, <2>2
<1>3. ASSUME NEW a \in Tasks PROVE Configured(a) \/ ConfigFails(a) => OnlyTheCurrentLives'
  BY DEF Configured, ConfigFails, NextAttempt
<1>4. ASSUME NEW a \in Tasks PROVE GraceOver(a) \/ GraceDied(a) => OnlyTheCurrentLives'
  BY DEF GraceOver, GraceDied, NextAttempt, AfterOpen
<1>5. ASSUME NEW a \in Tasks PROVE Send(a) \/ TimedOut(a) => OnlyTheCurrentLives'
  BY DEF Send, TimedOut
<1>6. CASE MicChunk \/ WakeUp \/ EventOfNewSession \/ SessionComplete \/ ReaderExited
  BY <1>6 DEF MicChunk, WakeUp, EventOfNewSession, SessionComplete, ReaderExited, Begin
<1>7. CASE StaleDone \/ FindGone \/ Close
  BY <1>7 DEF StaleDone, FindGone, Close
<1>8. ASSUME NEW n \in Sockets, SocketDies(n) \/ ReaderEnds(n) PROVE OnlyTheCurrentLives'
  BY <1>8 DEF SocketDies, ReaderEnds
<1> QED  BY <1>1, <1>2, <1>3, <1>4, <1>5, <1>6, <1>7, <1>8, <1>9 DEF SlvNext, Step

(* ... the generations and the attempts, ...                              *)
LEMMA SlvCountStep == ASSUME SlvInv, SlvNext PROVE SlvCounts'
<1> USE SlvAssumption DEF SlvInv, SlvPlaces, SlvCalls, SlvCounts, LockIsWhereItIs, Tasks, Awaits, Holding, Free
<1> USE DEF Goto, Release, Return, lockVars, connection, sessionVars, openVars
<1>1. ASSUME NEW a \in Tasks PROVE EnterReconnect(a) \/ TearDown(a) \/ EnterSend(a) => SlvCounts'
  BY DEF EnterReconnect, TearDown, EnterSend
<1>2. ASSUME NEW a \in Tasks PROVE BeginAttempt(a) \/ Dialed(a) \/ DialFails(a) => SlvCounts'
  BY DEF BeginAttempt, Dialed, DialFails
<1>3. ASSUME NEW a \in Tasks PROVE Configured(a) \/ ConfigFails(a) => SlvCounts'
  BY DEF Configured, ConfigFails, NextAttempt
<1>4. ASSUME NEW a \in Tasks PROVE GraceOver(a) \/ GraceDied(a) => SlvCounts'
  BY DEF GraceOver, GraceDied, NextAttempt, AfterOpen
<1>5. ASSUME NEW a \in Tasks PROVE Send(a) \/ TimedOut(a) => SlvCounts'
  BY DEF Send, TimedOut
<1>6. CASE MicChunk \/ WakeUp \/ EventOfNewSession \/ SessionComplete \/ ReaderExited
  BY <1>6 DEF MicChunk, WakeUp, EventOfNewSession, SessionComplete, ReaderExited, Begin
<1>7. CASE StaleDone \/ FindGone \/ Close
  BY <1>7 DEF StaleDone, FindGone, Close
<1>8. ASSUME NEW n \in Sockets, SocketDies(n) \/ ReaderEnds(n) PROVE SlvCounts'
  BY <1>8 DEF SocketDies, ReaderEnds
<1> QED  BY <1>1, <1>2, <1>3, <1>4, <1>5, <1>6, <1>7, <1>8 DEF SlvNext, Step

(* ... somebody who hears the end of a session, ...                       *)
LEMMA SlvListenStep == ASSUME SlvInv, SlvNext PROVE SomebodyListens'
<1> USE DEF SlvInv, SlvFlags, SlvPlaces, SlvCalls, SomebodyListens, ReaderRuns, LockIsWhereItIs, Tasks, Awaits, Holding, Free
<1> USE DEF Goto, Release, Return, lockVars, connection, sessionVars, openVars
<1>1. ASSUME NEW a \in Tasks PROVE EnterReconnect(a) \/ EnterSend(a) => SomebodyListens'
  BY DEF EnterReconnect, EnterSend
<1>9. ASSUME NEW a \in Tasks, TearDown(a) PROVE SomebodyListens'
  <2>1. closed \/ cut = "early" \/ ReaderRuns \/ readerDone
    BY <1>9 DEF TearDown
  <2>2. (ReaderRuns \/ readerDone) => readerDone'
    BY <1>9 DEF TearDown
  <2>3. closed' = closed /\ cut' = cut
    BY <1>9 DEF TearDown
  <2> QED  BY <2>1, <2>2, <2>3
<1>2. ASSUME NEW a \in Tasks PROVE BeginAttempt(a) \/ Dialed(a) \/ DialFails(a) => SomebodyListens'
  BY DEF BeginAttempt, Dialed, DialFails
<1>3. ASSUME NEW a \in Tasks PROVE Configured(a) \/ ConfigFails(a) => SomebodyListens'
  BY DEF Configured, ConfigFails, NextAttempt
<1>4. ASSUME NEW a \in Tasks PROVE GraceOver(a) \/ GraceDied(a) => SomebodyListens'
  BY DEF GraceOver, GraceDied, NextAttempt, AfterOpen
<1>5. ASSUME NEW a \in Tasks, Send(a) PROVE SomebodyListens'
  BY <1>5 DEF Send
<1>10. ASSUME NEW a \in Tasks, TimedOut(a) PROVE SomebodyListens'
  <2>1. CASE at[a] \in {"dialing", "config"}
    BY <1>10, <2>1 DEF TimedOut
  <2>2. CASE at[a] \notin {"dialing", "config"}
    <3>1. cut = "early" => cut' = "early"
      BY <1>10, <2>2 DEF TimedOut
    <3>2. \A b \in Tasks : at[b] \in {"dialing", "config"} => at'[b] \in {"dialing", "config"}
      BY <1>10, <2>2 DEF TimedOut
    <3>3. UNCHANGED <<readerTask, reading, readerDone, closed>>
      BY <1>10 DEF TimedOut
    <3> QED  BY <3>1, <3>2, <3>3
  <2> QED  BY <2>1, <2>2
<1>6. CASE MicChunk \/ WakeUp \/ EventOfNewSession \/ SessionComplete \/ ReaderExited
  BY <1>6 DEF MicChunk, WakeUp, EventOfNewSession, SessionComplete, ReaderExited, Begin
<1>7. CASE StaleDone \/ FindGone \/ Close
  BY <1>7 DEF StaleDone, FindGone, Close
<1>8. ASSUME NEW n \in Sockets, SocketDies(n) \/ ReaderEnds(n) PROVE SomebodyListens'
  BY <1>8 DEF SocketDies, ReaderEnds
<1> QED  BY <1>1, <1>2, <1>3, <1>4, <1>5, <1>6, <1>7, <1>8, <1>9, <1>10 DEF SlvNext, Step

(* ... and the tools with their session.                                  *)
LEMMA SlvToolStep == ASSUME SlvInv, SlvNext PROVE ToolsAreOut'
<1> USE DEF SlvInv, SlvFlags, SlvPlaces, SlvCalls, SlvCounts, ToolsAreOut, ReaderRuns, LockIsWhereItIs, OnlyTheCurrentLives, Tasks, Awaits, Holding, Free, NoSocket
<1> USE DEF Goto, Release, Return, lockVars, connection, sessionVars, openVars
<1>1. ASSUME NEW a \in Tasks PROVE EnterReconnect(a) \/ TearDown(a) \/ EnterSend(a) => ToolsAreOut'
  BY DEF EnterReconnect, TearDown, EnterSend
<1>2. ASSUME NEW a \in Tasks PROVE BeginAttempt(a) \/ Dialed(a) \/ DialFails(a) => ToolsAreOut'
  BY DEF BeginAttempt, Dialed, DialFails
<1>3. ASSUME NEW a \in Tasks PROVE Configured(a) \/ ConfigFails(a) => ToolsAreOut'
  BY DEF Configured, ConfigFails, NextAttempt
<1>4. ASSUME NEW a \in Tasks PROVE GraceOver(a) \/ GraceDied(a) => ToolsAreOut'
  BY DEF GraceOver, GraceDied, NextAttempt, AfterOpen
<1>5. ASSUME NEW a \in Tasks PROVE Send(a) \/ TimedOut(a) => ToolsAreOut'
  BY DEF Send, TimedOut
<1>6. CASE MicChunk \/ WakeUp \/ EventOfNewSession \/ SessionComplete \/ ReaderExited
  BY <1>6 DEF MicChunk, WakeUp, EventOfNewSession, SessionComplete, ReaderExited, Begin
<1>7. CASE StaleDone \/ FindGone \/ Close
  BY <1>7 DEF StaleDone, FindGone, Close
<1>8. ASSUME NEW n \in Sockets, SocketDies(n) \/ ReaderEnds(n) PROVE ToolsAreOut'
  BY <1>8 DEF SocketDies, ReaderEnds
<1> QED  BY <1>1, <1>2, <1>3, <1>4, <1>5, <1>6, <1>7, <1>8 DEF SlvNext, Step

(* The transport (slv_client.py): for any number of attempts and sockets, *)
(* and wherever a timeout cancels a call, the client has at most one live *)
(* session, its dispatch loop hears the end of it, and tools taken for    *)
(* advertised were sent to the session in use.                            *)
THEOREM TransportSound == SlvSpec => []TransportIsSound
<1>1. SlvInit => SlvInv
  <2> SUFFICES ASSUME SlvInit PROVE SlvInv
    OBVIOUS
  <2> USE SlvAssumption DEF SlvInit
  <2>1. SlvFlags
    BY DEF SlvFlags
  <2>2. SlvPlaces /\ SlvCalls
    BY DEF SlvPlaces, SlvCalls, Sockets, Awaits, Calls
  <2>3. SlvCounts
    BY DEF SlvCounts
  <2>4. LockIsWhereItIs /\ OnlyTheCurrentLives
    BY DEF LockIsWhereItIs, OnlyTheCurrentLives, Tasks, Free, Holding
  <2>5. SomebodyListens /\ ToolsAreOut
    BY DEF SomebodyListens, ToolsAreOut, ReaderRuns
  <2> QED  BY <2>1, <2>2, <2>3, <2>4, <2>5 DEF SlvInv
<1>2. SlvInv /\ [SlvNext]_slvVars => SlvInv'
  <2> SUFFICES ASSUME SlvInv, [SlvNext]_slvVars PROVE SlvInv'
    OBVIOUS
  <2>1. CASE SlvNext
    BY <2>1, SlvFlagsStep, SlvPlacesStep, SlvCallsStep, SlvCountStep, SlvLockStep, SlvSocketStep, SlvListenStep, SlvToolStep DEF SlvInv
  <2>2. CASE UNCHANGED slvVars
    BY <2>2 DEF SlvInv, SlvFlags, SlvPlaces, SlvCalls, SlvCounts, LockIsWhereItIs, OnlyTheCurrentLives,
       SomebodyListens, ToolsAreOut, ReaderRuns, slvVars, connection, lockVars, sessionVars, openVars
  <2> QED  BY <2>1, <2>2
<1> QED  BY <1>1, <1>2, SlvFacts, PTL DEF SlvSpec

-----------------------------------------------------------------------------
(* The conversation.                                                        *)

(* Types of the flags, ...                                                *)
ConvFlags ==
  /\ single \in BOOLEAN /\ gated \in BOOLEAN /\ eosSent \in BOOLEAN /\ asrWd \in BOOLEAN
  /\ sleepTimer \in BOOLEAN /\ wakeTimeout \in BOOLEAN /\ waking \in BOOLEAN
  /\ llmTurn \in BOOLEAN /\ firstTts \in BOOLEAN /\ retry \in BOOLEAN
  /\ reply \in BOOLEAN /\ promised \in BOOLEAN /\ draining \in BOOLEAN

(* ... of the handler in the middle of its work, ...                      *)
HandlerType ==
  handler \in {NoHandler, <<"barge">>, <<"error", TRUE>>, <<"error", FALSE>>}
              \cup ({"final"} \X Finals \X BOOLEAN)

(* ... and of the rest.                                                   *)
ConvPlaces ==
  /\ conv \in States
  /\ thinkWd \in {"off", "armed", "fired"}
  /\ sleepers \subseteq {"timer", "admin"}
  /\ vad \in {"idle", "speech"} /\ pump \in Pumps

(* A command window exists in single-turn mode only, and the gate path    *)
(* only with the gate.                                                    *)
ModesHold ==
  /\ wakeTimeout => single
  /\ pump = "eos" => gated

(* Stronger than VadThinkingIsWatched, and inductive: of all who may end  *)
(* THINKING, the thinking watchdog, an announced reply, a playback drain  *)
(* or the handler of an error received in that state is there.            *)
ThinkingHasAnEnd ==
  ~gated /\ ~single /\ conv = "THINKING"
    => thinkWd # "off" \/ promised \/ draining \/ handler = <<"error", FALSE>>

(* The inductive invariant.                                               *)
ConvInv ==
  /\ ConvFlags /\ HandlerType /\ ConvPlaces
  /\ ModesHold /\ ThinkingHasAnEnd /\ BargedInIsQuiet

(* The handler of that error is none of the others.                       *)
LEMMA HandlersDiffer ==
  ASSUME NEW final, NEW latched
  PROVE  <<"error", FALSE>> \notin {NoHandler, <<"barge">>, <<"error", TRUE>>, <<"final", final, latched>>}
<1>1. <<"error", FALSE>> # <<"none">>
  OBVIOUS
<1>2. <<"error", FALSE>> # <<"barge">>
  OBVIOUS
<1>3. <<"error", FALSE>> # <<"error", TRUE>>
  OBVIOUS
<1>4. <<"final", final, latched>>[1] # <<"error", FALSE>>[1]
  OBVIOUS
<1> QED  BY <1>1, <1>2, <1>3, <1>4 DEF NoHandler

(* The invariant implies what the run checks.                             *)
LEMMA ConvFacts == ConvInv => ConversationIsSound
<1> SUFFICES ASSUME ConvInv PROVE ConversationIsSound
  OBVIOUS
<1>1. {single, gated, eosSent, asrWd, sleepTimer, wakeTimeout, waking, llmTurn, draining, firstTts, retry,
       reply, promised} \subseteq BOOLEAN
  BY Zenon DEF ConvInv, ConvFlags
<1>2. ConvTypeOK
  BY <1>1 DEF ConvInv, HandlerType, ConvPlaces, ModesHold, ConvTypeOK
<1>3. <<"error", FALSE>> # NoHandler
  BY DEF NoHandler
<1>4. VadThinkingIsWatched
  BY <1>3 DEF ConvInv, ThinkingHasAnEnd, VadThinkingIsWatched, Watched
<1> QED  BY <1>2, <1>4 DEF ConvInv, ConversationIsSound

(* Every step keeps the types of the flags, ...                           *)
LEMMA ConvFlagsStep == ASSUME ConvInv, ConvNext PROVE ConvFlags'
<1> USE DEF ConvInv, ConvFlags, config, turn, timers, places
<1>1. CASE SleepTimeout
  BY <1>1 DEF SleepTimeout
<1>2. CASE WakeCommandTimeout
  BY <1>2 DEF WakeCommandTimeout
<1>3. CASE AsrFinalTimeout
  BY <1>3 DEF AsrFinalTimeout, NoFinalFeedback, ReturnToSleep, StopSleepTimer, Promise
<1>4. CASE ThinkingTimeout
  BY <1>4 DEF ThinkingTimeout
<1>5. CASE WakeEnds \/ WakeRefused
  BY <1>5, ZenonT(40) DEF WakeEnds, WakeRefused, ResetSleepTimer, Promise
<1>6. CASE ThinkingRecovered
  BY <1>6 DEF ThinkingRecovered, ResetSleepTimer, Promise
<1>7. CASE GateThinks \/ BargeEnds
  BY <1>7, ZenonT(40) DEF GateThinks, BargeEnds
<1>8. CASE ErrorHandled
  BY <1>8 DEF ErrorHandled, Promise
<1>9. CASE NoiseFinal
  BY <1>9, ZenonT(40) DEF NoiseFinal, NoFinalFeedback, ReturnToSleep, StopSleepTimer, EnsureSleepTimer, Promise
<1>10. CASE RealFinal
  BY <1>10 DEF RealFinal
<1>11. CASE StopFinal
  BY <1>11 DEF StopFinal, ResetSleepTimer, Promise
<1>12. CASE WakeBegins \/ AdminSleep
  BY <1>12, ZenonT(40) DEF WakeBegins, AdminSleep
<1>13. CASE EosSent
  BY <1>13 DEF EosSent
<1>14. CASE SpeechEnds \/ BargeIn
  BY <1>14, ZenonT(90) DEF SpeechEnds, BargeIn
<1>24. CASE SpeechEos
  BY <1>24 DEF SpeechEos
<1>25. CASE SpeechThinks
  BY <1>25 DEF SpeechThinks
<1>26. CASE PlaybackDrained
  BY <1>26 DEF PlaybackDrained, CompleteTurn, ResetSleepTimer, StopSleepTimer, Promise
<1>15. CASE DuplicateFinal
  BY <1>15 DEF DuplicateFinal, ResetSleepTimer, Promise
<1>16. CASE ReplyAnnounced \/ TtsAudio
  BY <1>16, ZenonT(40) DEF ReplyAnnounced, TtsAudio, Promise
<1>17. ASSUME NEW b \in BOOLEAN, ReplyDone(b) PROVE ConvFlags'
  BY <1>17 DEF ReplyDone, CompleteTurn, ResetSleepTimer, StopSleepTimer, Promise
<1>18. CASE ToolBoundary \/ ErrorArrives
  BY <1>18, ZenonT(40) DEF ToolBoundary, ErrorArrives
<1>19. CASE Reconnected \/ TurnFails
  BY <1>19 DEF Reconnected, TurnFails, ResetSleepTimer, Promise
<1>20. ASSUME NEW who \in {"timer", "admin"}, SleepEnds(who) PROVE ConvFlags'
  BY <1>20 DEF SleepEnds, Promise
<1>21. ASSUME NEW b \in BOOLEAN, SpeechStarts(b) PROVE ConvFlags'
  BY <1>21 DEF SpeechStarts, Promise
<1>22. ASSUME NEW b \in BOOLEAN, TurnSpeaks(b) PROVE ConvFlags'
  BY <1>22 DEF TurnSpeaks
<1>23. ASSUME NEW final \in Finals, FinalArrives(final) PROVE ConvFlags'
  BY <1>23 DEF FinalArrives
<1> QED  BY <1>1, <1>2, <1>3, <1>4, <1>5, <1>6, <1>7, <1>8, <1>9, <1>10, <1>11, <1>12, <1>13, <1>14, <1>15,
            <1>16, <1>17, <1>18, <1>19, <1>20, <1>21, <1>22, <1>23, <1>24,
            <1>25, <1>26 DEF ConvNext, Finishes, Timeouts

(* ... of the handler, ...                                                *)
LEMMA ConvHandlerStep == ASSUME ConvInv, ConvNext PROVE HandlerType'
<1> USE DEF ConvInv, HandlerType, places
<1>1. CASE Timeouts
  <2>1. UNCHANGED handler
    BY <1>1 DEF Timeouts, SleepTimeout, WakeCommandTimeout, AsrFinalTimeout, ThinkingTimeout
  <2> QED  BY <2>1
<1>2. CASE WakeEnds \/ WakeRefused \/ ThinkingRecovered \/ GateThinks \/ SpeechEos \/ SpeechThinks \/ BargeEnds \/ ErrorHandled
           \/ (\E who \in {"timer", "admin"} : SleepEnds(who)) \/ NoiseFinal \/ RealFinal \/ StopFinal
  <2>1. handler' \in {handler, NoHandler}
    BY <1>2 DEF WakeEnds, WakeRefused, ThinkingRecovered, GateThinks, SpeechEos, SpeechThinks, BargeEnds, ErrorHandled, SleepEnds,
       NoiseFinal, RealFinal, StopFinal
  <2> QED  BY <2>1
<1>3. CASE WakeBegins \/ AdminSleep \/ EosSent \/ SpeechEnds \/ DuplicateFinal \/ ReplyAnnounced
           \/ TtsAudio \/ PlaybackDrained \/ ToolBoundary \/ Reconnected \/ TurnFails
  <2>1. UNCHANGED handler
    BY <1>3 DEF WakeBegins, AdminSleep, EosSent, SpeechEnds, DuplicateFinal, ReplyAnnounced,
       TtsAudio, PlaybackDrained, CompleteTurn, ToolBoundary, Reconnected, TurnFails
  <2> QED  BY <2>1
<1>4. CASE BargeIn
  BY <1>4 DEF BargeIn
<1>5. CASE ErrorArrives
  <2>1. handler' = <<"error", TRUE>> \/ handler' = <<"error", FALSE>>
    BY <1>5, (conv = "SLEEPING") = TRUE \/ (conv = "SLEEPING") = FALSE DEF ErrorArrives
  <2> QED  BY <2>1
<1>6. ASSUME NEW b \in BOOLEAN, SpeechStarts(b) \/ ReplyDone(b) \/ TurnSpeaks(b) PROVE HandlerType'
  <2>1. UNCHANGED handler
    BY <1>6 DEF SpeechStarts, ReplyDone, CompleteTurn, TurnSpeaks
  <2> QED  BY <2>1
<1>7. ASSUME NEW final \in Finals, FinalArrives(final) PROVE HandlerType'
  BY <1>7 DEF FinalArrives, ConvFlags
<1> QED  BY <1>1, <1>2, <1>3, <1>4, <1>5, <1>6, <1>7 DEF ConvNext, Finishes

(* ... and of the rest, ...                                               *)
LEMMA ConvPlacesStep == ASSUME ConvInv, ConvNext PROVE ConvPlaces'
<1> USE DEF ConvInv, ConvPlaces, States, Pumps, config, turn, timers, places
<1>1. CASE Timeouts
  BY <1>1 DEF Timeouts, SleepTimeout, WakeCommandTimeout, AsrFinalTimeout, ThinkingTimeout, NoFinalFeedback,
     ReturnToSleep, StopSleepTimer
<1>2. CASE WakeEnds \/ WakeRefused \/ ThinkingRecovered \/ GateThinks \/ SpeechEos \/ SpeechThinks \/ BargeEnds \/ ErrorHandled
           \/ (\E who \in {"timer", "admin"} : SleepEnds(who))
  BY <1>2 DEF WakeEnds, WakeRefused, ThinkingRecovered, GateThinks, SpeechEos, SpeechThinks, BargeEnds, ErrorHandled, SleepEnds,
     ResetSleepTimer
<1>3. CASE NoiseFinal \/ RealFinal \/ StopFinal
  BY <1>3 DEF NoiseFinal, RealFinal, StopFinal, NoFinalFeedback, ReturnToSleep, StopSleepTimer,
     EnsureSleepTimer, ResetSleepTimer
<1>4. CASE WakeBegins \/ AdminSleep \/ EosSent \/ SpeechEnds \/ BargeIn \/ DuplicateFinal \/ ReplyAnnounced
           \/ TtsAudio
  BY <1>4 DEF WakeBegins, AdminSleep, EosSent, SpeechEnds, BargeIn, DuplicateFinal, ReplyAnnounced, TtsAudio,
     ResetSleepTimer
<1>5. CASE PlaybackDrained \/ ToolBoundary \/ ErrorArrives \/ Reconnected \/ TurnFails
  BY <1>5 DEF PlaybackDrained, CompleteTurn, ToolBoundary, ErrorArrives, Reconnected, TurnFails, ResetSleepTimer,
     StopSleepTimer
<1>6. ASSUME NEW b \in BOOLEAN, SpeechStarts(b) \/ TurnSpeaks(b) PROVE ConvPlaces'
  BY <1>6 DEF SpeechStarts, TurnSpeaks
<1>8. ASSUME NEW b \in BOOLEAN, ReplyDone(b) PROVE ConvPlaces'
  BY <1>8 DEF ReplyDone, CompleteTurn, ResetSleepTimer, StopSleepTimer
<1>7. ASSUME NEW final \in Finals, FinalArrives(final) PROVE ConvPlaces'
  BY <1>7 DEF FinalArrives
<1> QED  BY <1>1, <1>2, <1>3, <1>4, <1>5, <1>6, <1>7, <1>8 DEF ConvNext, Finishes

(* ... the modes, ...                                                     *)
LEMMA ConvModesStep == ASSUME ConvInv, ConvNext PROVE ModesHold' /\ UNCHANGED <<single, gated>>
<1> USE DEF ConvInv, ConvPlaces, ConvFlags, ModesHold, config, turn, timers, places
<1> DEFINE Goal == ModesHold' /\ UNCHANGED <<single, gated>>
<1>1. CASE Timeouts
  BY <1>1 DEF Timeouts, SleepTimeout, WakeCommandTimeout, AsrFinalTimeout, ThinkingTimeout, NoFinalFeedback,
     ReturnToSleep
<1>2. CASE WakeEnds \/ WakeRefused \/ ThinkingRecovered \/ GateThinks \/ SpeechEos \/ SpeechThinks
  BY <1>2 DEF WakeEnds, WakeRefused, ThinkingRecovered, GateThinks, SpeechEos, SpeechThinks
<1>8. CASE BargeEnds
  BY <1>8 DEF BargeEnds
<1>11. CASE ErrorHandled
  BY <1>11 DEF ErrorHandled
<1>10. ASSUME NEW who \in {"timer", "admin"}, SleepEnds(who) PROVE Goal
  BY <1>10 DEF SleepEnds
<1>3. CASE NoiseFinal
  BY <1>3 DEF NoiseFinal, NoFinalFeedback, ReturnToSleep
<1>9. CASE RealFinal \/ StopFinal
  BY <1>9 DEF RealFinal, StopFinal
<1>4. CASE WakeBegins \/ AdminSleep \/ EosSent \/ SpeechEnds \/ BargeIn \/ DuplicateFinal \/ ReplyAnnounced
           \/ TtsAudio
  BY <1>4 DEF WakeBegins, AdminSleep, EosSent, SpeechEnds, BargeIn, DuplicateFinal, ReplyAnnounced, TtsAudio
<1>5. CASE PlaybackDrained \/ ToolBoundary \/ ErrorArrives \/ Reconnected \/ TurnFails
  BY <1>5 DEF PlaybackDrained, CompleteTurn, ToolBoundary, ErrorArrives, Reconnected, TurnFails
<1>6. ASSUME NEW b \in BOOLEAN, SpeechStarts(b) \/ ReplyDone(b) \/ TurnSpeaks(b) PROVE Goal
  BY <1>6 DEF SpeechStarts, ReplyDone, CompleteTurn, TurnSpeaks
<1>7. ASSUME NEW final \in Finals, FinalArrives(final) PROVE Goal
  BY <1>7 DEF FinalArrives
<1> QED  BY <1>1, <1>2, <1>3, <1>4, <1>5, <1>6, <1>7, <1>8, <1>9, <1>10, <1>11 DEF ConvNext, Finishes

(* ... somebody who ends THINKING, ...                                    *)
LEMMA ConvThinkingStep == ASSUME ConvInv, ConvNext PROVE ThinkingHasAnEnd'
<1> SUFFICES ASSUME ~gated, ~single, ~wakeTimeout, pump # "eos", conv' = "THINKING"
             PROVE  thinkWd' # "off" \/ promised' \/ draining' \/ handler' = <<"error", FALSE>>
  BY ConvModesStep DEF ThinkingHasAnEnd, ConvInv, ModesHold
<1> DEFINE Goal == thinkWd' # "off" \/ promised' \/ draining' \/ handler' = <<"error", FALSE>>
<1>0. conv = "THINKING" => thinkWd # "off" \/ promised \/ draining \/ handler = <<"error", FALSE>>
  BY DEF ConvInv, ThinkingHasAnEnd
<1> USE <1>0 DEF Promise, config, turn, timers, places, NoHandler
<1>1. CASE Timeouts
  BY <1>1 DEF Timeouts, SleepTimeout, WakeCommandTimeout, AsrFinalTimeout, ThinkingTimeout
<1>2. CASE WakeEnds \/ WakeRefused \/ ThinkingRecovered \/ GateThinks \/ SpeechEos \/ SpeechThinks
           \/ (\E who \in {"timer", "admin"} : SleepEnds(who))
  BY <1>2 DEF WakeEnds, WakeRefused, ThinkingRecovered, GateThinks, SpeechEos, SpeechThinks, SleepEnds
<1>9. CASE BargeEnds
  <2>1. UNCHANGED <<conv, thinkWd, promised, draining>> /\ (handler = <<"error", FALSE>> => UNCHANGED handler)
    BY <1>9, HandlersDiffer DEF BargeEnds
  <2> QED  BY <2>1
<1>3. CASE ErrorHandled
  <2>1. handler[2] /\ conv = "THINKING" /\ UNCHANGED <<thinkWd, draining>> /\ (promised' <=> promised)
    BY <1>3 DEF ErrorHandled
  <2>2. ASSUME handler = <<"error", FALSE>> PROVE FALSE
    <3>1. handler[2] = FALSE
      BY <2>2
    <3> QED  BY <2>1, <3>1
  <2> QED  BY <2>1, <2>2
<1>4. CASE NoiseFinal
  <2>1. handler # <<"error", FALSE>>
    BY <1>4, HandlersDiffer DEF NoiseFinal
  <2>2. conv = "THINKING" /\ UNCHANGED <<thinkWd, promised, draining>>
    BY <1>4 DEF NoiseFinal
  <2> QED  BY <2>1, <2>2
<1>10. CASE RealFinal \/ StopFinal
  BY <1>10 DEF RealFinal, StopFinal
<1>5. CASE WakeBegins \/ AdminSleep \/ EosSent \/ SpeechEnds \/ BargeIn \/ DuplicateFinal \/ ReplyAnnounced
           \/ TtsAudio
  BY <1>5 DEF WakeBegins, AdminSleep, EosSent, SpeechEnds, BargeIn, DuplicateFinal, ReplyAnnounced, TtsAudio
<1>6. CASE PlaybackDrained \/ ToolBoundary \/ ErrorArrives \/ Reconnected \/ TurnFails
  BY <1>6 DEF PlaybackDrained, CompleteTurn, ToolBoundary, ErrorArrives, Reconnected, TurnFails
<1>7. ASSUME NEW b \in BOOLEAN, SpeechStarts(b) \/ ReplyDone(b) \/ TurnSpeaks(b) PROVE Goal
  BY <1>7 DEF SpeechStarts, ReplyDone, CompleteTurn, TurnSpeaks
<1>8. ASSUME NEW final \in Finals, FinalArrives(final) PROVE Goal
  BY <1>8 DEF FinalArrives
<1> QED  BY <1>1, <1>2, <1>3, <1>4, <1>5, <1>6, <1>7, <1>8, <1>9, <1>10 DEF ConvNext, Finishes

(* ... and the silence of an interrupted turn.                            *)
LEMMA ConvQuietStep == ASSUME ConvInv, ConvNext PROVE BargedInIsQuiet'
<1> USE DEF ConvInv, ConvFlags, BargedInIsQuiet, config, turn, timers, places
<1>1. CASE Timeouts
  BY <1>1 DEF Timeouts, SleepTimeout, WakeCommandTimeout, AsrFinalTimeout, ThinkingTimeout, NoFinalFeedback,
     ReturnToSleep
<1>2. CASE WakeEnds \/ WakeRefused \/ ThinkingRecovered \/ GateThinks \/ SpeechEos \/ SpeechThinks \/ BargeEnds \/ ErrorHandled
           \/ (\E who \in {"timer", "admin"} : SleepEnds(who))
  BY <1>2 DEF WakeEnds, WakeRefused, ThinkingRecovered, GateThinks, SpeechEos, SpeechThinks, BargeEnds, ErrorHandled, SleepEnds
<1>3. CASE NoiseFinal \/ RealFinal \/ StopFinal
  BY <1>3 DEF NoiseFinal, RealFinal, StopFinal, NoFinalFeedback, ReturnToSleep
<1>4. CASE WakeBegins \/ AdminSleep \/ EosSent \/ SpeechEnds \/ BargeIn \/ DuplicateFinal \/ ReplyAnnounced
           \/ TtsAudio
  BY <1>4 DEF WakeBegins, AdminSleep, EosSent, SpeechEnds, BargeIn, DuplicateFinal, ReplyAnnounced, TtsAudio
<1>5. CASE PlaybackDrained \/ ToolBoundary \/ ErrorArrives \/ Reconnected \/ TurnFails
  BY <1>5 DEF PlaybackDrained, CompleteTurn, ToolBoundary, ErrorArrives, Reconnected, TurnFails
<1>6. ASSUME NEW b \in BOOLEAN, SpeechStarts(b) \/ ReplyDone(b) \/ TurnSpeaks(b) PROVE BargedInIsQuiet'
  BY <1>6 DEF SpeechStarts, ReplyDone, CompleteTurn, TurnSpeaks
<1>7. ASSUME NEW final \in Finals, FinalArrives(final) PROVE BargedInIsQuiet'
  BY <1>7 DEF FinalArrives
<1> QED  BY <1>1, <1>2, <1>3, <1>4, <1>5, <1>6, <1>7 DEF ConvNext, Finishes

(* Conversation state (app_base.py): with the client VAD and no command   *)
(* window, THINKING has somebody who will end it; in every mode a         *)
(* barge-in leaves no LLM turn running.                                   *)
THEOREM ConversationSound == ConvSpec => []ConversationIsSound
<1>1. ConvInit => ConvInv
  <2> SUFFICES ASSUME ConvInit PROVE ConvInv
    OBVIOUS
  <2>1. ConvFlags
    BY DEF ConvInit, ConvFlags
  <2>2. HandlerType
    BY DEF ConvInit, HandlerType
  <2>3. ConvPlaces
    BY DEF ConvInit, ConvPlaces, States, Pumps
  <2>4. ModesHold /\ ThinkingHasAnEnd /\ BargedInIsQuiet
    BY DEF ConvInit, ModesHold, ThinkingHasAnEnd, BargedInIsQuiet
  <2> QED  BY <2>1, <2>2, <2>3, <2>4 DEF ConvInv
<1>2. ConvInv /\ [ConvNext]_convVars => ConvInv'
  <2> SUFFICES ASSUME ConvInv, [ConvNext]_convVars PROVE ConvInv'
    OBVIOUS
  <2>1. CASE ConvNext
    BY <2>1, ConvFlagsStep, ConvHandlerStep, ConvPlacesStep, ConvModesStep, ConvThinkingStep, ConvQuietStep DEF ConvInv
  <2>2. CASE UNCHANGED convVars
    <3> USE <2>2 DEF ConvInv, convVars, timers
    <3>1. ConvFlags'
      BY DEF ConvFlags
    <3>2. HandlerType' /\ ConvPlaces'
      BY DEF HandlerType, ConvPlaces
    <3>3. ModesHold' /\ ThinkingHasAnEnd' /\ BargedInIsQuiet'
      BY DEF ModesHold, ThinkingHasAnEnd, BargedInIsQuiet
    <3> QED  BY <3>1, <3>2, <3>3
  <2> QED  BY <2>1, <2>2
<1> QED  BY <1>1, <1>2, ConvFacts, PTL DEF ConvSpec

(* With no handler, reply, drain, recovery, LLM turn or end of speech     *)
(* left in the middle of its await, only wake() ends SLEEPING (the        *)
(* SLEEPING gates of _dispatch_one and of the microphone pump).           *)
THEOREM SleepLasts == ConvSpec => QuietSleepLasts
<1> DEFINE Quiet == conv = "SLEEPING" /\ handler = NoHandler /\ ~reply /\ ~draining /\ thinkWd # "fired"
                      /\ pump = "free" /\ ~llmTurn
<1>1. ASSUME ConvNext, Quiet PROVE conv' = "SLEEPING" \/ waking
  <2> USE <1>1 DEF config, turn, timers, places, NoHandler
  <2>1. CASE Timeouts
    BY <2>1 DEF Timeouts, SleepTimeout, WakeCommandTimeout, AsrFinalTimeout, ThinkingTimeout
  <2>2. CASE WakeEnds \/ WakeRefused \/ ThinkingRecovered \/ GateThinks \/ SpeechEos \/ SpeechThinks \/ BargeEnds \/ ErrorHandled
             \/ (\E who \in {"timer", "admin"} : SleepEnds(who))
    BY <2>2 DEF WakeEnds, WakeRefused, ThinkingRecovered, GateThinks, SpeechEos, SpeechThinks, BargeEnds, ErrorHandled, SleepEnds
  <2>3. CASE NoiseFinal \/ RealFinal \/ StopFinal
    BY <2>3 DEF NoiseFinal, RealFinal, StopFinal
  <2>4. CASE WakeBegins \/ AdminSleep \/ EosSent \/ SpeechEnds \/ BargeIn \/ DuplicateFinal \/ ReplyAnnounced
             \/ TtsAudio
    BY <2>4 DEF WakeBegins, AdminSleep, EosSent, SpeechEnds, BargeIn, DuplicateFinal, ReplyAnnounced, TtsAudio
  <2>5. CASE PlaybackDrained \/ ToolBoundary \/ ErrorArrives \/ Reconnected \/ TurnFails
    BY <2>5 DEF PlaybackDrained, CompleteTurn, ToolBoundary, ErrorArrives, Reconnected, TurnFails
  <2>6. ASSUME NEW b \in BOOLEAN, SpeechStarts(b) \/ ReplyDone(b) \/ TurnSpeaks(b) PROVE conv' = "SLEEPING" \/ waking
    BY <2>6 DEF SpeechStarts, ReplyDone, CompleteTurn, TurnSpeaks
  <2>7. ASSUME NEW final \in Finals, FinalArrives(final) PROVE conv' = "SLEEPING" \/ waking
    BY <2>7 DEF FinalArrives
  <2> QED  BY <2>1, <2>2, <2>3, <2>4, <2>5, <2>6, <2>7 DEF ConvNext, Finishes
<1>2. [ConvNext]_convVars => [Quiet => conv' = "SLEEPING" \/ waking]_convVars
  BY <1>1
<1> QED  BY <1>2, PTL DEF ConvSpec, QuietSleepLasts

-----------------------------------------------------------------------------
(* The breaker.                                                             *)

(* Outside DOWN the model has answered at least once since it was DOWN.   *)
AnsweredOutsideDown == avail # "down" => confirms >= 1

(* The counters of the breaker, and what its state has to show for them.  *)
BreakerFacts ==
  /\ avail \in {"healthy", "degraded", "down", "recovering", "unknown"}
  /\ failures \in 0..FailuresToDown /\ unknowns \in 0..UnknownsToState /\ confirms \in 0..2
  /\ DownIsEarned /\ RecoveryIsConfirmed /\ AnsweredOutsideDown

(* The probes under way: one runs, the other waits for it; each saw a     *)
(* mode of the server.                                                    *)
CallFacts ==
  /\ server \in Modes
  /\ prober \in [Probers -> {"idle", "queued", "probing"}]
  /\ \A p \in Probers : prober[p] = "queued" => prober[Other(p)] = "probing"
  /\ seen \in [Probers \cup {"turn"} -> SUBSET Modes]
  /\ \A p \in Probers : (seen[p] # {}) = (prober[p] = "probing")
  /\ life \in {"new", "running", "stopped"}

(* The inductive invariant.                                               *)
BreakerInv == BreakerFacts /\ CallFacts

(* A reported outcome (_advance) keeps the counters in step with the      *)
(* state.                                                                 *)
LEMMA AdvanceKeepsBreaker ==
  ASSUME BreakerFacts, NEW ok \in BOOLEAN, Advance(ok), unknowns' \in 0..UnknownsToState
  PROVE  BreakerFacts'
<1> USE LlmAssumption DEF BreakerFacts, Advance, Least
<1>1. CASE ok
  BY <1>1 DEF AfterSuccess, DownIsEarned, RecoveryIsConfirmed, AnsweredOutsideDown
<1>2. CASE ~ok
  BY <1>2 DEF AfterFailure, DownIsEarned, RecoveryIsConfirmed, AnsweredOutsideDown
<1>3. QED
  BY <1>1, <1>2

(* So does a probe, also one that was cut off (unknown).                  *)
LEMMA ProbeKeepsBreaker ==
  ASSUME BreakerFacts, NEW mode \in Modes, ProbeResult(mode)
  PROVE  BreakerFacts'
<1>1. CASE mode = "cut"
  BY <1>1, LlmAssumption DEF ProbeResult, BreakerFacts, AfterUnknown, Least, DownIsEarned,
     RecoveryIsConfirmed, AnsweredOutsideDown
<1>2. CASE mode # "cut"
  <2>1. unknowns' \in 0..UnknownsToState /\ Advance(mode = "up")
    BY <1>2, LlmAssumption DEF ProbeResult
  <2>2. QED
    BY <2>1, AdvanceKeepsBreaker
<1>3. QED
  BY <1>1, <1>2

(* A probe that ends hands over to the one that waits.                    *)
LEMMA HandOverKeepsCalls ==
  ASSUME CallFacts, NEW p \in Probers, prober[p] = "probing", HandsOver(p), UNCHANGED server,
         life' \in {"new", "running", "stopped"}
  PROVE  CallFacts'
BY DEF CallFacts, HandsOver, Other, Probers, Modes

(* A new probe starts or queues.                                          *)
LEMMA AskKeepsCalls ==
  ASSUME CallFacts, NEW p \in Probers, Asks(p)
  PROVE  CallFacts'
BY DEF CallFacts, Asks, Other, Probers, Modes

(* Every step of the probes, the turns and the server keeps both.         *)
LEMMA LlmStep == BreakerInv /\ [LlmNext]_llmVars => BreakerInv'
<1> SUFFICES ASSUME BreakerFacts, CallFacts, [LlmNext]_llmVars
             PROVE  BreakerFacts' /\ CallFacts'
  BY DEF BreakerInv
<1> USE DEF DownIsEarned, RecoveryIsConfirmed, AnsweredOutsideDown
<1>1. CASE LoopAsks \/ ForceProbe
  BY <1>1, AskKeepsCalls DEF LoopAsks, ForceProbe, Asks, BreakerFacts, Probers
<1>2. ASSUME NEW p \in Probers, ProbeEnds(p) PROVE BreakerFacts' /\ CallFacts'
  <2>1. PICK mode \in seen[p] : ProbeResult(mode)
    BY <1>2 DEF ProbeEnds
  <2>2. mode \in Modes
    BY <2>1 DEF CallFacts
  <2>3. QED
    BY <1>2, <2>1, <2>2, ProbeKeepsBreaker, HandOverKeepsCalls DEF ProbeEnds, CallFacts
<1>3. CASE TurnStarts
  BY <1>3 DEF TurnStarts, BreakerFacts, CallFacts, Probers
<1>4. CASE TurnEnds
  <2>1. PICK mode \in seen["turn"] : Advance(mode = "up")
    BY <1>4 DEF TurnEnds
  <2>2. BreakerFacts'
    BY <1>4, <2>1, AdvanceKeepsBreaker DEF TurnEnds, BreakerFacts
  <2>3. CallFacts'
    BY <1>4 DEF TurnEnds, CallFacts, Probers
  <2>4. QED
    BY <2>2, <2>3
<1>5. CASE TurnCancelled
  BY <1>5 DEF TurnCancelled, BreakerFacts, CallFacts, Probers
<1>6. CASE ServerTurns
  BY <1>6 DEF ServerTurns, BreakerFacts, CallFacts, Probers
<1>7. CASE StartPlugin
  BY <1>7 DEF StartPlugin, BreakerFacts, CallFacts
<1>8. CASE StopPlugin
  <2>1. BreakerFacts'
    BY <1>8 DEF StopPlugin, BreakerFacts
  <2>2. CASE prober["loop"] = "probing"
    BY <1>8, <2>1, <2>2, HandOverKeepsCalls DEF StopPlugin, Probers
  <2>3. CASE prober["loop"] # "probing"
    BY <1>8, <2>1, <2>3 DEF StopPlugin, CallFacts, Probers, Other
  <2>4. QED
    BY <2>2, <2>3
<1>9. CASE UNCHANGED llmVars
  BY <1>9 DEF llmVars, BreakerFacts, CallFacts
<1>10. QED
  BY <1>1, <1>2, <1>3, <1>4, <1>5, <1>6, <1>7, <1>8, <1>9 DEF LlmNext

(* LLM availability (llm_availability.py): for any thresholds, DOWN is    *)
(* only reported after that many failures in a row, and left only for     *)
(* RECOVERING, after an answer.                                           *)
THEOREM BreakerCautious == LlmSpec => []BreakerIsCautious
<1>1. LlmInit => BreakerInv
  BY LlmAssumption DEF LlmInit, BreakerInv, BreakerFacts, CallFacts, DownIsEarned, RecoveryIsConfirmed,
     AnsweredOutsideDown, Probers, Modes
<1>2. BreakerInv => BreakerIsCautious
  BY DEF BreakerInv, BreakerFacts, CallFacts, LlmTypeOK, BreakerIsCautious
<1>3. QED
  BY <1>1, <1>2, LlmStep, PTL DEF LlmSpec

-----------------------------------------------------------------------------
(* The arm application.                                                     *)

(* Types of the flags, ...                                                *)
ArmFlags ==
  /\ published \in BOOLEAN /\ torque \in BOOLEAN /\ looping \in BOOLEAN
  /\ cancelEvent \in BOOLEAN /\ panelTorque \in BOOLEAN
  /\ graspTask \in BOOLEAN /\ graspCancel \in BOOLEAN

(* ... of the places, ...                                                 *)
ArmPositions ==
  /\ power \in {"none", "on", "off", "dead"}
  /\ conn \in {"retry", "called", "resolving", "energised", "handing", "over"}
  /\ plugin \in {"running", "joining", "stopping", "disconnecting", "teardown", "stopped"}
  /\ grasp \in {"idle", "step", "op", "park"} /\ kind \in {"grasp", "search", "put_down"}

(* ... and of the verify panel: a test sequence is announced exactly      *)
(* while it runs.                                                         *)
PanelFacts ==
  /\ seq \in [{"action", "test"} -> {"idle", "claimed", "start", "frame", "apply"}]
  /\ testRunning \in BOOLEAN
  /\ testRunning <=> seq["test"] # "idle"
  /\ toggle \in [BOOLEAN -> {"idle", "checked", "mirror"}]

(* The arm is published only when connecting is over, with torque, and by *)
(* the generation that connected it; while a connection is being made     *)
(* nobody else has it; what is not published is unpowered, except in      *)
(* teardown.                                                              *)
ConnectionFacts ==
  /\ connGen = 0
  /\ looping <=> plugin \in {"running", "joining", "stopping"}
  /\ generation = IF plugin \in {"teardown", "stopped"} THEN 1 ELSE 0
  /\ conn = "retry" => looping
  /\ published => conn = "over" /\ Powered /\ generation = 0
  /\ conn \in {"retry", "called", "resolving"} => power = "none"
  /\ conn \in {"energised", "handing"} => power = "on"
  /\ power = "dead" => plugin = "stopped"
  /\ plugin = "teardown" => conn = "over" /\ Powered
  /\ conn = "over" /\ ~published /\ plugin # "teardown" => ~Powered

(* A grasp runs exactly while its task is alive, and never beside a       *)
(* sequence.                                                              *)
GraspFacts == plugin = "running" => (grasp # "idle" <=> graspTask) /\ ~(seq["action"] # "idle" /\ graspTask)

(* The inductive invariant.                                               *)
ArmInv == ArmFlags /\ ArmPositions /\ PanelFacts /\ ConnectionFacts /\ GraspFacts /\ OnlySafeParkStrays

(* connect() in its thread, hand-over to the loop, and the hand-back when *)
(* the plugin was stopped meanwhile.                                      *)
LEMMA ConnectSteps ==
  ASSUME ArmInv, ConnectCalled \/ ConnectStep
  PROVE  ArmInv'
<1> USE DEF ArmInv, ConnectStep, ConnectCalled, ConnectEnters, ConnectFails, Energise, EnergisedFails, Publish, HandBack,
            arm, loop, panel, pick, Retried, Powered
<1>1. ArmFlags'
  BY DEF ArmFlags
<1>2. ArmPositions'
  BY DEF ArmPositions
<1>3. PanelFacts' /\ OnlySafeParkStrays'
  <2>1. UNCHANGED <<seq, testRunning, toggle, stray>>
    OBVIOUS
  <2>2. QED
    BY ONLY <2>1, ArmInv DEF ArmInv, PanelFacts, OnlySafeParkStrays
<1>4. ConnectionFacts'
  BY DEF ArmPositions, ConnectionFacts
<1>5. GraspFacts'
  BY DEF GraspFacts
<1>6. QED
  BY <1>1, <1>2, <1>3, <1>4, <1>5

(* The verify panel and the action plugin.                                *)
LEMMA PanelSteps ==
  ASSUME ArmInv,
         \/ DispatchAction \/ TestAction \/ TestStarts \/ CancelAction
         \/ \E t \in SequenceThreads : SeqStarts(t) \/ SeqFrame(t) \/ SeqApply(t)
         \/ \E on \in BOOLEAN : ToggleCalled(on) \/ SetTorque(on) \/ MirrorTorque(on)
  PROVE  ArmInv'
<1> USE DEF ArmInv, arm, loop, panel, pick, Powered, SequenceThreads
<1>1. CASE DispatchAction \/ TestAction \/ TestStarts \/ CancelAction
  <2>0. /\ UNCHANGED <<arm, loop, plugin, pick, stray, panelTorque, toggle>>
        /\ \/ ~BusyAction /\ seq' = [seq EXCEPT !["action"] = "start"] /\ UNCHANGED <<testRunning, cancelEvent>>
           \/ testRunning' = TRUE /\ seq' = [seq EXCEPT !["test"] = "claimed"] /\ UNCHANGED cancelEvent
           \/ /\ seq["test"] = "claimed" /\ seq' = [seq EXCEPT !["test"] = "start"] /\ UNCHANGED testRunning
              /\ cancelEvent' \in BOOLEAN
           \/ UNCHANGED <<seq, testRunning>> /\ cancelEvent' \in BOOLEAN
    BY <1>1 DEF DispatchAction, TestAction, TestStarts, CancelAction
  <2>1. ArmFlags' /\ ArmPositions'
    BY <2>0 DEF ArmFlags, ArmPositions
  <2>2. PanelFacts'
    <3>1. seq' \in [{"action", "test"} -> {"idle", "claimed", "start", "frame", "apply"}] /\ testRunning' \in BOOLEAN
      BY <2>0 DEF PanelFacts
    <3>2. testRunning' <=> seq'["test"] # "idle"
      BY <2>0 DEF PanelFacts
    <3>3. toggle' \in [BOOLEAN -> {"idle", "checked", "mirror"}]
      BY <2>0 DEF PanelFacts
    <3>4. QED
      BY <3>1, <3>2, <3>3 DEF PanelFacts
  <2>3. ConnectionFacts' /\ OnlySafeParkStrays'
    BY <2>0 DEF ConnectionFacts, OnlySafeParkStrays
  <2>4. GraspFacts'
    BY <2>0 DEF GraspFacts, PanelFacts, BusyAction
  <2>5. QED
    BY <2>1, <2>2, <2>3, <2>4
<1>2. ASSUME NEW t \in SequenceThreads, SeqStarts(t) \/ SeqFrame(t) \/ SeqApply(t) PROVE ArmInv'
  <2>1. UNCHANGED <<arm, loop, plugin, cancelEvent, panelTorque, toggle, pick>>
    BY <1>2 DEF SeqStarts, SeqFrame, SeqApply, SeqEnds
  <2>2. /\ \/ seq' = [seq EXCEPT ![t] = "idle"] /\ testRunning' = (testRunning /\ t # "test")
           \/ \E p \in {"frame", "apply"} : seq' = [seq EXCEPT ![t] = p] /\ testRunning' = testRunning
        /\ seq[t] \notin {"idle", "claimed"}
    BY <1>2 DEF SeqStarts, SeqFrame, SeqApply, SeqEnds
  <2>3. stray' = stray
    BY <1>2 DEF SeqStarts, SeqFrame, SeqApply, ConnectionFacts
  <2>4. ArmFlags' /\ ArmPositions'
    BY <2>1 DEF ArmFlags, ArmPositions
  <2>5. PanelFacts'
    <3>11. testRunning \in BOOLEAN
      BY DEF PanelFacts
    <3>12. t = "test" => (testRunning /\ t # "test") = FALSE
      OBVIOUS
    <3>13. t = "action" => (testRunning /\ t # "test") = testRunning
      BY <3>11
    <3>1. seq' \in [{"action", "test"} -> {"idle", "claimed", "start", "frame", "apply"}] /\ testRunning' \in BOOLEAN
      BY <2>2 DEF PanelFacts
    <3>2. testRunning' <=> seq'["test"] # "idle"
      <4>1. CASE t = "test"
        <5>1. CASE seq' = [seq EXCEPT ![t] = "idle"] /\ testRunning' = (testRunning /\ t # "test")
          <6>1. testRunning' = FALSE
            BY <3>12, <4>1, <5>1
          <6>2. seq'["test"] = "idle"
            BY <4>1, <5>1 DEF PanelFacts
          <6>3. QED
            BY <6>1, <6>2
        <5>2. CASE \E p \in {"frame", "apply"} : seq' = [seq EXCEPT ![t] = p] /\ testRunning' = testRunning
          <6>1. seq'["test"] \in {"frame", "apply"} /\ testRunning' = testRunning
            BY <4>1, <5>2 DEF PanelFacts
          <6>2. testRunning
            BY <2>2, <4>1 DEF PanelFacts
          <6>3. QED
            BY <6>1, <6>2
        <5>3. QED
          BY <2>2, <5>1, <5>2
      <4>2. CASE t = "action"
        <5>1. testRunning' <=> testRunning
          BY <2>2, <4>2, <3>13
        <5>2. seq'["test"] = seq["test"]
          BY <2>2, <4>2 DEF PanelFacts
        <5>3. QED
          BY <5>1, <5>2 DEF PanelFacts
      <4>3. QED
        BY <4>1, <4>2
    <3>3. toggle' \in [BOOLEAN -> {"idle", "checked", "mirror"}]
      BY <2>1 DEF PanelFacts
    <3>4. QED
      BY <3>1, <3>2, <3>3 DEF PanelFacts
  <2>6. ConnectionFacts' /\ OnlySafeParkStrays'
    BY <2>1, <2>3 DEF ConnectionFacts, OnlySafeParkStrays
  <2>7. GraspFacts'
    BY <2>1, <2>2 DEF GraspFacts, PanelFacts
  <2>8. QED
    BY <2>4, <2>5, <2>6, <2>7
<1>3. ASSUME NEW on \in BOOLEAN, ToggleCalled(on) \/ SetTorque(on) \/ MirrorTorque(on) PROVE ArmInv'
  <2> USE <1>3 DEF ToggleCalled, SetTorque, MirrorTorque
  <2>1. ArmFlags'
    BY DEF ArmFlags
  <2>2. ArmPositions'
    BY DEF ArmPositions
  <2>3. PanelFacts' /\ OnlySafeParkStrays'
    <3>1. /\ UNCHANGED <<seq, testRunning, stray>>
          /\ \E p \in {"idle", "checked", "mirror"} : toggle' = [toggle EXCEPT ![on] = p]
      OBVIOUS
    <3>2. toggle' \in [BOOLEAN -> {"idle", "checked", "mirror"}]
      BY <3>1 DEF PanelFacts
    <3>3. QED
      BY ONLY <3>1, <3>2, ArmInv DEF ArmInv, PanelFacts, OnlySafeParkStrays
  <2>4. ConnectionFacts'
    BY DEF ConnectionFacts
  <2>5. GraspFacts'
    BY DEF GraspFacts
  <2>6. QED
    BY <2>1, <2>2, <2>3, <2>4, <2>5
<1>4. QED
  BY <1>1, <1>2, <1>3

(* The grasp plugin and its worker.                                       *)
LEMMA GraspSteps ==
  ASSUME ArmInv,
         \/ DispatchGrasp \/ DispatchSearch \/ DispatchPutDown \/ DispatchFails \/ CancelGrasp \/ CheckCancel
         \/ GraspOp \/ SafePark
  PROVE  ArmInv'
<1> USE DEF ArmInv, arm, loop, panel, pick, Powered,
            DispatchGrasp, DispatchSearch, DispatchPutDown, DispatchMotion, DispatchFails, CancelGrasp, CheckCancel,
            GraspOp, SafePark, GraspBusy, GraspReturns, GraspAt, GraspFails, GraspGoesOn
<1>1. ArmFlags'
  BY DEF ArmFlags
<1>2. ArmPositions'
  BY DEF ArmPositions
<1>3. PanelFacts' /\ ConnectionFacts'
  BY DEF PanelFacts, ConnectionFacts
<1>4. OnlySafeParkStrays'
  BY DEF OnlySafeParkStrays, ConnectionFacts
<1>5. GraspFacts'
  BY DEF GraspFacts
<1>6. QED
  BY <1>1, <1>2, <1>3, <1>4, <1>5

(* stop(): the grasp is joined, the arm disconnected.                     *)
LEMMA StopSteps ==
  ASSUME ArmInv, StopGrasp \/ StopStep
  PROVE  ArmInv'
<1> USE DEF ArmInv, StopGrasp, StopStep, GraspStopped, StopArm, Disconnect, TearDownArm, arm, loop, panel, pick, Powered
<1>1. ArmFlags'
  BY DEF ArmFlags
<1>2. ArmPositions'
  BY DEF ArmPositions
<1>3. PanelFacts' /\ OnlySafeParkStrays'
  <2>1. UNCHANGED <<seq, testRunning, toggle, stray>>
    OBVIOUS
  <2>2. QED
    BY ONLY <2>1, ArmInv DEF ArmInv, PanelFacts, OnlySafeParkStrays
<1>4. ConnectionFacts'
  BY DEF ArmPositions, ConnectionFacts
<1>5. GraspFacts'
  BY DEF GraspFacts
<1>6. QED
  BY <1>1, <1>2, <1>3, <1>4, <1>5

(* The arm application (rebot_actuator.py, grasp_plugin.py,               *)
(* actuator_actions.py). In any order of connecting, stopping, panel      *)
(* requests and grasps: the motors have power only while the arm is       *)
(* published or in the hands of a connect or disconnect that goes on; the *)
(* safe-park is the only command to a torn-down wrapper; while the        *)
(* application runs, a dispatched action and a grasp worker do not        *)
(* overlap. Panel tests and awaited actions may move beside either.       *)
THEOREM ArmSound == ArmSpec => []ArmIsSafe
<1>1. ArmInit => ArmInv
  <2> SUFFICES ASSUME ArmInit PROVE ArmInv
    OBVIOUS
  <2>1. ArmFlags /\ ArmPositions
    BY DEF ArmInit, ArmFlags, ArmPositions
  <2>2. PanelFacts
    BY DEF ArmInit, PanelFacts, SequenceThreads
  <2>3. ConnectionFacts /\ GraspFacts /\ OnlySafeParkStrays
    BY DEF ArmInit, ConnectionFacts, GraspFacts, OnlySafeParkStrays, Powered
  <2>4. QED
    BY <2>1, <2>2, <2>3 DEF ArmInv
<1>2. ArmInv /\ [ArmNext]_armVars => ArmInv'
  <2>1. ArmInv /\ UNCHANGED armVars => ArmInv'
    BY DEF armVars, ArmInv, ArmFlags, ArmPositions, PanelFacts, ConnectionFacts, GraspFacts, OnlySafeParkStrays, Powered
  <2>2. QED
    BY <2>1, ConnectSteps, PanelSteps, GraspSteps, StopSteps DEF ArmNext
<1>3. ArmInv => ArmIsSafe
  <2> SUFFICES ASSUME ArmInv PROVE ArmIsSafe
    OBVIOUS
  <2>1. testRunning = (seq["test"] # "idle")
    BY DEF ArmInv, PanelFacts
  <2>2. ArmTypeOK
    <3>1. generation \in 0..1 /\ connGen \in 0..1
      BY DEF ArmInv, ConnectionFacts
    <3>2. stray \subseteq {"sequence", "motion", "park"}
      BY DEF ArmInv, OnlySafeParkStrays
    <3>3. QED
      BY <2>1, <3>1, <3>2 DEF ArmInv, ArmFlags, ArmPositions, PanelFacts, ArmTypeOK, SequenceThreads
  <2>3. PoweredArmIsHeld
    BY DEF ArmInv, ArmPositions, ConnectionFacts, PoweredArmIsHeld, Powered
  <2>4. DispatchedMotionsExclude /\ OnlySafeParkStrays
    BY DEF ArmInv, GraspFacts, DispatchedMotionsExclude
  <2>5. QED
    BY <2>2, <2>3, <2>4 DEF ArmIsSafe
<1>4. QED
  BY <1>1, <1>2, <1>3, PTL DEF ArmSpec

-----------------------------------------------------------------------------
(* Streaming translation.                                                   *)

(* The characters of the texts.                                           *)
Chars == UNION {ToSet(text) : text \in Texts}
(* The pieces of an utterance.                                            *)
Pieces == [of : 0..MaxUtterances, from : Nat, text : Seq(Chars)]

(* What the recogniser says is made of them.                              *)
LEMMA TextsAreSequences == Texts \subseteq Seq(Chars)
<1> SUFFICES ASSUME NEW text \in Texts PROVE text \in Seq(Chars)
  OBVIOUS
<1>1. text \in Seq(ToSet(text)) /\ ToSet(text) \subseteq Chars
  BY TranslationAssumption DEF Chars
<1>2. text \in [1..Len(text) -> ToSet(text)] /\ Len(text) \in Nat
  BY <1>1, LenProperties
<1>3. text \in [1..Len(text) -> Chars]
  BY <1>1, <1>2
<1> QED
  BY <1>2, <1>3, SeqDef

(* A set of naturals that is not empty has a least element, from the      *)
(* order of the naturals being well-founded.                              *)
LEMMA LeastPlace ==
  ASSUME NEW T \in SUBSET Nat, T # {}
  PROVE  \E m \in T : \A k \in T : m <= k
<1> DEFINE R == OpToRel(<, Nat)
<1>1. IsWellFoundedOn(R, Nat)
  BY NatLessThanWellFounded
<1>2. \E x \in T : \A y \in T : ~(<<y, x>> \in R)
  <2> HIDE DEF R
  <2> QED
    BY <1>1, WFMin
<1>3. PICK x \in T : \A y \in T : ~(<<y, x>> \in R)
  BY <1>2
<1>4. \A y \in T : ~(y < x)
  BY <1>3 DEF OpToRel
<1> QED
  BY <1>4

(* Max of a set that is bounded is what it says: its distance from the    *)
(* bound is the least.                                                    *)
LEMMA MaxIsGreatest ==
  ASSUME NEW n \in Nat, NEW I \in SUBSET (0..n), I # {}
  PROVE  Max(I) \in I /\ \A i \in I : i <= Max(I)
<1> DEFINE T == {n - i : i \in I}
<1>1. T \in SUBSET Nat /\ T # {}
  <2>1. \A i \in I : n - i \in Nat
    OBVIOUS
  <2> QED
    BY <2>1
<1>2. PICK m \in T : \A k \in T : m <= k
  <2> HIDE DEF T
  <2> QED
    BY <1>1, LeastPlace
<1>3. PICK x \in I : m = n - x
  BY <1>2
<1>4. \A i \in I : n - x <= n - i
  BY <1>2, <1>3
<1>5. \A i \in I : x >= i
  BY <1>3, <1>4
<1>6. Max(I) \in I /\ \A i \in I : Max(I) >= i
  BY <1>5 DEF Max
<1> QED
  BY <1>6

(* The place behind all others is the greatest.                           *)
LEMMA MaxAdded ==
  ASSUME NEW n \in Nat, NEW I \in SUBSET (1..n)
  PROVE  Max(I \cup {n + 1}) = n + 1
<1>1. I \cup {n + 1} \in SUBSET (0..(n + 1)) /\ n + 1 \in Nat /\ I \cup {n + 1} # {}
  OBVIOUS
<1> DEFINE J == I \cup {n + 1}
<1>2. Max(J) \in J /\ \A i \in J : i <= Max(J)
  <2> HIDE DEF J
  <2> QED
    BY <1>1, MaxIsGreatest DEF J
<1>3. n + 1 \in J /\ \A i \in J : i <= n + 1 /\ i \in Nat
  OBVIOUS
<1> HIDE DEF J
<1>4. n + 1 <= Max(J) /\ Max(J) <= n + 1 /\ Max(J) \in Nat
  BY <1>2, <1>3
<1>5. Max(J) = n + 1
  BY <1>4
<1> QED
  BY <1>5 DEF J

(* A piece does not end before it begins.                                 *)
LEMMA EndsInNat == \A p \in Pieces : EndOf(p) \in Nat /\ p.from \in Nat /\ p.from <= EndOf(p)
<1> SUFFICES ASSUME NEW p \in Pieces PROVE EndOf(p) \in Nat /\ p.from \in Nat /\ p.from <= EndOf(p)
  OBVIOUS
<1>1. p.from \in Nat /\ p.text \in Seq(Chars)
  BY DEF Pieces
<1>2. Len(p.text) \in Nat
  BY <1>1, LenProperties
<1> QED
  BY <1>1, <1>2 DEF EndOf

(* How far pieces reach is a matter of the pieces at those places.        *)
LEMMA ReachKept ==
  ASSUME NEW P \in Seq(Pieces), NEW I \in SUBSET (1..Len(P)), NEW Q, \A i \in I : Q[i] = P[i]
  PROVE  Reach(Q, I) = Reach(P, I) /\ Reach(P, I) \in Nat
<1>1. CASE I = {}
  BY <1>1 DEF Reach
<1>2. CASE I # {}
  <2>1. Len(P) \in Nat /\ I \in SUBSET (0..Len(P))
    BY LenProperties
  <2>2. Max(I) \in I
    BY <1>2, <2>1, MaxIsGreatest
  <2>3. P[Max(I)] \in Pieces /\ Q[Max(I)] = P[Max(I)]
    BY <2>2, ElementOfSeq
  <2> QED
    BY <1>2, <2>3, EndsInNat DEF Reach
<1> QED
  BY <1>1, <1>2

(* So is that they lie end to end.                                        *)
LEMMA EndToEndKept ==
  ASSUME NEW P \in Seq(Pieces), NEW I \in SUBSET (1..Len(P)), NEW Q, \A i \in I : Q[i] = P[i],
         EndToEnd(P, I)
  PROVE  EndToEnd(Q, I)
<1> SUFFICES ASSUME NEW i \in I PROVE Q[i].from = Reach(Q, {j \in I : j < i})
  BY DEF EndToEnd
<1> DEFINE J == {j \in I : j < i}
<1>1. J \in SUBSET (1..Len(P)) /\ \A j \in J : Q[j] = P[j]
  OBVIOUS
<1>2. Reach(Q, J) = Reach(P, J)
  <2> HIDE DEF J
  <2> QED
    BY <1>1, ReachKept
<1>3. P[i].from = Reach(P, J)
  BY DEF EndToEnd
<1> QED
  BY <1>2, <1>3

(* A piece that begins where the others end goes on with them.            *)
LEMMA EndToEndAdded ==
  ASSUME NEW P \in Seq(Pieces), NEW I \in SUBSET (1..Len(P)), NEW p \in Pieces,
         EndToEnd(P, I), p.from = Reach(P, I)
  PROVE  /\ EndToEnd(Append(P, p), I \cup {Len(P) + 1})
         /\ Reach(Append(P, p), I \cup {Len(P) + 1}) = EndOf(p)
<1> DEFINE n == Len(P)
           J == I \cup {n + 1}
<1>0. PICK Q : Q = Append(P, p)
  OBVIOUS
<1>1. /\ n \in Nat /\ Q[n + 1] = p /\ \A i \in 1..n : Q[i] = P[i]
  BY <1>0, AppendProperties, LenProperties
<1> HIDE DEF n
<1>2. I \in SUBSET (1..n) /\ n + 1 \in J /\ Max(J) = n + 1
  BY <1>1, MaxAdded DEF n
<1>3. Reach(Q, J) = EndOf(p)
  BY <1>1, <1>2 DEF Reach
<1>4. EndToEnd(Q, I)
  BY <1>1, <1>2, EndToEndKept DEF n
<1>5. ASSUME NEW i \in J
      PROVE  Q[i].from = Reach(Q, {j \in J : j < i})
  <2>1. CASE i = n + 1
    <3>1. {j \in J : j < i} = I
      <4>1. \A j \in I : j < n + 1
        BY <1>1, <1>2
      <4>2. ~(n + 1 < n + 1)
        BY <1>1
      <4> QED
        BY <2>1, <4>1, <4>2
    <3>2. Reach(Q, I) = Reach(P, I)
      BY <1>1, <1>2, ReachKept DEF n
    <3> QED
      BY <1>1, <2>1, <3>1, <3>2
  <2>2. CASE i \in I
    <3>1. {j \in J : j < i} = {j \in I : j < i}
      BY <1>1, <1>2, <2>2
    <3> QED
      BY <1>4, <2>2, <3>1 DEF EndToEnd
  <2> QED
    BY <2>1, <2>2
<1>6. EndToEnd(Q, J)
  BY <1>5 DEF EndToEnd
<1> QED
  BY <1>0, <1>3, <1>6 DEF n

(* Where the pieces of G stand in P \o G.                                 *)
Behind(P, G) == {Len(P) + k : k \in 1..Len(G)}

(* Pieces that are sent together lie end to end wherever they are put.    *)
LEMMA EndToEndShifted ==
  ASSUME NEW P \in Seq(Pieces), NEW G \in Seq(Pieces), EndToEnd(G, 1..Len(G))
  PROVE  /\ EndToEnd(P \o G, Behind(P, G))
         /\ Reach(P \o G, Behind(P, G)) = Reach(G, 1..Len(G))
<1> DEFINE n == Len(P)
<1>0. PICK Q : Q = P \o G
  OBVIOUS
<1>1. /\ n \in Nat /\ Len(G) \in Nat /\ \A k \in 1..Len(G) : Q[n + k] = G[k]
  <2>1. /\ n \in Nat /\ Len(G) \in Nat
        /\ \A i \in 1..(n + Len(G)) : Q[i] = IF i <= n THEN P[i] ELSE G[i - n]
    BY <1>0, ConcatProperties, LenProperties
  <2>2. \A k \in 1..Len(G) : n + k \in 1..(n + Len(G)) /\ ~(n + k <= n) /\ (n + k) - n = k
    BY <2>1
  <2> HIDE DEF n
  <2> QED
    BY <2>1, <2>2
<1> HIDE DEF n
<1>2. ASSUME NEW K \in SUBSET (1..Len(G))
      PROVE  Reach(Q, {n + k : k \in K}) = Reach(G, K)
  <2> DEFINE J == {n + k : k \in K}
  <2>1. CASE K = {}
    BY <2>1 DEF Reach
  <2>2. CASE K # {}
    <3>1. Max(K) \in K /\ \A k \in K : k <= Max(K)
      <4>1. K \in SUBSET (0..Len(G))
        BY <1>1
      <4> QED
        BY <1>1, <2>2, <4>1, MaxIsGreatest
    <3>2. Max(J) \in J /\ \A j \in J : j <= Max(J)
      <4>0. \A k \in K : n + k \in 0..(n + Len(G))
        BY <1>1
      <4>1. J \in SUBSET (0..(n + Len(G))) /\ J # {} /\ n + Len(G) \in Nat
        <5>1. J \in SUBSET (0..(n + Len(G)))
          BY <4>0
        <5>2. J # {}
          <6>1. PICK k \in K : TRUE
            BY <2>2
          <6>2. n + k \in J
            OBVIOUS
          <6> QED
            BY <6>2
        <5> QED
          BY <1>1, <5>1, <5>2
      <4> HIDE DEF J
      <4> QED
        BY <4>1, MaxIsGreatest
    <3>3. PICK k \in K : Max(J) = n + k
      BY <3>2
    <3>4. n + Max(K) \in J
      BY <3>1
    <3>5. n + Max(K) <= Max(J)
      BY <3>2, <3>4
    <3>6. Max(J) = n + Max(K) /\ Max(K) \in 1..Len(G)
      <4>1. k \in 1..Len(G) /\ Max(K) \in 1..Len(G)
        BY <3>1
      <4>2. k <= Max(K)
        BY <3>1
      <4>3. n + Max(K) <= n + k
        BY <3>3, <3>5
      <4>4. k = Max(K)
        <5> HIDE DEF J
        <5> QED
          BY <1>1, <4>1, <4>2, <4>3
      <4> QED
        BY <3>3, <4>1, <4>4
    <3>7. J # {}
      BY <2>2
    <3> HIDE DEF J
    <3> QED
      BY <1>1, <2>2, <3>6, <3>7 DEF Reach, J
  <2> QED
    BY <2>1, <2>2
<1>3. Behind(P, G) = {n + k : k \in 1..Len(G)}
  BY DEF Behind, n
<1>4. ASSUME NEW i \in Behind(P, G)
      PROVE  Q[i].from = Reach(Q, {j \in Behind(P, G) : j < i})
  <2>1. PICK k \in 1..Len(G) : i = n + k
    BY <1>3
  <2> DEFINE K == {j \in 1..Len(G) : j < k}
  <2>2. {j \in Behind(P, G) : j < i} = {n + j : j \in K}
    <3>1. \A j \in 1..Len(G) : n + j < n + k <=> j < k
      BY <1>1
    <3> QED
      BY <1>3, <2>1, <3>1
  <2>3. Reach(Q, {n + j : j \in K}) = Reach(G, K)
    BY <1>2
  <2>4. G[k].from = Reach(G, K)
    BY DEF EndToEnd
  <2> HIDE DEF K
  <2> QED
    BY <1>1, <2>1, <2>2, <2>3, <2>4
<1>5. Reach(Q, Behind(P, G)) = Reach(G, 1..Len(G))
  BY <1>2, <1>3
<1> QED
  BY <1>0, <1>4, <1>5 DEF EndToEnd

(* What a beginning of a text tells: its parts are parts of the text.     *)
LEMMA PrefixReads ==
  ASSUME NEW C, NEW s \in Seq(C), NEW t \in Seq(C), IsPrefix(s, t)
  PROVE  /\ Len(s) <= Len(t) /\ s = SubSeq(t, 1, Len(s))
         /\ \A i \in 1..Len(s) : s[i] = t[i]
         /\ \A a \in Nat, b \in Nat : b <= Len(s) => SubSeq(s, a + 1, b) = SubSeq(t, a + 1, b)
<1>1. Len(s) \in Nat /\ Len(t) \in Nat /\ Len(s) <= Len(t) /\ SubSeq(s, 1, Len(s)) = SubSeq(t, 1, Len(s))
  BY LenProperties DEF IsPrefix
<1>2. SubSeq(s, 1, Len(s)) = s
  BY SubSeqFull
<1>3. \A i \in 1..Len(s) : s[i] = t[i]
  <2> TAKE i \in 1..Len(s)
  <2>1. SubSeq(t, 1, Len(s))[i] = t[1 + i - 1]
    BY <1>1, SubSeqProperties
  <2> QED
    BY <1>1, <1>2, <2>1
<1>4. ASSUME NEW a \in Nat, NEW b \in Nat, b <= Len(s)
      PROVE  SubSeq(s, a + 1, b) = SubSeq(t, a + 1, b)
  <2>1. \A i \in (a + 1)..b : s[i] \in C /\ t[i] \in C /\ s[i] = t[i]
    BY <1>1, <1>3, <1>4, ElementOfSeq
  <2> DEFINE x == SubSeq(s, a + 1, b)
             y == SubSeq(t, a + 1, b)
  <2>2. /\ x \in Seq(C) /\ Len(x) = IF a + 1 <= b THEN b - (a + 1) + 1 ELSE 0
        /\ \A i \in 1..(b - (a + 1) + 1) : x[i] = s[(a + 1) + i - 1]
    BY <2>1, SubSeqProperties
  <2>3. /\ y \in Seq(C) /\ Len(y) = IF a + 1 <= b THEN b - (a + 1) + 1 ELSE 0
        /\ \A i \in 1..(b - (a + 1) + 1) : y[i] = t[(a + 1) + i - 1]
    BY <2>1, SubSeqProperties
  <2> HIDE DEF x, y
  <2>4. Len(x) = Len(y) /\ \A i \in 1..Len(x) : x[i] = y[i]
    <3>1. \A i \in 1..Len(x) : i \in 1..(b - (a + 1) + 1) /\ (a + 1) + i - 1 \in (a + 1)..b
      BY <2>2
    <3> QED
      BY <2>1, <2>2, <2>3, <3>1
  <2> QED
    BY <2>2, <2>3, <2>4, SeqEqual DEF x, y
<1> QED
  BY <1>1, <1>2, <1>3, <1>4

(* A text is the beginning of another when their characters agree.        *)
LEMMA PrefixIs ==
  ASSUME NEW C, NEW s \in Seq(C), NEW t \in Seq(C), Len(s) <= Len(t), \A i \in 1..Len(s) : s[i] = t[i]
  PROVE  IsPrefix(s, t)
<1>1. Len(s) \in Nat /\ Len(t) \in Nat
  BY LenProperties
<1>2. \A i \in 1..Len(s) : s[i] \in C /\ t[i] \in C
  BY <1>1, ElementOfSeq
<1> DEFINE y == SubSeq(t, 1, Len(s))
<1>3. y \in Seq(C) /\ Len(y) = Len(s) /\ \A i \in 1..Len(s) : y[i] = t[i]
  <2>1. /\ y \in Seq(C) /\ Len(y) = IF 1 <= Len(s) THEN Len(s) - 1 + 1 ELSE 0
        /\ \A i \in 1..(Len(s) - 1 + 1) : y[i] = t[1 + i - 1]
    BY <1>1, <1>2, SubSeqProperties
  <2> HIDE DEF y
  <2> QED
    BY <1>1, <2>1
<1> HIDE DEF y
<1>4. y = s
  BY <1>3, SeqEqual
<1>5. SubSeq(s, 1, Len(s)) = s
  BY SubSeqFull
<1> QED
  BY <1>4, <1>5 DEF IsPrefix, y

(* The empty text is one of every text, ...                               *)
LEMMA EmptyIsPrefix ==
  ASSUME NEW C, NEW t \in Seq(C)
  PROVE  <<>> \in Seq(C) /\ Len(<<>>) = 0 /\ IsPrefix(<<>>, t)
<1>1. <<>> \in Seq(C) /\ Len(<<>>) = 0
  BY EmptySeq
<1> DEFINE s == <<>>
<1>2. s \in Seq(C) /\ Len(s) = 0
  BY <1>1
<1> HIDE DEF s
<1>3. Len(s) <= Len(t) /\ \A i \in 1..Len(s) : s[i] = t[i]
  BY <1>2, LenProperties
<1>4. IsPrefix(s, t)
  BY <1>2, <1>3, PrefixIs
<1> QED
  BY <1>1, <1>4 DEF s

(* ... the first n characters of a text are one of it, ...                *)
LEMMA BeginningIsPrefix ==
  ASSUME NEW C, NEW t \in Seq(C), NEW n \in 0..Len(t)
  PROVE  SubSeq(t, 1, n) \in Seq(C) /\ IsPrefix(SubSeq(t, 1, n), t) /\ Len(SubSeq(t, 1, n)) = n
<1>1. Len(t) \in Nat /\ \A i \in 1..n : t[i] \in C
  BY LenProperties, ElementOfSeq
<1> DEFINE y == SubSeq(t, 1, n)
<1>3. y \in Seq(C) /\ Len(y) = n /\ \A i \in 1..n : y[i] = t[i]
  <2>1. /\ y \in Seq(C) /\ Len(y) = IF 1 <= n THEN n - 1 + 1 ELSE 0
        /\ \A i \in 1..(n - 1 + 1) : y[i] = t[1 + i - 1]
    BY <1>1, SubSeqProperties
  <2> HIDE DEF y
  <2> QED
    BY <1>1, <2>1
<1> HIDE DEF y
<1>4. IsPrefix(y, t)
  BY <1>1, <1>3, PrefixIs
<1> QED
  BY <1>3, <1>4 DEF y

(* ... and of two beginnings of a text the shorter is one of the longer.  *)
LEMMA PrefixesNest ==
  ASSUME NEW C, NEW r \in Seq(C), NEW s \in Seq(C), NEW t \in Seq(C), IsPrefix(r, t), IsPrefix(s, t), Len(r) <= Len(s)
  PROVE  IsPrefix(r, s)
<1>1. /\ Len(r) \in Nat /\ Len(s) \in Nat
      /\ \A i \in 1..Len(r) : r[i] = t[i]
      /\ \A i \in 1..Len(s) : s[i] = t[i]
  BY LenProperties, PrefixReads
<1> QED
  BY <1>1, PrefixIs

(* A beginning and what is left of the text are the text.                 *)
LEMMA PrefixRest ==
  ASSUME NEW C, NEW s \in Seq(C), NEW t \in Seq(C)
  PROVE  /\ Rest(t, Len(s)) \in Seq(C) /\ Len(Rest(t, Len(s))) = IF Len(s) < Len(t) THEN Len(t) - Len(s) ELSE 0
         /\ IsPrefix(s, t) => s \o Rest(t, Len(s)) = t
<1> DEFINE n == Len(s)
           m == Len(t)
           y == SubSeq(t, n + 1, m)
<1>1. n \in Nat /\ m \in Nat /\ \A i \in (n + 1)..m : t[i] \in C
  <2>1. n \in Nat /\ m \in Nat
    BY LenProperties
  <2> QED
    BY <2>1, ElementOfSeq
<1>2. /\ y \in Seq(C) /\ Len(y) = IF n + 1 <= m THEN m - (n + 1) + 1 ELSE 0
      /\ \A i \in 1..(m - (n + 1) + 1) : y[i] = t[(n + 1) + i - 1]
  BY <1>1, SubSeqProperties
<1>3. y = Rest(t, Len(s))
  BY DEF Rest
<1> HIDE DEF y
<1>4. ASSUME IsPrefix(s, t)
      PROVE  s \o y = t
  <2>1. n <= m /\ \A i \in 1..n : s[i] = t[i]
    BY <1>4, PrefixReads
  <2>2. /\ s \o y \in Seq(C) /\ Len(s \o y) = n + Len(y)
        /\ \A i \in 1..(n + Len(y)) : (s \o y)[i] = IF i <= n THEN s[i] ELSE y[i - n]
    BY <1>2, ConcatProperties
  <2>3. Len(y) = m - n
    BY <1>1, <1>2, <2>1
  <2>4. ASSUME NEW i \in 1..m
        PROVE  (s \o y)[i] = t[i]
    <3>1. CASE i <= n
      BY <1>1, <2>1, <2>2, <2>3, <3>1
    <3>2. CASE ~(i <= n)
      <4>1. i - n \in 1..(m - (n + 1) + 1) /\ (n + 1) + (i - n) - 1 = i /\ i \in 1..(n + Len(y))
        BY <1>1, <2>1, <2>3, <3>2
      <4> QED
        BY <1>2, <2>2, <3>2, <4>1
    <3> QED
      BY <3>1, <3>2
  <2>5. Len(s \o y) = m
    BY <1>1, <2>2, <2>3
  <2> QED
    BY <2>2, <2>4, <2>5, SeqEqual
<1>5. Len(y) = IF n < m THEN m - n ELSE 0
  BY <1>1, <1>2
<1> QED
  BY <1>2, <1>3, <1>4, <1>5

(* The committer (_commit_target): whatever the last hypotheses agree on, *)
(* and whatever its clauses are, the target is a beginning of the         *)
(* hypothesis just heard.                                                 *)
LEMMA TargetIsHeard ==
  ASSUME NEW heard \in Seq(Texts), heard # <<>>
  PROVE  /\ Last(heard) \in Texts
         /\ CommitTarget(heard) \in Seq(Chars) /\ IsPrefix(CommitTarget(heard), Last(heard))
<1> DEFINE text == Last(heard)
           S == ToSet(heard)
           marks == {0} \cup {i \in DOMAIN text : text[i] \in Marks}
           clause == SubSeq(text, 1, Max(marks))
           common == CommonPrefixes(S)
           longest == LongestCommonPrefix(S)
<1>1. Len(heard) \in Nat \ {0} /\ text \in Texts /\ text \in S
  <2>1. Len(heard) \in Nat /\ Len(heard) # 0
    BY LenProperties, EmptySeq
  <2>2. Len(heard) \in DOMAIN heard /\ Len(heard) \in 1..Len(heard)
    BY <2>1, LenProperties
  <2>3. heard[Len(heard)] \in Texts
    BY <2>1, <2>2, ElementOfSeq
  <2> QED
    BY <2>1, <2>2, <2>3 DEF Last, ToSet
<1>2. S \subseteq Texts
  <2>1. \A i \in DOMAIN heard : heard[i] \in Texts
    BY LenProperties, ElementOfSeq
  <2> QED
    BY <2>1 DEF ToSet
<1>3. text \in Seq(Chars) /\ Len(text) \in Nat /\ DOMAIN text = 1..Len(text)
  BY <1>1, TextsAreSequences, LenProperties
<1> HIDE DEF text, S
<1>4. clause \in Seq(Chars) /\ IsPrefix(clause, text)
  <2>1. marks \in SUBSET (0..Len(text)) /\ marks # {}
    BY <1>3
  <2>2. Max(marks) \in 0..Len(text)
    <3> HIDE DEF marks
    <3> QED
      BY <1>3, <2>1, MaxIsGreatest
  <2> HIDE DEF marks
  <2> QED
    BY <1>3, <2>2, BeginningIsPrefix
<1>5. \A c \in common : c \in Seq(Chars) /\ IsPrefix(c, text) /\ Len(c) \in 0..Len(text)
  <2> TAKE c \in common
  <2>1. PICK t \in S : c \in Prefixes(t)
    BY DEF CommonPrefixes
  <2>2. t \in Seq(Chars) /\ Len(t) \in Nat
    BY <1>2, TextsAreSequences, LenProperties
  <2>3. PICK n \in 0..Len(t) : c = SubSeq(t, 1, n)
    BY <2>1 DEF Prefixes
  <2>4. c \in Seq(Chars)
    BY <2>2, <2>3, BeginningIsPrefix
  <2>5. IsPrefix(c, text)
    BY <1>1 DEF CommonPrefixes
  <2>6. Len(c) \in Nat /\ Len(c) <= Len(text)
    BY <1>3, <2>4, <2>5, LenProperties, PrefixReads
  <2> QED
    BY <1>3, <2>4, <2>5, <2>6
<1>6. <<>> \in common
  <2>1. \A t \in S : t \in Seq(Chars) /\ Len(t) \in Nat
    BY <1>2, TextsAreSequences, LenProperties
  <2>2. \A t \in S : IsPrefix(<<>>, t)
    BY <2>1, EmptyIsPrefix
  <2>3. <<>> \in Prefixes(text)
    <3>1. SubSeq(text, 1, 0) \in Seq(Chars) /\ Len(SubSeq(text, 1, 0)) = 0 /\ 0 \in 0..Len(text)
      BY <1>3, BeginningIsPrefix
    <3>2. SubSeq(text, 1, 0) = <<>>
      BY <3>1, EmptySeq
    <3> QED
      BY <3>1, <3>2 DEF Prefixes
  <2> QED
    BY <1>1, <2>2, <2>3 DEF CommonPrefixes
<1>7. longest \in common
  <2> DEFINE T == {Len(c) : c \in common}
  <2> HIDE DEF common
  <2>1. T \in SUBSET (0..Len(text)) /\ T # {}
    BY <1>5, <1>6
  <2>2. Max(T) \in T /\ \A n \in T : n <= Max(T)
    <3> HIDE DEF T
    <3> QED
      BY <1>3, <2>1, MaxIsGreatest
  <2>3. \E c \in common : \A d \in common : Len(d) <= Len(c)
    BY <2>2
  <2> QED
    BY <2>3 DEF LongestCommonPrefix, common
<1>8. longest \in Seq(Chars) /\ IsPrefix(longest, text)
  BY <1>5, <1>7
<1>9. <<>> \in Seq(Chars) /\ IsPrefix(<<>>, text)
  BY <1>3, EmptyIsPrefix
<1>10. CommitTarget(heard) \in {<<>>, longest, clause}
  BY DEF CommitTarget, text, S
<1> HIDE DEF longest, clause
<1> QED
  BY <1>1, <1>4, <1>8, <1>9, <1>10 DEF text

(* The pieces at the places I lie end to end up to character n, and       *)
(* unless a hypothesis was revised they are the first n characters of the *)
(* source.                                                                *)
Chain(P, I, source, n, loose) ==
  /\ EndToEnd(P, I) /\ Reach(P, I) = n
  /\ \A i \in I : EndOf(P[i]) <= n
  /\ ~loose => n <= Len(source) /\ \A i \in I : P[i].text = SubSeq(source, P[i].from + 1, EndOf(P[i]))

(* SaidWhole of the text, over pieces P, which in the state are those     *)
(* that were said.                                                        *)
Whole(P, I, text, loose) ==
  /\ EndToEnd(P, I) /\ Reach(P, I) >= Len(text)
  /\ ~loose => Spell(P, I, text)

(* PlacesOf, over P.                                                      *)
Places(P, u) == {i \in 1..Len(P) : P[i].of = u}

(* The piece is the end of the source, an utterance u.                    *)
IsRest(p, u, source) ==
  p.of = u /\ EndOf(p) = Len(source) /\ p.text = SubSeq(source, p.from + 1, Len(source))

(* No piece is the beginning of any source.                               *)
LEMMA ChainEmpty ==
  ASSUME NEW P, NEW source \in Seq(Chars), NEW loose
  PROVE  Chain(P, {}, source, 0, loose)
<1>1. Len(source) \in Nat
  BY LenProperties
<1>2. EndToEnd(P, {}) /\ Reach(P, {}) = 0
  BY DEF EndToEnd, Reach
<1> QED
  BY <1>1, <1>2 DEF Chain

(* A chain is a matter of the pieces at its places, ...                   *)
LEMMA ChainKept ==
  ASSUME NEW P \in Seq(Pieces), NEW I \in SUBSET (1..Len(P)), NEW Q, \A i \in I : Q[i] = P[i],
         NEW source, NEW n, NEW loose, Chain(P, I, source, n, loose)
  PROVE  Chain(Q, I, source, n, loose)
<1>1. EndToEnd(Q, I) /\ Reach(Q, I) = n
  BY ReachKept, EndToEndKept DEF Chain
<1> QED
  BY <1>1 DEF Chain

(* ... and what is a beginning of a source is one of a source that goes   *)
(* on.                                                                    *)
LEMMA ChainLonger ==
  ASSUME NEW P \in Seq(Pieces), NEW I \in SUBSET (1..Len(P)),
         NEW s \in Seq(Chars), NEW t \in Seq(Chars), NEW n, NEW loose, NEW looser,
         Chain(P, I, s, n, loose), ~looser => ~loose /\ IsPrefix(s, t)
  PROVE  Chain(P, I, t, n, looser)
<1>1. CASE looser
  BY <1>1 DEF Chain
<1>2. CASE ~looser
  <2>1. Len(s) \in Nat /\ Len(t) \in Nat /\ Len(s) <= Len(t) /\ n \in Nat
    BY <1>2, LenProperties, PrefixReads, ReachKept DEF Chain
  <2>2. ASSUME NEW i \in I
        PROVE  P[i].text = SubSeq(t, P[i].from + 1, EndOf(P[i]))
    <3>1. P[i] \in Pieces
      BY ElementOfSeq
    <3>2. P[i].from \in Nat /\ EndOf(P[i]) \in Nat /\ EndOf(P[i]) <= Len(s)
      BY <1>2, <2>1, <3>1, EndsInNat DEF Chain
    <3> QED
      BY <1>2, <3>2, PrefixReads DEF Chain
  <2> QED
    BY <1>2, <2>1, <2>2 DEF Chain
<1> QED
  BY <1>1, <1>2

(* With the rest of the source behind it the chain reaches its end.       *)
LEMMA ChainAdded ==
  ASSUME NEW P \in Seq(Pieces), NEW I \in SUBSET (1..Len(P)), NEW p \in Pieces,
         NEW source \in Seq(Chars), NEW loose, NEW u, Chain(P, I, source, p.from, loose), IsRest(p, u, source)
  PROVE  Chain(Append(P, p), I \cup {Len(P) + 1}, source, Len(source), loose)
<1>0. PICK Q : Q = Append(P, p)
  OBVIOUS
<1>1. Len(P) \in Nat /\ Q[Len(P) + 1] = p /\ \A i \in 1..Len(P) : Q[i] = P[i]
  BY <1>0, AppendProperties, LenProperties
<1>2. EndToEnd(Q, I \cup {Len(P) + 1}) /\ Reach(Q, I \cup {Len(P) + 1}) = EndOf(p)
  BY <1>0, EndToEndAdded DEF Chain
<1>3. Len(source) \in Nat /\ EndOf(p) = Len(source) /\ p.from \in Nat /\ p.from <= Len(source)
  BY EndsInNat, LenProperties DEF IsRest
<1>4. ASSUME NEW i \in I
      PROVE  /\ EndOf(Q[i]) <= Len(source)
             /\ ~loose => Q[i].text = SubSeq(source, Q[i].from + 1, EndOf(Q[i]))
  <2>1. Q[i] = P[i] /\ EndOf(P[i]) <= p.from /\ EndOf(P[i]) \in Nat
    <3>1. P[i] \in Pieces
      BY ElementOfSeq
    <3> QED
      BY <1>1, <3>1, EndsInNat DEF Chain
  <2>2. EndOf(P[i]) <= Len(source)
    BY <1>3, <2>1
  <2> QED
    BY <2>1, <2>2 DEF Chain
<1>5. /\ EndOf(Q[Len(P) + 1]) <= Len(source)
      /\ Q[Len(P) + 1].text = SubSeq(source, Q[Len(P) + 1].from + 1, EndOf(Q[Len(P) + 1]))
  BY <1>1, <1>3 DEF IsRest
<1>6. \A i \in I \cup {Len(P) + 1} : 
        /\ EndOf(Q[i]) <= Len(source)
        /\ ~loose => Q[i].text = SubSeq(source, Q[i].from + 1, EndOf(Q[i]))
  BY <1>4, <1>5
<1> DEFINE J == I \cup {Len(P) + 1}
<1>7. Chain(Q, J, source, Len(source), loose)
  <2>1. EndToEnd(Q, J) /\ Reach(Q, J) = Len(source) /\ Len(source) <= Len(source)
    BY <1>2, <1>3
  <2>2. \A i \in J : EndOf(Q[i]) <= Len(source)
    BY <1>6
  <2>3. ~loose => \A i \in J : Q[i].text = SubSeq(source, Q[i].from + 1, EndOf(Q[i]))
    BY <1>6
  <2> HIDE DEF J
  <2> QED
    BY <2>1, <2>2, <2>3 DEF Chain
<1> QED
  BY <1>0, <1>7

(* A chain that is sent together stays one.                               *)
LEMMA ChainShifted ==
  ASSUME NEW P \in Seq(Pieces), NEW G \in Seq(Pieces), NEW source, NEW n, NEW loose,
         Chain(G, 1..Len(G), source, n, loose)
  PROVE  Chain(P \o G, Behind(P, G), source, n, loose)
<1>0. PICK Q : Q = P \o G
  OBVIOUS
<1>1. EndToEnd(Q, Behind(P, G)) /\ Reach(Q, Behind(P, G)) = n
  BY <1>0, EndToEndShifted DEF Chain
<1>2. \A k \in 1..Len(G) : Q[Len(P) + k] = G[k]
  <2>1. /\ Len(P) \in Nat /\ Len(G) \in Nat
        /\ \A i \in 1..(Len(P) + Len(G)) : Q[i] = IF i <= Len(P) THEN P[i] ELSE G[i - Len(P)]
    BY <1>0, ConcatProperties, LenProperties
  <2>2. \A k \in 1..Len(G) : Len(P) + k \in 1..(Len(P) + Len(G)) /\ ~(Len(P) + k <= Len(P)) /\ (Len(P) + k) - Len(P) = k
    BY <2>1
  <2> QED
    BY <2>1, <2>2
<1>3. \A i \in Behind(P, G) : \E k \in 1..Len(G) : Q[i] = G[k]
  BY <1>2 DEF Behind
<1>4. Chain(Q, Behind(P, G), source, n, loose)
  BY <1>1, <1>3 DEF Chain
<1> QED
  BY <1>0, <1>4

(* A chain as long as the text is the text.                               *)
LEMMA ChainIsWhole ==
  ASSUME NEW P \in Seq(Pieces), NEW I \in SUBSET (1..Len(P)), NEW text \in Seq(Chars), NEW n, NEW loose,
         Chain(P, I, text, n, loose), n >= Len(text)
  PROVE  Whole(P, I, text, loose)
<1>1. n \in Nat /\ Len(text) \in Nat
  BY LenProperties, ReachKept DEF Chain
<1>2. ~loose => n = Len(text)
  BY <1>1 DEF Chain
<1> QED
  BY <1>2 DEF Chain, Whole, Spell

(* Whole, too, is a matter of the pieces at the places.                   *)
LEMMA WholeKept ==
  ASSUME NEW P \in Seq(Pieces), NEW I \in SUBSET (1..Len(P)), NEW Q, \A i \in I : Q[i] = P[i],
         NEW text, NEW loose, NEW looser, Whole(P, I, text, loose), ~looser => ~loose
  PROVE  Whole(Q, I, text, looser)
<1>1. EndToEnd(Q, I) /\ Reach(Q, I) = Reach(P, I)
  BY ReachKept, EndToEndKept DEF Whole
<1>2. Reach(P, I) >= Len(text) /\ (~looser => Spell(P, I, text))
  BY DEF Whole
<1>3. Spell(P, I, text) => Spell(Q, I, text)
  BY <1>1 DEF Spell
<1> QED
  BY <1>1, <1>2, <1>3 DEF Whole

(* A piece more: where the pieces of an utterance are then, ...           *)
LEMMA PlacesAdded ==
  ASSUME NEW P \in Seq(Pieces), NEW p \in Pieces, NEW u
  PROVE  /\ Append(P, p) \in Seq(Pieces) /\ Len(Append(P, p)) = Len(P) + 1
         /\ Append(P, p)[Len(P) + 1] = p /\ \A i \in 1..Len(P) : Append(P, p)[i] = P[i]
         /\ Places(P, u) \in SUBSET (1..Len(P))
         /\ p.of = u => Places(Append(P, p), u) = Places(P, u) \cup {Len(P) + 1}
         /\ p.of # u => Places(Append(P, p), u) = Places(P, u)
<1>0. PICK Q : Q = Append(P, p)
  OBVIOUS
<1>1. /\ Q \in Seq(Pieces) /\ Len(Q) = Len(P) + 1 /\ Len(P) \in Nat
      /\ Q[Len(P) + 1] = p /\ \A i \in 1..Len(P) : Q[i] = P[i]
  BY <1>0, AppendProperties, LenProperties
<1>2. 1..Len(Q) = (1..Len(P)) \cup {Len(P) + 1}
  BY <1>1
<1>3. \A i \in (1..Len(P)) \cup {Len(P) + 1} :
        Q[i].of = u <=> (i \in 1..Len(P) /\ P[i].of = u) \/ (i = Len(P) + 1 /\ p.of = u)
  BY <1>1
<1>4. p.of = u => Places(Q, u) = Places(P, u) \cup {Len(P) + 1}
  BY <1>2, <1>3 DEF Places
<1>5. p.of # u => Places(Q, u) = Places(P, u)
  BY <1>2, <1>3 DEF Places
<1>6. Places(P, u) \in SUBSET (1..Len(P))
  BY DEF Places
<1> QED
  BY <1>0, <1>1, <1>4, <1>5, <1>6

(* ... and the same when several of one utterance are added at once.      *)
LEMMA PlacesBehind ==
  ASSUME NEW P \in Seq(Pieces), NEW G \in Seq(Pieces), NEW w, \A k \in 1..Len(G) : G[k].of = w, NEW u
  PROVE  /\ P \o G \in Seq(Pieces)
         /\ \A i \in 1..Len(P) : (P \o G)[i] = P[i]
         /\ \A i \in 1..Len(P \o G) : (i \in 1..Len(P)) \/ (~(i <= Len(P)) /\ (P \o G)[i].of = w)
         /\ Behind(P, G) \in SUBSET (1..Len(P \o G))
         /\ u # w => Places(P \o G, u) = Places(P, u)
         /\ Places(P, w) = {} => Places(P \o G, w) = Behind(P, G)
<1>0. PICK Q : Q = P \o G
  OBVIOUS
<1>1. /\ Q \in Seq(Pieces) /\ Len(P) \in Nat /\ Len(G) \in Nat /\ Len(Q) = Len(P) + Len(G)
      /\ \A i \in 1..(Len(P) + Len(G)) : Q[i] = IF i <= Len(P) THEN P[i] ELSE G[i - Len(P)]
  BY <1>0, ConcatProperties, LenProperties
<1>2. \A k \in 1..Len(G) : Len(P) + k \in 1..(Len(P) + Len(G)) /\ ~(Len(P) + k <= Len(P)) /\ (Len(P) + k) - Len(P) = k
  BY <1>1
<1>3. \A i \in 1..(Len(P) + Len(G)) : i \notin 1..Len(P) => i - Len(P) \in 1..Len(G) /\ i = Len(P) + (i - Len(P)) /\ ~(i <= Len(P))
  BY <1>1
<1>4. \A i \in 1..Len(P) : i \in 1..(Len(P) + Len(G)) /\ i <= Len(P)
  BY <1>1
<1>5. \A i \in 1..Len(P) : Q[i] = P[i]
  BY <1>1, <1>4
<1>6. \A i \in 1..Len(Q) : (i \in 1..Len(P)) \/ (~(i <= Len(P)) /\ Q[i].of = w)
  BY <1>1, <1>3
<1>7. \A i \in Behind(P, G) : i \in 1..Len(Q) /\ Q[i].of = w /\ i \notin 1..Len(P)
  BY <1>1, <1>2, SMTT(30) DEF Behind
<1>8. \A i \in 1..Len(Q) : i \in 1..Len(P) \/ i \in Behind(P, G)
  BY <1>1, <1>3 DEF Behind
<1>9. u # w => Places(Q, u) = Places(P, u)
  BY <1>1, <1>4, <1>5, <1>6 DEF Places
<1>10. Places(P, w) = {} => Places(Q, w) = Behind(P, G)
  BY <1>5, <1>7, <1>8 DEF Places
<1> QED
  BY <1>0, <1>1, <1>5, <1>6, <1>7, <1>9, <1>10

(* The piece of a text that is not committed yet (push_partial, finalize) *)
(* is the rest of it, if there is any.                                    *)
LEMMA RestFollows ==
  ASSUME NEW s \in Seq(Chars), NEW t \in Seq(Chars), NEW u \in 0..MaxUtterances
  PROVE  LET p == [of |-> u, from |-> Len(s), text |-> Rest(t, Len(s))]
         IN  /\ p \in Pieces /\ p.from = Len(s) /\ p.of = u /\ p.text = Rest(t, Len(s))
             /\ p.text = <<>> => Len(t) <= Len(s)
             /\ p.text # <<>> => Len(s) < Len(t)
             /\ Len(s) < Len(t) => IsRest(p, u, t)
<1> DEFINE r == Rest(t, Len(s))
           p == [of |-> u, from |-> Len(s), text |-> r]
<1>1. /\ r \in Seq(Chars) /\ Len(r) = (IF Len(s) < Len(t) THEN Len(t) - Len(s) ELSE 0)
      /\ Len(s) \in Nat /\ Len(t) \in Nat
  BY PrefixRest, LenProperties
<1>2. r = SubSeq(t, Len(s) + 1, Len(t))
  BY DEF Rest
<1> HIDE DEF r
<1>3. p \in Pieces
  BY <1>1 DEF Pieces
<1>4. (r = <<>> => Len(r) = 0) /\ (Len(r) = 0 => r = <<>>)
  BY <1>1, EmptySeq
<1>5. Len(s) < Len(t) => IsRest(p, u, t)
  BY <1>1, <1>2 DEF IsRest, EndOf
<1> QED
  BY <1>1, <1>3, <1>4, <1>5 DEF r

(* The types.                                                             *)
TransTyped ==
  /\ app \in {"captions", "lag", "overlap"} /\ utterance \in 1..(MaxUtterances + 1)
  /\ partials \in Seq(Texts) /\ Len(partials) <= AgreementN
  /\ committed \in Seq(Chars) /\ tail \in Seq(Chars)
  /\ translating \in Pieces
  /\ finalTurn \in [at : {"none", "translating", "flushing"}, of : 0..MaxUtterances, text : Seq(Chars), piece : Pieces]
  /\ gathered \in Seq(Pieces) /\ said \in Seq(Pieces)
  /\ shownSource \in Seq(Chars) /\ preview \in Seq(Seq(Chars))
  /\ whole \in Seq([of : 1..MaxUtterances, text : Seq(Chars)])
  /\ excused \subseteq 1..MaxUtterances /\ crossed \in BOOLEAN /\ revised \in BOOLEAN

(* Whose the accumulators are: the turn that runs has them, else the      *)
(* utterance under way.                                                   *)
Owner == IF Busy THEN finalTurn.of ELSE utterance
(* How much of the committed source is translated.                        *)
Translated == IF translating = Nothing THEN Len(committed) ELSE translating.from

(* Utterances are numbered in order: a turn is of an earlier utterance    *)
(* than the one under way and has not ended before, what awaits its       *)
(* translation is the rest of what was just committed, and nothing said,  *)
(* gathered or ended is of a later one.                                   *)
Numbered ==
  /\ Busy => finalTurn.of \in 1..(utterance - 1)
  /\ Busy => \A i \in 1..Len(whole) : whole[i].of # finalTurn.of
  /\ finalTurn.at = "translating" => IsRest(finalTurn.piece, finalTurn.of, finalTurn.text)
  /\ translating # Nothing => utterance <= MaxUtterances /\ committed # <<>> /\ IsRest(translating, utterance, committed)
  /\ \A i \in 1..Len(said) : said[i].of <= utterance
  /\ \A i \in 1..Len(gathered) : gathered[i].of <= utterance
  /\ \A i \in 1..Len(whole) : whole[i].of < utterance

(* While utterances keep apart, outside overlap mode: a turn and a        *)
(* committed source are not there together, what is gathered is of the    *)
(* owner, what was said of nobody behind it and in order, and clause lag  *)
(* has said nothing of it.                                                *)
Accumulated ==
  /\ gathered = <<>> => shownSource = <<>>
  /\ ~crossed /\ app # "overlap" =>
       /\ Busy => committed = <<>> /\ translating = Nothing
       /\ ~Busy => (committed = <<>> => gathered = <<>>)
       /\ \A i \in 1..Len(gathered) : gathered[i].of = Owner
       /\ \A i \in 1..Len(said) : said[i].of <= Owner
       /\ \A i, j \in 1..Len(said) : i < j => said[i].of <= said[j].of
       /\ app = "lag" /\ finalTurn.at # "flushing" => Places(said, Owner) = {}

(* Of the utterance under way, what was said or gathered is the           *)
(* translated part of the committed source, and the captions show that    *)
(* part.                                                                  *)
UnderWay ==
  ~crossed /\ utterance \notin excused =>
    /\ app # "lag" => Chain(said, Places(said, utterance), committed, Translated, revised)
    /\ app # "overlap" /\ ~Busy => Chain(gathered, 1..Len(gathered), committed, Translated, revised)
    /\ app = "captions" /\ ~Busy =>
         Len(shownSource) = Translated /\ (~revised => shownSource = SubSeq(committed, 1, Translated))

(* Of the utterance of a turn that translates, what was said or gathered  *)
(* reaches to the piece under way; when it flushes the text is whole.     *)
TurnUnderWay ==
  ~crossed /\ finalTurn.of \notin excused =>
    /\ finalTurn.at = "translating" /\ app # "lag" =>
         Chain(said, Places(said, finalTurn.of), finalTurn.text, finalTurn.piece.from, revised)
    /\ finalTurn.at = "translating" /\ app = "lag" =>
         Chain(gathered, 1..Len(gathered), finalTurn.text, finalTurn.piece.from, revised)
    /\ finalTurn.at = "flushing" => Whole(said, Places(said, finalTurn.of), finalTurn.text, revised)

(* A preview stands behind what is committed of the last hypothesis.      *)
Previewed ==
  app = "captions" /\ ~revised /\ preview # <<>> =>
    translating = Nothing /\ partials # <<>> /\ preview = <<tail>> /\ Last(partials) = committed \o tail

(* FinishedUtterancesAreWhole.                                            *)
Ended ==
  ~crossed => \A i \in 1..Len(whole) :
    whole[i].of \notin excused => Whole(said, Places(said, whole[i].of), whole[i].text, revised)

(* The inductive invariant.                                               *)
TransInv == TransTyped /\ Numbered /\ Accumulated /\ UnderWay /\ TurnUnderWay /\ Previewed /\ Ended

(* The empty buffers, and that the empty chain starts every source.       *)
LEMMA EmptyIsEmpty ==
  /\ <<>> \in Seq(Texts) /\ <<>> \in Seq(Chars) /\ <<>> \in Seq(Pieces) /\ Len(<<>>) = 0
  /\ Nothing \in Pieces
  /\ NoTurn \in [at : {"none", "translating", "flushing"}, of : 0..MaxUtterances, text : Seq(Chars), piece : Pieces]
  /\ \A loose : Chain(<<>>, {}, <<>>, 0, loose)
  /\ \A P : \A source \in Seq(Chars) : \A loose : Chain(P, {}, source, 0, loose)
  /\ SubSeq(<<>>, 1, 0) = <<>> /\ 1..0 = {}
  /\ \A s \in Seq(Chars) : Len(s) = 0 => s = <<>>
<1>1. /\ <<>> \in Seq(Texts) /\ <<>> \in Seq(Chars) /\ <<>> \in Seq(Pieces) /\ Len(<<>>) = 0
      /\ \A s \in Seq(Chars) : Len(s) = 0 => s = <<>>
  BY EmptySeq
<1>2. Nothing \in Pieces
  BY <1>1, TranslationAssumption DEF Nothing, Pieces
<1>3. NoTurn \in [at : {"none", "translating", "flushing"}, of : 0..MaxUtterances, text : Seq(Chars), piece : Pieces]
  BY <1>1, <1>2, TranslationAssumption DEF NoTurn
<1>4. \A P : \A source \in Seq(Chars) : \A loose : Chain(P, {}, source, 0, loose)
  BY ChainEmpty
<1>5. SubSeq(<<>>, 1, 0) = <<>>
  <2>1. \A s \in Seq(Chars) : Len(s) = 0 => SubSeq(s, 1, 0) = s
    BY SubSeqFull
  <2> QED
    BY <1>1, <2>1
<1>6. \A loose : Chain(<<>>, {}, <<>>, 0, loose)
  BY <1>1, <1>4
<1>7. 1..0 = {}
  OBVIOUS
<1> QED
  BY <1>1, <1>2, <1>3, <1>4, <1>5, <1>6, <1>7

(* It holds at the start.                                                 *)
LEMMA TransInitially == TransInit => TransInv
<1> SUFFICES ASSUME TransInit PROVE TransInv
  OBVIOUS
<1> USE DEF TransInit
<1>1. <<>> \in Seq(Seq(Chars)) /\ <<>> \in Seq([of : 1..MaxUtterances, text : Seq(Chars)])
  BY EmptySeq
<1>2. TransTyped
  <2>1. AgreementN \in Nat /\ MaxUtterances \in Nat
    BY TranslationAssumption
  <2>2. app \in {"captions", "lag", "overlap"} /\ utterance \in 1..(MaxUtterances + 1) /\ Len(partials) <= AgreementN
    BY <2>1, EmptyIsEmpty
  <2>3. excused \subseteq 1..MaxUtterances /\ crossed \in BOOLEAN /\ revised \in BOOLEAN
    OBVIOUS
  <2> QED
    BY <1>1, <2>2, <2>3, EmptyIsEmpty DEF TransTyped
<1>3. ~Busy /\ finalTurn.at = "none"
  BY DEF Busy, NoTurn
<1>4. 1..Len(<<>>) = {} /\ Places(said, utterance) = {} /\ Places(said, Owner) = {}
  BY EmptyIsEmpty DEF Places
<1>5. Numbered /\ Accumulated
  BY <1>3, <1>4 DEF Numbered, Accumulated
<1>6. Translated = 0
  BY EmptyIsEmpty DEF Translated
<1>7. UnderWay
  <2>1. /\ Chain(said, Places(said, utterance), committed, 0, revised)
        /\ Chain(gathered, 1..Len(gathered), committed, 0, revised)
    BY <1>4, EmptyIsEmpty
  <2>2. Len(shownSource) = 0 /\ shownSource = SubSeq(committed, 1, 0)
    BY EmptyIsEmpty
  <2> QED
    BY <1>6, <2>1, <2>2 DEF UnderWay
<1>8. TurnUnderWay /\ Previewed /\ Ended
  BY <1>3, <1>4 DEF TurnUnderWay, Previewed, Ended
<1> QED
  BY <1>2, <1>5, <1>7, <1>8 DEF TransInv

(* It is about these variables.                                           *)
LEMMA TransStutters == TransInv /\ UNCHANGED transVars => TransInv'
<1> SUFFICES ASSUME TransInv, UNCHANGED transVars PROVE TransInv'
  OBVIOUS
<1> USE DEF transVars, committerVars, appVars, histories
<1>1. TransTyped'
  BY DEF TransInv, TransTyped
<1>2. Numbered'
  BY DEF TransInv, Numbered, Busy
<1>3. Accumulated'
  BY DEF TransInv, Accumulated, Busy, Owner
<1>4. UnderWay' /\ TurnUnderWay'
  BY DEF TransInv, UnderWay, TurnUnderWay, Busy, Translated
<1>5. Previewed' /\ Ended'
  BY DEF TransInv, Previewed, Ended
<1> QED
  BY <1>1, <1>2, <1>3, <1>4, <1>5 DEF TransInv

(* The preview is shown, or not.                                          *)
LEMMA PreviewShown == TransInv /\ ShowPreview => TransInv'
<1> SUFFICES ASSUME TransInv, ShowPreview PROVE TransInv'
  OBVIOUS
<1> USE DEF ShowPreview, histories, committerVars
<1>1. TransTyped'
  <2>1. <<>> \in Seq(Seq(Chars))
    BY EmptySeq
  <2> QED
    BY <2>1 DEF TransInv, TransTyped
<1>2. Numbered'
  BY DEF TransInv, Numbered, Busy
<1>3. Accumulated'
  BY DEF TransInv, Accumulated, Busy, Owner
<1>4. UnderWay' /\ TurnUnderWay'
  BY DEF TransInv, UnderWay, TurnUnderWay, Busy, Translated
<1>5. Previewed' /\ Ended'
  BY DEF TransInv, Previewed, Ended
<1> QED
  BY <1>1, <1>2, <1>3, <1>4, <1>5 DEF TransInv

(* The translator raises on a partial: the utterance is excused.          *)
LEMMA PartialFailed == TransInv /\ PartialFails => TransInv'
<1> SUFFICES ASSUME TransInv, PartialFails PROVE TransInv'
  OBVIOUS
<1> USE DEF PartialFails, appVars, committerVars
<1>1. /\ translating.of = utterance /\ utterance \in 1..MaxUtterances /\ committed # <<>>
      /\ ~Shared \/ crossed
  BY DEF TransInv, TransTyped, Numbered, IsRest, Accumulated, Shared
<1>2. Nothing \in Pieces
  <2>1. <<>> \in Seq(Chars)
    BY EmptySeq
  <2> QED
    BY <2>1, TranslationAssumption DEF Nothing, Pieces
<1>3. TransTyped'
  BY <1>1, <1>2 DEF TransInv, TransTyped
<1>4. Numbered'
  BY DEF TransInv, Numbered, Busy
<1>5. Accumulated'
  BY <1>1 DEF TransInv, Accumulated, Busy, Shared, Owner
<1>6. UnderWay'
  BY <1>1 DEF UnderWay
<1>7. TurnUnderWay' /\ Ended'
  BY DEF TransInv, TurnUnderWay, Ended
<1>8. Previewed'
  BY DEF TransInv, Previewed
<1> QED
  BY <1>3, <1>4, <1>5, <1>6, <1>7, <1>8 DEF TransInv

(* Nothing is said of the next utterance, nor of the one under way while  *)
(* the turn of the one before it runs and they keep apart.                *)
LEMMA NewcomerHasNoPlace ==
  ASSUME TransInv
  PROVE  /\ Places(said, utterance + 1) = {}
         /\ ~crossed /\ app # "overlap" /\ Busy => Places(said, utterance) = {}
<1>1. utterance \in Nat /\ \A i \in 1..Len(said) : said[i].of \in Nat /\ said[i].of <= utterance
  <2>0. MaxUtterances \in Nat
    BY TranslationAssumption
  <2>1. \A i \in 1..Len(said) : said[i] \in Pieces
    BY ElementOfSeq DEF TransInv, TransTyped
  <2>2. utterance \in Nat
    BY <2>0 DEF TransInv, TransTyped
  <2>3. \A i \in 1..Len(said) : said[i].of \in Nat
    BY <2>0, <2>1 DEF Pieces
  <2> QED
    BY <2>2, <2>3 DEF TransInv, Numbered
<1>2. Places(said, utterance + 1) = {}
  BY <1>1 DEF Places
<1>3. ASSUME ~crossed, app # "overlap", Busy
      PROVE  Places(said, utterance) = {}
  <2>1. finalTurn.of \in 1..(utterance - 1) /\ \A i \in 1..Len(said) : said[i].of <= finalTurn.of
    BY <1>3 DEF TransInv, Numbered, Accumulated, Owner
  <2> QED
    BY <1>1, <2>1 DEF Places
<1> QED
  BY <1>2, <1>3

(* A final that is not passed on: what the committer holds is left for    *)
(* the next utterance, and so they have met, unless it holds nothing.     *)
LEMMA FinalIgnored == ASSUME NEW stop \in BOOLEAN, TransInv, IgnoreFinal(stop) PROVE TransInv'
<1> USE DEF IgnoreFinal, appVars, committerVars
<1>1. utterance \in 1..MaxUtterances /\ utterance \in Nat /\ MaxUtterances \in Nat /\ (finalTurn.at = "none" <=> ~Busy)
  BY TranslationAssumption DEF TransInv, TransTyped, Busy
<1>2. TransTyped'
  <2>1. finalTurn' \in [at : {"none", "translating", "flushing"}, of : 0..MaxUtterances, text : Seq(Chars), piece : Pieces]
    BY EmptyIsEmpty DEF TransInv, TransTyped
  <2>2. Busy => finalTurn.of \in 1..MaxUtterances
    BY <1>1 DEF TransInv, Numbered
  <2>3. excused' \subseteq 1..MaxUtterances
    BY <1>1, <2>2 DEF TransInv, TransTyped
  <2>4. crossed' \in BOOLEAN /\ utterance' \in 1..(MaxUtterances + 1)
    BY <1>1
  <2> QED
    BY <2>1, <2>3, <2>4 DEF TransInv, TransTyped
<1>3. /\ Busy' => Busy /\ finalTurn' = finalTurn
      /\ ~Busy' => finalTurn'.at = "none"
      /\ finalTurn'.at # "none" <=> Busy'
  BY DEF Busy, NoTurn
<1>4. \A i \in 1..Len(said) : said[i].of \in Nat /\ said[i].of <= utterance
  <2>1. \A i \in 1..Len(said) : said[i] \in Pieces
    BY ElementOfSeq DEF TransInv, TransTyped
  <2> QED
    BY <2>1 DEF TransInv, Numbered, Pieces
<1>5. \A i \in 1..Len(gathered) : gathered[i].of \in Nat /\ gathered[i].of <= utterance
  <2>1. \A i \in 1..Len(gathered) : gathered[i] \in Pieces
    BY ElementOfSeq DEF TransInv, TransTyped
  <2> QED
    BY <2>1 DEF TransInv, Numbered, Pieces
<1>6. \A i \in 1..Len(whole) : whole[i].of \in Nat /\ whole[i].of < utterance
  <2>1. \A i \in 1..Len(whole) : whole[i] \in [of : 1..MaxUtterances, text : Seq(Chars)]
    BY ElementOfSeq DEF TransInv, TransTyped
  <2> QED
    BY <1>1, <2>1 DEF TransInv, Numbered
<1>7. Numbered'
  <2>1. Busy' => finalTurn'.of \in 1..(utterance' - 1)
    BY <1>1, <1>3 DEF TransInv, Numbered
  <2>2. Busy' => \A i \in 1..Len(whole') : whole'[i].of # finalTurn'.of
    BY <1>1, <1>3 DEF TransInv, Numbered
  <2>3. finalTurn'.at = "translating" => IsRest(finalTurn'.piece, finalTurn'.of, finalTurn'.text)
    BY <1>1, <1>3 DEF TransInv, Numbered
  <2>4. /\ \A i \in 1..Len(said') : said'[i].of <= utterance'
        /\ \A i \in 1..Len(gathered') : gathered'[i].of <= utterance'
        /\ \A i \in 1..Len(whole') : whole'[i].of < utterance'
    BY <1>1, <1>4, <1>5, <1>6
  <2> QED
    BY <2>1, <2>2, <2>3, <2>4 DEF Numbered
<1>8. ~crossed' =>
        /\ ~crossed /\ committed = <<>>
        /\ Busy /\ app # "overlap" => Busy' /\ finalTurn' = finalTurn
  BY <1>3 DEF Shared, Busy
<1>9. ~crossed' /\ app # "overlap" /\ ~Busy' => ~Busy /\ gathered = <<>> /\ shownSource = <<>>
  BY <1>8 DEF TransInv, Accumulated
<1>10. Places(said, utterance + 1) = {}
  BY NewcomerHasNoPlace
<1>11. Accumulated'
  <2>1. gathered' = <<>> => shownSource' = <<>>
    BY DEF TransInv, Accumulated
  <2>2. ASSUME ~crossed', app' # "overlap", Busy'
        PROVE  Accumulated'
    <3>1. ~crossed /\ app # "overlap" /\ Busy /\ finalTurn' = finalTurn /\ Owner' = Owner
      BY <1>3, <1>8, <2>2 DEF Owner
    <3> QED
      BY <1>3, <2>1, <2>2, <3>1 DEF TransInv, Accumulated
  <2>3. ASSUME ~crossed', app' # "overlap", ~Busy'
        PROVE  Accumulated'
    <3>1. Owner' = utterance + 1 /\ gathered' = <<>> /\ Len(gathered') = 0 /\ 1..0 = {}
      BY <1>9, <2>3, EmptyIsEmpty DEF Owner
    <3>2. \A i \in 1..Len(said') : said'[i].of <= utterance + 1
      BY <1>1, <1>4
    <3>3. \A i, j \in 1..Len(said') : i < j => said'[i].of <= said'[j].of
      BY <1>8, <2>3 DEF TransInv, Accumulated
    <3> QED
      BY <1>10, <2>1, <2>3, <3>1, <3>2, <3>3 DEF Accumulated
  <2> QED
    BY <2>1, <2>2, <2>3 DEF Accumulated
<1>12. UnderWay'
  <2> SUFFICES ASSUME ~crossed' PROVE UnderWay'
    BY DEF UnderWay
  <2>1. committed' = <<>> /\ Translated' = 0
    BY <1>8, EmptyIsEmpty DEF Translated
  <2>2. Chain(said, {}, <<>>, 0, revised)
    BY EmptyIsEmpty
  <2>3. app # "overlap" /\ ~Busy' =>
          /\ Chain(gathered', 1..Len(gathered'), <<>>, 0, revised)
          /\ Len(shownSource') = 0 /\ shownSource' = SubSeq(<<>>, 1, 0)
    BY <1>9, EmptyIsEmpty
  <2> QED
    BY <1>10, <2>1, <2>2, <2>3 DEF UnderWay
<1>13. TurnUnderWay'
  BY <1>3 DEF TransInv, TurnUnderWay, Busy
<1>14. Previewed' /\ Ended'
  BY DEF TransInv, Previewed, Ended
<1> QED
  BY <1>2, <1>7, <1>11, <1>12, <1>13, <1>14 DEF TransInv

(* The numbers, as the steps need them.                                   *)
LEMMA EverythingHasANumber ==
  ASSUME TransInv
  PROVE  /\ MaxUtterances \in Nat /\ utterance \in Nat /\ utterance \in 1..(MaxUtterances + 1)
         /\ (finalTurn.at = "none" <=> ~Busy)
         /\ Busy => finalTurn.of \in 1..MaxUtterances /\ finalTurn.of < utterance /\ finalTurn.of \in Nat
         /\ Len(said) \in Nat /\ Len(gathered) \in Nat /\ Len(whole) \in Nat /\ Len(committed) \in Nat
         /\ \A i \in 1..Len(said) : said[i].of \in Nat /\ said[i].of <= utterance
         /\ \A i \in 1..Len(gathered) : gathered[i].of \in Nat /\ gathered[i].of <= utterance
         /\ \A i \in 1..Len(whole) : whole[i].of \in Nat /\ whole[i].of < utterance
<1>1. MaxUtterances \in Nat
  BY TranslationAssumption
<1>2. utterance \in Nat /\ utterance \in 1..(MaxUtterances + 1)
  BY <1>1 DEF TransInv, TransTyped
<1>3. Len(said) \in Nat /\ Len(gathered) \in Nat /\ Len(whole) \in Nat /\ Len(committed) \in Nat
  BY LenProperties DEF TransInv, TransTyped
<1>4. \A i \in 1..Len(said) : said[i].of \in Nat /\ said[i].of <= utterance
  <2>1. \A i \in 1..Len(said) : said[i] \in Pieces
    BY ElementOfSeq DEF TransInv, TransTyped
  <2>2. \A i \in 1..Len(said) : said[i].of \in Nat
    BY <1>1, <2>1 DEF Pieces
  <2> QED
    BY <2>2 DEF TransInv, Numbered
<1>5. \A i \in 1..Len(gathered) : gathered[i].of \in Nat /\ gathered[i].of <= utterance
  <2>1. \A i \in 1..Len(gathered) : gathered[i] \in Pieces
    BY ElementOfSeq DEF TransInv, TransTyped
  <2>2. \A i \in 1..Len(gathered) : gathered[i].of \in Nat
    BY <1>1, <2>1 DEF Pieces
  <2> QED
    BY <2>2 DEF TransInv, Numbered
<1>6. \A i \in 1..Len(whole) : whole[i].of \in Nat /\ whole[i].of < utterance
  <2>1. \A i \in 1..Len(whole) : whole[i] \in [of : 1..MaxUtterances, text : Seq(Chars)]
    BY ElementOfSeq DEF TransInv, TransTyped
  <2>2. \A i \in 1..Len(whole) : whole[i].of \in Nat
    BY <1>1, <2>1
  <2> QED
    BY <2>2 DEF TransInv, Numbered
<1>7. Busy => finalTurn.of \in 1..MaxUtterances /\ finalTurn.of < utterance /\ finalTurn.of \in Nat
  BY <1>1, <1>2 DEF TransInv, Numbered
<1> QED
  BY <1>1, <1>2, <1>3, <1>4, <1>5, <1>6, <1>7 DEF Busy

(* FinalDone adds the text of the turn to those that are finished.        *)
LEMMA EndedOneMore ==
  ASSUME TransInv, Busy, whole' = Append(whole, [of |-> finalTurn.of, text |-> finalTurn.text])
  PROVE  /\ whole' \in Seq([of : 1..MaxUtterances, text : Seq(Chars)])
         /\ \A i \in 1..Len(whole') : whole'[i].of < utterance
         /\ \A i \in 1..Len(whole') : \/ i \in 1..Len(whole) /\ whole'[i] = whole[i]
                                      \/ whole'[i] = [of |-> finalTurn.of, text |-> finalTurn.text]
<1> DEFINE final == [of |-> finalTurn.of, text |-> finalTurn.text]
           R == [of : 1..MaxUtterances, text : Seq(Chars)]
<1>1. final \in R /\ whole \in Seq(R) /\ final.of < utterance
  BY EverythingHasANumber DEF TransInv, TransTyped
<1>2. whole' = Append(whole, final)
  OBVIOUS
<1> HIDE DEF R, final
<1>3. /\ whole' \in Seq(R) /\ Len(whole') = Len(whole) + 1 /\ whole'[Len(whole) + 1] = final
      /\ \A i \in 1..Len(whole) : whole'[i] = whole[i]
  BY <1>1, <1>2, AppendProperties
<1>4. \A i \in 1..Len(whole') : i \in 1..Len(whole) \/ i = Len(whole) + 1
  <2>1. Len(whole) \in Nat
    BY EverythingHasANumber
  <2>2. Len(whole') = Len(whole) + 1
    BY <1>3
  <2> HIDE <1>1, <1>2, <1>3
  <2> QED
    BY <2>1, <2>2
<1>5. \A i \in 1..Len(whole') : (i \in 1..Len(whole) /\ whole'[i] = whole[i]) \/ whole'[i] = final
  BY <1>3, <1>4
<1>6. \A i \in 1..Len(whole') : whole'[i].of < utterance
  BY <1>1, <1>5, EverythingHasANumber
<1> QED
  BY <1>3, <1>5, <1>6 DEF R, final

(* The flush has returned: the text was whole, and the accumulators are   *)
(* reset.                                                                 *)
LEMMA TurnTold == TransInv /\ FinalTold => TransInv'
<1> SUFFICES ASSUME TransInv, FinalTold PROVE TransInv'
  OBVIOUS
<1> USE DEF FinalTold, FinalDone, ResetApp, committerVars
<1>1. Busy /\ ~Busy' /\ finalTurn' = NoTurn /\ finalTurn'.at = "none"
  BY DEF Busy, NoTurn
<1>2. /\ whole' \in Seq([of : 1..MaxUtterances, text : Seq(Chars)])
      /\ \A i \in 1..Len(whole') : whole'[i].of < utterance
      /\ \A i \in 1..Len(whole') : \/ i \in 1..Len(whole) /\ whole'[i] = whole[i]
                                   \/ whole'[i] = [of |-> finalTurn.of, text |-> finalTurn.text]
  BY <1>1, EndedOneMore
<1>3. gathered' = <<>> /\ Len(gathered') = 0 /\ 1..0 = {} /\ shownSource' = <<>> /\ Len(shownSource') = 0
  BY EmptyIsEmpty
<1>4. TransTyped'
  BY <1>1, <1>2, EmptyIsEmpty DEF TransInv, TransTyped
<1>5. Numbered'
  BY <1>1, <1>2, <1>3 DEF TransInv, Numbered
<1>6. ~crossed /\ app # "overlap" => /\ committed = <<>> /\ translating = Nothing /\ Places(said, utterance) = {}
  BY <1>1, NewcomerHasNoPlace DEF TransInv, Accumulated
<1>7. Accumulated'
  <2>1. Owner' = utterance
    BY <1>1 DEF Owner
  <2>2. \A i \in 1..Len(said) : said[i].of <= utterance
    BY DEF TransInv, Numbered
  <2>3. ~crossed /\ app # "overlap" => \A i, j \in 1..Len(said) : i < j => said[i].of <= said[j].of
    BY DEF TransInv, Accumulated
  <2> QED
    BY <1>1, <1>3, <1>6, <2>1, <2>2, <2>3 DEF Accumulated
<1>8. UnderWay'
  <2>1. Translated' = Translated
    BY DEF Translated
  <2>2. ~crossed /\ app # "overlap" =>
          /\ Translated = 0 /\ Chain(gathered', 1..Len(gathered'), committed', 0, revised')
          /\ shownSource' = SubSeq(committed', 1, 0)
    BY <1>3, <1>6, EmptyIsEmpty DEF Translated
  <2>3. ~crossed /\ utterance \notin excused /\ app # "lag" =>
          Chain(said, Places(said, utterance), committed, Translated, revised)
    BY DEF TransInv, UnderWay
  <2> QED
    BY <1>3, <2>1, <2>2, <2>3 DEF UnderWay
<1>9. TurnUnderWay'
  BY <1>1 DEF TurnUnderWay
<1>10. Previewed'
  BY DEF TransInv, Previewed
<1>11. Ended'
  <2>1. ~crossed /\ finalTurn.of \notin excused => Whole(said, Places(said, finalTurn.of), finalTurn.text, revised)
    BY DEF TransInv, TurnUnderWay
  <2>2. ASSUME ~crossed, NEW i \in 1..Len(whole'), whole'[i].of \notin excused
        PROVE  Whole(said, Places(said, whole'[i].of), whole'[i].text, revised)
    <3>1. CASE i \in 1..Len(whole) /\ whole'[i] = whole[i]
      BY <2>2, <3>1 DEF TransInv, Ended
    <3>2. CASE whole'[i] = [of |-> finalTurn.of, text |-> finalTurn.text]
      BY <2>1, <2>2, <3>2
    <3> QED
      BY <1>2, <3>1, <3>2
  <2> QED
    BY <2>2 DEF Ended
<1> QED
  BY <1>4, <1>5, <1>7, <1>8, <1>9, <1>10, <1>11 DEF TransInv

(* The translator raises on a final: what was gathered is left for the    *)
(* next utterance, and so they have met, unless it is nothing.            *)
LEMMA TurnFailed == TransInv /\ FinalFails => TransInv'
<1> SUFFICES ASSUME TransInv, FinalFails PROVE TransInv'
  OBVIOUS
<1> USE DEF FinalFails, appVars, committerVars
<1>1. Busy /\ ~Busy' /\ finalTurn' = NoTurn /\ finalTurn'.at = "none"
  BY DEF Busy, NoTurn
<1>2. TransTyped'
  <2>1. finalTurn.of \in 1..MaxUtterances
    BY <1>1, EverythingHasANumber
  <2>2. crossed' \in BOOLEAN /\ excused' \subseteq 1..MaxUtterances
    BY <2>1 DEF TransInv, TransTyped
  <2> QED
    BY <1>1, <2>2, EmptyIsEmpty DEF TransInv, TransTyped
<1>3. Numbered'
  BY <1>1 DEF TransInv, Numbered
<1>4. ~crossed' => ~crossed /\ gathered = <<>> /\ shownSource = <<>> /\ Len(gathered) = 0 /\ Len(shownSource) = 0
  BY EmptyIsEmpty DEF TransInv, Accumulated
<1>5. ~crossed /\ app # "overlap" => /\ committed = <<>> /\ translating = Nothing /\ Places(said, utterance) = {}
  BY <1>1, NewcomerHasNoPlace DEF TransInv, Accumulated
<1>6. Accumulated'
  <2>1. Owner' = utterance /\ 1..0 = {}
    BY <1>1 DEF Owner
  <2>2. \A i \in 1..Len(said) : said[i].of <= utterance
    BY DEF TransInv, Numbered
  <2>3. ~crossed /\ app # "overlap" => \A i, j \in 1..Len(said) : i < j => said[i].of <= said[j].of
    BY DEF TransInv, Accumulated
  <2>4. gathered = <<>> => shownSource = <<>>
    BY DEF TransInv, Accumulated
  <2> QED
    BY <1>1, <1>4, <1>5, <2>1, <2>2, <2>3, <2>4 DEF Accumulated
<1>7. UnderWay'
  <2>1. Translated' = Translated
    BY DEF Translated
  <2>2. ~crossed' /\ app # "overlap" =>
          /\ Translated = 0 /\ Chain(gathered, 1..Len(gathered), committed, 0, revised)
          /\ shownSource = SubSeq(committed, 1, 0)
    BY <1>4, <1>5, EmptyIsEmpty DEF Translated
  <2>3. ~crossed /\ utterance \notin excused /\ app # "lag" =>
          Chain(said, Places(said, utterance), committed, Translated, revised)
    BY DEF TransInv, UnderWay
  <2> QED
    BY <1>4, <2>1, <2>2, <2>3 DEF UnderWay
<1>8. TurnUnderWay'
  BY <1>1 DEF TurnUnderWay
<1>9. Previewed' /\ Ended'
  BY DEF TransInv, Previewed, Ended
<1> QED
  BY <1>2, <1>3, <1>6, <1>7, <1>8, <1>9 DEF TransInv

(* An echo resets the committer and the app.                              *)
LEMMA EchoHeard == TransInv /\ HearEcho => TransInv'
<1> SUFFICES ASSUME TransInv, HearEcho PROVE TransInv'
  OBVIOUS
<1> USE DEF HearEcho, ForgetUtterance, ResetApp
<1>1. ~Busy' /\ finalTurn' = NoTurn /\ finalTurn'.at = "none" /\ utterance \in 1..MaxUtterances
  BY EverythingHasANumber DEF Busy, NoTurn
<1>2. gathered' = <<>> /\ Len(gathered') = 0 /\ 1..0 = {} /\ shownSource' = <<>> /\ Len(shownSource') = 0
  BY EmptyIsEmpty
<1>3. TransTyped'
  <2>1. excused' \subseteq 1..MaxUtterances
    BY <1>1, EverythingHasANumber DEF TransInv, TransTyped
  <2>2. utterance' \in 1..(MaxUtterances + 1) /\ Len(<<>>) <= AgreementN
    <3>1. AgreementN \in Nat /\ MaxUtterances \in Nat /\ Len(<<>>) = 0
      BY EmptyIsEmpty, TranslationAssumption
    <3> QED
      BY <1>1, <3>1
  <2> QED
    BY <1>1, <2>1, <2>2, EmptyIsEmpty DEF TransInv, TransTyped
<1>4. Numbered'
  <2>1. /\ \A i \in 1..Len(said) : said[i].of <= utterance + 1
        /\ \A i \in 1..Len(whole) : whole[i].of < utterance + 1
    BY EverythingHasANumber
  <2> QED
    BY <1>1, <1>2, <2>1 DEF Numbered
<1>5. Places(said, utterance + 1) = {}
  BY NewcomerHasNoPlace
<1>6. Accumulated'
  <2>1. Owner' = utterance + 1
    BY <1>1 DEF Owner
  <2>2. \A i \in 1..Len(said) : said[i].of <= utterance + 1
    BY EverythingHasANumber
  <2>3. ~crossed /\ app # "overlap" => \A i, j \in 1..Len(said) : i < j => said[i].of <= said[j].of
    BY DEF TransInv, Accumulated
  <2> QED
    BY <1>1, <1>2, <1>5, <2>1, <2>2, <2>3 DEF Accumulated
<1>7. UnderWay'
  <2>1. Translated' = 0
    BY EmptyIsEmpty DEF Translated
  <2>2. /\ Chain(gathered', 1..Len(gathered'), <<>>, 0, revised) /\ shownSource' = SubSeq(<<>>, 1, 0)
        /\ Chain(said, {}, <<>>, 0, revised)
    BY <1>2, EmptyIsEmpty
  <2> QED
    BY <1>2, <1>5, <2>1, <2>2 DEF UnderWay
<1>8. TurnUnderWay'
  BY <1>1 DEF TurnUnderWay
<1>9. Previewed' /\ Ended'
  BY DEF TransInv, Previewed, Ended
<1> QED
  BY <1>3, <1>4, <1>6, <1>7, <1>8, <1>9 DEF TransInv

(* _partials with the new hypothesis.                                     *)
Heard(text) == IF Len(partials) < AgreementN THEN Append(partials, text) ELSE Append(Tail(partials), text)

(* It is not longer than AgreementN and ends with that hypothesis.        *)
LEMMA HeardEndsWithText ==
  ASSUME TransTyped, NEW text \in Texts
  PROVE  /\ Heard(text) \in Seq(Texts) /\ Len(Heard(text)) <= AgreementN /\ Heard(text) # <<>>
         /\ Last(Heard(text)) = text
<1>0. AgreementN \in Nat \ {0} /\ partials \in Seq(Texts) /\ Len(partials) <= AgreementN /\ Len(partials) \in Nat
  BY TranslationAssumption, LenProperties DEF TransTyped
<1>1. PICK before \in Seq(Texts) : Heard(text) = Append(before, text) /\ Len(before) \in Nat /\ Len(before) < AgreementN
  <2>1. CASE Len(partials) < AgreementN
    BY <1>0, <2>1 DEF Heard
  <2>2. CASE ~(Len(partials) < AgreementN)
    <3>1. Len(partials) # 0 /\ partials # <<>>
      BY <1>0, <2>2, EmptySeq
    <3>2. Tail(partials) \in Seq(Texts) /\ Len(Tail(partials)) = Len(partials) - 1
      BY <1>0, <3>1, HeadTailProperties
    <3>3. Len(Tail(partials)) \in Nat /\ Len(Tail(partials)) < AgreementN
      BY <1>0, <3>1, <3>2
    <3> QED
      BY <2>2, <3>2, <3>3 DEF Heard
  <2> QED
    BY <2>1, <2>2
<1> DEFINE heard == Append(before, text)
<1>2. heard \in Seq(Texts) /\ Len(heard) = Len(before) + 1 /\ heard[Len(before) + 1] = text
  BY AppendProperties
<1>3. Len(heard) <= AgreementN /\ Len(heard) # 0
  BY <1>0, <1>1, <1>2
<1>4. heard # <<>>
  BY <1>3, EmptySeq
<1>5. Last(heard) = text
  BY <1>2 DEF Last
<1> QED
  BY <1>1, <1>2, <1>3, <1>4, <1>5

(* A hypothesis that is revised takes nothing from the turn and the       *)
(* utterances before it.                                                  *)
LEMMA HypothesisRevised ==
  ASSUME TransInv, ~revised' => ~revised, ~crossed' => ~crossed,
         UNCHANGED <<said, gathered, finalTurn, whole, excused, app>>
  PROVE  TurnUnderWay' /\ Ended'
<1>1. (~revised' => ~revised) /\ (~crossed' => ~crossed)
  OBVIOUS
<1>2. said \in Seq(Pieces) /\ gathered \in Seq(Pieces) /\ finalTurn.text \in Seq(Chars)
  BY DEF TransInv, TransTyped
<1>3. \A u : Places(said, u) \in SUBSET (1..Len(said))
  BY DEF Places
<1>4. 1..Len(gathered) \in SUBSET (1..Len(gathered))
  OBVIOUS
<1>5. \A u, text : Whole(said, Places(said, u), text, revised) => Whole(said, Places(said, u), text, revised')
  BY <1>1, <1>2, <1>3, WholeKept
<1>6. Ended'
  BY <1>1, <1>5 DEF TransInv, Ended
<1>7. \A t \in Seq(Chars) : IsPrefix(t, t)
  <2> TAKE t \in Seq(Chars)
  <2>1. Len(t) \in Nat /\ Len(t) <= Len(t)
    BY LenProperties
  <2> QED
    BY <2>1 DEF IsPrefix
<1>8. \A n : /\ Chain(said, Places(said, finalTurn.of), finalTurn.text, n, revised)
                  => Chain(said, Places(said, finalTurn.of), finalTurn.text, n, revised')
             /\ Chain(gathered, 1..Len(gathered), finalTurn.text, n, revised)
                  => Chain(gathered, 1..Len(gathered), finalTurn.text, n, revised')
  BY <1>1, <1>2, <1>3, <1>4, <1>7, ChainLonger
<1>9. TurnUnderWay'
  BY <1>1, <1>5, <1>8 DEF TransInv, TurnUnderWay
<1> QED
  BY <1>6, <1>9

(* What is translated of the committed source is translated of what goes  *)
(* on with it.                                                            *)
LEMMA UtteranceGrows ==
  ASSUME TransInv, NEW source \in Seq(Chars), NEW looser, ~looser => ~revised /\ IsPrefix(committed, source),
         translating = Nothing
  PROVE  /\ Len(committed) \in Nat
         /\ ~crossed /\ utterance \notin excused =>
              /\ app # "lag" => Chain(said, Places(said, utterance), source, Len(committed), looser)
              /\ app # "overlap" /\ ~Busy => Chain(gathered, 1..Len(gathered), source, Len(committed), looser)
              /\ app = "captions" /\ ~Busy =>
                   Len(shownSource) = Len(committed) /\ (~looser => shownSource = SubSeq(source, 1, Len(committed)))
<1>1. said \in Seq(Pieces) /\ gathered \in Seq(Pieces) /\ committed \in Seq(Chars) /\ Len(committed) \in Nat
  BY EverythingHasANumber DEF TransInv, TransTyped
<1>2. Places(said, utterance) \in SUBSET (1..Len(said)) /\ 1..Len(gathered) \in SUBSET (1..Len(gathered))
  BY DEF Places
<1>3. Translated = Len(committed)
  BY DEF Translated
<1>4. ~looser => SubSeq(committed, 1, Len(committed)) = SubSeq(source, 1, Len(committed))
  BY <1>1, PrefixReads DEF IsPrefix
<1> QED
  BY <1>1, <1>2, <1>3, <1>4, ChainLonger DEF TransInv, UnderWay

(* A partial that commits nothing: at most the preview changes.           *)
LEMMA PartialKept ==
  ASSUME NEW text \in Texts, TransInv, HearPartial(text), ~Grows(CommitTarget(Heard(text)))
  PROVE  TransInv'
<1> DEFINE grows == Grows(CommitTarget(Heard(text)))
<1>1. /\ translating = Nothing /\ utterance <= MaxUtterances
      /\ partials' = Heard(text) /\ revised' = (revised \/ ~IsPrefix(committed, text))
      /\ crossed' = (crossed \/ (grows /\ Shared))
      /\ UNCHANGED <<app, utterance, finalTurn, gathered, shownSource, said, whole, excused, committed, translating>>
      /\ IF app = "captions" /\ Rest(text, Len(committed)) # tail
         THEN tail' = Rest(text, Len(committed)) /\ preview' = <<tail'>>
         ELSE UNCHANGED <<tail, preview>>
  BY DEF HearPartial, Heard
<1>2. crossed' \in BOOLEAN /\ crossed' = crossed /\ revised' \in BOOLEAN /\ (~revised' => ~revised /\ IsPrefix(committed, text))
  BY <1>1 DEF TransInv, TransTyped
<1>3. text \in Seq(Chars) /\ committed \in Seq(Chars)
  BY TextsAreSequences DEF TransInv, TransTyped
<1>4. /\ Rest(text, Len(committed)) \in Seq(Chars)
      /\ ~revised' => committed \o Rest(text, Len(committed)) = text
  BY <1>2, <1>3, PrefixRest
<1>5. /\ partials' \in Seq(Texts) /\ Len(partials') <= AgreementN /\ partials' # <<>> /\ Last(partials') = text
  BY <1>1, HeardEndsWithText DEF TransInv
<1>6. TransTyped'
  <2>1. tail' \in Seq(Chars)
    BY <1>1, <1>4 DEF TransInv, TransTyped
  <2>2. preview' \in Seq(Seq(Chars))
    <3>1. \A S : \A x \in S : <<x>> \in Seq(S)
      OBVIOUS
    <3>2. preview' = <<tail'>> \/ preview' = preview
      BY <1>1
    <3>3. <<tail'>> \in Seq(Seq(Chars)) /\ preview \in Seq(Seq(Chars))
      BY <2>1, <3>1 DEF TransInv, TransTyped
    <3> QED
      BY <3>2, <3>3
  <2> QED
    BY <1>1, <1>2, <1>5, <2>1, <2>2 DEF TransInv, TransTyped
<1>7. Numbered'
  BY <1>1 DEF TransInv, Numbered, Busy
<1>8. Accumulated'
  BY <1>1, <1>2 DEF TransInv, Accumulated, Busy, Owner
<1>9. UnderWay'
  <2>1. Translated' = Len(committed) /\ (Busy' <=> Busy)
    BY <1>1 DEF Translated, Busy
  <2>2. IsPrefix(committed, committed)
    BY EverythingHasANumber DEF IsPrefix
  <2>3. ~crossed /\ utterance \notin excused =>
          /\ app # "lag" => Chain(said, Places(said, utterance), committed, Len(committed), revised')
          /\ app # "overlap" /\ ~Busy => Chain(gathered, 1..Len(gathered), committed, Len(committed), revised')
          /\ app = "captions" /\ ~Busy =>
               Len(shownSource) = Len(committed) /\ (~revised' => shownSource = SubSeq(committed, 1, Len(committed)))
    BY <1>1, <1>2, <1>3, <2>2, UtteranceGrows
  <2> QED
    BY <1>1, <1>2, <2>1, <2>3 DEF UnderWay
<1>10. TurnUnderWay' /\ Ended'
  BY <1>1, <1>2, HypothesisRevised
<1>11. Previewed'
  <2> SUFFICES ASSUME app' = "captions", ~revised', preview' # <<>>
               PROVE  preview' = <<tail'>> /\ Last(partials') = committed' \o tail'
    BY <1>1, <1>5 DEF Previewed
  <2>1. CASE Rest(text, Len(committed)) # tail
    BY <1>1, <1>4, <1>5, <2>1
  <2>2. CASE Rest(text, Len(committed)) = tail
    <3>1. tail' = tail /\ preview' = preview
      BY <1>1, <2>2
    <3> QED
      BY <1>1, <1>2, <1>4, <1>5, <2>2, <3>1 DEF TransInv, Previewed
  <2> QED
    BY <2>1, <2>2
<1> QED
  BY <1>6, <1>7, <1>8, <1>9, <1>10, <1>11 DEF TransInv

(* A partial that commits: the piece that awaits its translation goes on  *)
(* where the committed source ended.                                      *)
LEMMA PartialCommits ==
  ASSUME NEW text \in Texts, TransInv, HearPartial(text), Grows(CommitTarget(Heard(text)))
  PROVE  TransInv'
<1> DEFINE target == CommitTarget(Heard(text))
           piece == [of |-> utterance, from |-> Len(committed), text |-> Rest(target, Len(committed))]
<1>1. /\ translating = Nothing /\ utterance <= MaxUtterances
      /\ partials' = Heard(text) /\ revised' = (revised \/ ~IsPrefix(committed, text))
      /\ crossed' = (crossed \/ Shared)
      /\ committed' = target /\ tail' = Rest(text, Len(target)) /\ translating' = piece /\ preview' = <<>>
      /\ UNCHANGED <<app, utterance, finalTurn, gathered, shownSource, said, whole, excused>>
  BY DEF HearPartial, Heard, Piece, Rest
<1>2. /\ partials' \in Seq(Texts) /\ Len(partials') <= AgreementN /\ partials' # <<>> /\ Last(Heard(text)) = text
  BY <1>1, HeardEndsWithText DEF TransInv
<1>3. target \in Seq(Chars) /\ IsPrefix(target, text) /\ text \in Seq(Chars) /\ committed \in Seq(Chars)
  BY <1>1, <1>2, TargetIsHeard, TextsAreSequences DEF TransInv, TransTyped
<1>4. Len(target) > Len(committed)
  BY DEF Grows
<1> HIDE DEF target
<1>5. /\ crossed' \in BOOLEAN /\ (~crossed' => ~crossed /\ ~Shared)
      /\ revised' \in BOOLEAN /\ (~revised' => ~revised /\ IsPrefix(committed, text))
  BY <1>1 DEF TransInv, TransTyped
<1>6. Len(committed) \in Nat /\ Len(target) \in Nat /\ Len(committed) < Len(target) /\ committed' # <<>>
  <2>1. Len(committed) \in Nat /\ Len(target) \in Nat
    BY <1>3, LenProperties
  <2>2. Len(target) # 0
    BY <1>4, <2>1
  <2> QED
    BY <1>1, <1>4, <2>1, <2>2, EmptyIsEmpty
<1>7. piece \in Pieces /\ piece.from = Len(committed) /\ piece.of = utterance /\ IsRest(piece, utterance, target)
  <2>1. utterance \in 0..MaxUtterances
    BY <1>1, EverythingHasANumber
  <2> QED
    BY <1>3, <1>6, <2>1, RestFollows
<1> HIDE DEF piece
<1>8. translating' # Nothing
  BY <1>1, <1>7, EverythingHasANumber DEF Nothing
<1>9. TransTyped'
  <2>1. tail' \in Seq(Chars)
    BY <1>1, <1>3, PrefixRest
  <2>2. preview' \in Seq(Seq(Chars))
    BY <1>1, EmptySeq
  <2> QED
    BY <1>1, <1>2, <1>3, <1>5, <1>7, <2>1, <2>2 DEF TransInv, TransTyped
<1>10. Numbered'
  <2>1. translating' # Nothing => utterance' <= MaxUtterances /\ committed' # <<>> /\ IsRest(translating', utterance', committed')
    BY <1>1, <1>6, <1>7
  <2> QED
    BY <1>1, <2>1 DEF TransInv, Numbered, Busy
<1>11. Accumulated'
  <2>1. ~crossed' /\ app # "overlap" => ~crossed /\ ~Busy
    BY <1>5 DEF Shared
  <2>2. Owner' = Owner /\ (Busy' <=> Busy)
    BY <1>1 DEF Owner, Busy
  <2> QED
    BY <1>1, <1>6, <2>1, <2>2 DEF TransInv, Accumulated
<1>12. UnderWay'
  <2>1. Translated' = Len(committed) /\ (Busy' <=> Busy)
    BY <1>1, <1>7, <1>8 DEF Translated, Busy
  <2>2. ~revised' => IsPrefix(committed, target)
    BY <1>3, <1>5, <1>6, PrefixesNest
  <2>3. ~crossed /\ utterance \notin excused =>
          /\ app # "lag" => Chain(said, Places(said, utterance), target, Len(committed), revised')
          /\ app # "overlap" /\ ~Busy => Chain(gathered, 1..Len(gathered), target, Len(committed), revised')
          /\ app = "captions" /\ ~Busy =>
               Len(shownSource) = Len(committed) /\ (~revised' => shownSource = SubSeq(target, 1, Len(committed)))
    BY <1>1, <1>3, <1>5, <2>2, UtteranceGrows
  <2> QED
    BY <1>1, <1>5, <2>1, <2>3 DEF UnderWay
<1>13. TurnUnderWay' /\ Ended'
  BY <1>1, <1>5, HypothesisRevised
<1>14. Previewed'
  BY <1>1 DEF Previewed
<1> QED
  BY <1>9, <1>10, <1>11, <1>12, <1>13, <1>14 DEF TransInv

(* A translated piece is said or gathered: other utterances stay as they  *)
(* are, its own reaches to the end of the source.                         *)
LEMMA PieceAdded ==
  ASSUME NEW P \in Seq(Pieces), NEW p \in Pieces
  PROVE  /\ Append(P, p) \in Seq(Pieces) /\ Append(P, p) # <<>>
         /\ \A u, text, loose : u # p.of /\ Whole(P, Places(P, u), text, loose)
              => Whole(Append(P, p), Places(Append(P, p), u), text, loose)
         /\ \A u, source, n, loose : u # p.of /\ Chain(P, Places(P, u), source, n, loose)
              => Chain(Append(P, p), Places(Append(P, p), u), source, n, loose)
         /\ \A u, loose : \A source \in Seq(Chars) :
              Chain(P, Places(P, u), source, p.from, loose) /\ IsRest(p, u, source)
              => Chain(Append(P, p), Places(Append(P, p), u), source, Len(source), loose)
         /\ \A u, loose : \A source \in Seq(Chars) :
              Chain(P, 1..Len(P), source, p.from, loose) /\ IsRest(p, u, source)
              => Chain(Append(P, p), 1..Len(Append(P, p)), source, Len(source), loose)
         /\ \A i \in 1..Len(Append(P, p)) : \/ i \in 1..Len(P) /\ Append(P, p)[i] = P[i]
                                            \/ i = Len(P) + 1 /\ Append(P, p)[i] = p
<1>0. PICK Q : Q = Append(P, p)
  OBVIOUS
<1>1. /\ Q \in Seq(Pieces) /\ Len(Q) = Len(P) + 1 /\ Len(P) \in Nat
      /\ Q[Len(P) + 1] = p /\ \A i \in 1..Len(P) : Q[i] = P[i]
  BY <1>0, AppendProperties, LenProperties
<1>2. \A u : /\ Places(P, u) \in SUBSET (1..Len(P))
             /\ p.of = u => Places(Q, u) = Places(P, u) \cup {Len(P) + 1}
             /\ p.of # u => Places(Q, u) = Places(P, u)
  BY <1>0, PlacesAdded
<1>3. Q # <<>>
  BY <1>1, EmptySeq
<1>4. \A u, text, loose : u # p.of /\ Whole(P, Places(P, u), text, loose) => Whole(Q, Places(Q, u), text, loose)
  <2> SUFFICES ASSUME NEW u, NEW text, NEW loose, u # p.of, Whole(P, Places(P, u), text, loose)
               PROVE  Whole(Q, Places(Q, u), text, loose)
    OBVIOUS
  <2>1. Places(Q, u) = Places(P, u) /\ \A i \in Places(P, u) : Q[i] = P[i]
    BY <1>1, <1>2
  <2>2. Whole(Q, Places(P, u), text, loose)
    BY <1>2, <2>1, WholeKept
  <2> QED
    BY <2>1, <2>2
<1>5. \A u, source, n, loose : u # p.of /\ Chain(P, Places(P, u), source, n, loose) => Chain(Q, Places(Q, u), source, n, loose)
  <2> SUFFICES ASSUME NEW u, NEW source, NEW n, NEW loose, u # p.of, Chain(P, Places(P, u), source, n, loose)
               PROVE  Chain(Q, Places(Q, u), source, n, loose)
    OBVIOUS
  <2>1. Places(Q, u) = Places(P, u) /\ \A i \in Places(P, u) : Q[i] = P[i]
    BY <1>1, <1>2
  <2>2. Chain(Q, Places(P, u), source, n, loose)
    BY <1>2, <2>1, ChainKept
  <2> QED
    BY <2>1, <2>2
<1>6. \A u, loose : \A source \in Seq(Chars) :
        Chain(P, Places(P, u), source, p.from, loose) /\ IsRest(p, u, source)
        => Chain(Q, Places(Q, u), source, Len(source), loose)
  <2> SUFFICES ASSUME NEW u, NEW loose, NEW source \in Seq(Chars),
                      Chain(P, Places(P, u), source, p.from, loose), IsRest(p, u, source)
               PROVE  Chain(Q, Places(Q, u), source, Len(source), loose)
    OBVIOUS
  <2>1. Places(Q, u) = Places(P, u) \cup {Len(P) + 1}
    BY <1>2 DEF IsRest
  <2>2. Chain(Q, Places(P, u) \cup {Len(P) + 1}, source, Len(source), loose)
    BY <1>0, <1>2, ChainAdded
  <2> QED
    BY <2>1, <2>2
<1>7. \A u, loose : \A source \in Seq(Chars) :
        Chain(P, 1..Len(P), source, p.from, loose) /\ IsRest(p, u, source)
        => Chain(Q, 1..Len(Q), source, Len(source), loose)
  <2> SUFFICES ASSUME NEW u, NEW loose, NEW source \in Seq(Chars),
                      Chain(P, 1..Len(P), source, p.from, loose), IsRest(p, u, source)
               PROVE  Chain(Q, 1..Len(Q), source, Len(source), loose)
    OBVIOUS
  <2>1. 1..Len(Q) = (1..Len(P)) \cup {Len(P) + 1}
    BY <1>1
  <2>2. Chain(Q, (1..Len(P)) \cup {Len(P) + 1}, source, Len(source), loose)
    BY <1>0, ChainAdded
  <2> QED
    BY <2>1, <2>2
<1>8. \A i \in 1..Len(Q) : (i \in 1..Len(P) /\ Q[i] = P[i]) \/ (i = Len(P) + 1 /\ Q[i] = p)
  BY <1>1
<1> QED
  BY <1>0, <1>1, <1>3, <1>4, <1>5, <1>6, <1>7, <1>8

(* It is said in order when nothing later was said, ...                   *)
LEMMA SaidInOrder ==
  ASSUME NEW P \in Seq(Pieces), NEW p \in Pieces, \A i \in 1..Len(P) : P[i].of <= p.of,
         \A i, j \in 1..Len(P) : i < j => P[i].of <= P[j].of
  PROVE  \A i, j \in 1..Len(Append(P, p)) : i < j => Append(P, p)[i].of <= Append(P, p)[j].of
<1>0. PICK Q : Q = Append(P, p)
  OBVIOUS
<1>1. /\ Len(Q) = Len(P) + 1 /\ Len(P) \in Nat /\ p.of \in Nat
      /\ Q[Len(P) + 1] = p /\ \A i \in 1..Len(P) : Q[i] = P[i]
  BY <1>0, AppendProperties, LenProperties, TranslationAssumption DEF Pieces
<1>2. \A i, j \in 1..Len(Q) : i < j => i \in 1..Len(P) /\ (j \in 1..Len(P) \/ j = Len(P) + 1)
  BY <1>1
<1> QED
  BY <1>0, <1>1, <1>2

(* ... typed like the others, ...                                         *)
LEMMA KeptPieceTyped ==
  ASSUME TransTyped, NEW piece \in Pieces, NEW source \in Seq(Chars), Keep(piece, source)
  PROVE  gathered' \in Seq(Pieces) /\ said' \in Seq(Pieces) /\ shownSource' \in Seq(Chars)
<1>1. app \in {"captions", "lag", "overlap"} /\ gathered \in Seq(Pieces) /\ said \in Seq(Pieces) /\ shownSource \in Seq(Chars)
  BY DEF TransTyped
<1>2. Append(gathered, piece) \in Seq(Pieces) /\ Append(said, piece) \in Seq(Pieces)
  BY <1>1, AppendProperties
<1>3. /\ gathered' = gathered \/ gathered' = Append(gathered, piece)
      /\ said' = said \/ said' = Append(said, piece)
      /\ shownSource' = shownSource \/ shownSource' = source
  BY <1>1 DEF Keep
<1> QED
  BY <1>1, <1>2, <1>3

(* ... and of no later utterance.                                         *)
LEMMA KeptPieceNumbered ==
  ASSUME TransInv, NEW piece \in Pieces, NEW source, Keep(piece, source), piece.of <= utterance
  PROVE  /\ \A i \in 1..Len(said') : said'[i].of <= utterance
         /\ \A i \in 1..Len(gathered') : gathered'[i].of <= utterance
<1>1. app \in {"captions", "lag", "overlap"} /\ gathered \in Seq(Pieces) /\ said \in Seq(Pieces)
  BY DEF TransInv, TransTyped
<1>2. /\ gathered' = gathered \/ gathered' = Append(gathered, piece)
      /\ said' = said \/ said' = Append(said, piece)
  BY <1>1 DEF Keep
<1>3. \A i \in 1..Len(Append(said, piece)) : Append(said, piece)[i].of <= utterance
  BY <1>1, PieceAdded, EverythingHasANumber
<1>4. \A i \in 1..Len(Append(gathered, piece)) : Append(gathered, piece)[i].of <= utterance
  BY <1>1, PieceAdded, EverythingHasANumber
<1> QED
  BY <1>2, <1>3, <1>4, EverythingHasANumber

(* A translated partial (on_user_partial).                                *)
LEMMA PieceTranslated == TransInv /\ PartialTranslated => TransInv'
<1> SUFFICES ASSUME TransInv, PartialTranslated PROVE TransInv'
  OBVIOUS
<1> USE DEF PartialTranslated, committerVars, histories
<1>1. /\ translating \in Pieces /\ said \in Seq(Pieces) /\ gathered \in Seq(Pieces) /\ committed \in Seq(Chars)
      /\ app \in {"captions", "lag", "overlap"} /\ app' = app /\ finalTurn' = finalTurn
      /\ committed' = committed /\ revised' = revised /\ crossed' = crossed /\ utterance' = utterance /\ excused' = excused
  BY DEF TransInv, TransTyped
<1>2. IsRest(translating, utterance, committed) /\ committed # <<>> /\ translating.of = utterance
  BY DEF TransInv, Numbered, IsRest
<1>3. ~crossed /\ app # "overlap" => ~Busy
  BY DEF TransInv, Accumulated
<1>4. /\ app = "lag" => gathered' = Append(gathered, translating) /\ shownSource' = shownSource /\ said' = said
      /\ app = "overlap" => said' = Append(said, translating) /\ gathered' = gathered /\ shownSource' = shownSource
      /\ app = "captions" => /\ gathered' = Append(gathered, translating) /\ shownSource' = committed
                             /\ said' = Append(said, translating)
  BY <1>1 DEF Keep
<1>5. TransTyped'
  <2>1. gathered' \in Seq(Pieces) /\ said' \in Seq(Pieces) /\ shownSource' \in Seq(Chars)
    BY <1>1, KeptPieceTyped DEF TransInv
  <2> QED
    BY <2>1, EmptyIsEmpty DEF TransInv, TransTyped
<1>6. Numbered'
  <2>1. utterance <= utterance
    BY EverythingHasANumber
  <2>2. /\ \A i \in 1..Len(said') : said'[i].of <= utterance
        /\ \A i \in 1..Len(gathered') : gathered'[i].of <= utterance
    BY <1>1, <1>2, <2>1, KeptPieceNumbered
  <2> QED
    BY <2>2 DEF TransInv, Numbered, Busy
<1>7. \A u : u # utterance =>
        /\ \A text : Whole(said, Places(said, u), text, revised) => Whole(said', Places(said', u), text, revised')
        /\ \A source, n : Chain(said, Places(said, u), source, n, revised) => Chain(said', Places(said', u), source, n, revised')
  <2>1. said' = said \/ said' = Append(said, translating)
    BY <1>1, <1>4
  <2>2. CASE said' = said
    BY <1>1, <2>2
  <2>3. CASE said' = Append(said, translating)
    <3>1. /\ \A u, text, loose : u # translating.of /\ Whole(said, Places(said, u), text, loose)
               => Whole(said', Places(said', u), text, loose)
          /\ \A u, source, n, loose : u # translating.of /\ Chain(said, Places(said, u), source, n, loose)
               => Chain(said', Places(said', u), source, n, loose)
      BY <1>1, <2>3, PieceAdded
    <3> QED
      BY <1>1, <1>2, <3>1
  <2> QED
    BY <2>1, <2>2, <2>3
<1>8. Accumulated'
  <2>1. gathered' = <<>> => shownSource' = <<>>
    BY <1>1, <1>4, PieceAdded DEF TransInv, Accumulated
  <2> SUFFICES ASSUME ~crossed, app # "overlap"
               PROVE  Accumulated'
    BY <2>1 DEF Accumulated
  <2>2. ~Busy /\ ~Busy' /\ Owner = utterance /\ Owner' = utterance
    BY <1>1, <1>3 DEF Owner, Busy
  <2>3. /\ \A i \in 1..Len(gathered) : gathered[i].of = utterance
        /\ \A i \in 1..Len(said) : said[i].of <= utterance
        /\ \A i, j \in 1..Len(said) : i < j => said[i].of <= said[j].of
        /\ app = "lag" /\ finalTurn.at # "flushing" => Places(said, utterance) = {}
    BY <2>2 DEF TransInv, Accumulated
  <2>4. \A i \in 1..Len(gathered') : gathered'[i].of = utterance
    <3>1. gathered' = Append(gathered, translating)
      BY <1>1, <1>4
    <3> QED
      BY <1>1, <1>2, <2>3, <3>1, PieceAdded
  <2>5. \A i \in 1..Len(said') : said'[i].of <= utterance
    BY <1>6 DEF Numbered
  <2>6. \A i, j \in 1..Len(said') : i < j => said'[i].of <= said'[j].of
    <3>1. CASE said' = said
      BY <2>3, <3>1
    <3>2. CASE said' = Append(said, translating)
      BY <1>1, <1>2, <2>3, <3>2, SaidInOrder
    <3> QED
      BY <1>1, <1>4, <3>1, <3>2
  <2>7. app = "lag" /\ finalTurn'.at # "flushing" => Places(said', utterance) = {}
    BY <1>1, <1>4, <2>3
  <2> QED
    BY <1>1, <1>2, <2>1, <2>2, <2>4, <2>5, <2>6, <2>7 DEF Accumulated
<1>9. UnderWay'
  <2> SUFFICES ASSUME ~crossed, utterance \notin excused
               PROVE  UnderWay'
    BY DEF UnderWay
  <2>1. Translated = translating.from /\ Translated' = Len(committed) /\ (Busy' <=> Busy)
    BY <1>1 DEF Translated, Busy
  <2>2. app # "lag" => Chain(said', Places(said', utterance), committed, Len(committed), revised)
    <3>1. app # "lag" => Chain(said, Places(said, utterance), committed, translating.from, revised)
      BY <2>1 DEF TransInv, UnderWay
    <3>2. app # "lag" => said' = Append(said, translating)
      BY <1>1, <1>4
    <3>3. \A u, loose : \A source \in Seq(Chars) :
              Chain(said, Places(said, u), source, translating.from, loose) /\ IsRest(translating, u, source)
              => Chain(Append(said, translating), Places(Append(said, translating), u), source, Len(source), loose)
      BY <1>1, PieceAdded
    <3>4. app # "lag" => Chain(Append(said, translating), Places(Append(said, translating), utterance), committed, Len(committed), revised)
      <4> HIDE DEF PartialTranslated
      <4> QED
        BY <1>1, <1>2, <3>1, <3>3
    <3> QED
      BY <3>2, <3>4
  <2>3. app # "overlap" => Chain(gathered', 1..Len(gathered'), committed, Len(committed), revised)
    <3>1. app # "overlap" => Chain(gathered, 1..Len(gathered), committed, translating.from, revised)
      BY <1>3, <2>1 DEF TransInv, UnderWay
    <3>2. app # "overlap" => gathered' = Append(gathered, translating)
      BY <1>1, <1>4
    <3>3. \A u, loose : \A source \in Seq(Chars) :
              Chain(gathered, 1..Len(gathered), source, translating.from, loose) /\ IsRest(translating, u, source)
              => Chain(Append(gathered, translating), 1..Len(Append(gathered, translating)), source, Len(source), loose)
      BY <1>1, PieceAdded
    <3>4. app # "overlap" => Chain(Append(gathered, translating), 1..Len(Append(gathered, translating)), committed, Len(committed), revised)
      <4> HIDE DEF PartialTranslated
      <4> QED
        BY <1>1, <1>2, <3>1, <3>3
    <3> QED
      BY <3>2, <3>4
  <2>4. app = "captions" => Len(shownSource') = Len(committed) /\ shownSource' = SubSeq(committed, 1, Len(committed))
    BY <1>1, <1>4, SubSeqFull
  <2> QED
    BY <1>1, <2>1, <2>2, <2>3, <2>4 DEF UnderWay
<1>10. TurnUnderWay'
  <2> SUFFICES ASSUME ~crossed, finalTurn.of \notin excused, Busy
               PROVE  TurnUnderWay'
    BY <1>1, EverythingHasANumber DEF TurnUnderWay, Busy
  <2>1. finalTurn.of # utterance /\ app = "overlap"
    BY <1>3, EverythingHasANumber
  <2> QED
    BY <1>1, <1>7, <2>1 DEF TransInv, TurnUnderWay
<1>11. Previewed'
  BY DEF TransInv, Previewed
<1>12. Ended'
  <2>1. \A i \in 1..Len(whole) : whole[i].of # utterance
    BY EverythingHasANumber
  <2> QED
    BY <1>7, <2>1 DEF TransInv, Ended
<1> QED
  BY <1>5, <1>6, <1>8, <1>9, <1>10, <1>11, <1>12 DEF TransInv

(* Clause lag sends the gathered pieces as one text: what is said then,   *)
(* ...                                                                    *)
LEMMA BlockAdded ==
  ASSUME NEW P \in Seq(Pieces), NEW G \in Seq(Pieces)
  PROVE  /\ P \o G \in Seq(Pieces)
         /\ \A i \in 1..Len(P \o G) : \/ i \in 1..Len(P) /\ (P \o G)[i] = P[i]
                                      \/ \E k \in 1..Len(G) : (P \o G)[i] = G[k]
<1>0. PICK Q : Q = P \o G
  OBVIOUS
<1>1. /\ Q \in Seq(Pieces) /\ Len(P) \in Nat /\ Len(G) \in Nat /\ Len(Q) = Len(P) + Len(G)
      /\ \A i \in 1..(Len(P) + Len(G)) : Q[i] = IF i <= Len(P) THEN P[i] ELSE G[i - Len(P)]
  BY <1>0, ConcatProperties, LenProperties
<1>2. ASSUME NEW i \in 1..Len(Q)
      PROVE  (i \in 1..Len(P) /\ Q[i] = P[i]) \/ \E k \in 1..Len(G) : Q[i] = G[k]
  <2>1. CASE i <= Len(P)
    BY <1>1, <2>1
  <2>2. CASE ~(i <= Len(P))
    <3>1. i - Len(P) \in 1..Len(G) /\ Q[i] = G[i - Len(P)]
      BY <1>1, <2>2
    <3> QED
      BY <3>1
  <2> QED
    BY <2>1, <2>2
<1> QED
  BY <1>0, <1>1, <1>2

(* ... of which only the utterance they are of gets more, all of it at    *)
(* once, ...                                                              *)
LEMMA BlockOfOne ==
  ASSUME NEW P \in Seq(Pieces), NEW G \in Seq(Pieces), NEW w, \A k \in 1..Len(G) : G[k].of = w
  PROVE  /\ \A u, text, loose : u # w /\ Whole(P, Places(P, u), text, loose)
              => Whole(P \o G, Places(P \o G, u), text, loose)
         /\ \A source, n, loose : Places(P, w) = {} /\ Chain(G, 1..Len(G), source, n, loose)
              => Chain(P \o G, Places(P \o G, w), source, n, loose)
<1>0. PICK Q : Q = P \o G
  OBVIOUS
<1>1. /\ \A i \in 1..Len(P) : Q[i] = P[i]
      /\ \A u : u # w => Places(Q, u) = Places(P, u)
      /\ Places(P, w) = {} => Places(Q, w) = Behind(P, G)
  <2>1. \A i \in 1..Len(P) : Q[i] = P[i]
    BY <1>0, PlacesBehind
  <2>2. ASSUME NEW u, u # w
        PROVE  Places(Q, u) = Places(P, u)
    <3>1. Places(P \o G, u) = Places(P, u)
      BY <2>2, PlacesBehind
    <3> QED
      BY <1>0, <3>1
  <2>3. Places(P, w) = {} => Places(Q, w) = Behind(P, G)
    BY <1>0, PlacesBehind
  <2> QED
    BY <2>1, <2>2, <2>3
<1>2. \A u : Places(P, u) \in SUBSET (1..Len(P))
  BY DEF Places
<1>3. ASSUME NEW u, NEW text, NEW loose, u # w, Whole(P, Places(P, u), text, loose)
      PROVE  Whole(Q, Places(Q, u), text, loose)
  <2>1. \A i \in Places(P, u) : Q[i] = P[i]
    BY <1>1, <1>2
  <2>2. Whole(Q, Places(P, u), text, loose)
    BY <1>2, <1>3, <2>1, WholeKept
  <2> QED
    BY <1>1, <1>3, <2>2
<1>4. ASSUME NEW source, NEW n, NEW loose, Places(P, w) = {}, Chain(G, 1..Len(G), source, n, loose)
      PROVE  Chain(Q, Places(Q, w), source, n, loose)
  <2>1. Chain(Q, Behind(P, G), source, n, loose)
    BY <1>0, <1>4, ChainShifted
  <2> QED
    BY <1>1, <1>4, <2>1
<1> QED
  BY <1>0, <1>3, <1>4

(* ... and in order.                                                      *)
LEMMA BlockInOrder ==
  ASSUME NEW P \in Seq(Pieces), NEW G \in Seq(Pieces), NEW w \in Nat, \A k \in 1..Len(G) : G[k].of = w,
         \A i \in 1..Len(P) : P[i].of <= w,
         \A i, j \in 1..Len(P) : i < j => P[i].of <= P[j].of
  PROVE  /\ \A i \in 1..Len(P \o G) : (P \o G)[i].of <= w
         /\ \A i, j \in 1..Len(P \o G) : i < j => (P \o G)[i].of <= (P \o G)[j].of
<1>0. PICK Q : Q = P \o G
  OBVIOUS
<1>1. /\ \A i \in 1..Len(P) : Q[i] = P[i]
      /\ \A i \in 1..Len(Q) : (i \in 1..Len(P)) \/ (~(i <= Len(P)) /\ Q[i].of = w)
      /\ Len(P) \in Nat
  BY <1>0, PlacesBehind, LenProperties
<1>2. \A i \in 1..Len(Q) : Q[i].of <= w
  BY <1>1
<1>3. ASSUME NEW i \in 1..Len(Q), NEW j \in 1..Len(Q), i < j
      PROVE  Q[i].of <= Q[j].of
  <2>1. CASE j \in 1..Len(P)
    <3>1. i \in 1..Len(P)
      BY <1>1, <1>3, <2>1
    <3> QED
      BY <1>1, <1>3, <2>1, <3>1
  <2>2. CASE Q[j].of = w
    BY <1>2, <2>2
  <2> QED
    BY <1>1, <2>1, <2>2
<1> QED
  BY <1>0, <1>2, <1>3

(* The translated rest of a final (on_user_utterance).                    *)
LEMMA TurnTranslated == TransInv /\ FinalTranslated => TransInv'
<1> SUFFICES ASSUME TransInv, FinalTranslated PROVE TransInv'
  OBVIOUS
<1> DEFINE piece == finalTurn.piece
           w == finalTurn.of
           text == finalTurn.text
           block == Append(gathered, piece)
<1>1. /\ piece \in Pieces /\ said \in Seq(Pieces) /\ gathered \in Seq(Pieces) /\ text \in Seq(Chars)
      /\ app \in {"captions", "lag", "overlap"} /\ finalTurn.at = "translating" /\ Busy
      /\ finalTurn \in [at : {"none", "translating", "flushing"}, of : 0..MaxUtterances, text : Seq(Chars), piece : Pieces]
  BY DEF TransInv, TransTyped, FinalTranslated, Busy
<1>2. /\ IsRest(piece, w, text) /\ piece.of = w /\ w \in Nat /\ w < utterance /\ utterance \in Nat
      /\ \A i \in 1..Len(whole) : whole[i].of # w
  BY <1>1, EverythingHasANumber DEF TransInv, Numbered, IsRest
<1>3. /\ UNCHANGED <<app, utterance, heardOf, partials, committed, tail, translating, preview, excused, crossed, revised>>
      /\ IF app = "lag" THEN Complete(finalTurn, block)
         ELSE /\ Keep(piece, text) /\ finalTurn' = [finalTurn EXCEPT !.at = "flushing", !.piece = Nothing]
              /\ UNCHANGED whole
  BY DEF FinalTranslated, committerVars
<1>4. block \in Seq(Pieces) /\ block # <<>>
  BY <1>1, PieceAdded
<1>5. /\ app = "lag" => said' = said \o block /\ gathered' = block /\ shownSource' = shownSource
      /\ app = "overlap" => said' = Append(said, piece) /\ gathered' = gathered /\ shownSource' = shownSource
      /\ app = "captions" => said' = Append(said, piece) /\ gathered' = block /\ shownSource' = text
      /\ finalTurn' = [finalTurn EXCEPT !.at = "flushing", !.piece = Nothing] /\ whole' = whole
  BY <1>1, <1>3, <1>4 DEF Complete, Keep
<1>6. /\ finalTurn'.at = "flushing" /\ finalTurn'.of = w /\ finalTurn'.text = text /\ Busy'
      /\ finalTurn' \in [at : {"none", "translating", "flushing"}, of : 0..MaxUtterances, text : Seq(Chars), piece : Pieces]
  BY <1>1, <1>5, EmptyIsEmpty DEF Busy
<1> HIDE DEF piece, w, text, block
<1>7. said \o block \in Seq(Pieces) /\ Append(said, piece) \in Seq(Pieces)
  BY <1>1, <1>4, BlockAdded, AppendProperties
<1>8. TransTyped'
  BY <1>1, <1>3, <1>4, <1>5, <1>6, <1>7 DEF TransInv, TransTyped
<1>9. /\ \A i \in 1..Len(block) : block[i].of <= utterance
      /\ \A i \in 1..Len(said \o block) : (said \o block)[i].of <= utterance
      /\ \A i \in 1..Len(Append(said, piece)) : Append(said, piece)[i].of <= utterance
  <2>1. \A i \in 1..Len(block) : block[i].of <= utterance
    BY <1>1, <1>2, PieceAdded, EverythingHasANumber DEF block
  <2>2. \A i \in 1..Len(said \o block) : (said \o block)[i].of <= utterance
    <3>1. \A i \in 1..Len(said) : said[i].of <= utterance
      BY EverythingHasANumber
    <3>2. \A i \in 1..Len(said \o block) : \/ i \in 1..Len(said) /\ (said \o block)[i] = said[i]
                                           \/ \E k \in 1..Len(block) : (said \o block)[i] = block[k]
      BY <1>1, <1>4, BlockAdded
    <3> QED
      BY <2>1, <3>1, <3>2
  <2>3. \A i \in 1..Len(Append(said, piece)) : Append(said, piece)[i].of <= utterance
    BY <1>1, <1>2, PieceAdded, EverythingHasANumber
  <2> QED
    BY <2>1, <2>2, <2>3
<1>10. Numbered'
  <2>1. /\ \A i \in 1..Len(said') : said'[i].of <= utterance
        /\ \A i \in 1..Len(gathered') : gathered'[i].of <= utterance
    BY <1>1, <1>5, <1>9, EverythingHasANumber
  <2>2. finalTurn'.of \in 1..(utterance' - 1)
    BY <1>1, <1>3, <1>6 DEF TransInv, Numbered, w
  <2>3. \A i \in 1..Len(whole') : whole'[i].of # finalTurn'.of /\ whole'[i].of < utterance'
    BY <1>2, <1>3, <1>5, <1>6, EverythingHasANumber
  <2>4. translating' # Nothing => utterance' <= MaxUtterances /\ committed' # <<>> /\ IsRest(translating', utterance', committed')
    BY <1>3 DEF TransInv, Numbered
  <2> QED
    BY <1>3, <1>6, <2>1, <2>2, <2>3, <2>4 DEF Numbered
<1>11. ~crossed /\ app # "overlap" =>
         /\ committed = <<>> /\ translating = Nothing
         /\ \A i \in 1..Len(gathered) : gathered[i].of = w
         /\ \A i \in 1..Len(said) : said[i].of <= w
         /\ \A i, j \in 1..Len(said) : i < j => said[i].of <= said[j].of
         /\ app = "lag" => Places(said, w) = {}
  BY <1>1 DEF TransInv, Accumulated, Owner, w
<1>12. ~crossed /\ app # "overlap" => \A i \in 1..Len(block) : block[i].of = w
  BY <1>1, <1>2, <1>11, PieceAdded DEF block
<1>13. Accumulated'
  <2>1. gathered' = <<>> => shownSource' = <<>>
    BY <1>1, <1>4, <1>5 DEF TransInv, Accumulated
  <2> SUFFICES ASSUME ~crossed, app # "overlap"
               PROVE  Accumulated'
    BY <1>3, <2>1 DEF Accumulated
  <2>2. Owner' = w
    BY <1>6 DEF Owner
  <2>3. \A i \in 1..Len(gathered') : gathered'[i].of = w
    BY <1>1, <1>5, <1>12
  <2>4. /\ \A i \in 1..Len(said') : said'[i].of <= w
        /\ \A i, j \in 1..Len(said') : i < j => said'[i].of <= said'[j].of
    <3>1. CASE app = "lag"
      <4>1. /\ \A i \in 1..Len(said \o block) : (said \o block)[i].of <= w
            /\ \A i, j \in 1..Len(said \o block) : i < j => (said \o block)[i].of <= (said \o block)[j].of
        BY <1>1, <1>2, <1>4, <1>11, <1>12, BlockInOrder
      <4> QED
        BY <1>5, <3>1, <4>1
    <3>2. CASE app = "captions"
      <4>1. \A i \in 1..Len(Append(said, piece)) : Append(said, piece)[i].of <= w
        BY <1>1, <1>2, <1>11, PieceAdded
      <4>2. \A i, j \in 1..Len(Append(said, piece)) : i < j => Append(said, piece)[i].of <= Append(said, piece)[j].of
        BY <1>1, <1>2, <1>11, SaidInOrder
      <4> QED
        BY <1>5, <3>2, <4>1, <4>2
    <3> QED
      BY <1>1, <3>1, <3>2
  <2> QED
    BY <1>3, <1>6, <1>11, <2>1, <2>2, <2>3, <2>4 DEF Accumulated
<1>14. ~crossed => \A u, t : u # w /\ Whole(said, Places(said, u), t, revised)
                         => Whole(said', Places(said', u), t, revised)
  <2>1. \A u, t : u # w /\ Whole(said, Places(said, u), t, revised)
               => Whole(Append(said, piece), Places(Append(said, piece), u), t, revised)
    BY <1>1, <1>2, PieceAdded
  <2>2. ~crossed /\ app = "lag" =>
             \A u, t : u # w /\ Whole(said, Places(said, u), t, revised)
               => Whole(said \o block, Places(said \o block, u), t, revised)
    BY <1>1, <1>4, <1>12, BlockOfOne
  <2> QED
    BY <1>1, <1>5, <2>1, <2>2
<1>15. UnderWay'
  <2> SUFFICES ASSUME ~crossed, utterance \notin excused, app # "lag"
               PROVE  Chain(said', Places(said', utterance), committed, Translated', revised)
    BY <1>3, <1>6 DEF UnderWay
  <2>1. Translated' = Translated /\ utterance # piece.of /\ said' = Append(said, piece)
    BY <1>1, <1>2, <1>3, <1>5 DEF Translated
  <2>2. Chain(said, Places(said, utterance), committed, Translated, revised)
    BY DEF TransInv, UnderWay
  <2>3. \A u, source, n, loose : u # piece.of /\ Chain(said, Places(said, u), source, n, loose)
              => Chain(Append(said, piece), Places(Append(said, piece), u), source, n, loose)
    BY <1>1, PieceAdded
  <2> QED
    BY <2>1, <2>2, <2>3
<1>16. TurnUnderWay'
  <2> SUFFICES ASSUME ~crossed, w \notin excused
               PROVE  Whole(said', Places(said', w), text, revised)
    BY <1>3, <1>6 DEF TurnUnderWay
  <2>1. Chain(said', Places(said', w), text, Len(text), revised)
    <3>1. CASE app = "lag"
      <4>1. Chain(gathered, 1..Len(gathered), text, piece.from, revised)
        BY <1>1, <3>1 DEF TransInv, TurnUnderWay, w, text, piece
      <4>2. \A u, loose : \A source \in Seq(Chars) :
              Chain(gathered, 1..Len(gathered), source, piece.from, loose) /\ IsRest(piece, u, source)
              => Chain(block, 1..Len(block), source, Len(source), loose)
        BY <1>1, PieceAdded DEF block
      <4>3. Chain(block, 1..Len(block), text, Len(text), revised)
        BY <1>1, <1>2, <4>1, <4>2
      <4>4. \A source, n, loose : Places(said, w) = {} /\ Chain(block, 1..Len(block), source, n, loose)
              => Chain(said \o block, Places(said \o block, w), source, n, loose)
        BY <1>1, <1>4, <1>12, <3>1, BlockOfOne
      <4> QED
        BY <1>5, <1>11, <3>1, <4>3, <4>4
    <3>2. CASE app # "lag"
      <4>1. Chain(said, Places(said, w), text, piece.from, revised)
        BY <1>1, <3>2 DEF TransInv, TurnUnderWay, w, text, piece
      <4>2. \A u, loose : \A source \in Seq(Chars) :
              Chain(said, Places(said, u), source, piece.from, loose) /\ IsRest(piece, u, source)
              => Chain(Append(said, piece), Places(Append(said, piece), u), source, Len(source), loose)
        BY <1>1, PieceAdded
      <4>3. Chain(Append(said, piece), Places(Append(said, piece), w), text, Len(text), revised)
        BY <1>1, <1>2, <4>1, <4>2
      <4>4. said' = Append(said, piece)
        BY <1>1, <1>5, <3>2
      <4> QED
        BY <4>3, <4>4
    <3> QED
      BY <3>1, <3>2
  <2>2. said' \in Seq(Pieces) /\ Places(said', w) \in SUBSET (1..Len(said')) /\ Len(text) \in Nat /\ Len(text) >= Len(text)
    BY <1>1, <1>8, LenProperties DEF TransTyped, Places
  <2>3. \A Q \in Seq(Pieces) : \A I \in SUBSET (1..Len(Q)) : \A t \in Seq(Chars) : \A n, loose :
          Chain(Q, I, t, n, loose) /\ n >= Len(t) => Whole(Q, I, t, loose)
    BY ChainIsWhole
  <2> QED
    BY <1>1, <2>1, <2>2, <2>3
<1>17. Previewed'
  BY <1>3 DEF TransInv, Previewed
<1>18. Ended'
  BY <1>2, <1>3, <1>5, <1>14 DEF TransInv, Ended
<1> QED
  BY <1>8, <1>10, <1>13, <1>15, <1>16, <1>17, <1>18 DEF TransInv

(* A final that is passed on: what holds whichever way it is taken.       *)
LEMMA FinalPassedOn ==
  ASSUME NEW text \in Texts, TransInv, HearFinal(text)
  PROVE  /\ text \in Seq(Chars) /\ text # <<>> /\ Len(text) \in Nat
         /\ utterance \in 1..MaxUtterances /\ utterance' = utterance + 1 /\ utterance' \in 1..(MaxUtterances + 1)
         /\ UNCHANGED <<app, translating>> /\ translating = Nothing
         /\ partials' = <<>> /\ committed' = <<>> /\ tail' = <<>> /\ preview' = <<>>
         /\ crossed' \in BOOLEAN /\ (~crossed' => ~crossed) /\ (~crossed' /\ app # "overlap" => ~Busy)
         /\ revised' \in BOOLEAN
         /\ excused' \subseteq 1..MaxUtterances /\ excused \subseteq excused'
         /\ Places(said, utterance + 1) = {}
         /\ Translated' = 0 /\ Chain(said, {}, <<>>, 0, revised')
         /\ \A u, t : Whole(said, Places(said, u), t, revised) => Whole(said, Places(said, u), t, revised')
         /\ Len(committed) \in Nat
         /\ ~crossed' /\ utterance \notin excused' =>
              /\ app # "lag" => Chain(said, Places(said, utterance), text, Len(committed), revised')
              /\ app # "overlap" => Chain(gathered, 1..Len(gathered), text, Len(committed), revised')
<1>1. /\ text \in Seq(Chars) /\ text # <<>> /\ Len(text) \in Nat /\ committed \in Seq(Chars)
  BY TextsAreSequences, TranslationAssumption, LenProperties DEF TransInv, TransTyped
<1>2. /\ utterance \in 1..MaxUtterances /\ utterance' = utterance + 1 /\ utterance' \in 1..(MaxUtterances + 1)
  BY EverythingHasANumber DEF HearFinal
<1>3. /\ UNCHANGED <<app, translating>> /\ translating = Nothing
      /\ partials' = <<>> /\ committed' = <<>> /\ tail' = <<>> /\ preview' = <<>>
      /\ crossed' = (crossed \/ Shared) /\ revised' = (revised \/ ~IsPrefix(committed, text))
      /\ excused' = IF Busy THEN excused \cup {finalTurn.of} ELSE excused
  BY DEF HearFinal, ForgetUtterance
<1>4. crossed' \in BOOLEAN /\ (~crossed' => ~crossed) /\ (~crossed' /\ app # "overlap" => ~Busy)
  BY <1>3 DEF Shared, TransInv, TransTyped
<1>5. revised' \in BOOLEAN /\ (~revised' => ~revised /\ IsPrefix(committed, text))
  BY <1>3 DEF TransInv, TransTyped
<1>6. excused' \subseteq 1..MaxUtterances /\ excused \subseteq excused'
  BY <1>3, EverythingHasANumber DEF TransInv, TransTyped
<1>7. Places(said, utterance + 1) = {}
  BY NewcomerHasNoPlace
<1>8. Translated' = 0 /\ Chain(said, {}, <<>>, 0, revised')
  <2>1. Translated' = Len(<<>>)
    BY <1>3 DEF Translated
  <2>2. Chain(said, {}, <<>>, 0, revised')
    BY EmptyIsEmpty
  <2> QED
    BY <2>1, <2>2, EmptyIsEmpty
<1>9. \A u, t : Whole(said, Places(said, u), t, revised) => Whole(said, Places(said, u), t, revised')
  <2>1. said \in Seq(Pieces) /\ \A u : Places(said, u) \in SUBSET (1..Len(said))
    BY DEF TransInv, TransTyped, Places
  <2> QED
    BY <1>5, <2>1, WholeKept
<1>10. /\ Len(committed) \in Nat
       /\ ~crossed /\ utterance \notin excused =>
            /\ app # "lag" => Chain(said, Places(said, utterance), text, Len(committed), revised')
            /\ app # "overlap" /\ ~Busy => Chain(gathered, 1..Len(gathered), text, Len(committed), revised')
  BY <1>1, <1>3, <1>5, UtteranceGrows
<1> QED
  BY <1>1, <1>2, <1>3, <1>4, <1>5, <1>6, <1>7, <1>8, <1>9, <1>10

(* There is a rest to translate.                                          *)
LEMMA FinalLeavesARest ==
  ASSUME NEW text \in Texts, TransInv, HearFinal(text), Rest(text, Len(committed)) # <<>>
  PROVE  TransInv'
<1> DEFINE left == [of |-> utterance, from |-> Len(committed), text |-> Rest(text, Len(committed))]
           newTurn == [at |-> "translating", of |-> utterance, text |-> text, piece |-> left]
<1>1. finalTurn' = newTurn /\ UNCHANGED <<gathered, shownSource, said, whole>>
  BY DEF HearFinal, Piece, Rest
<1>2. /\ text \in Seq(Chars) /\ text # <<>> /\ Len(text) \in Nat
      /\ utterance \in 1..MaxUtterances /\ utterance' = utterance + 1 /\ utterance' \in 1..(MaxUtterances + 1)
      /\ UNCHANGED <<app, translating>> /\ translating = Nothing
      /\ partials' = <<>> /\ committed' = <<>> /\ tail' = <<>> /\ preview' = <<>>
      /\ crossed' \in BOOLEAN /\ (~crossed' => ~crossed) /\ (~crossed' /\ app # "overlap" => ~Busy)
      /\ revised' \in BOOLEAN
      /\ excused' \subseteq 1..MaxUtterances /\ excused \subseteq excused'
      /\ Places(said, utterance + 1) = {}
      /\ Translated' = 0 /\ Chain(said, {}, <<>>, 0, revised')
      /\ \A u, t : Whole(said, Places(said, u), t, revised) => Whole(said, Places(said, u), t, revised')
  BY FinalPassedOn
<1>3. ~crossed' /\ utterance \notin excused' =>
              /\ app # "lag" => Chain(said, Places(said, utterance), text, Len(committed), revised')
              /\ app # "overlap" => Chain(gathered, 1..Len(gathered), text, Len(committed), revised')
  BY FinalPassedOn
<1>4. left \in Pieces /\ left.from = Len(committed) /\ IsRest(left, utterance, text)
  <2>1. committed \in Seq(Chars) /\ utterance \in 0..MaxUtterances
    BY <1>2 DEF TransInv, TransTyped
  <2> QED
    BY <1>2, <2>1, RestFollows
<1>5. /\ newTurn \in [at : {"none", "translating", "flushing"}, of : 0..MaxUtterances, text : Seq(Chars), piece : Pieces]
      /\ newTurn.at = "translating" /\ newTurn.of = utterance /\ newTurn.text = text /\ newTurn.piece = left
  BY <1>2, <1>4
<1> HIDE DEF left, newTurn
<1>6. Busy' /\ finalTurn'.at = "translating" /\ Owner' = utterance
  BY <1>1, <1>5 DEF Busy, Owner
<1>7. TransTyped'
  <2>1. <<>> \in Seq(Seq(Chars)) /\ Len(<<>>) <= AgreementN
    BY EmptySeq, EmptyIsEmpty, TranslationAssumption
  <2> QED
    BY <1>1, <1>2, <1>5, <2>1, EmptyIsEmpty DEF TransInv, TransTyped
<1>8. Numbered'
  <2>1. finalTurn'.of \in 1..(utterance' - 1)
    BY <1>1, <1>2, <1>5
  <2>2. \A i \in 1..Len(whole') : whole'[i].of # finalTurn'.of /\ whole'[i].of < utterance'
    BY <1>1, <1>2, <1>5, EverythingHasANumber
  <2>3. IsRest(finalTurn'.piece, finalTurn'.of, finalTurn'.text)
    BY <1>1, <1>4, <1>5
  <2>4. /\ \A i \in 1..Len(said') : said'[i].of <= utterance'
        /\ \A i \in 1..Len(gathered') : gathered'[i].of <= utterance'
    BY <1>1, <1>2, EverythingHasANumber
  <2> QED
    BY <1>2, <2>1, <2>2, <2>3, <2>4 DEF Numbered
<1>9. Accumulated'
  <2>1. gathered' = <<>> => shownSource' = <<>>
    BY <1>1 DEF TransInv, Accumulated
  <2> SUFFICES ASSUME ~crossed', app # "overlap"
               PROVE  Accumulated'
    BY <1>2, <2>1 DEF Accumulated
  <2>2. ~crossed /\ ~Busy /\ Owner = utterance /\ finalTurn.at # "flushing"
    BY <1>2, EverythingHasANumber DEF Owner, Busy
  <2>3. /\ \A i \in 1..Len(gathered) : gathered[i].of = utterance
        /\ \A i \in 1..Len(said) : said[i].of <= utterance
        /\ \A i, j \in 1..Len(said) : i < j => said[i].of <= said[j].of
        /\ app = "lag" => Places(said, utterance) = {}
    BY <2>2 DEF TransInv, Accumulated
  <2> QED
    BY <1>1, <1>2, <1>6, <2>1, <2>3 DEF Accumulated
<1>10. UnderWay'
  BY <1>1, <1>2, <1>6 DEF UnderWay
<1>11. TurnUnderWay'
  BY <1>1, <1>2, <1>3, <1>4, <1>5 DEF TurnUnderWay
<1>12. Previewed'
  BY <1>2 DEF Previewed
<1>13. Ended'
  BY <1>1, <1>2 DEF TransInv, Ended
<1> QED
  BY <1>7, <1>8, <1>9, <1>10, <1>11, <1>12, <1>13 DEF TransInv

(* Everything is committed and gathered: clause lag sends it.             *)
LEMMA FinalSendsTheBlock ==
  ASSUME NEW text \in Texts, TransInv, HearFinal(text), Rest(text, Len(committed)) = <<>>,
         app = "lag", gathered # <<>>
  PROVE  TransInv'
<1> DEFINE newTurn == [at |-> "flushing", of |-> utterance, text |-> text, piece |-> Nothing]
<1>1. finalTurn' = newTurn /\ said' = said \o gathered /\ UNCHANGED <<gathered, shownSource, whole>>
  BY DEF HearFinal, Piece, Rest, Complete
<1>2. /\ text \in Seq(Chars) /\ text # <<>> /\ Len(text) \in Nat
      /\ utterance \in 1..MaxUtterances /\ utterance' = utterance + 1 /\ utterance' \in 1..(MaxUtterances + 1)
      /\ UNCHANGED <<app, translating>> /\ translating = Nothing
      /\ partials' = <<>> /\ committed' = <<>> /\ tail' = <<>> /\ preview' = <<>>
      /\ crossed' \in BOOLEAN /\ (~crossed' => ~crossed) /\ (~crossed' /\ app # "overlap" => ~Busy)
      /\ revised' \in BOOLEAN
      /\ excused' \subseteq 1..MaxUtterances /\ excused \subseteq excused'
      /\ \A u, t : Whole(said, Places(said, u), t, revised) => Whole(said, Places(said, u), t, revised')
  BY FinalPassedOn
<1>3. ~crossed' /\ utterance \notin excused' => Chain(gathered, 1..Len(gathered), text, Len(committed), revised')
  BY FinalPassedOn
<1>4. Len(committed) >= Len(text) /\ said \in Seq(Pieces) /\ gathered \in Seq(Pieces)
  <2>1. committed \in Seq(Chars) /\ utterance \in 0..MaxUtterances
    BY <1>2 DEF TransInv, TransTyped
  <2>2. Len(text) <= Len(committed)
    BY <1>2, <2>1, RestFollows
  <2>3. Len(committed) \in Nat
    BY EverythingHasANumber
  <2> QED
    BY <1>2, <2>2, <2>3 DEF TransInv, TransTyped
<1>5. /\ newTurn \in [at : {"none", "translating", "flushing"}, of : 0..MaxUtterances, text : Seq(Chars), piece : Pieces]
      /\ newTurn.at = "flushing" /\ newTurn.of = utterance /\ newTurn.text = text
  BY <1>2, EmptyIsEmpty
<1> HIDE DEF newTurn
<1>6. Busy' /\ finalTurn'.at = "flushing" /\ Owner' = utterance
  BY <1>1, <1>5 DEF Busy, Owner
<1>7. TransTyped'
  <2>1. <<>> \in Seq(Seq(Chars)) /\ Len(<<>>) <= AgreementN
    BY EmptySeq, EmptyIsEmpty, TranslationAssumption
  <2>2. said' \in Seq(Pieces)
    BY <1>1, <1>4, BlockAdded
  <2> QED
    BY <1>1, <1>2, <1>5, <2>1, <2>2, EmptyIsEmpty DEF TransInv, TransTyped
<1>8. Numbered'
  <2>1. finalTurn'.of \in 1..(utterance' - 1)
    BY <1>1, <1>2, <1>5
  <2>2. \A i \in 1..Len(whole') : whole'[i].of # finalTurn'.of /\ whole'[i].of < utterance'
    BY <1>1, <1>2, <1>5, EverythingHasANumber
  <2>3. \A i \in 1..Len(gathered') : gathered'[i].of <= utterance'
    BY <1>1, <1>2, EverythingHasANumber
  <2>4. \A i \in 1..Len(said \o gathered) : (said \o gathered)[i].of <= utterance + 1
    <3>1. /\ utterance \in Nat
          /\ \A i \in 1..Len(said) : said[i].of \in Nat /\ said[i].of <= utterance
          /\ \A i \in 1..Len(gathered) : gathered[i].of \in Nat /\ gathered[i].of <= utterance
      BY EverythingHasANumber
    <3>2. \A i \in 1..Len(said \o gathered) : \/ i \in 1..Len(said) /\ (said \o gathered)[i] = said[i]
                                              \/ \E k \in 1..Len(gathered) : (said \o gathered)[i] = gathered[k]
      BY <1>4, BlockAdded
    <3>3. \A i \in 1..Len(said) : said[i].of <= utterance + 1
      BY <3>1
    <3>4. \A k \in 1..Len(gathered) : gathered[k].of <= utterance + 1
      BY <3>1
    <3> QED
      BY <3>2, <3>3, <3>4
  <2> QED
    BY <1>1, <1>2, <1>6, <2>1, <2>2, <2>3, <2>4 DEF Numbered
<1>9. ~crossed' =>
        /\ ~crossed /\ utterance \in Nat
        /\ \A i \in 1..Len(gathered) : gathered[i].of = utterance
        /\ \A i \in 1..Len(said) : said[i].of <= utterance
        /\ \A i, j \in 1..Len(said) : i < j => said[i].of <= said[j].of
        /\ Places(said, utterance) = {}
  <2> SUFFICES ASSUME ~crossed'
               PROVE  /\ ~crossed /\ utterance \in Nat
                      /\ \A i \in 1..Len(gathered) : gathered[i].of = utterance
                      /\ \A i \in 1..Len(said) : said[i].of <= utterance
                      /\ \A i, j \in 1..Len(said) : i < j => said[i].of <= said[j].of
                      /\ Places(said, utterance) = {}
    OBVIOUS
  <2>1. ~crossed /\ ~Busy /\ Owner = utterance /\ finalTurn.at # "flushing" /\ utterance \in Nat
    BY <1>2, EverythingHasANumber DEF Owner, Busy
  <2> QED
    BY <2>1 DEF TransInv, Accumulated
<1>10. Accumulated'
  <2>1. ~crossed' => /\ \A i \in 1..Len(said') : said'[i].of <= utterance
                     /\ \A i, j \in 1..Len(said') : i < j => said'[i].of <= said'[j].of
    BY <1>1, <1>4, <1>9, BlockInOrder
  <2>2. gathered' = <<>> => shownSource' = <<>>
    BY <1>1 DEF TransInv, Accumulated
  <2> QED
    BY <1>1, <1>2, <1>6, <1>9, <2>1, <2>2 DEF Accumulated
<1>11. UnderWay'
  BY <1>2, <1>6 DEF UnderWay
<1>12. TurnUnderWay'
  <2> SUFFICES ASSUME ~crossed', utterance \notin excused'
               PROVE  Whole(said', Places(said', utterance), text, revised')
    BY <1>1, <1>5 DEF TurnUnderWay
  <2>1. Chain(gathered, 1..Len(gathered), text, Len(committed), revised')
    BY <1>3
  <2>2. Chain(said', Places(said', utterance), text, Len(committed), revised')
    <3>1. \A source, n, loose : Places(said, utterance) = {} /\ Chain(gathered, 1..Len(gathered), source, n, loose)
              => Chain(said \o gathered, Places(said \o gathered, utterance), source, n, loose)
      BY <1>4, <1>9, BlockOfOne
    <3> QED
      BY <1>1, <1>9, <2>1, <3>1
  <2>3. said' \in Seq(Pieces) /\ Places(said', utterance) \in SUBSET (1..Len(said'))
    BY <1>7 DEF TransTyped, Places
  <2>4. \A Q \in Seq(Pieces) : \A I \in SUBSET (1..Len(Q)) : \A t \in Seq(Chars) : \A n, loose :
          Chain(Q, I, t, n, loose) /\ n >= Len(t) => Whole(Q, I, t, loose)
    BY ChainIsWhole
  <2> QED
    BY <1>2, <1>4, <2>2, <2>3, <2>4
<1>13. Previewed'
  BY <1>2 DEF Previewed
<1>14. Ended'
  <2> SUFFICES ASSUME ~crossed', NEW i \in 1..Len(whole), whole[i].of \notin excused'
               PROVE  Whole(said', Places(said', whole[i].of), whole[i].text, revised')
    BY <1>1 DEF Ended
  <2>1. whole[i].of # utterance
    BY EverythingHasANumber
  <2>2. Whole(said, Places(said, whole[i].of), whole[i].text, revised')
    BY <1>2 DEF TransInv, Ended
  <2>3. \A u, t, loose : u # utterance /\ Whole(said, Places(said, u), t, loose)
          => Whole(said \o gathered, Places(said \o gathered, u), t, loose)
    BY <1>4, <1>9, BlockOfOne
  <2> QED
    BY <1>1, <2>1, <2>2, <2>3
<1> QED
  BY <1>7, <1>8, <1>10, <1>11, <1>12, <1>13, <1>14 DEF TransInv

(* Everything is committed and said. In clause lag that cannot be, as     *)
(* nothing is gathered: then nothing is committed, and a text is not      *)
(* empty.                                                                 *)
LEMMA FinalEndsTheTurn ==
  ASSUME NEW text \in Texts, TransInv, HearFinal(text), Rest(text, Len(committed)) = <<>>,
         ~(app = "lag" /\ gathered # <<>>)
  PROVE  TransInv'
<1> DEFINE final == [of |-> utterance, text |-> text]
           R == [of : 1..MaxUtterances, text : Seq(Chars)]
<1>1. /\ finalTurn' = NoTurn /\ whole' = Append(whole, final)
      /\ gathered' = <<>> /\ shownSource' = <<>> /\ said' = said
  BY DEF HearFinal, Piece, Rest, Complete, FinalDone, ResetApp
<1>2. /\ text \in Seq(Chars) /\ text # <<>> /\ Len(text) \in Nat
      /\ utterance \in 1..MaxUtterances /\ utterance' = utterance + 1 /\ utterance' \in 1..(MaxUtterances + 1)
      /\ UNCHANGED <<app, translating>> /\ translating = Nothing
      /\ partials' = <<>> /\ committed' = <<>> /\ tail' = <<>> /\ preview' = <<>>
      /\ crossed' \in BOOLEAN /\ (~crossed' => ~crossed) /\ (~crossed' /\ app # "overlap" => ~Busy)
      /\ revised' \in BOOLEAN
      /\ excused' \subseteq 1..MaxUtterances /\ excused \subseteq excused'
      /\ Places(said, utterance + 1) = {}
      /\ Translated' = 0 /\ Chain(said, {}, <<>>, 0, revised')
      /\ \A u, t : Whole(said, Places(said, u), t, revised) => Whole(said, Places(said, u), t, revised')
  BY FinalPassedOn
<1>3. ~crossed' /\ utterance \notin excused' =>
              /\ app # "lag" => Chain(said, Places(said, utterance), text, Len(committed), revised')
              /\ app # "overlap" => Chain(gathered, 1..Len(gathered), text, Len(committed), revised')
  BY FinalPassedOn
<1>4. Len(committed) >= Len(text) /\ said \in Seq(Pieces) /\ gathered \in Seq(Pieces) /\ Len(committed) \in Nat
  <2>1. committed \in Seq(Chars) /\ utterance \in 0..MaxUtterances
    BY <1>2 DEF TransInv, TransTyped
  <2>2. Len(text) <= Len(committed)
    BY <1>2, <2>1, RestFollows
  <2>3. Len(committed) \in Nat
    BY EverythingHasANumber
  <2> QED
    BY <1>2, <2>2, <2>3 DEF TransInv, TransTyped
<1>5. final \in R /\ final.of = utterance /\ final.text = text /\ whole \in Seq(R)
  BY <1>2 DEF TransInv, TransTyped
<1> HIDE DEF final, R
<1>6. /\ whole' \in Seq(R)
      /\ \A i \in 1..Len(whole') : (i \in 1..Len(whole) /\ whole'[i] = whole[i]) \/ whole'[i] = final
  <2>1. /\ whole' \in Seq(R) /\ Len(whole') = Len(whole) + 1 /\ whole'[Len(whole) + 1] = final
        /\ \A i \in 1..Len(whole) : whole'[i] = whole[i]
    BY <1>1, <1>5, AppendProperties
  <2>2. \A i \in 1..Len(whole') : i \in 1..Len(whole) \/ i = Len(whole) + 1
    BY <2>1, EverythingHasANumber
  <2> QED
    BY <2>1, <2>2
<1>7. ~Busy' /\ finalTurn'.at = "none" /\ Owner' = utterance + 1
  BY <1>1, <1>2 DEF Busy, NoTurn, Owner
<1>8. gathered' = <<>> /\ Len(gathered') = 0 /\ 1..0 = {} /\ shownSource' = <<>> /\ Len(shownSource') = 0
  BY <1>1, EmptyIsEmpty
<1>9. TransTyped'
  <2>1. <<>> \in Seq(Seq(Chars)) /\ Len(<<>>) <= AgreementN
    BY EmptySeq, EmptyIsEmpty, TranslationAssumption
  <2> QED
    BY <1>1, <1>2, <1>4, <1>6, <2>1, EmptyIsEmpty DEF TransInv, TransTyped, R
<1>10. Numbered'
  <2>1. \A i \in 1..Len(whole') : whole'[i].of < utterance'
    <3>1. utterance \in Nat /\ \A i \in 1..Len(whole) : whole[i].of \in Nat /\ whole[i].of < utterance
      BY EverythingHasANumber
    <3>2. \A i \in 1..Len(whole) : whole[i].of < utterance + 1
      BY <3>1
    <3>3. final.of < utterance + 1
      BY <1>5, <3>1
    <3> QED
      BY <1>2, <1>6, <3>2, <3>3
  <2>2. \A i \in 1..Len(said') : said'[i].of <= utterance'
    BY <1>1, <1>2, EverythingHasANumber
  <2> QED
    BY <1>2, <1>7, <1>8, <2>1, <2>2 DEF Numbered
<1>11. Accumulated'
  <2>1. \A i \in 1..Len(said) : said[i].of <= utterance + 1
    BY EverythingHasANumber
  <2>2. ~crossed /\ app # "overlap" => \A i, j \in 1..Len(said) : i < j => said[i].of <= said[j].of
    BY DEF TransInv, Accumulated
  <2> QED
    BY <1>1, <1>2, <1>7, <1>8, <2>1, <2>2 DEF Accumulated
<1>12. UnderWay'
  <2>1. Chain(gathered', 1..Len(gathered'), <<>>, 0, revised') /\ shownSource' = SubSeq(<<>>, 1, 0)
    BY <1>8, EmptyIsEmpty
  <2> QED
    BY <1>1, <1>2, <1>8, <2>1 DEF UnderWay
<1>13. TurnUnderWay'
  BY <1>7 DEF TurnUnderWay
<1>14. Previewed'
  BY <1>2 DEF Previewed
<1>15. ~crossed' /\ utterance \notin excused' => Whole(said, Places(said, utterance), text, revised')
  <2> SUFFICES ASSUME ~crossed', utterance \notin excused'
               PROVE  Whole(said, Places(said, utterance), text, revised')
    OBVIOUS
  <2>1. app # "lag"
    <3> SUFFICES ASSUME app = "lag" PROVE FALSE
      OBVIOUS
    <3>1. Chain(<<>>, {}, text, Len(committed), revised') /\ gathered = <<>>
      BY <1>3, EmptyIsEmpty
    <3>2. Len(committed) = 0
      BY <3>1 DEF Chain, Reach
    <3>3. Len(text) = 0
      BY <1>2, <1>4, <3>2
    <3> QED
      BY <1>2, <3>3, EmptyIsEmpty
  <2>2. Chain(said, Places(said, utterance), text, Len(committed), revised')
    BY <1>3, <2>1
  <2>3. Places(said, utterance) \in SUBSET (1..Len(said))
    BY DEF Places
  <2> QED
    BY <1>2, <1>4, <2>2, <2>3, ChainIsWhole
<1>16. Ended'
  <2> SUFFICES ASSUME ~crossed', NEW i \in 1..Len(whole'), whole'[i].of \notin excused'
               PROVE  Whole(said, Places(said, whole'[i].of), whole'[i].text, revised')
    BY <1>1 DEF Ended
  <2>1. CASE i \in 1..Len(whole) /\ whole'[i] = whole[i]
    BY <1>2, <2>1 DEF TransInv, Ended
  <2>2. CASE whole'[i] = final
    BY <1>5, <1>15, <2>2
  <2> QED
    BY <1>6, <2>1, <2>2
<1> QED
  BY <1>9, <1>10, <1>11, <1>12, <1>13, <1>14, <1>16 DEF TransInv

(* Every step keeps the invariant.                                        *)
LEMMA TransStep == TransInv /\ [TransNext]_transVars => TransInv'
<1> SUFFICES ASSUME TransInv, [TransNext]_transVars PROVE TransInv'
  OBVIOUS
<1>1. ASSUME NEW text \in Texts, HearPartial(text)
      PROVE  TransInv'
  BY <1>1, PartialKept, PartialCommits
<1>2. ASSUME NEW text \in Texts, HearFinal(text)
      PROVE  TransInv'
  BY <1>2, FinalLeavesARest, FinalSendsTheBlock, FinalEndsTheTurn
<1>3. ASSUME NEW stop \in BOOLEAN, IgnoreFinal(stop)
      PROVE  TransInv'
  BY <1>3, FinalIgnored
<1>4. CASE PartialTranslated
  BY <1>4, PieceTranslated
<1>5. CASE PartialFails
  BY <1>5, PartialFailed
<1>6. CASE HearEcho
  BY <1>6, EchoHeard
<1>7. CASE FinalTranslated
  BY <1>7, TurnTranslated
<1>8. CASE FinalTold
  BY <1>8, TurnTold
<1>9. CASE FinalFails
  BY <1>9, TurnFailed
<1>10. CASE ShowPreview
  BY <1>10, PreviewShown
<1>11. CASE UNCHANGED transVars
  BY <1>11, TransStutters
<1> QED
  BY <1>1, <1>2, <1>3, <1>4, <1>5, <1>6, <1>7, <1>8, <1>9, <1>10, <1>11 DEF TransNext

(* Streaming translation (streaming_translate/committer.py and its two    *)
(* apps): for any texts, clause marks, agreement and number of utterances *)
(* and partials, the pieces of an utterance follow its committed source,  *)
(* through commits, finals, failures and cancelled turns.                 *)
THEOREM TransInvInvariant == TransSpec => []TransInv
<1>1. TransInit => TransInv
  BY TransInitially
<1>2. TransInv /\ [TransNext]_transVars => TransInv'
  BY TransStep
<1> QED
  BY <1>1, <1>2, PTL DEF TransSpec

(* For any texts, clause marks, agreement and number of utterances and    *)
(* partials, and wherever the partials of one utterance fall into the     *)
(* turn of another: as long as they do not meet in the accumulators,      *)
(* every utterance of which no part was given up is translated whole,     *)
(* once and in order, and the captions show what they have translated.    *)
THEOREM TranslationWhole == TransSpec => []TranslationIsWhole
<1>1. TransInv => TranslationIsWhole
  <2> SUFFICES ASSUME TransInv PROVE TranslationIsWhole
    OBVIOUS
  <2>1. /\ said \in Seq(Pieces) /\ gathered \in Seq(Pieces) /\ committed \in Seq(Chars)
        /\ DOMAIN said = 1..Len(said) /\ DOMAIN gathered = 1..Len(gathered) /\ DOMAIN whole = 1..Len(whole)
        /\ DOMAIN partials = 1..Len(partials) /\ Len(committed) \in Nat
    BY LenProperties DEF TransInv, TransTyped
  <2>2. TransTypeOK
    <3>1. ToSet(partials) \subseteq Texts
      <4>1. \A i \in DOMAIN partials : partials[i] \in Texts
        BY <2>1, ElementOfSeq DEF TransInv, TransTyped
      <4> QED
        BY <4>1 DEF ToSet
    <3>2. finalTurn.at \in {"none", "translating", "flushing"}
      BY DEF TransInv, TransTyped
    <3> QED
      BY <3>1, <3>2 DEF TransInv, TransTyped, TransTypeOK
  <2>3. \A u : PlacesOf(u) = Places(said, u)
    BY <2>1 DEF PlacesOf, Places
  <2>4. FinishedUtterancesAreWhole
    <3> SUFFICES ASSUME ~crossed, NEW i \in DOMAIN whole, whole[i].of \notin excused
                 PROVE  SaidWhole(whole[i])
      BY DEF FinishedUtterancesAreWhole
    <3>1. Whole(said, Places(said, whole[i].of), whole[i].text, revised)
      BY <2>1 DEF TransInv, Ended
    <3> QED
      BY <2>3, <3>1 DEF Whole, SaidWhole
  <2>5. UtterancesInOrder
    BY <2>1 DEF TransInv, Accumulated, UtterancesInOrder
  <2>6. CaptionsMatch
    <3> SUFFICES ASSUME app = "captions", ~crossed, ~revised, utterance \notin excused, ~Busy
                 PROVE  /\ Spell(gathered, DOMAIN gathered, shownSource)
                        /\ preview # <<>> => shownSource \o preview[1] = Last(partials)
      BY DEF CaptionsMatch
    <3> DEFINE n == Translated
    <3>1. /\ Chain(gathered, 1..Len(gathered), committed, n, revised)
          /\ Len(shownSource) = n /\ shownSource = SubSeq(committed, 1, n)
      BY DEF TransInv, UnderWay
    <3>2. translating = Nothing => n = Len(committed)
      BY DEF Translated
    <3> HIDE DEF n
    <3>3. n \in 0..Len(committed)
      <4>1. 1..Len(gathered) \in SUBSET (1..Len(gathered))
        OBVIOUS
      <4>2. Reach(gathered, 1..Len(gathered)) \in Nat
        BY <2>1, <4>1, ReachKept
      <4> QED
        BY <2>1, <3>1, <4>2 DEF Chain
    <3>4. shownSource \in Seq(Chars) /\ IsPrefix(shownSource, committed)
      BY <2>1, <3>1, <3>3, BeginningIsPrefix
    <3>5. ASSUME NEW i \in 1..Len(gathered)
          PROVE  gathered[i].text = SubSeq(shownSource, gathered[i].from + 1, EndOf(gathered[i]))
      <4>1. gathered[i] \in Pieces
        BY <2>1, ElementOfSeq
      <4>2. gathered[i].from \in Nat /\ EndOf(gathered[i]) \in Nat
        BY <4>1, EndsInNat
      <4>3. EndOf(gathered[i]) <= Len(shownSource) /\ gathered[i].text = SubSeq(committed, gathered[i].from + 1, EndOf(gathered[i]))
        BY <3>1 DEF Chain
      <4>4. \A a \in Nat, b \in Nat : b <= Len(shownSource) => SubSeq(shownSource, a + 1, b) = SubSeq(committed, a + 1, b)
        BY <2>1, <3>4, PrefixReads
      <4> QED
        BY <4>2, <4>3, <4>4
    <3>6. Spell(gathered, DOMAIN gathered, shownSource)
      BY <2>1, <3>1, <3>5 DEF Chain, Spell
    <3>7. ASSUME preview # <<>>
          PROVE  shownSource \o preview[1] = Last(partials)
      <4>1. translating = Nothing /\ preview = <<tail>> /\ Last(partials) = committed \o tail
        BY <3>7 DEF TransInv, Previewed
      <4>2. shownSource = committed
        BY <2>1, <3>1, <3>2, <4>1, SubSeqFull
      <4> QED
        BY <4>1, <4>2
    <3> QED
      BY <3>6, <3>7
  <2> QED
    BY <2>2, <2>4, <2>5, <2>6 DEF TranslationIsWhole
<1>2. TransSpec => []TransInv
  BY TransInvInvariant
<1> QED
  BY <1>1, <1>2, PTL
=============================================================================
