---------------------------- MODULE Conversation ----------------------------
(***************************************************************************)
(* The conversation state machine of the agent in wake_word mode           *)
(* (agent/ovs_agent/app_base.py).  One attribute, _state, is written by    *)
(* the dispatch loop, the microphone pump, the LLM turn, four timers,      *)
(* wake() and sleep(), all on one event loop: they interleave at every     *)
(* await, and most of them check the state before an await and assign it   *)
(* after one.                                                              *)
(*                                                                         *)
(* A handler is one action up to its first await at which another task     *)
(* can change what it has read, and one action from there.  What is said,  *)
(* heard and played is left out: a final is real, noise, a duplicate or a  *)
(* stop word; the server is external and sends what the protocol allows.   *)
(***************************************************************************)
EXTENDS Naturals, FiniteSets

VARIABLES
  single,      \* config.wake_command_single_turn
  gated,       \* the microphone gate, not the client VAD, ends an utterance
  conv,        \* _state
  eosSent,     \* _eos_sent_this_turn
  asrWd,       \* _asr_watchdog_task is pending
  thinkWd,     \* _thinking_watchdog_task: off, armed, or past its timeout
  sleepTimer,  \* _sleep_task is counting down
  sleepers,    \* sleep() under way: from the timer, from the dashboard
  wakeTimeout, \* _wake_command_timeout_task is pending
  waking,      \* wake() awaits its reconnect
  llmTurn,     \* _llm_turn_task runs
  draining,    \* _playback_drain_task waits for the loudspeaker
  firstTts,    \* _first_tts_seen
  retry,       \* _wake_command_retry_after_no_final
  vad,         \* _vad_state
  handler,     \* what the dispatch loop is in the middle of
  pump,        \* what the microphone pump is in the middle of
  reply,       \* history: the server has a reply under way
  promised     \* history: the server announced a reply since THINKING began

timers == <<asrWd, thinkWd, sleepTimer, wakeTimeout>>
convVars == <<single, gated, conv, eosSent, timers, sleepers, waking, llmTurn, draining, firstTts, retry,
              vad, handler, pump, reply, promised>>

States == {"IDLE", "LISTENING", "THINKING", "SPEAKING", "BARGED_IN", "SLEEPING"}
Finals == {"real", "noise", "stop"}
NoHandler == <<"none">>
Pumps == {"free", "eos", "barge", "ending", "sending"}

ConvTypeOK ==
  /\ conv \in States
  /\ {single, gated, eosSent, asrWd, sleepTimer, wakeTimeout, waking, llmTurn, draining, firstTts, retry,
      reply, promised} \subseteq BOOLEAN
  /\ thinkWd \in {"off", "armed", "fired"}
  /\ sleepers \subseteq {"timer", "admin"}
  /\ vad \in {"idle", "speech"} /\ pump \in Pumps
  /\ handler \in {NoHandler, <<"barge">>, <<"error", TRUE>>, <<"error", FALSE>>}
                 \cup ({"final"} \X Finals \X BOOLEAN)
  /\ wakeTimeout => single

\* run() in wake_word mode.
ConvInit ==
  /\ single \in BOOLEAN /\ gated \in BOOLEAN
  /\ conv = "SLEEPING" /\ thinkWd = "off" /\ sleepers = {} /\ vad = "idle"
  /\ eosSent = FALSE /\ asrWd = FALSE /\ sleepTimer = FALSE /\ wakeTimeout = FALSE
  /\ waking = FALSE /\ llmTurn = FALSE /\ draining = FALSE /\ firstTts = FALSE /\ retry = FALSE
  /\ handler = NoHandler /\ pump = "free" /\ reply = FALSE /\ promised = FALSE

config == <<single, gated>>
turn == <<eosSent, llmTurn, firstTts, retry>>
places == <<sleepers, waking, vad, handler, pump>>

-----------------------------------------------------------------------------
(* Shared pieces.                                                           *)

\* _reset_sleep_timer: a countdown that has begun to sleep is cancelled in the middle of it.
ResetSleepTimer == sleepTimer' = TRUE /\ sleepers' = sleepers \ {"timer"}

\* _ensure_sleep_timer: a countdown that runs, or that has begun to sleep, is left alone.
EnsureSleepTimer ==
  /\ sleepTimer' = (sleepTimer \/ "timer" \notin sleepers)
  /\ UNCHANGED sleepers

StopSleepTimer == sleepTimer' = FALSE /\ sleepers' = sleepers \ {"timer"}

\* _return_to_sleep_after_command_turn, conv # "SLEEPING"
ReturnToSleep ==
  /\ StopSleepTimer
  /\ wakeTimeout' = FALSE /\ firstTts' = FALSE /\ eosSent' = FALSE /\ retry' = FALSE
  /\ conv' = "SLEEPING"

\* Leaving for anything but THINKING, or staying out of it, there is nothing to wait for.
Promise == promised' = (promised /\ conv' = "THINKING")

-----------------------------------------------------------------------------
(* wake(), sleep(), and the timers.                                         *)

WakeBegins ==
  /\ conv = "SLEEPING" /\ ~waking
  /\ waking' = TRUE
  /\ UNCHANGED <<config, draining, conv, turn, timers, sleepers, vad, handler, pump, reply, promised>>

\* The session is healthy, or has been reopened.
WakeEnds ==
  /\ waking
  /\ waking' = FALSE
  /\ conv' = "IDLE"
  /\ ResetSleepTimer
  /\ wakeTimeout' = single
  /\ Promise
  /\ UNCHANGED <<config, draining, turn, asrWd, thinkWd, vad, handler, pump, reply>>

\* The reconnect failed: stay where we are.
WakeRefused ==
  /\ waking
  /\ waking' = FALSE
  /\ UNCHANGED <<config, draining, conv, turn, timers, sleepers, vad, handler, pump, reply, promised>>

\* sleep() from the dashboard: the LLM turn is cancelled, abort and stop_playback are awaited.
AdminSleep ==
  /\ conv # "SLEEPING" /\ "admin" \notin sleepers
  /\ sleepers' = sleepers \cup {"admin"}
  /\ llmTurn' = FALSE
  /\ UNCHANGED <<config, draining, conv, eosSent, firstTts, retry, timers, waking, vad, handler, pump,
                 reply, promised>>

\* _sleep_after: only an idle agent goes to sleep, and the countdown is over either way.
SleepTimeout ==
  /\ sleepTimer
  /\ sleepTimer' = FALSE
  /\ sleepers' = IF conv = "IDLE" THEN sleepers \cup {"timer"} ELSE sleepers
  /\ llmTurn' = (llmTurn /\ conv # "IDLE")
  /\ UNCHANGED <<config, draining, conv, eosSent, firstTts, retry, asrWd, thinkWd, wakeTimeout, waking,
                 vad, handler, pump, reply, promised>>

SleepEnds(who) ==
  /\ who \in sleepers
  /\ wakeTimeout' = FALSE /\ draining' = FALSE /\ firstTts' = FALSE
  /\ conv' = "SLEEPING"
  /\ sleepTimer' = FALSE /\ sleepers' = sleepers \ {who, "timer"}
  /\ Promise
  /\ UNCHANGED <<config, eosSent, llmTurn, retry, asrWd, thinkWd, waking, vad, handler, pump, reply>>

\* _wake_command_timeout: no valid final in time, force one.
WakeCommandTimeout ==
  /\ wakeTimeout
  /\ wakeTimeout' = FALSE
  /\ IF conv \in {"IDLE", "LISTENING"}
     THEN /\ conv' = "THINKING"
          /\ eosSent' = TRUE /\ asrWd' = (asrWd \/ ~eosSent)
     ELSE UNCHANGED <<conv, eosSent, asrWd>>
  /\ UNCHANGED <<config, draining, llmTurn, firstTts, retry, thinkWd, sleepTimer, places, reply,
                 promised>>

\* The no-final prompt has been spoken, or has failed and the window is closed.
NoFinalFeedback ==
  \/ /\ retry' = TRUE /\ reply' = TRUE /\ promised' = TRUE
     /\ UNCHANGED <<conv, firstTts, sleepTimer, sleepers, wakeTimeout>>
  \/ ReturnToSleep /\ Promise /\ UNCHANGED reply

\* Mistake: the watchdog looks at the latch, not at the state.
AsrFinalTimeoutBlind ==
  /\ asrWd
  /\ asrWd' = FALSE
  /\ eosSent' = FALSE
  /\ IF eosSent
     THEN IF single
          THEN NoFinalFeedback
          ELSE conv' = "IDLE" /\ Promise
               /\ UNCHANGED <<firstTts, retry, sleepTimer, sleepers, wakeTimeout, reply>>
     ELSE UNCHANGED <<conv, firstTts, retry, sleepTimer, sleepers, wakeTimeout, reply, promised>>
  /\ UNCHANGED <<config, draining, llmTurn, thinkWd, waking, vad, handler, pump>>

\* _asr_final_watchdog: no final came after the EOS.
AsrFinalTimeout ==
  /\ asrWd
  /\ asrWd' = FALSE
  /\ eosSent' = FALSE
  /\ IF eosSent /\ conv = "THINKING"
     THEN IF single
          THEN NoFinalFeedback
          ELSE conv' = "IDLE" /\ Promise
               /\ UNCHANGED <<firstTts, retry, sleepTimer, sleepers, wakeTimeout, reply>>
     ELSE UNCHANGED <<conv, firstTts, retry, sleepTimer, sleepers, wakeTimeout, reply, promised>>
  /\ UNCHANGED <<config, draining, llmTurn, thinkWd, waking, vad, handler, pump>>

\* _thinking_watchdog: checks, cancels the turn, then awaits abort and reconnect.
ThinkingTimeout ==
  /\ thinkWd = "armed"
  /\ thinkWd' = IF conv = "THINKING" THEN "fired" ELSE "off"
  /\ llmTurn' = (llmTurn /\ conv # "THINKING")
  /\ UNCHANGED <<config, draining, conv, eosSent, firstTts, retry, asrWd, sleepTimer, wakeTimeout,
                 places, reply, promised>>

ThinkingRecovered ==
  /\ thinkWd = "fired"
  /\ thinkWd' = "off"
  /\ firstTts' = FALSE /\ eosSent' = FALSE
  /\ conv' = "IDLE"
  /\ ResetSleepTimer
  /\ Promise
  /\ UNCHANGED <<config, draining, llmTurn, retry, asrWd, wakeTimeout, waking, vad, handler, pump,
                 reply>>

-----------------------------------------------------------------------------
(* The microphone pump, deaf while SLEEPING.                                *)

\* The gate closes after speech, or _stall_eos_watchdog fires: send_asr_eos_once.
EosSent ==
  /\ conv # "SLEEPING" /\ ~eosSent
  /\ eosSent' = TRUE
  /\ \/ gated /\ pump = "free" /\ pump' = "eos" /\ UNCHANGED asrWd
     \/ ~gated /\ conv \in {"IDLE", "LISTENING"} /\ asrWd' = TRUE /\ UNCHANGED pump
  /\ UNCHANGED <<config, draining, conv, llmTurn, firstTts, retry, thinkWd, sleepTimer, wakeTimeout,
                 sleepers, waking, vad, handler, reply, promised>>

\* The EOS has gone out: the watchdog is armed and the gate goes to THINKING.
GateThinks ==
  /\ pump = "eos"
  /\ pump' = "free"
  /\ asrWd' = TRUE
  /\ wakeTimeout' = FALSE
  /\ conv' = "THINKING"
  /\ UNCHANGED <<config, draining, turn, thinkWd, sleepTimer, sleepers, waking, vad, handler, reply,
                 promised>>

\* _update_vad hears speech begin; playing: audio.is_playing.
SpeechStarts(playing) ==
  /\ ~gated /\ pump = "free" /\ conv # "SLEEPING" /\ vad = "idle"
  /\ vad' = "speech"
  /\ eosSent' = (eosSent /\ conv # "THINKING")
  /\ asrWd' = (asrWd /\ ~(conv = "THINKING" /\ eosSent))
  /\ \/ /\ playing /\ conv = "SPEAKING"
        /\ conv' = "BARGED_IN" /\ pump' = "barge" /\ llmTurn' = FALSE
     \/ /\ playing   \* echo, or playback that is still buffered
        /\ UNCHANGED <<conv, pump, llmTurn>>
     \/ /\ ~playing
        /\ conv' = "LISTENING" /\ UNCHANGED <<pump, llmTurn>>
  /\ Promise
  /\ UNCHANGED <<config, draining, firstTts, retry, thinkWd, sleepTimer, wakeTimeout, sleepers, waking,
                 handler, reply>>

\* ... and end; the plugins are told.
SpeechEnds ==
  /\ pump = "free" /\ conv # "SLEEPING" /\ vad = "speech"
  /\ pump' = "ending"
  /\ UNCHANGED <<config, draining, conv, turn, timers, sleepers, waking, vad, handler, reply, promised>>

\* client_vad_drive_eos: send_asr_eos_once, up to its await.
SpeechEos ==
  /\ pump = "ending" /\ ~eosSent
  /\ pump' = "sending"
  /\ eosSent' = TRUE
  /\ UNCHANGED <<config, draining, conv, llmTurn, firstTts, retry, timers, sleepers, waking, vad, handler,
                 reply, promised>>

\* The EOS is out, or none is sent (no client_vad_drive_eos, or the latch was set): THINKING, whatever
\* the state has become.
SpeechThinks ==
  /\ pump \in {"ending", "sending"}
  /\ pump' = "free" /\ vad' = "idle"
  /\ asrWd' = (asrWd \/ pump = "sending")
  /\ conv' = "THINKING" /\ thinkWd' = "armed"
  /\ UNCHANGED <<config, draining, turn, sleepTimer, wakeTimeout, sleepers, waking, handler, reply,
                 promised>>

\* _interrupt_current_turn_for_barge_in, after stop_playback and abort.
BargeEnds ==
  /\ eosSent' = FALSE /\ asrWd' = FALSE /\ firstTts' = FALSE
  /\ \/ pump = "barge" /\ pump' = "free" /\ UNCHANGED handler
     \/ handler = <<"barge">> /\ handler' = NoHandler /\ UNCHANGED pump
  /\ UNCHANGED <<config, draining, conv, llmTurn, retry, thinkWd, sleepTimer, wakeTimeout, sleepers,
                 waking, vad, reply, promised>>

-----------------------------------------------------------------------------
(* The dispatch loop: _dispatch_one.                                        *)

\* A partial, or the server's speech_started, over the reply.
BargeIn ==
  /\ handler = NoHandler /\ conv \in {"SPEAKING", "BARGED_IN"}
  /\ conv' = "BARGED_IN" /\ handler' = <<"barge">> /\ llmTurn' = FALSE
  /\ UNCHANGED <<config, draining, eosSent, firstTts, retry, timers, sleepers, waking, vad, pump, reply,
                 promised>>

\* A final passes the SLEEPING gate; the session may have to be reopened before it is looked at.
FinalArrives(kind) ==
  /\ handler = NoHandler /\ conv # "SLEEPING"
  /\ handler' = <<"final", kind, eosSent>>
  /\ asrWd' = FALSE /\ eosSent' = FALSE
  /\ UNCHANGED <<config, draining, conv, llmTurn, firstTts, retry, thinkWd, sleepTimer, wakeTimeout,
                 sleepers, waking, vad, pump, reply, promised>>

\* A duplicate of what was streamed: nothing to route, but nobody else will end THINKING.
DuplicateFinal ==
  /\ handler = NoHandler /\ conv # "SLEEPING"
  /\ asrWd' = FALSE /\ eosSent' = FALSE
  /\ IF conv = "THINKING"
     THEN conv' = "IDLE" /\ ResetSleepTimer /\ Promise
     ELSE UNCHANGED <<conv, sleepTimer, sleepers, promised>>
  /\ UNCHANGED <<config, draining, llmTurn, firstTts, retry, thinkWd, wakeTimeout, waking, vad,
                 handler, pump, reply>>

\* Noise: never an end to a turn of an earlier utterance.
NoiseFinal ==
  /\ handler \in {<<"final", "noise", TRUE>>, <<"final", "noise", FALSE>>}
  /\ handler' = NoHandler
  /\ \/ /\ conv \in {"LISTENING", "BARGED_IN"}
        /\ conv' = "IDLE" /\ EnsureSleepTimer /\ Promise
        /\ UNCHANGED <<eosSent, firstTts, retry, wakeTimeout, reply>>
     \/ /\ conv = "THINKING" /\ handler[3] /\ single
        /\ NoFinalFeedback
        /\ eosSent' = (eosSent /\ conv' # "SLEEPING")
     \/ /\ conv = "THINKING" /\ handler[3] /\ ~single
        /\ conv' = "IDLE" /\ EnsureSleepTimer /\ Promise
        /\ UNCHANGED <<eosSent, firstTts, retry, wakeTimeout, reply>>
     \/ /\ conv \in {"IDLE", "SPEAKING", "SLEEPING"} \/ (conv = "THINKING" /\ ~handler[3])
        /\ UNCHANGED <<conv, sleepTimer, sleepers, eosSent, firstTts, retry, wakeTimeout, reply,
                       promised>>
  /\ UNCHANGED <<config, draining, llmTurn, asrWd, thinkWd, waking, vad, pump>>

\* Mistake: the watchdog is left to the client VAD.
RealFinalUnguarded ==
  /\ handler \in {<<"final", "real", TRUE>>, <<"final", "real", FALSE>>}
  /\ handler' = NoHandler
  /\ conv' = "THINKING" /\ llmTurn' = TRUE /\ eosSent' = FALSE
  /\ wakeTimeout' = FALSE /\ vad' = "idle" /\ promised' = FALSE
  /\ UNCHANGED <<config, draining, firstTts, retry, asrWd, thinkWd, sleepTimer, sleepers, waking, pump,
                 reply>>

\* The LLM turn of a real utterance; an earlier one is cancelled.
RealFinal ==
  /\ handler \in {<<"final", "real", TRUE>>, <<"final", "real", FALSE>>}
  /\ handler' = NoHandler
  /\ conv' = "THINKING" /\ llmTurn' = TRUE /\ eosSent' = FALSE
  /\ thinkWd' = "armed"
  /\ wakeTimeout' = FALSE /\ vad' = "idle" /\ promised' = FALSE
  /\ UNCHANGED <<config, draining, firstTts, retry, asrWd, sleepTimer, sleepers, waking, pump, reply>>

\* Stop intent.
StopFinal ==
  /\ handler \in {<<"final", "stop", TRUE>>, <<"final", "stop", FALSE>>}
  /\ handler' = NoHandler
  /\ conv' = "IDLE" /\ llmTurn' = FALSE /\ eosSent' = FALSE
  /\ ResetSleepTimer /\ Promise
  /\ wakeTimeout' = FALSE /\ vad' = "idle"
  /\ UNCHANGED <<config, draining, firstTts, retry, asrWd, thinkWd, waking, pump, reply>>

\* ResponseCreated or TTSStarted: the thinking watchdog stands down.
ReplyAnnounced ==
  /\ handler = NoHandler /\ reply
  /\ thinkWd' = "off" /\ promised' = TRUE
  /\ UNCHANGED <<config, draining, conv, turn, asrWd, sleepTimer, wakeTimeout, places, reply>>

\* The first frame of a reply; a barge-in lets the tail run dry.
TtsAudio ==
  /\ handler = NoHandler /\ reply /\ conv # "BARGED_IN" /\ ~firstTts
  /\ firstTts' = TRUE
  /\ conv' = "SPEAKING" /\ Promise
  /\ UNCHANGED <<config, draining, eosSent, llmTurn, retry, timers, places, reply>>

\* _complete_assistant_turn, in whatever state the agent is: the retry window, back to sleep, or IDLE.
CompleteTurn ==
  /\ \/ /\ conv # "BARGED_IN" /\ single /\ retry
        /\ StopSleepTimer
        /\ retry' = FALSE /\ conv' = "IDLE" /\ wakeTimeout' = TRUE
     \/ /\ conv # "BARGED_IN" /\ single /\ ~retry
        /\ IF conv = "SLEEPING" THEN UNCHANGED <<conv, sleepTimer, sleepers>>
                                ELSE StopSleepTimer /\ conv' = "SLEEPING"
        /\ wakeTimeout' = FALSE /\ UNCHANGED retry
     \/ /\ conv # "BARGED_IN" /\ ~single
        /\ conv' = "IDLE" /\ ResetSleepTimer /\ UNCHANGED <<retry, wakeTimeout>>
     \/ /\ conv = "BARGED_IN"
        /\ UNCHANGED <<conv, sleepTimer, sleepers, retry, wakeTimeout>>
  /\ Promise

\* TTSDone or ResponseDone: the turn is completed, now or (playing: playback_drain_enabled, and
\* audio.is_playing) when the loudspeaker is done; an earlier drain is replaced.
ReplyDone(playing) ==
  /\ handler = NoHandler /\ reply
  /\ reply' = FALSE /\ thinkWd' = "off" /\ firstTts' = FALSE
  /\ \/ /\ conv # "BARGED_IN" /\ playing
        /\ draining' = TRUE
        /\ UNCHANGED <<conv, eosSent, sleepTimer, sleepers, retry, wakeTimeout, promised>>
     \/ /\ conv = "BARGED_IN" \/ ~playing
        /\ draining' = (draining /\ conv = "BARGED_IN")
        /\ CompleteTurn /\ eosSent' = FALSE
  /\ UNCHANGED <<config, llmTurn, asrWd, waking, vad, handler, pump>>

\* _finish_assistant_turn_after_playback; closing a command window resets the latches.
PlaybackDrained ==
  /\ draining
  /\ draining' = FALSE
  /\ CompleteTurn
  /\ LET kept == ~single \/ conv = "BARGED_IN" \/ (conv = "SLEEPING" /\ ~retry)
     IN  eosSent' = (eosSent /\ kept) /\ firstTts' = (firstTts /\ kept)
  /\ UNCHANGED <<config, llmTurn, asrWd, thinkWd, waking, vad, handler, pump, reply>>

\* ResponseDone with function calls only: the reply goes on after the tools.
ToolBoundary ==
  /\ handler = NoHandler /\ reply
  /\ firstTts' = FALSE /\ thinkWd' = "off"
  /\ conv' = IF conv = "BARGED_IN" THEN conv ELSE "THINKING"
  /\ promised' = TRUE
  /\ UNCHANGED <<config, draining, eosSent, llmTurn, retry, asrWd, sleepTimer, wakeTimeout, places,
                 reply>>

\* SLVError: the state is read, then the plugins and the LLM turn are awaited.
ErrorArrives ==
  /\ handler = NoHandler
  /\ handler' = <<"error", conv = "SLEEPING">>
  /\ asrWd' = FALSE /\ thinkWd' = "off" /\ llmTurn' = FALSE
  /\ UNCHANGED <<config, draining, conv, eosSent, firstTts, retry, sleepTimer, wakeTimeout, sleepers,
                 waking, vad, pump, reply, promised>>

ErrorHandled ==
  /\ handler \in {<<"error", TRUE>>, <<"error", FALSE>>}
  /\ handler' = NoHandler
  /\ conv' = IF handler[2] THEN conv ELSE "IDLE"
  /\ reply' = FALSE /\ Promise
  /\ UNCHANGED <<config, draining, turn, timers, sleepers, waking, vad, pump>>

\* _slv_dispatch has reopened a session that was lost.
Reconnected ==
  /\ handler = NoHandler
  /\ firstTts' = FALSE /\ eosSent' = FALSE /\ asrWd' = FALSE /\ reply' = FALSE
  /\ conv' = IF conv \in {"THINKING", "BARGED_IN"} THEN "IDLE" ELSE conv
  /\ Promise
  /\ UNCHANGED <<config, draining, llmTurn, retry, thinkWd, sleepTimer, wakeTimeout, places>>

-----------------------------------------------------------------------------
(* The LLM turn: _run_user_utterance.                                       *)

\* Text goes to the server, which starts to speak; the turn may be over with it.
TurnSpeaks(over) ==
  /\ llmTurn
  /\ reply' = TRUE
  /\ llmTurn' = ~over
  /\ UNCHANGED <<config, draining, conv, eosSent, firstTts, retry, timers, places, promised>>

\* LLM unavailable, timed out or failed.
TurnFails ==
  /\ llmTurn
  /\ llmTurn' = FALSE
  /\ conv' = "IDLE" /\ ResetSleepTimer /\ Promise
  /\ UNCHANGED <<config, draining, eosSent, firstTts, retry, asrWd, thinkWd, wakeTimeout, waking, vad,
                 handler, pump, reply>>

-----------------------------------------------------------------------------

Timeouts == SleepTimeout \/ WakeCommandTimeout \/ AsrFinalTimeout \/ ThinkingTimeout

Finishes ==
  \/ WakeEnds \/ WakeRefused \/ ThinkingRecovered \/ GateThinks \/ SpeechEos \/ SpeechThinks \/ BargeEnds
  \/ NoiseFinal \/ RealFinal \/ StopFinal \/ ErrorHandled
  \/ \E who \in {"timer", "admin"} : SleepEnds(who)

ConvNext ==
  \/ Timeouts \/ Finishes
  \/ WakeBegins \/ AdminSleep \/ EosSent \/ SpeechEnds \/ BargeIn \/ DuplicateFinal
  \/ ReplyAnnounced \/ TtsAudio \/ PlaybackDrained \/ ToolBoundary \/ ErrorArrives \/ Reconnected
  \/ TurnFails
  \/ \E b \in BOOLEAN : SpeechStarts(b) \/ ReplyDone(b) \/ TurnSpeaks(b)
  \/ \E kind \in Finals : FinalArrives(kind)

ConvSpec == ConvInit /\ [][ConvNext]_convVars

-----------------------------------------------------------------------------
(* Somebody will end THINKING: the thinking watchdog, the final watchdog    *)
(* with the latch it acts on, speech that goes on, a task in the middle of  *)
(* its work, playback that drains, or a reply the server announced.         *)
Watched ==
  \/ thinkWd # "off" \/ (asrWd /\ eosSent) \/ promised \/ draining
  \/ vad = "speech" \/ handler # NoHandler \/ pump # "free" \/ sleepers # {} \/ waking

(* With the client VAD and no command window, THINKING is watched.  The     *)
(* microphone gate and the command window promise less: there the final     *)
(* watchdog is the only one, and it may be gone, or find its latch reset,   *)
(* when THINKING begins (a final that comes while the EOS goes out).        *)
VadThinkingIsWatched == ~gated /\ ~single /\ conv = "THINKING" => Watched

(* With no handler, turn, reply, drain or watchdog left in the middle of    *)
(* its work, and no end of speech whose follow-up the pump still awaits,    *)
(* nothing but wake() takes the agent out of SLEEPING: not new speech, not  *)
(* a late final, not a timer that was left running.  Those that are         *)
(* excepted do: they assign the state without looking at it again.          *)
QuietSleepLasts ==
  [][conv = "SLEEPING" /\ handler = NoHandler /\ ~reply /\ ~draining /\ thinkWd # "fired" /\ pump = "free"
     /\ ~llmTurn => conv' = "SLEEPING" \/ waking]_convVars

(* Interrupted by the user, the agent has dropped the LLM turn it was       *)
(* speaking for: no more of the old answer follows the barge-in.            *)
BargedInIsQuiet == conv = "BARGED_IN" => ~llmTurn

(* With the client VAD and no command window the conversation does not hang *)
(* in THINKING unwatched, and in every mode an interrupted answer is not    *)
(* resumed.                                                                 *)
ConversationIsSound ==
  /\ ConvTypeOK
  /\ VadThinkingIsWatched
  /\ BargedInIsQuiet
=============================================================================
