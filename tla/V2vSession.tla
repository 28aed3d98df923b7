----------------------------- MODULE V2vSession -----------------------------
(***************************************************************************)
(* One connection of /v2v/stream after its configuration (server/main.py): *)
(* the dispatcher that reads the client's frames, asr_out_task that polls  *)
(* and finalises utterances, tts_out_task that speaks sentences, and the   *)
(* handler that gathers the tasks and unwinds.  The tasks run on one event *)
(* loop: a step reaches from one await to the next.                        *)
(*                                                                         *)
(* The ASR session manager comes from a library.  As this code uses it:    *)
(* on_speech_start drops the live stream and opens one of the next         *)
(* generation, finalize_with_status takes no generation and accepts its    *)
(* result if nothing preempted it, and the manager may fall back to IDLE   *)
(* by itself (worker restart, exhausted rebuilds).                         *)
(***************************************************************************)
EXTENDS Naturals

CONSTANTS
  MaxTurns,      \* bound: utterances opened by the connection
  MaxSentences,  \* bound: sentences waiting in tts_q
  V2vSettings    \* <<multi_utterance, frontend VAD, the backend finds endpoints>>

ASSUME V2vAssumption ==
  /\ MaxTurns \in Nat \ {0} /\ MaxSentences \in Nat \ {0}
  /\ V2vSettings \subseteq BOOLEAN \X BOOLEAN \X BOOLEAN

VARIABLES
  multi, frontVad, owns,     \* multi_utterance, vad is not None, prefer_backend_endpoint_vad
  peer,                      \* the client: "here" or "left"
  clientClosed,              \* state["client_closed"]
  asrActive, asrActiveGen,   \* the open turn as the handler sees it
  turnClock,                 \* asr_turn_started_at: "off", "running" or "expired"
  endpointPending, endpointPendingGen,
  sessionClosed,             \* state["asr_session_closed"]
  startedOnce,               \* state["asr_started_once"]
  manager, managerGen,       \* ASR session manager: state and current_generation
  disp, tail,                \* dispatcher: its await; speech_ended_now
  voiced,                    \* the frontend VAD is inside speech
  asrOut,                    \* asr_out_task: its await
  isEndpoint,                \* is_endpoint as the last poll returned it
  judgedGen,                 \* history: generation whose endpoint fired
  finalizeGen, ranGen,       \* finalize_gen; generation the manager finalises
  ttsOut, ttsFlush, queued,  \* tts_out_task: its await; tts_flush; length of tts_q
  synth,                     \* thread of the current sentence
  loose,                     \* history: a thread left behind without being told to stop
  frame,                     \* the handler: its await
  wiped                      \* history: the turn deadline cleared a turn it had not cancelled

settings == <<multi, frontVad, owns>>
turnVars == <<asrActive, asrActiveGen, turnClock>>
endpointVars == <<endpointPending, endpointPendingGen>>
managerVars == <<manager, managerGen>>
inputVars == <<sessionClosed, startedOnce>>
dispVars == <<disp, tail, voiced>>
asrVars == <<asrOut, isEndpoint, judgedGen, finalizeGen, ranGen>>
sayVars == <<ttsOut, queued, ttsFlush, synth, loose>>
v2vVars == <<settings, peer, clientClosed, turnVars, endpointVars, managerVars, inputVars,
             dispVars, asrVars, sayVars, frame, wiped>>

Gens == 0..MaxTurns
Ended == {"off", "done", "failed", "cancelled"}
AsrAwaits == {"tick", "deadline", "judge", "announce", "finalize", "finalizing", "deliver"}
TtsAwaits == {"wait", "acquiring", "speaking"}

V2vTypeOK ==
  /\ settings \in V2vSettings
  /\ peer \in {"here", "left"} /\ clientClosed \in BOOLEAN
  /\ asrActive \in BOOLEAN /\ asrActiveGen \in Gens
  /\ turnClock \in {"off", "running", "expired"} /\ (asrActive => turnClock # "off")
  /\ endpointPending \in {"none", "vad", "client_eos"} /\ endpointPendingGen \in Gens
  /\ sessionClosed \in BOOLEAN /\ startedOnce \in BOOLEAN
  /\ manager \in {"idle", "active", "finalizing"} /\ managerGen \in Gens
  /\ asrActiveGen <= managerGen
  /\ disp \in {"receive", "opening", "feeding", "cancelling"} \cup Ended /\ tail \in BOOLEAN /\ voiced \in BOOLEAN
  /\ asrOut \in AsrAwaits \cup Ended /\ isEndpoint \in BOOLEAN
  /\ {judgedGen, finalizeGen, ranGen} \subseteq Gens
  /\ ttsOut \in TtsAwaits \cup Ended /\ ttsFlush \in BOOLEAN /\ queued \in 0..MaxSentences
  /\ synth \in {"none", "running", "over"} /\ loose \in BOOLEAN
  /\ frame \in {"serving", "unwinding", "gathering", "released", "closed"}
  /\ wiped \in BOOLEAN

V2vInit ==
  /\ \E s \in V2vSettings : multi = s[1] /\ frontVad = s[2] /\ owns = s[3]
  /\ peer = "here" /\ clientClosed = FALSE
  /\ asrActive = FALSE /\ asrActiveGen = 0 /\ turnClock = "off"
  /\ endpointPending = "none" /\ endpointPendingGen = 0
  /\ sessionClosed = FALSE /\ startedOnce = FALSE
  /\ manager = "idle" /\ managerGen = 0
  /\ disp = "receive" /\ tail = FALSE /\ voiced = FALSE
  /\ asrOut \in {"tick", "off"} /\ ttsOut \in {"wait", "off"} /\ (asrOut = "off" => ttsOut = "wait")
  /\ isEndpoint = FALSE /\ judgedGen = 0 /\ finalizeGen = 0 /\ ranGen = 0
  /\ ttsFlush = FALSE /\ queued = 0 /\ synth = "none" /\ loose = FALSE
  /\ frame = "serving" /\ wiped = FALSE

-----------------------------------------------------------------------------
(* Shared pieces *)

\* send_json and send_bytes swallow the failure of a dead socket and note it.
Sends == clientClosed' \in {clientClosed, clientClosed \/ peer = "left"}

\* asr_out_task goes to the end of an iteration; its locals die with it.
LoopEnds(place) ==
  /\ asrOut' = place
  /\ isEndpoint' = FALSE /\ judgedGen' = 0 /\ finalizeGen' = 0 /\ ranGen' = 0

\* The turn is over for the handler; its endpoint with it.
ClearTurn == asrActive' = FALSE /\ turnClock' = "off" /\ UNCHANGED asrActiveGen
ClearEndpoint == endpointPending' = "none" /\ endpointPendingGen' = 0

\* The sentence is given up: its thread, if it still runs, is left behind.
LeaveSentence(told) ==
  /\ synth' = "none"
  /\ loose' = (loose \/ (synth = "running" /\ ~told))

\* Barge-in: the drain task is cancelled and its thread told to stop.
BargeIn ==
  IF ttsOut \in {"acquiring", "speaking"}
  THEN ttsOut' = "wait" /\ LeaveSentence(TRUE) /\ UNCHANGED <<queued, ttsFlush>>
  ELSE UNCHANGED sayVars

\* Cancelling the work tasks.  asr_out_task dies wherever it waits.  In the
\* middle of a sentence tts_out_task takes the cancellation for a barge-in
\* and goes on.
CancelAsrOut == IF asrOut \in Ended THEN UNCHANGED asrVars ELSE LoopEnds("cancelled")
CancelTtsOut ==
  CASE ttsOut = "wait" -> ttsOut' = "cancelled" /\ UNCHANGED <<synth, loose>>
    [] ttsOut \in {"acquiring", "speaking"} -> ttsOut' = "wait" /\ LeaveSentence(TRUE)
    [] OTHER -> UNCHANGED <<ttsOut, synth, loose>>
CancelWork ==
  /\ CancelAsrOut /\ CancelTtsOut
  /\ UNCHANGED <<queued, ttsFlush>>

-----------------------------------------------------------------------------
(* The dispatcher *)

Receiving == disp = "receive" /\ ~clientClosed /\ peer = "here"

\* Audio is dropped once the input side is closed or the one turn is over.
Listening ==
  /\ asrOut # "off" /\ ~sessionClosed
  /\ multi \/ ~startedOnce \/ asrActive

\* A stream that looks for its own endpoint is not reopened by the frontend VAD.
StreamOwns == owns /\ manager # "idle"

Opens(ended) ==
  /\ managerGen < MaxTurns
  /\ disp' = "opening" /\ tail' = ended

SpeechStart ==
  /\ Receiving /\ Listening /\ frontVad
  /\ ~voiced /\ voiced' = TRUE /\ Sends
  /\ IF multi \/ ~startedOnce
     THEN BargeIn /\ IF asrActive /\ StreamOwns THEN UNCHANGED <<disp, tail>> ELSE Opens(FALSE)
     ELSE UNCHANGED <<sayVars, disp, tail>>
  /\ UNCHANGED <<settings, peer, turnVars, endpointVars, managerVars, inputVars, asrVars,
                 frame, wiped>>

\* The first frame of a session that opens lazily; it may carry the speech end.
OpensLazily ==
  /\ ~frontVad \/ owns
  /\ ~asrActive /\ endpointPending = "none"
  /\ multi \/ ~startedOnce

LazyOpen ==
  /\ Receiving /\ Listening /\ OpensLazily
  /\ \E ended \in {FALSE, voiced} : Opens(ended) /\ voiced' = (voiced /\ ~ended)
  /\ UNCHANGED <<settings, peer, clientClosed, turnVars, endpointVars, managerVars, inputVars,
                 asrVars, sayVars, frame, wiped>>

\* A speech end is latched after its chunk has been accepted, for the turn
\* that is current then.
LatchEndpoint ==
  /\ endpointPending' = "vad" /\ endpointPendingGen' = asrActiveGen
  /\ sessionClosed' = (sessionClosed \/ ~multi)

Latch ==
  \/ LatchEndpoint
  \/ StreamOwns /\ UNCHANGED <<endpointVars, sessionClosed>>

SpeechEnd ==
  /\ Receiving /\ Listening /\ ~OpensLazily
  /\ voiced /\ voiced' = FALSE
  /\ IF asrActive THEN disp' = "feeding" /\ UNCHANGED <<clientClosed, endpointVars, sessionClosed>>
                  ELSE disp' = disp /\ Latch /\ Sends
  /\ UNCHANGED <<settings, peer, turnVars, managerVars, startedOnce, tail, asrVars, sayVars,
                 frame, wiped>>

Fed ==
  /\ disp = "feeding"
  /\ disp' = "receive" /\ Latch /\ Sends
  /\ UNCHANGED <<settings, peer, turnVars, managerVars, startedOnce, tail, voiced, asrVars, sayVars,
                 frame, wiped>>

Opened ==
  /\ disp = "opening"
  /\ disp' = (IF tail THEN "feeding" ELSE "receive") /\ tail' = FALSE
  /\ manager' = "active" /\ managerGen' = managerGen + 1
  /\ asrActive' = TRUE /\ asrActiveGen' = managerGen + 1 /\ turnClock' = "running"
  /\ startedOnce' = TRUE /\ ClearEndpoint
  /\ UNCHANGED <<settings, peer, clientClosed, sessionClosed, voiced, asrVars, sayVars, frame, wiped>>

\* ASRSessionUnavailable: the turn is skipped.
OpenRefused ==
  /\ disp = "opening"
  /\ disp' = "receive" /\ tail' = FALSE /\ manager' = "idle" /\ asrActive' = FALSE
  /\ ClearEndpoint /\ Sends
  /\ UNCHANGED <<settings, peer, managerGen, asrActiveGen, turnClock, inputVars, voiced, asrVars,
                 sayVars, frame, wiped>>

ClientEos ==
  /\ Receiving
  /\ endpointPending' = "client_eos" /\ endpointPendingGen' = asrActiveGen
  /\ sessionClosed' = (sessionClosed \/ ~multi)
  /\ UNCHANGED <<settings, peer, clientClosed, turnVars, managerVars, startedOnce, dispVars,
                 asrVars, sayVars, frame, wiped>>

\* Text for the synthesiser, and the flush that ends a turn's text.
ClientText ==
  /\ Receiving /\ ttsOut # "off"
  /\ \/ queued < MaxSentences /\ queued' = queued + 1 /\ UNCHANGED ttsFlush
     \/ ttsFlush' = TRUE /\ UNCHANGED queued
  /\ UNCHANGED <<settings, peer, clientClosed, turnVars, endpointVars, managerVars, inputVars,
                 dispVars, asrVars, ttsOut, synth, loose, frame, wiped>>

ClientAbort ==
  /\ Receiving
  /\ IF ttsOut \in {"acquiring", "speaking"} THEN ttsOut' = "wait" /\ LeaveSentence(TRUE)
                                             ELSE UNCHANGED <<ttsOut, synth, loose>>
  /\ queued' = 0
  /\ disp' = (IF asrActive THEN "cancelling" ELSE disp)
  /\ UNCHANGED <<settings, peer, clientClosed, turnVars, endpointVars, managerVars, inputVars,
                 tail, voiced, asrVars, ttsFlush, frame, wiped>>

AbortDone ==
  /\ disp = "cancelling"
  /\ disp' = "receive" /\ manager' = "idle" /\ ClearTurn
  /\ UNCHANGED <<settings, peer, clientClosed, endpointVars, managerGen, inputVars, tail, voiced, asrVars,
                 sayVars, frame, wiped>>

\* A disconnect or a silent window, in the loop that still runs: the work is
\* cancelled for the slot to be free soon.
Disconnect ==
  /\ disp = "receive" /\ ~clientClosed
  /\ disp' = "done" /\ peer' = "left" /\ clientClosed' = TRUE /\ CancelWork
  /\ UNCHANGED <<settings, turnVars, endpointVars, managerVars, inputVars, tail, voiced, frame, wiped>>

\* Someone else has found the socket dead: the dispatcher leaves at its next
\* frame, or cancels the work first when the wait for one times out.
FoundClosed ==
  /\ disp = "receive" /\ clientClosed
  /\ disp' = "done"
  /\ CancelWork \/ UNCHANGED <<asrVars, sayVars>>
  /\ UNCHANGED <<settings, peer, clientClosed, turnVars, endpointVars, managerVars, inputVars,
                 tail, voiced, frame, wiped>>

\* Only WebSocketDisconnect is caught: any other exception ends the task, and
\* nobody waits for it while there is work.
DispatcherFails ==
  /\ disp \in {"receive", "opening", "feeding", "cancelling"}
  /\ disp = "receive" => peer = "here"
  /\ disp' = "failed"
  /\ UNCHANGED <<settings, peer, clientClosed, turnVars, endpointVars, managerVars, inputVars,
                 tail, voiced, asrVars, sayVars, frame, wiped>>

-----------------------------------------------------------------------------
(* asr_out_task *)

Tick ==
  /\ asrOut = "tick"
  /\ IF clientClosed
     THEN LoopEnds("done")
     ELSE /\ asrOut' = (IF asrActive /\ turnClock = "expired" THEN "deadline" ELSE "judge")
          /\ isEndpoint' \in (IF asrOut' = "judge" /\ asrActive /\ manager = "active"
                              THEN BOOLEAN ELSE {FALSE})
          /\ judgedGen' = managerGen   \* of the turn that is polled, or overdue
          /\ UNCHANGED <<finalizeGen, ranGen>>
  /\ UNCHANGED <<settings, peer, clientClosed, turnVars, endpointVars, managerVars, inputVars,
                 dispVars, sayVars, frame, wiped>>

\* The cancel (or the worker's restart) is over; the turn that is current now
\* is cleared, whichever it is.
DeadlineDone ==
  /\ asrOut = "deadline"
  /\ manager' = (IF managerGen = judgedGen THEN "idle" ELSE manager)
  /\ ClearTurn /\ ClearEndpoint /\ Sends
  /\ wiped' = (wiped \/ managerGen # judgedGen)
  /\ LoopEnds(IF multi /\ ~sessionClosed THEN "tick" ELSE "done")
  /\ UNCHANGED <<settings, peer, managerGen, inputVars, dispVars, sayVars, frame>>

\* finalize_gen is taken, and then the prepare task and the coordinator waited
\* for; with no turn open an empty final is due.
BeginFinalize ==
  /\ asrOut' = (IF asrActive THEN "finalize" ELSE "deliver")
  /\ finalizeGen' = asrActiveGen

\* An endpoint stamped with another generation is dropped; one of the current
\* turn, or the backend's own, fires.
Stale == endpointPending # "none" /\ endpointPendingGen # asrActiveGen
Reason == IF Stale THEN "none" ELSE endpointPending

Judge ==
  /\ asrOut = "judge" /\ Sends
  /\ IF Reason # "none" \/ (isEndpoint /\ asrActive)
     THEN /\ sessionClosed' = (sessionClosed \/ ~multi)
          /\ ClearEndpoint
          /\ judgedGen' = (IF Reason # "none" THEN asrActiveGen ELSE judgedGen)
          /\ IF Reason = "client_eos" THEN BeginFinalize
                                      ELSE asrOut' = "announce" /\ UNCHANGED finalizeGen
          /\ isEndpoint' = FALSE /\ UNCHANGED ranGen
     ELSE /\ LoopEnds(IF sessionClosed /\ ~asrActive THEN "done" ELSE "tick")
          /\ IF Stale THEN ClearEndpoint ELSE UNCHANGED endpointVars
          /\ UNCHANGED sessionClosed
  /\ UNCHANGED <<settings, peer, turnVars, managerVars, startedOnce, dispVars, sayVars,
                 frame, wiped>>

Announced ==
  /\ asrOut = "announce" /\ BeginFinalize /\ Sends
  /\ UNCHANGED <<settings, peer, turnVars, endpointVars, managerVars, inputVars, dispVars,
                 isEndpoint, judgedGen, ranGen, sayVars, frame, wiped>>

\* The manager finalises the stream it has.
Finalize ==
  /\ asrOut = "finalize" /\ asrOut' = "finalizing"
  /\ ranGen' = managerGen
  /\ manager' = (IF manager = "active" THEN "finalizing" ELSE manager)
  /\ UNCHANGED <<settings, peer, clientClosed, turnVars, endpointVars, managerGen, inputVars,
                 dispVars, isEndpoint, judgedGen, finalizeGen, sayVars, frame, wiped>>

FinalAccepted ==
  /\ asrOut = "finalizing" /\ manager = "finalizing" /\ managerGen = ranGen
  /\ asrOut' = "deliver" /\ manager' = "idle"
  /\ IF asrActiveGen = finalizeGen THEN ClearTurn ELSE UNCHANGED turnVars
  /\ UNCHANGED <<settings, peer, clientClosed, endpointVars, managerGen, inputVars, dispVars,
                 isEndpoint, judgedGen, finalizeGen, ranGen, sayVars, frame, wiped>>

\* Mistake: the turn is cleared whoever it belongs to by now.
FinalRejectedClears ==
  /\ asrOut = "finalizing"
  /\ LoopEnds("tick")
  /\ manager' = (IF manager = "finalizing" /\ managerGen = ranGen THEN "idle" ELSE manager)
  /\ ClearTurn /\ ClearEndpoint
  /\ UNCHANGED <<settings, peer, clientClosed, managerGen, inputVars, dispVars, sayVars,
                 frame, wiped>>

\* The result is discarded: the stream was preempted, cancelled or broken.
\* A turn whose manager has gone IDLE is given up.
FinalRejected ==
  /\ asrOut = "finalizing"
  /\ LoopEnds("tick")
  /\ manager' = (IF manager = "finalizing" /\ managerGen = ranGen THEN "idle" ELSE manager)
  /\ IF manager' = "idle" THEN ClearTurn /\ ClearEndpoint ELSE UNCHANGED <<turnVars, endpointVars>>
  /\ UNCHANGED <<settings, peer, clientClosed, managerGen, inputVars, dispVars, sayVars,
                 frame, wiped>>

\* The final is sent.  A session of one utterance is over with it.
Deliver ==
  /\ asrOut = "deliver"
  /\ IF multi
     THEN LoopEnds(IF sessionClosed THEN "done" ELSE "tick") /\ Sends
     ELSE LoopEnds("done") /\ clientClosed' = TRUE
  /\ UNCHANGED <<settings, peer, turnVars, endpointVars, managerVars, inputVars, dispVars,
                 sayVars, frame, wiped>>

\* Saturation of the slot pool, or any other exception of the backend.
AsrFails ==
  /\ asrOut = "finalizing"
  /\ LoopEnds("failed")
  /\ UNCHANGED <<settings, peer, clientClosed, turnVars, endpointVars, managerVars, inputVars,
                 dispVars, sayVars, frame, wiped>>

-----------------------------------------------------------------------------
(* tts_out_task *)

TtsSteps(next) ==
  /\ ttsOut' = next
  /\ UNCHANGED <<settings, peer, turnVars, endpointVars, managerVars, inputVars, dispVars,
                 asrVars, frame, wiped>>

\* Mistake: the task looks at the flush only.
TtsLeavesOnFlush ==
  /\ ttsOut = "wait" /\ ttsFlush /\ queued = 0 /\ ~(multi /\ ~sessionClosed)
  /\ TtsSteps("done") /\ Sends
  /\ UNCHANGED <<queued, ttsFlush, synth, loose>>

TtsLeaves ==
  /\ ttsOut = "wait" /\ (clientClosed \/ (ttsFlush /\ queued = 0 /\ ~(multi /\ ~sessionClosed)))
  /\ TtsSteps("done") /\ Sends
  /\ UNCHANGED <<queued, ttsFlush, synth, loose>>

\* The turn is spoken, the session goes on.
TurnSpoken ==
  /\ ttsOut = "wait" /\ ~clientClosed /\ ttsFlush /\ queued = 0 /\ multi /\ ~sessionClosed
  /\ ttsFlush' = FALSE /\ TtsSteps("wait") /\ Sends
  /\ UNCHANGED <<queued, synth, loose>>

TakeSentence ==
  /\ ttsOut = "wait" /\ ~clientClosed /\ queued > 0
  /\ queued' = queued - 1 /\ synth' = "none"
  /\ TtsSteps("acquiring")
  /\ UNCHANGED <<clientClosed, ttsFlush, loose>>

\* Backend and coordinator acquired, the thread is submitted.
StartSynth ==
  /\ ttsOut = "acquiring"
  /\ synth' = "running" /\ TtsSteps("speaking") /\ Sends
  /\ UNCHANGED <<queued, ttsFlush, loose>>

\* The thread has posted its end, or an error.
SynthEnds ==
  /\ synth = "running" /\ synth' = "over"
  /\ TtsSteps(ttsOut)
  /\ UNCHANGED <<clientClosed, queued, ttsFlush, loose>>

SentenceDone ==
  /\ ttsOut = "speaking" /\ synth = "over"
  /\ LeaveSentence(FALSE) /\ TtsSteps("wait") /\ Sends
  /\ UNCHANGED <<queued, ttsFlush>>

\* No chunk for OVS_TTS_CHUNK_TIMEOUT_S, or the deadline of the sentence.
SentenceOverdue ==
  /\ ttsOut \in {"acquiring", "speaking"}
  /\ LeaveSentence(TRUE) /\ TtsSteps("wait") /\ Sends
  /\ UNCHANGED <<queued, ttsFlush>>

\* The backend manager refuses the lease.
TtsFails ==
  /\ ttsOut = "acquiring"
  /\ TtsSteps("failed")
  /\ UNCHANGED <<clientClosed, queued, ttsFlush, synth, loose>>

-----------------------------------------------------------------------------
(* The handler *)

Work == {asrOut, ttsOut} \ {"off"}

\* The handler itself is cancelled (eviction): gather passes it on.
Evict ==
  /\ frame = "serving" /\ CancelWork
  /\ UNCHANGED <<settings, peer, clientClosed, turnVars, endpointVars, managerVars, inputVars,
                 dispVars, frame, wiped>>

\* gather returns with the first exception or cancellation, or with the last
\* result; an error is reported to the client.
GatherReturns ==
  /\ frame = "serving"
  /\ Work \cap {"failed", "cancelled"} # {} \/ Work \subseteq Ended
  /\ frame' = "unwinding" /\ Sends
  /\ UNCHANGED <<settings, peer, turnVars, endpointVars, managerVars, inputVars, dispVars,
                 asrVars, sayVars, wiped>>

\* The finally clause: dispatcher cancelled and awaited, work cancelled.
Unwind ==
  /\ frame = "unwinding" /\ frame' = "gathering"
  /\ disp' = (IF disp \in Ended THEN disp ELSE "cancelled")
  /\ CancelWork
  /\ UNCHANGED <<settings, peer, clientClosed, turnVars, endpointVars, managerVars, inputVars, tail, voiced,
                 wiped>>

\* The slot is given back after the work has ended and before the cleanup.
ReleaseSlot ==
  /\ frame = "gathering" /\ Work \subseteq Ended
  /\ frame' = "released"
  /\ UNCHANGED <<settings, peer, clientClosed, turnVars, endpointVars, managerVars, inputVars,
                 dispVars, asrVars, sayVars, wiped>>

CloseSocket ==
  /\ frame = "released"
  /\ frame' = "closed"
  /\ manager' = (IF asrActive THEN "idle" ELSE manager)
  /\ UNCHANGED <<settings, peer, clientClosed, turnVars, endpointVars, managerGen, inputVars,
                 dispVars, asrVars, sayVars, wiped>>

-----------------------------------------------------------------------------
(* The environment *)

ClientLeaves ==
  /\ frame # "closed" /\ peer = "here" /\ peer' = "left"
  /\ UNCHANGED <<settings, clientClosed, turnVars, endpointVars, managerVars, inputVars, dispVars,
                 asrVars, sayVars, frame, wiped>>

ManagerDrops ==
  /\ asrOut \notin Ended /\ manager = "active" /\ manager' = "idle"
  /\ UNCHANGED <<settings, peer, clientClosed, turnVars, endpointVars, managerGen, inputVars,
                 dispVars, asrVars, sayVars, frame, wiped>>

TurnOverdue ==
  /\ asrOut \notin Ended /\ turnClock = "running" /\ turnClock' = "expired"
  /\ UNCHANGED <<settings, peer, clientClosed, asrActive, asrActiveGen, endpointVars, managerVars,
                 inputVars, dispVars, asrVars, sayVars, frame, wiped>>

-----------------------------------------------------------------------------
DispatcherResumes == Fed \/ Opened \/ OpenRefused \/ AbortDone \/ FoundClosed
ClientActs == SpeechStart \/ LazyOpen \/ SpeechEnd \/ ClientEos \/ ClientText \/ ClientAbort
AsrOutSteps == Tick \/ DeadlineDone \/ Judge \/ Announced \/ Finalize \/ FinalAccepted \/ FinalRejected \/ Deliver
TtsOutSteps == TtsLeaves \/ TurnSpoken \/ TakeSentence \/ StartSynth \/ SentenceDone \/ SentenceOverdue
HandlerSteps == GatherReturns \/ Unwind \/ ReleaseSlot \/ CloseSocket

V2vNext ==
  \/ frame \in {"serving", "unwinding"} /\ (ClientActs \/ DispatcherResumes \/ Disconnect \/ DispatcherFails)
  \/ AsrOutSteps \/ AsrFails
  \/ TtsOutSteps \/ SynthEnds \/ TtsFails
  \/ HandlerSteps \/ Evict
  \/ ClientLeaves \/ ManagerDrops \/ TurnOverdue

\* The loop runs every task that is ready; the manager's calls, the sentence
\* deadline, the receive timeout and the turn's clock come to an end.  No
\* client has to speak, and none has to leave.
V2vFairness ==
  /\ WF_v2vVars(AsrOutSteps) /\ WF_v2vVars(TtsOutSteps) /\ WF_v2vVars(HandlerSteps)
  /\ WF_v2vVars(DispatcherResumes) /\ WF_v2vVars(peer = "left" /\ Disconnect)
  /\ WF_v2vVars(TurnOverdue)

V2vSpec == V2vInit /\ [][V2vNext]_v2vVars /\ V2vFairness

-----------------------------------------------------------------------------
(* Properties *)

\* No synthesis thread is left behind without its stop event set, although
\* the sentence may end by barge-in, by either timeout, by the client's
\* leaving or by the handler's unwinding: an orphan would hold the TTS
\* executor (current_tts_stop).
OrphanSynthIsStopped == ~loose

\* An utterance the manager has open is one the handler feeds, unless the
\* turn deadline, which does not compare generations, has cleared it: a
\* discarded finalize never tears down the turn that preempted it.
OpenTurnIsFed == manager = "active" => asrActive \/ wiped

\* The admission slot is given back only when nothing acts for the session
\* any more: both work tasks have ended and the dispatcher with them.
ReleasedSessionIsQuiet ==
  frame \in {"released", "closed"} => Work \subseteq Ended /\ disp \in Ended

\* Once any task has found the client gone the connection unwinds to its
\* end, although tts_out_task swallows a cancellation.
GoneClientIsReleased == clientClosed ~> frame = "closed"

\* An open turn ends: by its final, by an abort, by the heal of a manager
\* that went idle, or by the turn deadline.
EveryTurnEnds == asrActive ~> ~asrActive \/ asrOut \in Ended

\* Neither a client that is gone nor a turn whose manager died holds the
\* session, and with it one of the few slots, for ever.
SessionsComeToAnEnd == GoneClientIsReleased /\ EveryTurnEnds

\* What the comments say of the gate on endpoint_pending_gen: an endpoint of
\* one utterance never finalises another.
EndpointKeepsItsTurn ==
  asrOut = "finalizing" /\ manager = "finalizing" => ranGen = judgedGen

\* The tasks of a session agree on its turn, and none of them, nor a
\* synthesis thread, acts for it when it is released.
TurnsAreSound ==
  /\ V2vTypeOK
  /\ OpenTurnIsFed
  /\ OrphanSynthIsStopped
  /\ ReleasedSessionIsQuiet
=============================================================================
