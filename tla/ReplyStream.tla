---------------------------- MODULE ReplyStream -----------------------------
(***************************************************************************)
(* A spoken reply on its way from the agent to the wire, under Realtime V2 *)
(* with the agent's own LLM loop.  The agent streams the text of a turn,   *)
(* flushes it when the turn completes and cancels it when the turn is cut  *)
(* short.  On the server the dispatcher fills the sentence buffer and      *)
(* tts_q, tts_out_task speaks one sentence after the other, and            *)
(* RealtimeV2EventAdapter folds the engine's events into responses.        *)
(*                                                                         *)
(* A text chunk is the number of the reply it belongs to; direct speech is *)
(* Announcement.  A sentence is the set of the replies whose text it       *)
(* holds.  Sends share one lock: outbox holds the frames its owner has yet *)
(* to send.  V2vSession models the rest of the connection.                 *)
(***************************************************************************)
EXTENDS Naturals, Sequences, FiniteSets, SequencesExt

CONSTANTS
  MaxReplies,   \* bound: turns of the conversation
  MaxChunks,    \* bound: text chunks of one turn
  MaxUplink     \* bound: messages on their way to the server

ASSUME ReplyAssumption ==
  /\ MaxReplies \in Nat \ {0} /\ MaxChunks \in Nat \ {0} /\ MaxUplink \in Nat \ {0}

VARIABLES
  reply, chunks,         \* agent: the turn and the chunks it sent; chunks = 0 is ~sent_any_text
  replying,              \* agent: the turn runs
  announced,             \* agent: the announcement was made
  uplink,                \* messages to the server, in order
  dispatch,              \* dispatcher: the await it stands at
  sentenceBuf,           \* tts_buffer
  ttsQ, flushAsked,      \* tts_q; state["tts_flush"]
  sayer, sentence,       \* tts_out_task: its await; the sentence in hand
  outbox,                \* frames the owner of send_lock has yet to send
  activeResponse,        \* adapter: active_response_id, 0 for None
  activeStatus,          \* adapter: active_status
  itemAnnounced,         \* adapter: audio_item_announced
  responses,             \* ids handed out so far
  ended,                 \* history: responses whose response.done was sent
  cutShort               \* history: response.cancel or speech ended a sentence of the active response

agentVars == <<reply, chunks, replying, announced>>
inputQueue == <<sentenceBuf, ttsQ, flushAsked>>
adapterVars == <<activeResponse, activeStatus, itemAnnounced, responses>>
replyVars == <<agentVars, uplink, dispatch, inputQueue, sayer, sentence, outbox, adapterVars, ended, cutShort>>

Announcement == 0
Voices == 0..MaxReplies
\* Every flush ends at most one response.
MaxResponses == MaxReplies + 2
Drain == {"acquiring", "starting", "speaking", "finishing"}
Messages == [do : {"text"}, of : 1..MaxReplies] \cup [do : {"flush", "cancel", "speak", "reset"}, of : {Announcement}]
Frames == [frame : {"created", "item", "sentence", "delta", "audio done"}, resp : 0..MaxResponses]
            \cup [frame : {"done"}, resp : 0..MaxResponses, status : {"completed", "cancelled"}]

ReplyInit ==
  /\ reply = 0 /\ chunks = 0 /\ replying = FALSE /\ announced = FALSE /\ uplink = <<>>
  /\ dispatch = "receive" /\ sentenceBuf = {} /\ ttsQ = <<>> /\ flushAsked = FALSE
  /\ sayer = "loop" /\ sentence = {} /\ outbox = <<>>
  /\ activeResponse = 0 /\ activeStatus = "completed" /\ itemAnnounced = FALSE
  /\ responses = 0 /\ ended = {} /\ cutShort = FALSE

-----------------------------------------------------------------------------
(* The agent.                                                              *)

Send(kind, of) == Len(uplink) < MaxUplink /\ uplink' = Append(uplink, [do |-> kind, of |-> of])

agentOnly == <<dispatch, inputQueue, sayer, sentence, outbox, adapterVars, ended, cutShort>>

TurnBegins ==
  /\ ~replying /\ reply < MaxReplies
  /\ replying' = TRUE /\ reply' = reply + 1 /\ chunks' = 0
  /\ UNCHANGED <<announced, uplink, agentOnly>>

\* A token of the model, a tool's preamble or its completion text.
SendText ==
  /\ replying /\ chunks < MaxChunks /\ Send("text", reply)
  /\ chunks' = chunks + 1
  /\ UNCHANGED <<reply, replying, announced, agentOnly>>

TurnCompletes ==
  /\ replying /\ Send("flush", Announcement)
  /\ replying' = FALSE
  /\ UNCHANGED <<reply, chunks, announced, agentOnly>>

\* Barge-in, watchdog, a newer utterance or a failing stream: the text that
\* was sent is taken back with response.cancel, if any was sent.
TurnCut ==
  /\ replying /\ replying' = FALSE
  /\ IF chunks > 0 THEN Send("cancel", Announcement) ELSE UNCHANGED uplink
  /\ UNCHANGED <<reply, chunks, announced, agentOnly>>

\* Stop intent and sleep cancel whether or not a turn runs.
StopIntent ==
  /\ ~replying /\ reply > 0 /\ Send("cancel", Announcement)
  /\ UNCHANGED <<agentVars, agentOnly>>

Speak ==
  /\ ~announced /\ Send("speak", Announcement)
  /\ announced' = TRUE
  /\ UNCHANGED <<reply, chunks, replying, agentOnly>>

ResetConversation ==
  /\ ~replying /\ reply > 0 /\ Send("reset", Announcement)
  /\ UNCHANGED <<agentVars, agentOnly>>

-----------------------------------------------------------------------------
(* The adapter.                                                            *)

MarkCancelled == activeStatus' = IF activeResponse # 0 THEN "cancelled" ELSE activeStatus

\* _ensure_response_created: the id that is active afterwards, and its frame.
EnsuredId == IF activeResponse # 0 THEN activeResponse ELSE responses + 1
CreatedFrames == IF activeResponse # 0 THEN <<>> ELSE <<[frame |-> "created", resp |-> EnsuredId]>>

EnsureResponseCreated ==
  /\ activeResponse' = EnsuredId
  /\ responses' = IF activeResponse # 0 THEN responses ELSE responses + 1
  /\ activeStatus' = IF activeResponse # 0 THEN activeStatus ELSE "completed"

TranslateStarted ==
  /\ EnsureResponseCreated
  /\ itemAnnounced' = TRUE
  /\ outbox' = CreatedFrames
                 \o (IF itemAnnounced THEN <<>> ELSE <<[frame |-> "item", resp |-> EnsuredId]>>)
                 \o <<[frame |-> "sentence", resp |-> EnsuredId]>>

TranslateSentenceDone ==
  /\ outbox' = <<[frame |-> "delta", resp |-> activeResponse], [frame |-> "sentence", resp |-> activeResponse]>>
  /\ UNCHANGED adapterVars

\* Mistake: the response stays active after its terminal event.
FinishResponseOpen ==
  /\ outbox' = <<[frame |-> "done", resp |-> EnsuredId, status |-> activeStatus]>>
  /\ itemAnnounced' = FALSE
  /\ EnsureResponseCreated

FinishResponse ==
  /\ outbox' = CreatedFrames
                 \o (IF itemAnnounced THEN <<[frame |-> "delta", resp |-> EnsuredId],
                                             [frame |-> "audio done", resp |-> EnsuredId]>> ELSE <<>>)
                 \o <<[frame |-> "done", resp |-> EnsuredId,
                       status |-> IF activeResponse # 0 THEN activeStatus ELSE "completed"]>>
  /\ activeResponse' = 0 /\ activeStatus' = "completed" /\ itemAnnounced' = FALSE
  /\ responses' = IF activeResponse # 0 THEN responses ELSE responses + 1

-----------------------------------------------------------------------------
(* The dispatcher.                                                         *)

\* The sentences add() yields and the text it keeps: it may wait, cut after
\* the new chunk or inside it, or (with lookahead) in front of it.
Cuts(of) ==
  LET all == sentenceBuf \cup {of}
  IN {<< <<>>, all >>, << <<all>>, {} >>, << <<all>>, {of} >>}
       \cup (IF sentenceBuf = {} THEN {} ELSE {<< <<sentenceBuf>>, {of} >>})

\* flush(): the rest is a sentence if it holds anything to say.
Rests == {<< <<>>, {} >>} \cup (IF sentenceBuf = {} THEN {} ELSE {<< <<sentenceBuf>>, {} >>})

Buffered(cut) == ttsQ' = ttsQ \o cut[1] /\ sentenceBuf' = cut[2]

Received(kind) == dispatch = "receive" /\ uplink # <<>> /\ Head(uplink).do = kind /\ uplink' = Tail(uplink)

dispatchOnly == <<agentVars, dispatch, sayer, sentence, outbox, ended, cutShort>>

ReadText ==
  /\ Received("text")
  /\ \E cut \in Cuts(Head(uplink).of) : Buffered(cut)
  /\ UNCHANGED <<flushAsked, adapterVars, dispatchOnly>>

ReadFlush ==
  /\ Received("flush")
  /\ \E cut \in Rests : Buffered(cut)
  /\ flushAsked' = TRUE
  /\ UNCHANGED <<adapterVars, dispatchOnly>>

\* Mistake: direct speech is buffered and its flush forgotten.
ReadSpeakUnflushed ==
  /\ Received("speak")
  /\ Buffered(<< <<sentenceBuf \cup {Announcement}>>, {} >>)
  /\ flushAsked' = FALSE
  /\ UNCHANGED <<adapterVars, dispatchOnly>>

\* Direct speech is added and flushed at once.
ReadSpeak ==
  /\ Received("speak")
  /\ \E cut \in {<< <<sentenceBuf \cup {Announcement}>>, {} >>}
                  \cup (IF sentenceBuf = {} THEN {} ELSE {<< <<sentenceBuf, {Announcement}>>, {} >>}) : Buffered(cut)
  /\ flushAsked' = TRUE
  /\ UNCHANGED <<adapterVars, dispatchOnly>>

\* The drain of the sentence is cancelled and its thread told to stop.  What
\* the drain was sending stays unsent.  A drain whose queue read has just
\* returned swallows the cancellation (wait_for before Python 3.12) and
\* ends when the thread has stopped.
CutSentence(marked) ==
  IF sayer \in Drain
    THEN \/ /\ sayer' = "loop" /\ outbox' = <<>>
            /\ cutShort' = (cutShort \/ (marked /\ activeResponse # 0))
         \/ sayer = "speaking" /\ UNCHANGED <<sayer, outbox, cutShort>>
    ELSE UNCHANGED <<sayer, outbox, cutShort>>

ReadCancel ==
  /\ Received("cancel")
  /\ MarkCancelled /\ CutSentence(TRUE)
  /\ ttsQ' = <<>>
  /\ UNCHANGED <<agentVars, dispatch, sentenceBuf, flushAsked, sentence,
                 activeResponse, itemAnnounced, responses, ended>>

\* A reset marks the response, waits for the lock to answer, then aborts: a
\* response that opens in between is cut short without being marked.
ReadReset ==
  /\ Received("reset")
  /\ MarkCancelled
  /\ dispatch' = "resetting"
  /\ UNCHANGED <<agentVars, inputQueue, sayer, sentence, outbox, activeResponse, itemAnnounced,
                 responses, ended, cutShort>>

ResetAborts ==
  /\ dispatch = "resetting" /\ outbox = <<>>
  /\ dispatch' = "receive"
  /\ CutSentence(FALSE)
  /\ ttsQ' = <<>>
  /\ UNCHANGED <<agentVars, uplink, sentenceBuf, flushAsked, sentence, adapterVars, ended>>

\* The frontend VAD hears speech: the client is told under the lock, then the
\* response is marked and the sentence cancelled; tts_q is left as it is.
SpeechStarts ==
  /\ dispatch = "receive" /\ outbox = <<>>
  /\ dispatch' = "speech"
  /\ UNCHANGED <<agentVars, uplink, inputQueue, sayer, sentence, outbox, adapterVars, ended, cutShort>>

SpeechBargesIn ==
  /\ dispatch = "speech"
  /\ dispatch' = "receive"
  /\ MarkCancelled /\ CutSentence(TRUE)
  /\ UNCHANGED <<agentVars, uplink, inputQueue, sentence, activeResponse, itemAnnounced,
                 responses, ended>>

-----------------------------------------------------------------------------
(* tts_out_task.                                                           *)

sayerOnly == <<agentVars, uplink, dispatch>>

\* The flush and an empty queue end the turn.
TurnIsSpoken ==
  /\ sayer = "loop" /\ flushAsked /\ ttsQ = <<>>
  /\ flushAsked' = FALSE
  /\ FinishResponse
  /\ sayer' = "flushing" /\ cutShort' = FALSE
  /\ UNCHANGED <<sayerOnly, sentenceBuf, ttsQ, sentence, ended>>

DequeueSentence ==
  /\ sayer = "loop" /\ ttsQ # <<>>
  /\ sentence' = Head(ttsQ) /\ ttsQ' = Tail(ttsQ)
  /\ sayer' = "taken"
  /\ UNCHANGED <<sayerOnly, sentenceBuf, flushAsked, outbox, adapterVars, ended, cutShort>>

StartDrain ==
  /\ sayer = "taken" /\ sayer' = "acquiring"
  /\ UNCHANGED <<sayerOnly, inputQueue, sentence, outbox, adapterVars, ended, cutShort>>

\* Backend and coordinator are held: tts_started goes out.
DrainStarts ==
  /\ sayer = "acquiring" /\ sayer' = "starting"
  /\ TranslateStarted
  /\ UNCHANGED <<sayerOnly, inputQueue, sentence, ended, cutShort>>

\* The chunks end: the thread is done, failed or was told to stop, or the
\* watchdog of the chunks expires.
DrainEnds ==
  /\ sayer = "speaking" /\ sayer' = "finishing"
  /\ TranslateSentenceDone
  /\ UNCHANGED <<sayerOnly, inputQueue, sentence, ended, cutShort>>

\* The deadline of the sentence: the drain is cancelled, an error is sent.
DrainExpires ==
  /\ sayer \in Drain
  /\ sayer' = "loop" /\ outbox' = <<>>
  /\ UNCHANGED <<sayerOnly, inputQueue, sentence, adapterVars, ended, cutShort>>

SendFrame ==
  /\ outbox # <<>>
  /\ outbox' = Tail(outbox)
  /\ ended' = IF Head(outbox).frame = "done" THEN ended \cup {Head(outbox).resp} ELSE ended
  /\ sayer' = IF Len(outbox) > 1 THEN sayer ELSE IF sayer = "starting" THEN "speaking" ELSE "loop"
  /\ UNCHANGED <<sayerOnly, inputQueue, sentence, adapterVars, cutShort>>

Sayer == TurnIsSpoken \/ DequeueSentence \/ StartDrain \/ DrainStarts \/ DrainEnds \/ SendFrame

ReplyNext ==
  \/ TurnBegins \/ SendText \/ TurnCompletes \/ TurnCut \/ StopIntent \/ Speak \/ ResetConversation
  \/ ReadText \/ ReadFlush \/ ReadSpeak \/ ReadCancel \/ ReadReset \/ ResetAborts
  \/ SpeechStarts \/ SpeechBargesIn
  \/ Sayer \/ DrainExpires

\* The loop runs what is ready; a thread ends or its watchdog fires.
ReplyFairness == WF_replyVars(Sayer) /\ WF_replyVars(ResetAborts \/ SpeechBargesIn)

ReplySpec == ReplyInit /\ [][ReplyNext]_replyVars /\ ReplyFairness

-----------------------------------------------------------------------------
(* Properties.                                                             *)

\* Types; the lock of the sends is held by the task that has frames to send.
ReplyTypeOK ==
  /\ reply \in Voices /\ chunks \in 0..MaxChunks /\ replying \in BOOLEAN /\ announced \in BOOLEAN
  /\ uplink \in Seq(Messages) /\ Len(uplink) <= MaxUplink
  /\ dispatch \in {"receive", "resetting", "speech"}
  /\ sentenceBuf \subseteq Voices /\ ttsQ \in Seq(SUBSET Voices) /\ flushAsked \in BOOLEAN
  /\ sayer \in Drain \cup {"loop", "taken", "flushing"} /\ sentence \subseteq Voices
  /\ outbox \in Seq(Frames) /\ (outbox # <<>> <=> sayer \in {"starting", "finishing", "flushing"})
  /\ activeResponse \in 0..MaxResponses /\ responses \in 0..MaxResponses
  /\ activeStatus \in {"completed", "cancelled"} /\ itemAnnounced \in BOOLEAN
  /\ ended \subseteq 1..MaxResponses /\ cutShort \in BOOLEAN

\* Every frame names a response, and none is sent for one that has ended:
\* whatever is cancelled between two frames, a response is done once.
ResponsesEndOnce ==
  \A i \in 1..Len(outbox) : outbox[i].resp \notin ended \cup {0}

\* While audio is sent a response is active, its item was announced by a
\* frame the adapter emitted, and it has not ended.
AudioIsInsideAResponse ==
  sayer \in {"speaking", "finishing"} => activeResponse \notin ended \cup {0} /\ itemAnnounced

\* A response in which response.cancel or speech ended a sentence is not
\* reported as completed, however many sentences are spoken in it afterwards
\* (a reset may cut a response it has not marked).
InterruptionIsReported == cutShort => activeStatus = "cancelled"

\* A flush ends the response it finds open, although cancellations and
\* deadlines may come between.
FlushEndsTheResponse == flushAsked ~> (~flushAsked /\ activeResponse = 0)

\* A sentence holds the text of one reply: app_mode.py cancels a reply "to
\* drop the per-turn text buffer" so that no two turns are merged.
TurnsAreNotMerged ==
  sayer = "speaking" => Cardinality(sentence \ {Announcement}) <= 1

\* What a client is told of a reply is well formed: each response created,
\* filled and done once, and done as cancelled if it was cut short.
ResponsesAreWellFormed ==
  /\ ReplyTypeOK
  /\ ResponsesEndOnce
  /\ AudioIsInsideAResponse
  /\ InterruptionIsReported
=============================================================================
