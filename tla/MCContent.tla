------------------------------ MODULE MCContent ------------------------------
(* What outlives a request, checked in one run: the replies an agent streams  *)
(* to the server and the history its prompts come from, and the engines and   *)
(* the voices on the server's disk.  part names the one that moves, so that   *)
(* their state spaces add up.  No fair action is enabled in the initial state *)
(* of a component.                                                            *)
EXTENDS ReplyStream, TurnHistory, EngineResolver, VoiceStore, TLC

CONSTANTS h1, h2

VARIABLE part

MCBundle == (h1 :> {1, 2, 3}) @@ (h2 :> {1, 2})

\* A component that does not move needs one of its initial states only.
AtRest ==
  /\ part # "engines" => /\ host = h1 /\ ~locked /\ ~force /\ registry = "up"
                         /\ content = [f \in Files |-> Missing] /\ meta = [e \in EngineFiles |-> NoMeta]
  /\ part # "voices" => json = 0

ContentInit ==
  /\ part \in {"reply", "history", "engines", "voices"}
  /\ ReplyInit /\ HistInit /\ EngineInit /\ VoiceInit
  /\ AtRest

ContentNext ==
  /\ UNCHANGED part
  /\ \/ part = "reply" /\ ReplyNext /\ UNCHANGED <<histVars, engineVars, voiceVars>>
     \/ part = "history" /\ HistNext /\ UNCHANGED <<replyVars, engineVars, voiceVars>>
     \/ part = "engines" /\ EngineNext /\ UNCHANGED <<replyVars, histVars, voiceVars>>
     \/ part = "voices" /\ VoiceNext /\ UNCHANGED <<replyVars, histVars, engineVars>>

ContentSpec ==
  /\ ContentInit
  /\ [][ContentNext]_<<replyVars, histVars, engineVars, voiceVars, part>>
  /\ ReplyFairness /\ EngineFairness
=============================================================================
