------------------------------- MODULE MCAgent -------------------------------
(* Components of the agent, checked in one run: part names the one that      *)
(* moves.  No fair action is enabled in the initial state of a component.    *)
EXTENDS SlvClient, Conversation, ArmMotion, StreamingTranslation

CONSTANTS
  MaxPending,        \* bound: tasks of the conversation in the middle of their work at once
  MaxWindowPending   \* bound: the same, where the agent wakes for one command

VARIABLE part

\* Tasks of the conversation that have begun and not ended.
Pending ==
  sleepers \cup {task \in {"wake", "recovery", "pump", "dispatch", "drain", "turn"} :
                   CASE task = "wake"     -> waking
                     [] task = "recovery" -> thinkWd = "fired"
                     [] task = "pump"     -> pump # "free"
                     [] task = "dispatch" -> handler # NoHandler
                     [] task = "drain"    -> draining
                     [] task = "turn"     -> llmTurn}

\* A word, a clause with a word behind it, and another word.
MCTexts == {<<"w">>, <<"w", "m", "x">>, <<"x">>}

AgentInit ==
  /\ part \in {"transport", "conversation", "arm", "translation"}
  /\ SlvInit /\ ConvInit /\ ArmInit /\ TransInit
  \* a component that does not move needs one of its initial states only
  /\ part # "conversation" => single /\ gated
  \* a command window is checked with the client VAD, the gate without a window
  /\ part = "conversation" => (single => ~gated)
  /\ part # "translation" => app = "lag"

AgentNext ==
  /\ UNCHANGED part
  /\ \/ part = "transport" /\ SlvNext /\ UNCHANGED <<convVars, armVars, transVars>>
     \/ part = "conversation" /\ ConvNext /\ Cardinality(Pending') <= (IF single THEN MaxWindowPending ELSE MaxPending)
        /\ UNCHANGED <<slvVars, armVars, transVars>>
     \/ part = "arm" /\ ArmNext /\ UNCHANGED <<slvVars, convVars, transVars>>
     \/ part = "translation" /\ TransNext /\ UNCHANGED <<slvVars, convVars, armVars>>

AgentSpec ==
  /\ AgentInit /\ [][AgentNext]_<<slvVars, convVars, armVars, transVars, part>>
  /\ SlvFairness /\ ArmFairness
=============================================================================
