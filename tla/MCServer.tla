------------------------------- MODULE MCServer ------------------------------
(* Components of the server that share no state, and the agent's LLM breaker,*)
(* checked in one run: part names the one that moves, so that their state    *)
(* spaces add up.  No fair action is enabled in the initial state of a       *)
(* component, so its fairness asks nothing of a behaviour in which another   *)
(* one moves.                                                                *)
EXTENDS AsrInferGate, AsrUtteranceSlot, ProfileEnv, TtsStream, LlmAvailability,
        ExclusiveSlot, AsrSegments, TLC

CONSTANTS a1, a2, t1, t2, s1, crit, p1, p2, p3

VARIABLE part

MCKeyKind ==
  [k \in EnvKeys |-> CASE k \in {a1, a2} -> "asr" [] k \in {t1, t2, crit} -> "tts" [] k = s1 -> "shared"]
MCBlock == (p1 :> {a1, a2, t1, s1}) @@ (p2 :> {a1, t1, t2, crit}) @@ (p3 :> {a2, crit, t2})
MCOwned == (p1 :> {}) @@ (p2 :> {t1, t2}) @@ (p3 :> {})
\* Clips below the limit, just above it, and with a short or long last slice.
MCClips == {15, 20, 21, 24, 38, 42, 57, 60}
MCSpans ==
  {<<>>} \cup {<<<<a, a + n>>>> : a \in {0, 1, 3}, n \in {1, 8, 20, 23, 39, 41}}
  \cup {<<<<a, a + n>>, <<a + n + gap, a + n + gap + m>>>> :
           a \in {0, 2}, n \in {1, 7, 21, 24}, gap \in {1, 6}, m \in {6, 23}}
  \cup {<<<<a, a + n>>, <<a + n, a + n + m>>>> : a \in {0, 2}, n \in {7, 24}, m \in {1, 6, 23}}
MCEngines == (p1 :> {t1, s1}) @@ (p2 :> {a2, t2}) @@ (p3 :> {a1})

ServerInit ==
  /\ part \in {"gate", "slot", "env", "tts", "llm", "exclusive", "segments"}
  /\ Init /\ SlotInit /\ EnvInit /\ TtsInit /\ LlmInit /\ ExclInit /\ SegInit
  \* a component that does not move needs one of its initial states only
  /\ part # "slot" => serialized
  /\ part # "tts" => route = CHOOSE r \in Routes : TRUE
  /\ part # "llm" => server = "up"
  /\ part # "exclusive" => resident = Modalities

ServerNext ==
  /\ UNCHANGED part
  /\ \/ part = "gate" /\ Next /\ UNCHANGED <<slotVars, envVars, ttsVars, llmVars, exclVars, segVars>>
     \/ part = "slot" /\ SlotNext /\ UNCHANGED <<vars, envVars, ttsVars, llmVars, exclVars, segVars>>
     \/ part = "env" /\ EnvNext /\ UNCHANGED <<vars, slotVars, ttsVars, llmVars, exclVars, segVars>>
     \/ part = "tts" /\ TtsNext /\ UNCHANGED <<vars, slotVars, envVars, llmVars, exclVars, segVars>>
     \/ part = "llm" /\ LlmNext /\ UNCHANGED <<vars, slotVars, envVars, ttsVars, exclVars, segVars>>
     \/ part = "exclusive" /\ ExclNext /\ UNCHANGED <<vars, slotVars, envVars, ttsVars, llmVars, segVars>>
     \/ part = "segments" /\ SegNext /\ UNCHANGED <<vars, slotVars, envVars, ttsVars, llmVars, exclVars>>

ServerSpec ==
  /\ ServerInit
  /\ [][ServerNext]_<<vars, slotVars, envVars, ttsVars, llmVars, exclVars, segVars, part>>
  /\ Fairness /\ SlotFairness /\ TtsFairness /\ LlmFairness
=============================================================================
