---------------------------- MODULE VoiceRegister ---------------------------
(* What the voice registry promises of one voice: registering and deleting   *)
(* it are atomic.  A call changes the voice at most once, and a success is   *)
(* reported only of a change that was made; a failure, or the end of the     *)
(* process, may hide a change but never undoes one.                          *)
EXTENDS Naturals

CONSTANT Generations      \* registered profiles; 0 is no profile

VARIABLES voice, phase, request, answer

registerVars == <<voice, phase, request, answer>>

RegisterInit == voice \in Generations \cup {0} /\ phase = "idle" /\ request = "none" /\ answer = "none"

Call ==
  /\ phase = "idle" /\ phase' = "called" /\ request' \in {"write", "delete"} /\ answer' = "none"
  /\ UNCHANGED voice

Apply ==
  /\ phase = "called" /\ phase' = "applied"
  /\ voice' \in IF request = "write" THEN Generations \ {voice} ELSE {0}
  /\ UNCHANGED <<request, answer>>

Succeed ==
  /\ phase = "applied" /\ phase' = "idle" /\ request' = "none" /\ answer' = "ok"
  /\ UNCHANGED voice

NothingToDelete ==
  /\ phase = "called" /\ request = "delete" /\ voice = 0
  /\ phase' = "idle" /\ request' = "none" /\ answer' = "absent" /\ UNCHANGED voice

Fail ==
  /\ phase # "idle" /\ phase' = "idle" /\ request' = "none" /\ answer' \in {"error", "lost"}
  /\ UNCHANGED voice

RegisterNext == Call \/ Apply \/ Succeed \/ NothingToDelete \/ Fail

RegisterSpec == RegisterInit /\ [][RegisterNext]_registerVars
=============================================================================
