--------------------------- MODULE LlmAvailability ---------------------------
(* The agent's LLM availability plugin: a breaker fed by the probe loop, by  *)
(* forced probes and by the outcome of turns, all of which are in flight     *)
(* while the model server changes its mind.                                  *)
EXTENDS Naturals

CONSTANTS
  FailuresToDown,   \* llm_availability_failures_to_down
  UnknownsToState   \* llm_availability_unknowns_to_unknown_state

ASSUME LlmAssumption == FailuresToDown \in Nat \ {0} /\ UnknownsToState \in Nat \ {0}

VARIABLES
  server,     \* what the model server does: "up", "broken" (answers with errors), "cut" (unreachable)
  avail,      \* the plugin's state
  failures,   \* consecutive_failures, counted up to FailuresToDown (nothing looks further)
  unknowns,   \* consecutive_unknowns, counted up to UnknownsToState
  confirms,   \* successes since the breaker was last DOWN, at most two (history)
  prober,     \* the loop and the forced probe: "idle", "queued" at the probe lock, "probing"
  seen,       \* what the server did during each call in flight
  life       \* of the plugin: "new", "running" (start() has been called), "stopped"

llmVars == <<server, avail, failures, unknowns, confirms, prober, seen, life>>

Modes == {"up", "broken", "cut"}
Probers == {"loop", "forced"}
Least(a, b) == IF a < b THEN a ELSE b
Other(p) == IF p = "loop" THEN "forced" ELSE "loop"

LlmInit ==
  /\ server \in Modes /\ avail = "healthy" /\ failures = 0 /\ unknowns = 0 /\ confirms = 2
  /\ prober = [p \in Probers |-> "idle"]
  /\ seen = [c \in Probers \cup {"turn"} |-> {}]
  /\ life = "new"

-----------------------------------------------------------------------------
(* The breaker.                                                              *)

\* Mistake: one success is enough.
AfterSuccessHasty(a) == "healthy"

\* Mistake: no way leads out of UNKNOWN.
AfterSuccessBlind(a) ==
  CASE a = "down" -> "recovering" [] a = "unknown" -> "unknown" [] OTHER -> "healthy"

AfterSuccess(a) == IF a = "down" THEN "recovering" ELSE "healthy"

\* n counts the failure.
AfterFailure(a, n) ==
  CASE a \in {"healthy", "unknown"} -> "degraded"
    [] a = "degraded" /\ n < FailuresToDown -> "degraded"
    [] OTHER -> "down"

AfterUnknown(a, n) == IF n < UnknownsToState \/ a = "down" THEN a ELSE "unknown"

Advance(ok) ==
  IF ok
  THEN /\ avail' = AfterSuccess(avail)
       /\ failures' = IF avail = "down" THEN failures ELSE 0
       /\ confirms' = Least(confirms + 1, 2)
  ELSE /\ failures' = Least(failures + 1, FailuresToDown)
       /\ avail' = AfterFailure(avail, failures')
       /\ confirms' = IF avail' = "down" THEN 0 ELSE confirms

\* A probe's verdict: an unreachable server is unknown, not a failure.
ProbeResult(mode) ==
  IF mode = "cut"
  THEN /\ unknowns' = Least(unknowns + 1, UnknownsToState)
       /\ avail' = AfterUnknown(avail, unknowns')
       /\ UNCHANGED <<failures, confirms>>
  ELSE unknowns' = 0 /\ Advance(mode = "up")

-----------------------------------------------------------------------------
(* Probes, serialised by _probe_lock.                                        *)

Asks(p) ==
  /\ prober[p] = "idle"
  /\ IF prober[Other(p)] = "probing"
     THEN prober' = [prober EXCEPT ![p] = "queued"] /\ UNCHANGED seen
     ELSE prober' = [prober EXCEPT ![p] = "probing"] /\ seen' = [seen EXCEPT ![p] = {server}]
  /\ UNCHANGED <<server, avail, failures, unknowns, confirms, life>>

\* The loop's sleep ends: its interval is over, or a forced probe woke it.
LoopAsks == life = "running" /\ Asks("loop")
\* The dashboard's button; without a running plugin the answer is 503.
ForceProbe == life = "running" /\ Asks("forced")

\* The lock goes to the one that waits for it.
HandsOver(p) ==
  LET o == Other(p) IN
  IF prober[o] = "queued"
  THEN /\ prober' = [prober EXCEPT ![p] = "idle", ![o] = "probing"]
       /\ seen' = [seen EXCEPT ![p] = {}, ![o] = {server}]
  ELSE prober' = [prober EXCEPT ![p] = "idle"] /\ seen' = [seen EXCEPT ![p] = {}]

\* Whatever the server did last or first during the probe decides it.
ProbeEnds(p) ==
  /\ prober[p] = "probing"
  /\ \E mode \in seen[p] : ProbeResult(mode)
  /\ HandsOver(p)
  /\ UNCHANGED <<server, life>>

-----------------------------------------------------------------------------
(* Turns of the conversation.                                                *)

\* DOWN and UNKNOWN fail fast and report nothing.
TurnStarts ==
  /\ seen["turn"] = {} /\ (life = "running" => avail \notin {"down", "unknown"})
  /\ seen' = [seen EXCEPT !["turn"] = {server}]
  /\ UNCHANGED <<server, avail, failures, unknowns, confirms, prober, life>>

\* report_request_success, report_request_failure, if the plugin runs.
TurnEnds ==
  /\ seen["turn"] # {} /\ life = "running"
  /\ \E mode \in seen["turn"] : Advance(mode = "up")
  /\ seen' = [seen EXCEPT !["turn"] = {}]
  /\ UNCHANGED <<server, unknowns, prober, life>>

\* Barge-in, stop, or an error that is not the model's: no report.
TurnCancelled ==
  /\ seen["turn"] # {}
  /\ seen' = [seen EXCEPT !["turn"] = {}]
  /\ UNCHANGED <<server, avail, failures, unknowns, confirms, prober, life>>

-----------------------------------------------------------------------------
ServerTurns ==
  /\ server' \in Modes \ {server}
  /\ seen' = [c \in DOMAIN seen |-> IF seen[c] = {} THEN {} ELSE seen[c] \cup {server'}]
  /\ UNCHANGED <<avail, failures, unknowns, confirms, prober, life>>

StartPlugin ==
  /\ life = "new" /\ life' = "running"
  /\ UNCHANGED <<server, avail, failures, unknowns, confirms, prober, seen>>

\* stop() cancels the loop, wherever it is, and waits for it.
StopPlugin ==
  /\ life = "running" /\ life' = "stopped"
  /\ IF prober["loop"] = "probing" THEN HandsOver("loop")
     ELSE prober' = [prober EXCEPT !["loop"] = "idle"] /\ UNCHANGED seen
  /\ UNCHANGED <<server, avail, failures, unknowns, confirms>>

LlmNext ==
  \/ LoopAsks \/ ForceProbe \/ (\E p \in Probers : ProbeEnds(p))
  \/ TurnStarts \/ TurnEnds \/ TurnCancelled
  \/ ServerTurns \/ StartPlugin \/ StopPlugin

\* The loop's sleep and every probe end (both have a timeout).
LlmFairness ==
  /\ WF_llmVars(LoopAsks)
  /\ \A p \in Probers : WF_llmVars(ProbeEnds(p))

LlmSpec == LlmInit /\ [][LlmNext]_llmVars /\ LlmFairness

-----------------------------------------------------------------------------
\* Types.
LlmTypeOK ==
  /\ server \in Modes
  /\ avail \in {"healthy", "degraded", "down", "recovering", "unknown"}
  /\ failures \in 0..FailuresToDown /\ unknowns \in 0..UnknownsToState /\ confirms \in 0..2
  /\ prober \in [Probers -> {"idle", "queued", "probing"}]
  /\ \A p \in Probers : prober[p] = "queued" => prober[Other(p)] = "probing"
  /\ seen \in [Probers \cup {"turn"} -> SUBSET Modes]
  /\ \A p \in Probers : (seen[p] # {}) = (prober[p] = "probing")
  /\ life \in {"new", "running", "stopped"}

\* The breaker refuses turns as DOWN only after FailuresToDown failures since
\* the model last was healthy, whatever probes and turns report in between.
DownIsEarned == avail \in {"down", "recovering"} => failures = FailuresToDown

\* After DOWN it takes two successes to be HEALTHY again, on the detours over
\* UNKNOWN and DEGRADED too.
RecoveryIsConfirmed == avail = "healthy" => confirms = 2

\* A server that stays up is healthy in the end, although calls that began
\* before keep reporting and DOWN and UNKNOWN let no turn through.
UpBecomesHealthy == <>[](server = "up" /\ life = "running") => <>[](avail = "healthy")

\* A server that cannot be reached is not left as healthy.  (It need not stay
\* UNKNOWN: a turn that was let through reports a failure, which makes the
\* state DEGRADED and lets the next turn through.)
CutIsNoticed ==
  <>[](server = "cut" /\ life = "running") => <>[](avail \in {"unknown", "degraded", "down"})

\* A server that only answers with errors ends up DOWN.
BrokenGoesDown == <>[](server = "broken" /\ life = "running") => <>[](avail = "down")

\* The breaker opens after enough failures and closes after two successes,
\* on every detour between its five states.
BreakerIsCautious ==
  /\ LlmTypeOK
  /\ DownIsEarned
  /\ RecoveryIsConfirmed

\* The breaker follows the server in the end, up and down.
BreakerFollowsTheServer ==
  /\ UpBecomesHealthy
  /\ CutIsNoticed
  /\ BrokenGoesDown
=============================================================================
