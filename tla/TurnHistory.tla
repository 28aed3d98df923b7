---------------------------- MODULE TurnHistory -----------------------------
(***************************************************************************)
(* The agent's conversation history (session.py) and the dialogue turn     *)
(* that writes it (app_mode.py, tools/runner.py): the question is appended,*)
(* the prompt is cut to its token budget, rounds of tool calls are added   *)
(* as they happen, and a turn that breaks or runs out of rounds is rolled  *)
(* back to the length it had found.  Meanwhile a plugin or the dashboard   *)
(* may clear the history.                                                  *)
(*                                                                         *)
(* The loop over the rounds (run_turn) comes from a library; it is         *)
(* modelled by the calls it makes on the sinks it is given.                *)
(***************************************************************************)
EXTENDS Naturals, Sequences, FiniteSets, SequencesExt

CONSTANTS
  MaxDialogue,     \* bound: turns of the conversation
  MaxIterations,   \* tools_max_iterations
  TokenBudget,     \* max_input_tokens * 0.75
  EchoWindow,      \* ECHO_WINDOW
  MaxClears        \* bound: clears from outside

ASSUME HistoryAssumption ==
  /\ MaxDialogue \in Nat \ {0} /\ MaxIterations \in Nat \ {0} /\ TokenBudget \in Nat /\ MaxClears \in Nat
  /\ EchoWindow \in Nat \ {0}

VARIABLES
  history,      \* session.history
  prompt,       \* messages: what the model is sent, without the system prompt
  dialogue,     \* turns so far
  phase,        \* "idle", "asking" (the model) or "tools" (awaiting dispatch)
  open,         \* tool calls of the round without a result
  iteration,    \* rounds of tools so far
  anchor,       \* rollback_anchor
  clears,       \* clears so far
  torn,         \* history: a clear met a running turn and the history was not empty since
  fate,         \* history: how the last turn ended
  found         \* history: the history after the question of the last turn

histVars == <<history, prompt, dialogue, phase, open, iteration, anchor, clears, torn, fate, found>>

Replies == 1..2   \* what the assistant can say
User(t) == [role |-> "user", of |-> t]
Text(r) == [role |-> "assistant", of |-> r]
Calls(n) == [role |-> "calls", of |-> n]
Tool == [role |-> "tool", of |-> 0]

\* Tokens of a message; the results of tools are the long ones.
MsgTokens(m) == IF m.role = "tool" THEN 2 ELSE 1

Tokens(h) == FoldSeq(LAMBDA m, sum : MsgTokens(m) + sum, 0, h)

HistInit ==
  /\ history = <<>> /\ prompt = <<>> /\ dialogue = 0 /\ phase = "idle" /\ open = 0 /\ iteration = 0
  /\ anchor = 0 /\ clears = 0 /\ torn = FALSE /\ fate = "answered" /\ found = <<>>

-----------------------------------------------------------------------------
(* Session.                                                                *)

\* A turn runs from a user message to the next.  The oldest turns go until
\* the rest fits; the newest stays whatever it costs.  What stands in front
\* of the first user message goes with the first turn that is dropped.
TrimToBudget(h) ==
  LET starts == {i \in 1..Len(h) : h[i].role = "user"}
      fits == {i \in starts : Tokens(SubSeq(h, i, Len(h))) <= TokenBudget}
  IN CASE Min(starts) \in fits -> h
       [] Min(starts) \notin fits /\ fits # {} -> SubSeq(h, Min(fits), Len(h))
       [] fits = {} -> SubSeq(h, Max(starts), Len(h))

\* The last EchoWindow texts of the assistant are the same: start afresh.
Echoes(h) ==
  LET texts == SelectSeq(h, LAMBDA m : m.role = "assistant")
      n == Len(texts)
  IN n >= EchoWindow /\ \A i \in (n - EchoWindow + 1)..n : texts[i] = texts[n]

AddAssistant(text) ==
  LET h == Append(history, Text(text)) IN history' = IF Echoes(h) THEN <<>> ELSE h

\* Mistake: only the last message is taken back.
RollbackOne == SubSeq(history, 1, IF Len(history) > anchor THEN Len(history) - 1 ELSE Len(history))

RollbackTo == SubSeq(history, 1, IF anchor < Len(history) THEN anchor ELSE Len(history))

-----------------------------------------------------------------------------
(* The turn.                                                               *)

TurnEnds(how) == phase' = "idle" /\ open' = 0 /\ fate' = how

\* run_default_dialogue_turn appends the question, stream_with_tools takes
\* the anchor behind it.
AskQuestion ==
  /\ phase = "idle" /\ dialogue < MaxDialogue
  /\ dialogue' = dialogue + 1
  /\ history' = Append(history, User(dialogue'))
  /\ prompt' = TrimToBudget(history')
  /\ anchor' = Len(history')
  /\ phase' = "asking" /\ iteration' = 0
  /\ found' = history'
  /\ UNCHANGED <<open, clears, torn, fate>>

\* Text without calls ends the turn.
ModelAnswers(text) ==
  /\ phase = "asking"
  /\ AddAssistant(text)
  /\ TurnEnds("answered")
  /\ UNCHANGED <<prompt, dialogue, iteration, anchor, clears, torn, found>>

ModelCallsTools(n) ==
  /\ phase = "asking" /\ iteration < MaxIterations
  /\ history' = Append(history, Calls(n)) /\ prompt' = Append(prompt, Calls(n))
  /\ phase' = "tools" /\ open' = n /\ iteration' = iteration + 1
  /\ UNCHANGED <<dialogue, anchor, clears, torn, fate, found>>

\* A result; behind the last one of the round the model is asked again, if
\* a round is left, or the turn is rolled back.
ToolReturns ==
  /\ phase = "tools" /\ open > 0
  /\ open' = open - 1
  /\ history' = Append(history, Tool) /\ prompt' = Append(prompt, Tool)
  /\ UNCHANGED <<phase, dialogue, iteration, anchor, clears, torn, fate, found>>

AskAgain ==
  /\ phase = "tools" /\ open = 0 /\ iteration < MaxIterations
  /\ phase' = "asking"
  /\ UNCHANGED <<history, prompt, dialogue, open, iteration, anchor, clears, torn, fate, found>>

IterationLimit ==
  /\ phase = "tools" /\ open = 0 /\ iteration = MaxIterations
  /\ history' = RollbackTo
  /\ TurnEnds("broken")
  /\ UNCHANGED <<prompt, dialogue, iteration, anchor, clears, torn, found>>

\* Every tool of the round answers with its template: no second request.
TemplateAnswers(text) ==
  /\ phase = "tools" /\ open = 0
  /\ AddAssistant(text)
  /\ TurnEnds("answered")
  /\ UNCHANGED <<prompt, dialogue, iteration, anchor, clears, torn, found>>

\* Cancelled (barge-in, watchdog, a newer utterance) or failed.
TurnBreaks ==
  /\ phase # "idle"
  /\ history' = RollbackTo
  /\ TurnEnds("broken")
  /\ UNCHANGED <<prompt, dialogue, iteration, anchor, clears, torn, found>>

\* on_assistant_done of a single-turn application, the dashboard, a
\* stateless mode: none of them asks whether a turn is running.
ClearHistory ==
  /\ clears < MaxClears /\ history # <<>>
  /\ clears' = clears + 1
  /\ history' = <<>> /\ torn' = (phase # "idle") /\ fate' = "answered"
  /\ UNCHANGED <<prompt, dialogue, phase, open, iteration, anchor, found>>

HistNext ==
  \/ AskQuestion
  \/ \E text \in Replies : ModelAnswers(text) \/ TemplateAnswers(text)
  \/ \E n \in 1..2 : ModelCallsTools(n)
  \/ ToolReturns \/ AskAgain \/ IterationLimit \/ TurnBreaks
  \/ ClearHistory

HistSpec == HistInit /\ [][HistNext]_histVars

-----------------------------------------------------------------------------
(* Properties.                                                             *)

\* Types; the anchor is a length the history has had.
HistTypeOK ==
  /\ \A m \in ToSet(history) \cup ToSet(prompt) :
       m \in {User(t) : t \in 1..MaxDialogue} \cup {Text(r) : r \in Replies} \cup {Calls(1), Calls(2), Tool}
  /\ dialogue \in 0..MaxDialogue /\ phase \in {"idle", "asking", "tools"} /\ open \in 0..2
  /\ iteration \in 0..MaxIterations /\ anchor = Len(found) /\ clears \in 0..MaxClears /\ torn \in BOOLEAN
  /\ fate \in {"answered", "broken"} /\ (open > 0 => phase = "tools")

\* The results that follow a message.
ResultsAfter(h, i) == Cardinality({j \in (i + 1)..Len(h) : \A k \in (i + 1)..j : h[k] = Tool})

\* What a strict server accepts: every call is answered by its results and
\* every result follows its call.  The last `owed' results may be missing.
Strict(h, owed) ==
  /\ \A i \in 1..Len(h) : h[i].role = "calls" =>
       ResultsAfter(h, i) = IF i + ResultsAfter(h, i) = Len(h) THEN h[i].of - owed ELSE h[i].of
  /\ \A i \in 1..Len(h) : h[i] = Tool => i > 1 /\ h[i - 1].role \in {"calls", "tool"}

\* The history is strict-valid at every step of every turn, whatever breaks,
\* unless somebody cleared it under a running turn.
UntornHistoryIsStrict == ~torn => Strict(history, open)

\* What the model is sent is strict-valid and begins with a question: the
\* budget drops whole turns, over however many turns of tools.
PromptIsStrict ==
  phase # "idle" /\ ~torn => Strict(prompt, open) /\ prompt # <<>> /\ prompt[1].role = "user"

\* The question of the turn is in the prompt, and a fresh prompt is within
\* the budget unless it is the question alone (what a clear left in front of
\* the first question is not counted).
PromptFits ==
  phase = "asking" =>
    /\ User(dialogue) \in ToSet(prompt)
    /\ iteration = 0 /\ ~torn => Tokens(prompt) <= TokenBudget \/ prompt = <<User(dialogue)>>

\* A turn that breaks leaves the history as it was after its question.
BrokenTurnLeavesItsQuestion == phase = "idle" /\ fate = "broken" /\ ~torn => history = found

\* The history stays one a strict server accepts, and so does what is cut
\* from it for a prompt, within the budget, whatever breaks in a turn.
HistoryIsUsable ==
  /\ HistTypeOK
  /\ UntornHistoryIsStrict
  /\ PromptIsStrict
  /\ PromptFits
  /\ BrokenTurnLeavesItsQuestion
=============================================================================
