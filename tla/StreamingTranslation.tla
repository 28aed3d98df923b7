------------------------ MODULE StreamingTranslation ------------------------
(***************************************************************************)
(* Streaming translation in the agent: the committer that cuts a growing   *)
(* hypothesis into clauses (streaming_translate/committer.py) and the two  *)
(* apps that feed it, the interpreter (apps/simul_interpret) and the live  *)
(* captions (apps/live_caption).                                           *)
(*                                                                         *)
(* Partials are handled inside the dispatch loop, a final by a task of its *)
(* own, and both await the translator: the task of one utterance and the   *)
(* partials of the next share the committer and the app's accumulators.    *)
(*                                                                         *)
(* A text is a sequence of characters, some of them clause marks; the      *)
(* recogniser is external and may say anything.  A translation is the      *)
(* piece of source it was made from.  What the dashboard shows of an       *)
(* interpretation, the debounce of the previews and pieces of blanks       *)
(* alone, which are not sent to the translator, are left out; partials the *)
(* echo filter drops do not arrive here, and barge-in, which is off in     *)
(* these apps, neither.                                                    *)
(***************************************************************************)
EXTENDS Naturals, Sequences, FiniteSets, SequencesExt

CONSTANTS
  Texts,           \* what the recogniser may hear: non-empty sequences
  Marks,           \* clause_punct
  AgreementN,      \* committer_agreement_n
  MinCommit,       \* committer_min_commit_chars
  MaxUtterances,   \* bound: utterances
  MaxPartials      \* bound: partials of an utterance

ASSUME TranslationAssumption ==
  /\ Texts # {} /\ <<>> \notin Texts /\ \A text \in Texts : text \in Seq(ToSet(text))
  /\ AgreementN \in Nat \ {0} /\ MinCommit \in Nat /\ MaxUtterances \in Nat \ {0} /\ MaxPartials \in Nat

VARIABLES
  app,         \* "captions", "lag" (overlap_mode off) or "overlap"
  utterance,   \* the utterance under way
  heardOf,     \* partials of it so far
  partials,    \* _partials: the last AgreementN hypotheses
  committed,   \* _committed_source of the committer
  tail,        \* _tail_source of the committer
  translating, \* the piece on_user_partial awaits the translation of
  finalTurn,   \* _llm_turn_task, running on_user_utterance
  gathered,    \* _pending_translation, or _committed_translation
  shownSource, \* _committed_source of the captions
  preview,     \* the pending preview of the captions
  said,        \* history: the pieces sent to TTS or shown as committed
  whole,       \* history: the final text of an utterance whose turn ended
  excused,     \* history: utterances of a failed translator, a cancelled turn or an echo
  crossed,     \* history: utterances met in the committer or in the app
  revised      \* history: a hypothesis did not continue what is committed

committerVars == <<partials, committed, tail>>
appVars == <<gathered, shownSource, preview, said>>
histories == <<whole, excused, crossed, revised>>
transVars == <<app, utterance, heardOf, committerVars, translating, finalTurn, appVars, histories>>

Nothing == [of |-> 0, from |-> 0, text |-> <<>>]
NoTurn == [at |-> "none", of |-> 0, text |-> <<>>, piece |-> Nothing]

\* The piece of a text of utterance u that is not committed yet.
Piece(u, text) == [of |-> u, from |-> Len(committed), text |-> SubSeq(text, Len(committed) + 1, Len(text))]
Rest(text, n) == SubSeq(text, n + 1, Len(text))

TransInit ==
  /\ app \in {"captions", "lag", "overlap"}
  /\ utterance = 1 /\ heardOf = 0
  /\ partials = <<>> /\ committed = <<>> /\ tail = <<>>
  /\ translating = Nothing /\ finalTurn = NoTurn
  /\ gathered = <<>> /\ shownSource = <<>> /\ preview = <<>> /\ said = <<>>
  /\ whole = <<>> /\ excused = {} /\ crossed = FALSE /\ revised = FALSE

-----------------------------------------------------------------------------
(* The committer.                                                          *)

\* What the last AgreementN hypotheses agree on, or the clauses of the last
\* one, whichever is longer.
CommitTarget(heard) ==
  LET text == Last(heard)
      agreement == IF Len(heard) < AgreementN THEN <<>> ELSE LongestCommonPrefix(ToSet(heard))
      clause == SubSeq(text, 1, Max({0} \cup {i \in DOMAIN text : text[i] \in Marks}))
  IN IF Len(agreement) >= Len(clause) THEN agreement ELSE clause

\* The target goes on from what is committed, by enough characters.
Grows(target) == Len(target) > Len(committed) /\ Len(target) >= Len(committed) + MinCommit

\* Mistake: the committed prefix stays.
ForgetPartials == partials' = <<>> /\ committed' = committed /\ tail' = <<>>

\* finalize: what is left of the text is the last piece, and the buffers
\* start afresh.
ForgetUtterance == partials' = <<>> /\ committed' = <<>> /\ tail' = <<>>

-----------------------------------------------------------------------------
(* The dispatch loop.                                                      *)

Busy == finalTurn.at # "none"

\* A turn is under way that uses the accumulators of the app.
Shared == Busy /\ app # "overlap"

\* A partial of the utterance under way: push_partial, then the await of the
\* translation, or the preview of the tail.
HearPartial(text) ==
  LET heard == IF Len(partials) < AgreementN THEN Append(partials, text) ELSE Append(Tail(partials), text)
      target == CommitTarget(heard)
  IN
  /\ translating = Nothing /\ utterance <= MaxUtterances /\ heardOf < MaxPartials
  /\ heardOf' = heardOf + 1
  /\ partials' = heard
  /\ crossed' = (crossed \/ (Grows(target) /\ Shared))
  /\ revised' = (revised \/ ~IsPrefix(committed, text))
  /\ IF Grows(target)
     THEN /\ committed' = target
          /\ tail' = Rest(text, Len(target))
          /\ translating' = Piece(utterance, target)
          /\ preview' = <<>>
     ELSE /\ IF app = "captions" /\ Rest(text, Len(committed)) # tail
             THEN tail' = Rest(text, Len(committed)) /\ preview' = <<tail'>>
             ELSE UNCHANGED <<tail, preview>>
          /\ UNCHANGED <<committed, translating>>
  /\ UNCHANGED <<app, utterance, finalTurn, gathered, shownSource, said, whole, excused>>

\* What the app does with a translated piece of a committed source.
Keep(piece, source) ==
  CASE app = "lag" -> gathered' = Append(gathered, piece) /\ UNCHANGED <<shownSource, said>>
    [] app = "overlap" -> said' = Append(said, piece) /\ UNCHANGED <<gathered, shownSource>>
    [] app = "captions" -> /\ gathered' = Append(gathered, piece) /\ shownSource' = source
                           /\ said' = Append(said, piece)

PartialTranslated ==
  /\ translating # Nothing
  /\ translating' = Nothing
  /\ Keep(translating, committed)
  /\ UNCHANGED <<app, utterance, heardOf, committerVars, finalTurn, preview, histories>>

\* The translator raised; _dispatch logs it and takes the next event.
PartialFails ==
  /\ translating # Nothing
  /\ translating' = Nothing
  /\ excused' = excused \cup {translating.of}
  /\ UNCHANGED <<app, utterance, heardOf, committerVars, finalTurn, appVars, whole, crossed, revised>>

\* A final that is empty, a filler word or a duplicate: on_user_utterance is
\* not called.  "stop" is not passed on either, and cancels the turn.
IgnoreFinal(stop) ==
  /\ translating = Nothing /\ utterance <= MaxUtterances
  /\ utterance' = utterance + 1 /\ heardOf' = 0
  /\ finalTurn' = IF stop THEN NoTurn ELSE finalTurn
  /\ excused' = excused \cup {utterance} \cup (IF stop /\ Busy THEN {finalTurn.of} ELSE {})
  /\ crossed' = (crossed \/ committed # <<>> \/ (stop /\ Shared))
  /\ UNCHANGED <<app, committerVars, translating, appVars, whole, revised>>

-----------------------------------------------------------------------------
(* on_user_utterance.                                                      *)

FinalDone(turn) ==
  /\ finalTurn' = NoTurn
  /\ whole' = Append(whole, [of |-> turn.of, text |-> turn.text])

ResetApp == gathered' = <<>> /\ shownSource' = <<>>

\* The pieces are complete: the interpreter in clause lag sends them as one
\* text and waits for the flush and the broadcast; the others have only the
\* accumulators left to reset.
Complete(turn, pieces) ==
  IF app = "lag" /\ pieces # <<>>
  THEN /\ finalTurn' = [turn EXCEPT !.at = "flushing", !.piece = Nothing]
       /\ said' = said \o pieces /\ gathered' = pieces
       /\ UNCHANGED <<shownSource, whole>>
  ELSE FinalDone(turn) /\ ResetApp /\ UNCHANGED said

\* A final the app is told of.  A turn still under way is cancelled, wherever
\* it is; the new one finalises the committer before dispatch can go on, as
\* every event is first told to the plugins.
HearFinal(text) ==
  LET left == Piece(utterance, text)
      turn == [at |-> "translating", of |-> utterance, text |-> text, piece |-> left]
  IN
  /\ translating = Nothing /\ utterance <= MaxUtterances
  /\ utterance' = utterance + 1 /\ heardOf' = 0
  /\ excused' = IF Busy THEN excused \cup {finalTurn.of} ELSE excused
  /\ crossed' = (crossed \/ Shared)
  /\ revised' = (revised \/ ~IsPrefix(committed, text))
  /\ ForgetUtterance
  /\ preview' = <<>>
  /\ IF left.text # <<>>
     THEN finalTurn' = turn /\ UNCHANGED <<gathered, shownSource, said, whole>>
     ELSE Complete(turn, gathered)
  /\ UNCHANGED <<app, translating>>

\* The final is the echo of what was just spoken.
HearEcho ==
  /\ translating = Nothing /\ utterance <= MaxUtterances /\ app # "captions" /\ said # <<>>
  /\ utterance' = utterance + 1 /\ heardOf' = 0
  /\ finalTurn' = NoTurn
  /\ excused' = excused \cup {utterance} \cup (IF Busy THEN {finalTurn.of} ELSE {})
  /\ ForgetUtterance /\ ResetApp
  /\ UNCHANGED <<app, translating, preview, said, whole, crossed, revised>>

FinalTranslated ==
  /\ finalTurn.at = "translating"
  /\ IF app = "lag"
     THEN Complete(finalTurn, Append(gathered, finalTurn.piece))
     ELSE /\ Keep(finalTurn.piece, finalTurn.text)
          /\ finalTurn' = [finalTurn EXCEPT !.at = "flushing", !.piece = Nothing]
          /\ UNCHANGED whole
  /\ UNCHANGED <<app, utterance, heardOf, committerVars, translating, preview, excused, crossed, revised>>

\* The last send and the broadcast have returned.
FinalTold ==
  /\ finalTurn.at = "flushing"
  /\ FinalDone(finalTurn) /\ ResetApp
  /\ UNCHANGED <<app, utterance, heardOf, committerVars, translating, preview, said, excused, crossed, revised>>

\* The translator raised: the accumulators stay as they are.
FinalFails ==
  /\ finalTurn.at = "translating"
  /\ finalTurn' = NoTurn
  /\ excused' = excused \cup {finalTurn.of}
  /\ crossed' = (crossed \/ gathered # <<>>)
  /\ UNCHANGED <<app, utterance, heardOf, committerVars, translating, appVars, whole, revised>>

\* The preview of the captions is shown behind what they have committed.
ShowPreview ==
  /\ preview # <<>>
  /\ preview' = <<>>
  /\ UNCHANGED <<app, utterance, heardOf, committerVars, translating, finalTurn, gathered, shownSource,
                 said, histories>>

TransNext ==
  \/ \E text \in Texts : HearPartial(text) \/ HearFinal(text)
  \/ \E stop \in BOOLEAN : IgnoreFinal(stop)
  \/ PartialTranslated \/ PartialFails
  \/ HearEcho \/ FinalTranslated \/ FinalTold \/ FinalFails
  \/ ShowPreview

TransSpec == TransInit /\ [][TransNext]_transVars

-----------------------------------------------------------------------------
\* Of the pieces at the places I: the character the last of them ends with;
\* that each begins where the one before it ends, the first with the first
\* character; and that put together they are a text.
EndOf(piece) == piece.from + Len(piece.text)
Reach(pieces, I) == IF I = {} THEN 0 ELSE EndOf(pieces[Max(I)])
EndToEnd(pieces, I) == \A i \in I : pieces[i].from = Reach(pieces, {j \in I : j < i})
Spell(pieces, I, text) ==
  /\ EndToEnd(pieces, I) /\ Reach(pieces, I) = Len(text)
  /\ \A i \in I : pieces[i].text = SubSeq(text, pieces[i].from + 1, EndOf(pieces[i]))

PlacesOf(u) == {i \in DOMAIN said : said[i].of = u}

TransTypeOK ==
  /\ app \in {"captions", "lag", "overlap"} /\ utterance \in 1..(MaxUtterances + 1)
  /\ Len(partials) <= AgreementN /\ ToSet(partials) \subseteq Texts
  /\ finalTurn.at \in {"none", "translating", "flushing"}
  /\ excused \subseteq 1..MaxUtterances /\ {crossed, revised} \subseteq BOOLEAN

\* The pieces of a finished utterance lie end to end from its first character
\* to its last, and are its final text if every hypothesis continued what was committed.
SaidWhole(final) ==
  /\ EndToEnd(said, PlacesOf(final.of)) /\ Reach(said, PlacesOf(final.of)) >= Len(final.text)
  /\ ~revised => Spell(said, PlacesOf(final.of), final.text)

\* As long as utterances do not meet in the accumulators, every one is
\* translated whole: no clause is lost, repeated or left over for the next.
FinishedUtterancesAreWhole ==
  ~crossed => \A i \in DOMAIN whole : whole[i].of \notin excused => SaidWhole(whole[i])

\* Nor is one spoken ahead of an earlier one.
UtterancesInOrder == app # "overlap" /\ ~crossed => \A i, j \in DOMAIN said : i < j => said[i].of <= said[j].of

\* The captions show a source with the translation of all of it, and a
\* preview continues the source it is shown behind.
CaptionsMatch ==
  app = "captions" /\ ~crossed /\ ~revised /\ utterance \notin excused /\ ~Busy =>
    /\ Spell(gathered, DOMAIN gathered, shownSource)
    /\ preview # <<>> => shownSource \o preview[1] = Last(partials)

\* Streaming translation loses and repeats nothing, while the turn of one
\* utterance and the partials of the next keep apart.
TranslationIsWhole ==
  TransTypeOK /\ FinishedUtterancesAreWhole /\ UtterancesInOrder /\ CaptionsMatch
=============================================================================
