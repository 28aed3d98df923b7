----------------------------- MODULE AsrSegments ----------------------------
(***************************************************************************)
(* Decoding a clip that is longer than the engine's fixed input            *)
(* (asr_segmenter.py): the clip is cut into slices, along the silences a   *)
(* VAD found or at a fixed length with some overlap, the slices are        *)
(* decoded one by one, and the texts are joined without what the overlap   *)
(* made them repeat.                                                       *)
(*                                                                         *)
(* Time is counted in ticks of 0.1 s; rounding is left out.  Every tick of *)
(* speech is a word of its own, so that a text is the sequence of the      *)
(* ticks it was made from, and a repeated word means repeated audio.  That *)
(* strip_overlap_repeat looks for at most 60 characters is left out: an    *)
(* overlap holds fewer, unless it is configured to be several seconds.     *)
(* The VAD is external: the spans it reports are disjoint and in order,    *)
(* and as it ends each with a silence of 0.25 s, longer than the margin,   *)
(* they begin further apart than that.                                     *)
(***************************************************************************)
EXTENDS Naturals, Sequences, FiniteSets

CONSTANTS
  Ceiling,     \* max_segment_seconds of an engine that needs segmenting
  Overlaps,    \* values of OVS_ASR_SEGMENT_OVERLAP_SECONDS
  MinTail,     \* _MIN_TAIL_SECONDS
  Pad,         \* _VAD_PAD_S
  MinSpeech,   \* _VAD_MIN_SPEECH_S
  Clips,       \* lengths of the clips
  Spans        \* what the VAD may report: sequences of <<first, past the last>>

ASSUME SegmentAssumption ==
  /\ Ceiling \in Nat \ {0} /\ MinTail \in Nat /\ Pad \in Nat /\ MinSpeech \in Nat
  /\ 2 * Pad < MinTail /\ MinTail < Ceiling
  /\ Clips \subseteq Nat /\ Overlaps \subseteq Nat
  /\ \A said \in Spans :
       /\ said \in Seq(Nat \X Nat) /\ \A i \in DOMAIN said : said[i][1] < said[i][2]
       /\ \A i \in DOMAIN said, j \in DOMAIN said : i < j =>
            said[i][2] <= said[j][1] /\ said[i][1] + Pad < said[j][1]

VARIABLES
  clip,      \* length of the clip
  overlap,   \* overlap_seconds
  limit,     \* resolve_max_segment_seconds: 0 for an engine that chunks itself
  spans,     \* what the VAD reported; <<>> without a VAD
  slices,    \* bounds
  next,      \* the slice to decode
  joined,    \* the text so far
  job        \* "new", "decoding", "whole" (decoded in one piece), "done" or "failed"

segVars == <<clip, overlap, limit, spans, slices, next, joined, job>>

SegInit ==
  /\ clip = 0 /\ overlap = 0 /\ limit = 0 /\ spans = <<>>
  /\ slices = <<>> /\ next = 1 /\ joined = <<>> /\ job = "new"

-----------------------------------------------------------------------------
(* Planning.                                                               *)

Lower(a, b) == IF a < b THEN a ELSE b
Higher(a, b) == IF a > b THEN a ELSE b
Ticks(slice) == slice[1]..(slice[2] - 1)

\* Mistake: the short last slice is dropped.
DropTail(bounds, max) ==
  LET n == Len(bounds) IN
  IF n >= 2 /\ bounds[n][2] - bounds[n][1] < MinTail THEN SubSeq(bounds, 1, n - 1) ELSE bounds

\* A short last slice is folded into the one before it, which moves forward
\* to stay below the limit.
FoldTail(bounds, max) ==
  LET n == Len(bounds)
      end == bounds[n][2]
  IN IF n >= 2 /\ end - bounds[n][1] < MinTail
     THEN Append(SubSeq(bounds, 1, n - 2), <<Higher(bounds[n - 1][1], end - max), end>>)
     ELSE bounds

\* Slices of length max, each beginning step ticks after the one before, up
\* to the first that reaches the end.
FixedSegmentBounds(length, max, lap) ==
  LET step == max - Lower(lap, max \div 2)
      count == 1 + ((length - max) + step - 1) \div step
  IN IF length <= max
     THEN <<<<0, length>>>>
     ELSE FoldTail([k \in 1..count |-> <<(k - 1) * step, Lower(length, (k - 1) * step + max)>>], max)

\* Spans that are long enough, and what is decoded of one: it and a margin.
Heard == {i \in DOMAIN spans : spans[i][2] - spans[i][1] >= MinSpeech}
Region(i) == <<Higher(spans[i][1], Pad) - Pad, Lower(clip, spans[i][2] + Pad)>>

\* Regions are packed together while they fit; one that does not fit at all
\* is cut at fixed length.
Flushed(acc) == IF acc.open = <<>> THEN acc.out ELSE Append(acc.out, acc.open)
Cut(r) == LET b == FixedSegmentBounds(r[2] - r[1], Ceiling, overlap)
          IN [k \in DOMAIN b |-> <<r[1] + b[k][1], r[1] + b[k][2]>>]
Pack(acc, r) ==
  CASE r[2] - r[1] > Ceiling -> [out |-> Flushed(acc) \o Cut(r), open |-> <<>>]
    [] r[2] - r[1] <= Ceiling /\ acc.open # <<>> /\ r[2] - acc.open[1] <= Ceiling ->
         [out |-> acc.out, open |-> <<acc.open[1], r[2]>>]
    [] OTHER -> [out |-> Flushed(acc), open |-> r]

GroupRegions[i \in 0..Len(spans)] ==
  IF i = 0 THEN [out |-> <<>>, open |-> <<>>]
  ELSE IF i \in Heard THEN Pack(GroupRegions[i - 1], Region(i)) ELSE GroupRegions[i - 1]

PlanSegments ==
  IF Heard # {} THEN Flushed(GroupRegions[Len(spans)]) ELSE FixedSegmentBounds(clip, Ceiling, overlap)

-----------------------------------------------------------------------------
(* Decoding.                                                               *)

\* A request with a clip, and what the VAD will say of it.
SubmitClip(length, lap, max, said) ==
  /\ job = "new"
  /\ \A i \in DOMAIN said : said[i][2] <= length
  /\ clip' = length /\ overlap' = lap /\ limit' = max /\ spans' = said
  /\ job' = "planning"
  /\ UNCHANGED <<slices, next, joined>>

\* The clip is decoded as it came unless it is too long and there is more
\* than one slice.  One slice sends a clip that is too long to the engine
\* whole, whatever the slice leaves out.
Plan ==
  /\ job = "planning"
  /\ IF limit > 0 /\ clip > limit /\ Len(PlanSegments) > 1
     THEN slices' = PlanSegments /\ job' = "decoding"
     ELSE slices' = <<>> /\ job' = "whole"
  /\ UNCHANGED <<clip, overlap, limit, spans, next, joined>>

\* A tick is a word if there is speech in it.
Spoken == IF spans = <<>> THEN 0..(clip - 1)
          ELSE UNION {Ticks(spans[i]) : i \in DOMAIN spans}

\* The words of a slice, in order.
Words(slice) ==
  LET heard == Ticks(slice) \cap Spoken
  IN [k \in 1..Cardinality(heard) |-> CHOOSE t \in heard : Cardinality({u \in heard : u <= t}) = k]

\* The longest beginning of cur that ends prev is left out.
Repeats(prev, cur) ==
  {n \in 1..Lower(Len(prev), Len(cur)) : \A k \in 1..n : prev[Len(prev) - n + k] = cur[k]}
Longest(lengths) == IF lengths = {} THEN 0 ELSE CHOOSE n \in lengths : \A m \in lengths : m <= n
StripOverlapRepeat(prev, cur) == SubSeq(cur, Longest(Repeats(prev, cur)) + 1, Len(cur))

DecodeSlice ==
  /\ job = "decoding"
  /\ joined' = joined \o StripOverlapRepeat(joined, Words(slices[next]))
  /\ next' = next + 1
  /\ job' = IF next = Len(slices) THEN "done" ELSE job
  /\ UNCHANGED <<clip, overlap, limit, spans, slices>>

DecodeFails ==
  /\ job = "decoding"
  /\ job' = "failed"
  /\ UNCHANGED <<clip, overlap, limit, spans, slices, next, joined>>

SegNext ==
  \/ \E length \in Clips, lap \in Overlaps, max \in {0, Ceiling}, said \in Spans :
       SubmitClip(length, lap, max, said)
  \/ Plan \/ DecodeSlice \/ DecodeFails

SegSpec == SegInit /\ [][SegNext]_segVars

-----------------------------------------------------------------------------
Said == {joined[i] : i \in DOMAIN joined}

SegTypeOK ==
  /\ job \in {"new", "planning", "decoding", "whole", "done", "failed"}
  /\ next \in 1..(Len(slices) + 1) /\ Said \subseteq Spoken

\* No slice is longer than the engine takes, none is empty, and they go
\* forward through the clip.
SlicesFit ==
  /\ \A i \in DOMAIN slices : slices[i][1] < slices[i][2] /\ slices[i][2] <= clip
                              /\ slices[i][2] - slices[i][1] <= Ceiling
  /\ \A i \in 1..(Len(slices) - 1) : slices[i][1] < slices[i + 1][1] /\ slices[i][2] <= slices[i + 1][2]

\* The joined text says every word once and in the order of the audio.
WordsOnce == \A i \in 1..(Len(joined) - 1) : joined[i] < joined[i + 1]

\* What may be missing from a clip that was sliced: speech too short for the
\* VAD, and of a span that had to be cut the stretch by which folding its tail
\* moved the slice before.  It is shorter than MinTail less the overlap (with
\* the defaults, 0.5 s and 0.4 s, less than a tick), never the end of the
\* span, and nothing if the margin makes up for it; the comment of the fold,
\* that no audio is skipped, holds for an overlap of MinTail or more.
Missing(s) == Ticks(s) \ Said
Lap == Lower(overlap, Ceiling \div 2)
SpeechIsDecoded ==
  job = "done" =>
    \A s \in (IF spans = <<>> THEN {<<0, clip>>} ELSE {spans[i] : i \in DOMAIN spans}) :
      s[2] - s[1] >= MinSpeech =>
        /\ s[2] - 1 \notin Missing(s)
        /\ Cardinality(Missing(s)) <= Higher(MinTail, Lap + 1) - Lap - 1
        /\ spans # <<>> /\ s[1] >= Pad /\ Lap + Pad >= MinTail => Missing(s) = {}

\* A clip over the limit that is sent whole, and that a fixed-input engine
\* truncates, has its speech in one stretch that is at most a tail longer than
\* the limit.
WholeIsOneStretch ==
  job = "whole" /\ limit > 0 /\ clip > limit =>
    /\ \A i \in Heard, j \in Heard : Region(j)[2] - Region(i)[1] < Ceiling + MinTail
    /\ Heard = {} => clip < Ceiling + MinTail

\* A clip that is sliced for the engine comes back as one text of slices that
\* fit it: every word at most once, in order, and none missing but what
\* SpeechIsDecoded names.  Of a clip over the limit that is not sliced it says
\* only that its speech is one stretch.
ClipIsDecoded == SegTypeOK /\ SlicesFit /\ WordsOnce /\ SpeechIsDecoded /\ WholeIsOneStretch
=============================================================================
