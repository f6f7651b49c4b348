---------------------------- MODULE StreamDecode ----------------------------
(***************************************************************************)
(* A live recognition stream (core/inference/engine/stream.rs, state.rs):  *)
(* audio is appended to a window, the whole window is decoded again every  *)
(* stride, words the decoder repeats are suppressed, and when the window   *)
(* reaches its cap a prefix of the words is committed and the window       *)
(* slides.                                                                 *)
(*                                                                         *)
(* The decoder is a neural network and external.  What is assumed of it:   *)
(* a word that is over is found, Settle after its end with the right text; *)
(* before that its text may be wrong; a word the window cuts is garbled,   *)
(* or missed if no more than Left of it is there; the end of a word may    *)
(* drift up to the next word.  A word is                                   *)
(* the number of the spoken word it renders, negative if garbled.          *)
(***************************************************************************)
EXTENDS Integers, Sequences, SequencesExt, FiniteSets

CONSTANTS
  Recordings,   \* what may be said: sequences of [from, to]
  Length,       \* end of the recording
  Chunks,       \* sizes of pushed chunks
  Cap,          \* stream_max_window_samples
  Left,         \* STREAM_LEFT_CONTEXT_SAMPLES
  DecodeStride, \* STREAM_DECODE_STRIDE_SAMPLES
  Horizon,      \* STREAM_COMMIT_HORIZON_SECS
  StreakMax,    \* STREAM_CAP_STREAK_MAX
  Silence,      \* the blank run or VAD silence that ends an utterance
  Settle,       \* how long after its end a word may still be misheard
  EndDrift      \* how far the end of a word may be off

\* Silence that ends an utterance, and the horizon, outlast the decoder's doubt.
ASSUME StreamAssumption ==
  /\ Settle <= Silence /\ Settle <= Horizon
  /\ Left + DecodeStride <= Cap

VARIABLES
  spoken,       \* the recording
  policy,       \* [stable, mode, vad]: commit mode, endpoint mode, VAD attached
  edge,         \* samples received so far
  start,        \* window_start_samples
  context,      \* context_samples
  undecoded,    \* pending_samples
  committed, live,      \* the assembler: words [text, from, to]
  agreed, streak,       \* agreed_prefix, cap_streak
  failed,       \* the stream is over: aborted
  armed,        \* Hangover: speech since the VAD last fired
  said,         \* history: texts of the Finals
  decoded,      \* history: the edge at the last decode
  cut           \* history: words a Final may have cut

streamVars == <<spoken, policy, edge, start, context, undecoded, committed, live,
                agreed, streak, failed, armed, said, decoded, cut>>

StreamInit ==
  /\ spoken \in Recordings
  /\ policy \in [stable : BOOLEAN, mode : {"auto", "manual"}, vad : BOOLEAN]
  /\ edge = 0 /\ start = 0 /\ context = 0 /\ undecoded = 0
  /\ committed = <<>> /\ live = <<>> /\ agreed = 0 /\ streak = 0
  /\ failed = FALSE /\ armed = FALSE
  /\ said = <<>> /\ decoded = 0 /\ cut = {}

Texts(words) == [k \in DOMAIN words |-> words[k].text]

-----------------------------------------------------------------------------
(* The decoder and the VAD.                                                *)

Word(t, a, b) == [text |-> t, from |-> a, to |-> b]

\* A word's end may drift, not past the next word or the audio.
LatestEnd(i, e) ==
  LET next == IF i < Len(spoken) THEN spoken[i + 1].from ELSE Length
  IN  Min({spoken[i].to + EndDrift, next, e})

\* What a window [start, e) may make of the i-th word.
HeardAs(i, e) ==
  LET w == spoken[i] IN
  CASE w.to <= start \/ w.from >= e -> {<<>>}
    [] w.from < start /\ start < w.to -> {<<>>, <<Word(-i, start, Min({w.to, e}))>>}
    [] w.from >= start /\ w.from < e /\ w.to > e ->
         {<<Word(-i, w.from, e)>>} \cup (IF e - w.from <= Left THEN {<<>>} ELSE {})
    [] w.from >= start /\ w.to <= e /\ w.to > e - Settle ->
         {<<Word(t, w.from, w.to)>> : t \in {i, -i}}
    [] OTHER -> {<<Word(i, w.from, b)>> : b \in w.to .. LatestEnd(i, e)}

\* Every hypothesis run_inference may return for the window.
HeardIn(e) ==
  FoldLeft(LAMBDA heard, i : {h \o r : h \in heard, r \in HeardAs(i, e)},
           {<<>>}, [i \in 1 .. Len(spoken) |-> i])

Speech(p) == \E i \in DOMAIN spoken : spoken[i].from < p /\ p <= spoken[i].to

\* Hangover::update over the frames up to e: fires when Silence has passed since
\* the last speech, once until somebody speaks again.
Hangover(e) ==
  FoldLeft(LAMBDA h, p :
             IF Speech(p) THEN [h EXCEPT !.armed = TRUE]
             ELSE IF h.armed /\ \A q \in (p - Silence + 1) .. p : ~Speech(q)
               THEN [armed |-> FALSE, fired |-> TRUE]
               ELSE h,
           [armed |-> armed, fired |-> FALSE],
           [k \in 1 .. (e - edge) |-> edge + k])

-----------------------------------------------------------------------------
(* Pieces of process_chunk.                                                *)

\* The part of a hypothesis that is not repetition.
Fresh(hyp) ==
  LET boundary == start + context
      fresh(w) == IF policy.stable THEN boundary = 0 \/ w.to > boundary
                                   ELSE w.from >= boundary
      tail == SelectSeq(hyp, fresh)
  IN  IF /\ policy.stable /\ committed # <<>> /\ tail # <<>>
         /\ tail[1].text = Last(committed).text
         /\ tail[1].from <= boundary
      THEN Tail(tail) ELSE tail

\* How far two hypotheses agree.
Agreed(a, b) ==
  LET same(n) == \A k \in 1 .. n : a[k].text = b[k].text
  IN  Max({n \in 0 .. Min({Len(a), Len(b)}) : same(n)})

\* decode_window: the new live tail, and the blank run the decoder ended in.
Heard(hyp) == /\ live' = Fresh(hyp)
              /\ agreed' = Agreed(live, Fresh(hyp))
BlankRun(hyp, e) ==
  /\ e - (IF hyp = <<>> THEN start ELSE Last(hyp).to) >= Silence
  /\ hyp # <<>> \/ committed # <<>>

\* slide_streaming_window
SlideTo(e) == LET keep == Min({Left, e - start}) IN
              start' = e - keep /\ context' = keep

\* finalize_stream_segment
Finalize(words) == /\ said' = said \o Texts(words)
                   /\ committed' = <<>>

\* speech_endpoint
SpeechEndpoint(blank, vad) ==
  policy.mode = "auto" /\ ((blank /\ ~policy.vad) \/ vad)

\* Agreement is enough, however near the edge.
CommittableNoHorizon(words, agree, e) == Min({agree, Len(words)})

\* cap_commit_stable_prefix: how many of the words it commits.
Committable(words, agree, e) ==
  LET settledUpTo(n) == \A k \in 1 .. n : words[k].to <= e - Horizon
      agreedOn == Max({n \in 0 .. Min({agree, Len(words)}) :
                         n = 0 \/ words[n].to <= e - Horizon})
  IN  IF agreedOn = 0 /\ words # <<>> /\ streak + 1 >= StreakMax
      THEN Max({n \in 0 .. Len(words) : settledUpTo(n)})
      ELSE agreedOn
NextStreak(words, agree, e) ==
  IF words # <<>> /\ streak + 1 < StreakMax
     /\ {n \in 1 .. Min({agree, Len(words)}) : words[n].to <= e - Horizon} = {}
  THEN streak + 1 ELSE 0

\* The words that are not over, or only just, at e: a Final there cuts them.
InDoubt(e) == {i \in DOMAIN spoken : spoken[i].from < e /\ spoken[i].to > e - Settle}

-----------------------------------------------------------------------------
(* process_chunk, one action per way through it.                           *)

Arrives(n) ==
  /\ ~failed /\ edge + n <= Length
  /\ edge' = edge + n
  /\ armed' = IF policy.vad THEN Hangover(edge + n).armed ELSE FALSE
  /\ UNCHANGED <<spoken, policy>>
Vad(n) == policy.vad /\ Hangover(edge + n).fired
OverCap(e) == e - start >= Cap
Due(n) == \/ undecoded + n >= DecodeStride
          \/ OverCap(edge + n) /\ ~policy.stable
          \/ Vad(n)

ChunkWaits(n) ==
  /\ Arrives(n) /\ ~Due(n)
  /\ undecoded' = undecoded + n
  /\ UNCHANGED <<start, context, committed, live, agreed, streak, failed, said,
                 decoded, cut>>

ChunkFails(n) ==
  /\ Arrives(n) /\ Due(n)
  /\ undecoded' = undecoded + n
  /\ UNCHANGED <<start, context, committed, live, agreed, streak, failed, said,
                 decoded, cut>>

ChunkDecoded(n) ==
  /\ Arrives(n) /\ Due(n)
  /\ undecoded' = 0 /\ decoded' = edge + n
  /\ UNCHANGED failed

ChunkPartial(n) ==
  /\ ChunkDecoded(n) /\ ~OverCap(edge + n)
  /\ \E hyp \in HeardIn(edge + n) :
       /\ ~SpeechEndpoint(BlankRun(hyp, edge + n), Vad(n))
       /\ Heard(hyp)
  /\ UNCHANGED <<start, context, committed, streak, said, cut>>

ChunkFinal(n) ==
  /\ ChunkDecoded(n)
  /\ \E hyp \in HeardIn(edge + n) :
       /\ SpeechEndpoint(BlankRun(hyp, edge + n), Vad(n))
       /\ agreed' = Agreed(live, Fresh(hyp))
       /\ Finalize(committed \o Fresh(hyp))
  /\ live' = <<>>
  /\ SlideTo(edge + n)
  \* A VAD that fires within the chunk ends the utterance at the chunk's end.
  /\ cut' = IF Vad(n) THEN cut \cup InDoubt(edge + n) ELSE cut
  /\ UNCHANGED streak

\* Legacy commits take the whole tail and slide as for an utterance's end.
ChunkCapLegacy(n) ==
  /\ ~policy.stable
  /\ ChunkDecoded(n) /\ OverCap(edge + n)
  /\ \E hyp \in HeardIn(edge + n) :
       /\ ~SpeechEndpoint(BlankRun(hyp, edge + n), Vad(n))
       /\ agreed' = Agreed(live, Fresh(hyp))
       /\ committed' = committed \o Fresh(hyp)
  /\ live' = <<>> /\ streak' = 0
  /\ SlideTo(edge + n)
  /\ UNCHANGED <<said, cut>>

\* slide_streaming_window_anchored
SlideAnchored(done, rest) ==
  LET boundary == Last(done).to
      context0 == Max({boundary - Left, start})
      from     == IF rest = <<>> THEN context0 ELSE Min({context0, rest[1].from})
  IN  IF boundary <= start THEN UNCHANGED <<start, context>>
      ELSE start' = from /\ context' = boundary - from

\* Stable-prefix commits slide only behind what they committed, or silence.
ChunkCapStable(n) ==
  /\ policy.stable
  /\ ChunkDecoded(n) /\ OverCap(edge + n)
  /\ \E hyp \in HeardIn(edge + n) :
       LET e == edge + n
           tail == Fresh(hyp)
           agree == Agreed(live, tail)
           k == Committable(tail, agree, e)
           done == committed \o SubSeq(tail, 1, k)
           rest == SubSeq(tail, k + 1, Len(tail))
       IN /\ ~SpeechEndpoint(BlankRun(hyp, e), Vad(n))
          /\ committed' = done /\ live' = rest
          /\ agreed' = agree /\ streak' = NextStreak(tail, agree, e)
          /\ CASE k > 0       -> SlideAnchored(done, rest)
               [] tail = <<>> -> SlideTo(e)
               [] OTHER       -> UNCHANGED <<start, context>>
  /\ UNCHANGED <<said, cut>>

\* The Final cannot be made (its text processing fails): the words stay.
ChunkFinalFails(n) ==
  /\ Arrives(n) /\ Due(n)
  /\ undecoded' = 0 /\ decoded' = edge + n
  /\ \E hyp \in HeardIn(edge + n) :
       /\ SpeechEndpoint(BlankRun(hyp, edge + n), Vad(n))
       /\ Heard(hyp)
  /\ failed' = TRUE
  /\ UNCHANGED <<start, context, committed, streak, said, cut>>

\* The abort flag is seen before the decode, or cuts the decode short: a
\* shorter tail does not replace the one that can be read.
CutShort(decodes, e) ==
  /\ failed' = TRUE
  /\ \/ UNCHANGED <<live, agreed>>
     \/ /\ decodes
        /\ \E hyp \in HeardIn(e) : \E m \in 0 .. Len(hyp) :
             LET tail == Fresh(SubSeq(hyp, 1, m)) IN
             /\ agreed' = Agreed(live, tail)
             /\ live' = IF Len(tail) > Len(live) THEN tail ELSE live
  /\ UNCHANGED <<start, context, committed, streak, said, decoded, cut>>

ChunkAborted(n) ==
  /\ Arrives(n)
  /\ undecoded' = undecoded + n
  /\ CutShort(Due(n), edge + n)

\* try_finish_stream: the rest is decoded, everything is final, and the state
\* can be used again.
FinishStream ==
  /\ ~failed /\ edge > start
  /\ \E hyp \in IF undecoded > 0 THEN HeardIn(edge) ELSE {<<>>} :
       LET tail == IF undecoded > 0 THEN Fresh(hyp) ELSE live IN
       /\ agreed' = IF undecoded > 0 THEN Agreed(live, tail) ELSE agreed
       /\ Finalize(committed \o tail)
  /\ live' = <<>> /\ undecoded' = 0 /\ decoded' = edge
  /\ SlideTo(edge)
  /\ cut' = cut \cup InDoubt(edge)
  /\ UNCHANGED <<spoken, policy, edge, streak, failed, armed>>

FinishStreamFails ==
  /\ ~failed
  /\ CutShort(undecoded > 0, edge)
  /\ UNCHANGED <<spoken, policy, edge, undecoded, armed>>

StreamNext ==
  \/ \E n \in Chunks : \/ ChunkWaits(n) \/ ChunkFails(n) \/ ChunkPartial(n)
                       \/ ChunkFinal(n) \/ ChunkCapLegacy(n) \/ ChunkCapStable(n)
                       \/ ChunkFinalFails(n) \/ ChunkAborted(n)
  \/ FinishStream
  \/ FinishStreamFails

StreamSpec == StreamInit /\ [][StreamNext]_streamVars

-----------------------------------------------------------------------------
(* Properties.                                                             *)

Told == said \o Texts(committed)

\* With stable-prefix commits every word the decoder can be sure of is in the
\* transcript once and in its place, whatever was suppressed, slid off or
\* decoded again, and none becomes immutable in a garbled form.  Two cuts are
\* excused: a stop in the middle of a word, and a Final in the middle of a word
\* that began in the very chunk in which the VAD fired, which looks at the whole
\* chunk and then ends the utterance at its end.  The second is not what
\* docs/api.md:78-79 says ("`final` means the utterance is complete").  Legacy commits may garble or miss a word at a
\* seam; they still never repeat or reorder what they committed.  (decode_window,
\* cap_commit_stable_prefix, slide_streaming_window_anchored)
HeardOnce ==
  LET all == Told \o Texts(live)
      places(i) == {k \in DOMAIN all : all[k] \in {i, -i}}
      sure == {i \in DOMAIN spoken : spoken[i].to <= decoded - Settle} \ cut
      ofCut(t) == {t, -t} \cap cut # {}
  IN  /\ policy.stable /\ ~failed =>
           /\ \A i \in sure : Cardinality(places(i)) = 1 /\ \E k \in places(i) : all[k] = i
           /\ \A k \in DOMAIN Told : Told[k] > 0 \/ ofCut(Told[k])
           /\ \A j, k \in DOMAIN all :
                j < k /\ ~ofCut(all[j]) /\ ~ofCut(all[k]) => all[j] * all[j] < all[k] * all[k]
      /\ ~policy.stable =>
           \A j, k \in DOMAIN Told : j < k => Told[j] * Told[j] < Told[k] * Told[k]

=============================================================================
