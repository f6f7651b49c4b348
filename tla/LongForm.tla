------------------------------ MODULE LongForm ------------------------------
(***************************************************************************)
(* The decode of a long file (core/inference/engine/words.rs,              *)
(* file_stream.rs, token_format/stitch.rs, state/snapshot.rs): windows are *)
(* decoded one by one or in waves on extra sessions, their words stitched  *)
(* where neighbours overlap, and a provisional transcript is published     *)
(* after each step as a change to the one before.                          *)
(*                                                                         *)
(* The decoder is external.  It hears a word that lies in a window, its    *)
(* start off by at most Drift; a word the window cuts is garbled or        *)
(* missed; a word that ends with the window may be timed to end up to      *)
(* Spill after it.  Words are on the timeline the windows are cut from.    *)
(***************************************************************************)
EXTENDS FileWindows

CONSTANTS
  Extras,       \* bound: sessions try_checkout_n may find idle
  Drift,        \* how far the start of a word may be off
  MaxDrift,     \* MAX_START_DRIFT
  MaxOverlap,   \* MAX_OVERLAP_WORDS
  Spill         \* how far past its window a word may be timed to end

VARIABLES
  plan,         \* peek, serial, wave, or how the call ended
  slots,        \* sessions of a wave
  pending,      \* windows pulled and not decoded
  merged,       \* the transcript: words [id, text, from, to]
  prevEnd,      \* end of the window stitched last
  mapped,       \* mapped_stable
  snapshot,     \* what a reader of the TranscriptSnapshot gets
  aborted,      \* the abort flag of the request
  inFull,       \* history: the transcript on the clip when last published, if it was
  wholly        \* history: words that were whole in a stitched window

decodeVars == <<plan, slots, pending, merged, prevEnd, mapped, snapshot, aborted, inFull, wholly>>

DecodeInit ==
  /\ SourceInit
  /\ plan \in {"serial", "peek"}
  /\ slots = 1 /\ pending = <<>> /\ merged = <<>> /\ prevEnd = 0 /\ mapped = 0
  /\ snapshot = <<>> /\ aborted = FALSE /\ inFull = <<>> /\ wholly = {}

-----------------------------------------------------------------------------
(* The decoder.                                                            *)

Inside(i, w) == clip.words[i].from >= w.from /\ clip.words[i].to <= w.to
Touches(i, w) == clip.words[i].from < w.to /\ clip.words[i].to > w.from

Copy(i, text, from, to) == [id |-> i, text |-> text, from |-> from, to |-> to]

EndIn(t, w) == IF t < w.to THEN {t} ELSE {w.to, w.to + Spill}

Renderings(i, w) ==
  LET x == clip.words[i] IN
  IF ~Touches(i, w) THEN {<<>>}
  ELSE IF Inside(i, w)
    THEN {<<Copy(i, x.text, x.from + d, e)>> : d \in 0 .. Drift, e \in EndIn(x.to, w)}
  ELSE {<<>>} \cup {<<Copy(i, "cut", Max({x.from, w.from}), e)>> : e \in EndIn(x.to, w)}

Hypotheses(w) ==
  LET all == FoldLeft(LAMBDA heard, i : {h \o r : h \in heard, r \in Renderings(i, w)},
                      {<<>>}, [i \in DOMAIN clip.words |-> i])
  IN  {h \in all : \A j, k \in DOMAIN h : j < k => h[j].from <= h[k].from}

-----------------------------------------------------------------------------
(* stitch_chunk_words_retained.                                            *)

\* The words of a hypothesis that start in the overlap.
Overlap(words, from, to) == {k \in DOMAIN words : words[k].from \in from .. to}
Matches(a, b) == /\ a.text = b.text /\ a.text # "cut"
                 /\ a.from - b.from \in -MaxDrift .. MaxDrift

Crowded(words, from, to) == Cardinality(Overlap(words, from, to)) > MaxOverlap

\* The alignments of two hypotheses that keep the order of words: the best have
\* the most pairs, and of those the least drift.  None is sought among too many
\* words.
BestAlignments(old, new, from, to) ==
  LET pairs == {p \in Overlap(old, from, to) \X Overlap(new, from, to) :
                  /\ ~Crowded(old, from, to) /\ ~Crowded(new, from, to)
                  /\ Matches(old[p[1]], new[p[2]])}
      ordered(M) == \A p, q \in M : p = q \/ (p[1] < q[1] /\ p[2] < q[2])
                                        \/ (p[1] > q[1] /\ p[2] > q[2])
      off(p) == LET d == old[p[1]].from - new[p[2]].from IN IF d < 0 THEN -d ELSE d
      drift(M) == FoldSet(LAMBDA p, sum : sum + off(p), 0, M)
      all == {M \in SUBSET pairs : ordered(M)}
      most == {M \in all : \A N \in all : Cardinality(N) <= Cardinality(M)}
  IN  {M \in most : \A N \in most : drift(M) <= drift(N)}

\* Where the time says, without looking at the words.
MidpointCut(old, new, from, to) ==
  LET before(words) == Cardinality({k \in DOMAIN words : 2 * words[k].from <= from + to})
  IN  <<before(old), before(new)>>
CutsAtMidpoint(old, new, from, to) == {MidpointCut(old, new, from, to)}

\* aligned_cut: at the aligned word nearest to the middle of the overlap, its
\* copy with more context on its side is kept if the order of time allows.
Cuts(old, new, from, to) ==
  LET twice(p) == old[p[1]].from + new[p[2]].from - from - to
      far(p) == IF twice(p) < 0 THEN -twice(p) ELSE twice(p)
      at(p, keepOld) == <<p[1] - 1 + keepOld, p[2] - 1 + keepOld>>
      timely(c) == c[1] = 0 \/ c[2] = Len(new) \/ old[c[1]].from <= new[c[2] + 1].from
      preferred(p) == IF twice(p) <= 0 THEN 1 ELSE 0
      usable(M) == {p \in M : timely(at(p, 0)) \/ timely(at(p, 1))}
      nearest(M) == CHOOSE p \in usable(M) :
                      \A q \in usable(M) : far(p) < far(q) \/ (far(p) = far(q) /\ p[1] >= q[1])
      cut(p) == IF timely(at(p, preferred(p))) THEN at(p, preferred(p)) ELSE at(p, 1 - preferred(p))
  IN  {IF usable(M) = {} THEN MidpointCut(old, new, from, to) ELSE cut(nearest(M)) :
         M \in BestAlignments(old, new, from, to)}

\* [words, retained]
Stitched(old, new, from, to) ==
  IF old = <<>> THEN {[words |-> new, retained |-> 0]}
  ELSE IF new = <<>> THEN {[words |-> old, retained |-> Len(old)]}
  ELSE {[words |-> SubSeq(old, 1, c[1]) \o SubSeq(new, c[2] + 1, Len(new)), retained |-> c[1]] :
          c \in Cuts(old, new, from, to)}

-----------------------------------------------------------------------------
(* Publication.                                                            *)

\* remap_compressed_seconds, with the regions known so far
Remap(t, regions) ==
  LET length(k) == regions[k][2] - regions[k][1]
      before[k \in 0 .. Len(regions)] == IF k = 0 THEN 0 ELSE before[k - 1] + length(k)
      in == {k \in DOMAIN regions : t <= before[k]}
      k == Min(in)
  IN  IF regions = <<>> THEN t
      ELSE IF in = {} THEN Last(regions)[2]
      ELSE regions[k][1] + t - before[k - 1]

OnClip(words) ==
  IF ~clip.vad THEN words
  ELSE [k \in DOMAIN words |-> [words[k] EXCEPT !.from = Remap(@, seg.regions),
                                                !.to = Remap(@, seg.regions)]]

\* SnapshotPublisher: a reader keeps what he has of the words not sent again.
Shown(retained, suffix) == SubSeq(snapshot, 1, retained) \o OnClip(suffix)

\* What was sent once is taken to be at its place.
CertainOnceSent(words) == Len(words)

\* How many words have a certain place on the clip: those before the first that
\* ends after what the VAD has released.
Certain(words) ==
  LET late == {k \in DOMAIN words : clip.vad /\ words[k].to > Len(released)}
  IN  IF late = {} THEN Len(words) ELSE Min(late) - 1

\* WindowPublisher: of the words that were retained those are sent again whose
\* place on the clip was not certain.
Publish(words, unchanged) ==
  LET retained == Min({unchanged, mapped})
      suffix == SubSeq(words, retained + 1, Len(words))
  IN /\ mapped' = retained + Certain(suffix)
     /\ snapshot' = Shown(retained, suffix)
     /\ inFull' = <<OnClip(words)>>

-----------------------------------------------------------------------------
(* The call.                                                               *)

Running == plan \in {"peek", "serial", "wave"}

\* The source works while a window is wanted.
WindowWanted == Len(pending) < (CASE plan = "serial" -> 1 [] plan = "peek" -> 2 [] OTHER -> slots)

Fill ==
  /\ Running /\ WindowWanted
  /\ SourceStep
  /\ UNCHANGED decodeVars

PullWindow ==
  /\ Running /\ WindowWanted /\ ~aborted
  /\ NextWindow
  /\ pending' = pending \o NextTaken.window
  /\ UNCHANGED <<plan, slots, merged, prevEnd, mapped, snapshot, aborted, inFull, wholly>>

\* decode_windows_maybe_parallel with two windows: as many extra sessions as
\* there are idle, none is waited for.
Checkout ==
  /\ plan = "peek" /\ Len(pending) = 2 /\ ~aborted
  /\ \E n \in 0 .. Extras : /\ slots' = 1 + n
                            /\ plan' = IF n = 0 THEN "serial" ELSE "wave"
  /\ UNCHANGED <<sourceVars, pending, merged, prevEnd, mapped, snapshot, aborted, inFull, wholly>>

\* A closed pool, or an abort seen at one of the checks.
Cancelled ==
  /\ Running /\ (aborted \/ (plan = "peek" /\ Len(pending) = 2))
  /\ plan' = "cancelled" /\ pending' = <<>>
  /\ UNCHANGED <<sourceVars, slots, merged, prevEnd, mapped, snapshot, aborted, inFull, wholly>>

\* The container cannot be read, a window not decoded, or its thread panics.
Fails ==
  /\ Running /\ plan' = "failed" /\ pending' = <<>>
  /\ UNCHANGED <<sourceVars, slots, merged, prevEnd, mapped, snapshot, aborted, inFull, wholly>>

Aborts ==
  /\ Running /\ ~aborted /\ aborted' = TRUE
  /\ UNCHANGED <<sourceVars, plan, slots, pending, merged, prevEnd, mapped, snapshot, inFull, wholly>>

\* stitch_report: an abort may leave a window's words short; they replace
\* nothing then unless they reach further.
StitchReport(t, w, heard, late) ==
  LET extends == heard # <<>> /\ (t.words = <<>> \/ Last(heard).to > Last(t.words).to)
  IN  IF late /\ ~extends THEN {[words |-> t.words, retained |-> Len(t.words)]}
      ELSE Stitched(t.words, heard, w.from, Max({t.end, w.from}))

\* The words that stay are those every stitch of the wave kept.
Retained(a, b) == Min({a, b})

\* The transcripts a wave of windows may lead to.  `short` is the first window
\* the abort cut short, `late` the first stitched after it was raised.
Waves(windows, short, late) ==
  LET heard(k) ==
        IF k < short THEN Hypotheses(windows[k])
        ELSE UNION {{SubSeq(h, 1, m) : m \in 0 .. Len(h)} : h \in Hypotheses(windows[k])}
      next(t, k) ==
        UNION {{[words |-> s.words, end |-> windows[k].to,
                 retained |-> Retained(t.retained, s.retained)] :
                  s \in StitchReport(t, windows[k], h, late <= k)} : h \in heard(k)}
  IN  FoldLeft(LAMBDA ts, k : UNION {next(t, k) : t \in ts},
               {[words |-> merged, end |-> prevEnd, retained |-> Len(merged)]},
               [k \in 1 .. Min({short, Len(windows)}) |-> k])

\* Stitching begins when every window has been decoded, so a window cut short
\* means that all of the stitches see the abort.
Decode(windows) ==
  LET n == Len(windows) IN
  /\ ~aborted
  /\ \E short, late \in 1 .. n + 1 :
       /\ short <= n => late = 1
       /\ \E t \in Waves(windows, short, late) :
            /\ merged' = t.words /\ prevEnd' = t.end
            /\ Publish(t.words, t.retained)
       /\ aborted' = (late <= n)
       /\ wholly' = wholly \cup {i \in DOMAIN clip.words :
                                   \E k \in 1 .. short - 1 : Inside(i, windows[k])}
  /\ pending' = SubSeq(pending, n + 1, Len(pending))
  /\ UNCHANGED <<sourceVars, plan, slots>>

\* Without another window the peeked one is decoded like a serial one.
DecodeSerial ==
  /\ pending # <<>> /\ (plan = "serial" \/ (plan = "peek" /\ Len(pending) = 1 /\ cursor.done))
  /\ Decode(<<pending[1]>>)

DecodeWave ==
  /\ plan = "wave" /\ pending # <<>> /\ (cursor.done \/ ~WindowWanted)
  /\ Decode(pending)

\* transcribe_stream_file: with no speech found, or a VAD that failed, the clip
\* is opened again and decoded whole.
NeedsFallback == clip.vad /\ (vadFailed \/ (seg.regions = <<>> /\ clip.len > 0))

FinishDecode ==
  /\ Running /\ cursor.done /\ pending = <<>> /\ ~aborted
  /\ IF NeedsFallback
       THEN /\ Open([clip EXCEPT !.vad = FALSE, !.words = clip.all])
            /\ plan' \in {"serial", "peek"}
            /\ merged' = <<>> /\ prevEnd' = 0 /\ mapped' = 0 /\ inFull' = <<>> /\ wholly' = {}
            /\ slots' = 1
       ELSE /\ plan' = "ok"
            /\ UNCHANGED <<sourceVars, merged, prevEnd, mapped, inFull, wholly, slots>>
  /\ UNCHANGED <<pending, snapshot, aborted>>

DecodeNext == Fill \/ PullWindow \/ Checkout \/ Cancelled \/ Fails \/ Aborts
                \/ DecodeSerial \/ DecodeWave \/ FinishDecode

DecodeSpec == DecodeInit /\ [][DecodeNext]_<<sourceVars, decodeVars>>

-----------------------------------------------------------------------------
(* Properties.                                                             *)

\* Whoever reads the provisional transcript gets all of the words decoded so far,
\* each at its place in the clip as it was known when they were published, though
\* only changes are ever sent: a word that was clamped to the regions known then
\* is sent again when they have grown.  The words not sent again are at a place
\* that stays right however the regions grow.  (WindowPublisher,
\* SnapshotPublisher)
SnapshotIsCurrent ==
  inFull # <<>> => /\ snapshot = Last(inFull)
                   /\ SubSeq(snapshot, 1, mapped) = OnClip(SubSeq(merged, 1, mapped))

\* The overlaps so far, and whether a window may hear more words in one than are
\* aligned.
Seams == {[from |-> yielded[k].from, to |-> yielded[k - 1].to] : k \in DOMAIN yielded \ {1}}
Within(i, o) == clip.words[i].from >= o.from /\ clip.words[i].to <= o.to
MayStart(i, o) == clip.words[i].from + Drift >= o.from /\ clip.words[i].from <= o.to
MayCrowd(o) ==
  Cardinality({i \in DOMAIN clip.words : MayStart(i, o) \/ Touches(i, o)}) > MaxOverlap

\* The copies of a word may fall on both sides of the middle of a crowded overlap.
Straddles(i) ==
  LET x == clip.words[i] IN
  \E o \in Seams : /\ MayCrowd(o)
                   /\ 2 * x.from <= o.from + o.to /\ o.from + o.to < 2 * (x.from + Drift)

\* Equal words in a row, each near enough to the next to be taken for it, some of
\* them in an overlap, some not or only in part.
Repeats(i) ==
  LET linked(k) == /\ clip.words[k].text = clip.words[k + 1].text
                   /\ clip.words[k + 1].from - clip.words[k].from <= MaxDrift + Drift
  IN  {j \in DOMAIN clip.words : \A k \in Min({i, j}) .. Max({i, j}) - 1 : linked(k)}
RepeatedAtEdge(i) ==
  \E o \in Seams : /\ Repeats(i) # {i}
                   /\ \E j \in Repeats(i) : MayStart(j, o)
                   /\ \E j \in Repeats(i) : ~Within(j, o)

\* A word that was whole in some window is in the transcript exactly once and in
\* order, wherever the seams fall, however copies drift, whoever repeats
\* themselves, and when an abort cuts a window short.  Two kinds of words are
\* excused: one in the middle of an overlap with too many words to align, and equal
\* words in quick succession across an edge of an overlap, of which one window
\* hears fewer than the other: the alignment with the most pairs may then pair
\* different ones.  token_format/stitch.rs:38-41 says that it "preserves rapid
\* repetitions"; it does so for those that lie in the overlap.
\* (stitch_chunk_words, stitch_report, decode_wave_parallel)
WordsOnce ==
  LET sure == {i \in wholly : ~Straddles(i) /\ ~RepeatedAtEdge(i)} IN
  /\ \A i \in sure : Cardinality({k \in DOMAIN merged : merged[k].id = i}) = 1
  /\ \A j, k \in DOMAIN merged :
       j < k => merged[j].id <= merged[k].id /\ merged[j].from <= merged[k].from
  /\ \A k \in DOMAIN merged : merged[k].id \in sure => merged[k].text # "cut"

=============================================================================
