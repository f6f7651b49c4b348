----------------------------- MODULE FileWindows -----------------------------
(***************************************************************************)
(* Where the decode windows of a file come from (core/inference/audio):    *)
(* packets of a container are decoded and resampled into a rolling buffer; *)
(* with VAD, blocks of it are scored frame by frame, what is speech is     *)
(* released as soon as nothing can change that, and the rest forgotten;    *)
(* a cursor cuts overlapping windows out of what there is.                 *)
(*                                                                         *)
(* Audio is the number of its sample in the file, so that a skipped, a     *)
(* repeated or a forgotten sample shows.                                   *)
(***************************************************************************)
EXTENDS Integers, Sequences, SequencesExt, FiniteSetsExt

CONSTANTS
  Clips,        \* what may be decoded: [len, voice, vad, spec, cfg, words]
  Packets,      \* samples a packet brings; 0: of another track
  Staging,      \* the resampler hands out multiples of this until the end
  Frame,        \* FRAME_SAMPLES of the encoder
  VadFrame,     \* VAD_FRAME_SAMPLES
  Pull          \* PULL_SAMPLES

ASSUME WindowsAssumption ==
  /\ {Staging, Frame, VadFrame, Pull} \subseteq Nat \ {0} /\ Pull % Frame = 0
  /\ \A c \in Clips : c.spec.window >= Frame + c.spec.overlap

VARIABLES
  clip,         \* the file, and whether VAD is used on it
  read, raw,    \* samples read from the container; FileWindows below the VAD
  seg,          \* VadSegmenter
  released,     \* what the VAD released, or the resampled file without it
  dropped,      \* buf_start_abs: how much of it the buffer has forgotten
  ended,        \* eof of the source the windows are cut from
  cursor,       \* WindowCursor of the decode
  vadFailed,
  yielded       \* history: the windows so far

sourceVars == <<clip, read, raw, seg, released, dropped, ended, cursor, vadFailed, yielded>>

None == -1

-----------------------------------------------------------------------------
(* WindowSpec and WindowCursor.                                            *)

Stride(spec) == Max({Frame, ((spec.window - spec.overlap) \div Frame) * Frame})

PullSpec == [single |-> 0, window |-> Pull, overlap |-> 0]

NewCursor == [next |-> 0, prev |-> None, done |-> FALSE]

LastWindowMax(spec) == Max({spec.single, spec.window})

RetainFrom(spec, c) == Max({0, c.next - Stride(spec)})
FillTarget(spec, c) == c.next + LastWindowMax(spec) + 1

AnchoredStart(spec, c, len) ==
  IF c.prev = None \/ len < spec.window \/ spec.window = Stride(spec) THEN c.next
  ELSE LET anchored == ((len - spec.window + Frame - 1) \div Frame) * Frame
       IN  Min({c.next, Max({anchored, c.prev + Frame})})

\* WindowCursor::take: [window, cursor], the window <<>> when there is no more.
Take(spec, c, avail, eof) ==
  LET remaining == avail - c.next
      absorb == /\ eof /\ remaining <= LastWindowMax(spec)
                /\ remaining >= spec.window \/ c.prev = None
      end    == IF absorb THEN avail ELSE Min({c.next + spec.window, avail})
      last   == eof /\ end = avail
      start  == IF last /\ ~absorb THEN AnchoredStart(spec, c, avail) ELSE c.next
  IN  IF c.done \/ remaining <= 0
      THEN [window |-> <<>>, cursor |-> [c EXCEPT !.done = TRUE]]
      ELSE [window |-> <<[from |-> start, to |-> end]>>,
            cursor |-> [next |-> IF last THEN c.next ELSE start + Stride(spec),
                        prev |-> start, done |-> last]]

\* SliceWindows: the windows of a buffer that is all there.
SliceWindows(spec, len) ==
  LET after[k \in 0 .. len + 1] ==
        IF k = 0 THEN [windows |-> <<>>, cursor |-> NewCursor]
        ELSE LET b == after[k - 1]
                 t == Take(spec, b.cursor, len, TRUE)
             IN  [windows |-> b.windows \o t.window, cursor |-> t.cursor]
  IN  after[len + 1].windows

-----------------------------------------------------------------------------
(* VadSegmenter.                                                           *)

NewSegmenter ==
  [rawStart |-> 0, rawEnd |-> 0, pos |-> 0, inRun |-> FALSE, merged |-> <<>>,
   open |-> FALSE, regions |-> <<>>, at |-> 1, copied |-> 0, out |-> <<>>]

Grown(regions, to) == [regions EXCEPT ![Len(regions)][2] = Max({@, to})]

PushPadded(s, from, to) ==
  IF s.regions # <<>> /\ from <= Last(s.regions)[2]
  THEN [s EXCEPT !.regions = Grown(@, to)]
  ELSE [s EXCEPT !.regions = Append(@, <<from, to>>)]

\* Closes the region being built: too short and it is dropped.
CloseRegion(s, cfg) ==
  LET b == [s EXCEPT !.merged = <<>>, !.open = FALSE]
      from == Max({0, s.merged[1] - cfg.pad})
      to == s.merged[2] + cfg.pad
  IN  IF s.merged[2] - s.merged[1] < cfg.speech THEN b
      ELSE IF s.open THEN [b EXCEPT !.regions = Grown(@, to)]
      ELSE PushPadded(b, from, to)

Voiced(s, end, cfg) ==
  LET far == s.merged # <<>> /\ ~s.inRun /\ s.pos - s.merged[2] >= cfg.silence
      b == IF far THEN CloseRegion(s, cfg) ELSE s
      m == IF b.merged = <<>> THEN <<s.pos, end>> ELSE <<b.merged[1], end>>
      c == [b EXCEPT !.merged = m, !.inRun = TRUE, !.pos = end]
  IN  IF c.open THEN [c EXCEPT !.regions = Grown(@, end)]
      ELSE IF end - m[1] >= cfg.speech
           THEN [PushPadded(c, Max({0, m[1] - cfg.pad}), end) EXCEPT !.open = TRUE]
           ELSE c

Unvoiced(s, end, cfg) ==
  LET far == s.merged # <<>> /\ end - s.merged[2] >= cfg.silence
      b == IF far THEN CloseRegion(s, cfg) ELSE s
  IN  [b EXCEPT !.inRun = FALSE, !.pos = end]

Score(s, voiced, end, cfg) == IF voiced THEN Voiced(s, end, cfg) ELSE Unvoiced(s, end, cfg)

\* All of the silence that was scored counts as decided.
DecidedToPos(s, cfg) == s.pos

\* decided_to: up to where nothing that comes can change what is kept.
DecidedTo(s, cfg) ==
  LET base == IF s.regions = <<>> THEN 0 ELSE Last(s.regions)[2]
  IN  Min({s.pos,
           IF s.open THEN base
           ELSE IF s.merged # <<>> THEN Max({base, s.merged[1] - cfg.pad})
           ELSE Max({base, s.pos - cfg.pad})})

\* Samples from .. to - 1 of the file; what was forgotten cannot be copied.
Samples(from, to, held) == [k \in 1 .. to - from |-> IF from + k - 1 >= held
                                                     THEN from + k - 1 ELSE None]

Flush(s, cfg) ==
  LET decided == Min({DecidedTo(s, cfg), s.rawEnd})
      copy(t, r) ==
        LET from == Max({t.copied, r[1]})
            to == Min({r[2], decided})
        IN  IF to <= from THEN t
            ELSE [t EXCEPT !.out = @ \o Samples(from, to, s.rawStart), !.copied = to]
      done == FoldLeft(copy, s, SubSeq(s.regions, s.at, Len(s.regions)))
  IN  [done EXCEPT !.at = Max({@, Len(s.regions)})]

Trim(s, cfg) ==
  LET decided == DecidedTo(s, cfg)
      from == IF s.merged # <<>> /\ ~s.open THEN Min({decided, Max({0, s.merged[1] - cfg.pad})})
              ELSE decided
  IN  [s EXCEPT !.rawStart = Max({@, Min({from, s.rawEnd})})]

\* Frames of VadFrame samples from the scored position to the end given; the
\* last may be partial.
Scored(s, to, total, voice, cfg) ==
  LET n == (to - s.pos) \div VadFrame
      ends == [k \in 1 .. n |-> Min({total, s.pos + k * VadFrame})]
  IN  FoldLeft(LAMBDA t, e : Score(t, voice[t.pos \div VadFrame], e, cfg), s, ends)

\* push of n samples: what is released is in `out`
Push(s, n, voice, cfg) ==
  LET to == s.rawEnd + n
  IN  Trim(Flush(Scored([s EXCEPT !.rawEnd = to], to, to, voice, cfg), cfg), cfg)

\* finish, with close
CloseSegmenter(s, total, voice, cfg) ==
  LET scored == Scored(s, total + VadFrame - 1, total, voice, cfg)
      run == IF scored.inRun THEN [scored EXCEPT !.merged[2] = total, !.inRun = FALSE] ELSE scored
      settled == IF run.merged # <<>> THEN CloseRegion(run, cfg) ELSE run
      clamped == [settled EXCEPT !.pos = Max({@, total}),
                    !.regions = [k \in DOMAIN @ |-> <<@[k][1], Min({@[k][2], total})>>]]
  IN  Flush(clamped, cfg)

-----------------------------------------------------------------------------
(* The sources.                                                            *)

Open(c) ==
  /\ clip' = c
  /\ read' = 0 /\ raw' = [cursor |-> NewCursor, eof |-> FALSE]
  /\ seg' = NewSegmenter /\ released' = <<>> /\ dropped' = 0 /\ ended' = FALSE
  /\ cursor' = NewCursor /\ vadFailed' = FALSE /\ yielded' = <<>>

SourceInit ==
  /\ clip \in Clips
  /\ read = 0 /\ raw = [cursor |-> NewCursor, eof |-> FALSE]
  /\ seg = NewSegmenter /\ released = <<>> /\ dropped = 0 /\ ended = FALSE
  /\ cursor = NewCursor /\ vadFailed = FALSE /\ yielded = <<>>

\* What the resampler has handed out.
Decoded == IF raw.eof THEN clip.len ELSE (read \div Staging) * Staging

\* fill_to of the windows, and of the blocks below the VAD
Filled  == ended \/ Len(released) >= FillTarget(clip.spec, cursor)
RawSpec == IF clip.vad THEN PullSpec ELSE clip.spec
RawFilled == raw.eof \/ Decoded >= FillTarget(RawSpec, IF clip.vad THEN raw.cursor ELSE cursor)

\* Without VAD what is decoded is what there is.
Available(more, eof) ==
  IF clip.vad THEN UNCHANGED <<released, ended>>
  ELSE released' = released \o Samples(Len(released), more, 0) /\ ended' = eof

Packet ==
  /\ ~cursor.done /\ ~Filled /\ ~RawFilled /\ read < clip.len
  /\ \E n \in Packets :
       /\ read' = Min({clip.len, read + n})
       /\ Available(((Min({clip.len, read + n})) \div Staging) * Staging, FALSE)
  /\ UNCHANGED <<clip, raw, seg, dropped, cursor, vadFailed, yielded>>

ContainerEnds ==
  /\ ~cursor.done /\ ~Filled /\ ~RawFilled /\ read = clip.len
  /\ raw' = [raw EXCEPT !.eof = TRUE]
  /\ Available(clip.len, TRUE)
  /\ UNCHANGED <<clip, read, seg, dropped, cursor, vadFailed, yielded>>

\* One block through the VAD, or its end.
PullBlock ==
  LET t == Take(PullSpec, raw.cursor, Decoded, raw.eof)
      s == IF t.window = <<>>
           THEN CloseSegmenter(seg, clip.len, clip.voice, clip.cfg)
           ELSE Push(seg, t.window[1].to - t.window[1].from, clip.voice, clip.cfg)
  IN /\ clip.vad /\ ~cursor.done /\ ~Filled /\ RawFilled
     /\ raw' = [raw EXCEPT !.cursor = t.cursor]
     /\ seg' = [s EXCEPT !.out = <<>>]
     /\ released' = released \o s.out
     /\ ended' = (t.window = <<>>)
     /\ UNCHANGED <<clip, read, dropped, cursor, vadFailed, yielded>>

\* The VAD model fails: what was released is windowed as if it were all.
VadFails ==
  /\ clip.vad /\ ~cursor.done /\ ~Filled /\ RawFilled
  /\ raw' = [raw EXCEPT !.cursor = Take(PullSpec, @, Decoded, raw.eof).cursor]
  /\ vadFailed' = TRUE /\ ended' = TRUE
  /\ UNCHANGED <<clip, read, seg, released, dropped, cursor, yielded>>

\* next_window: the consumed prefix is forgotten, the rest filled and cut.
NextTaken == Take(clip.spec, cursor, Len(released), ended)
NextWindow ==
  LET forgotten == Max({dropped, Min({RetainFrom(clip.spec, cursor), Len(released)})})
      held(w) == [from |-> w.from, to |-> w.to, held |-> forgotten]
  IN /\ ~cursor.done /\ Filled
     /\ cursor' = NextTaken.cursor
     /\ dropped' = forgotten
     /\ yielded' = yielded \o [k \in DOMAIN NextTaken.window |-> held(NextTaken.window[k])]
     /\ UNCHANGED <<clip, read, raw, seg, released, ended, vadFailed>>

\* The source works towards the next window.
SourceStep == Packet \/ ContainerEnds \/ PullBlock \/ VadFails

-----------------------------------------------------------------------------
(* Properties.                                                             *)

\* regions_from_probs, as a set: what is voiced and every gap in it that is too
\* short, without what is too short itself, and the padding around it.
Kept(c) ==
  LET all    == 0 .. c.len - 1
      spans(X) == {r \in (all \X all) : /\ r[1] .. r[2] \subseteq X /\ r[1] <= r[2]
                                        /\ r[1] - 1 \notin X /\ r[2] + 1 \notin X}
      voiced == {k \in all : c.voice[k \div VadFrame]}
      gaps   == {r \in spans(all \ voiced) : /\ r[1] > 0 /\ r[2] < c.len - 1
                                             /\ r[2] - r[1] + 1 < c.cfg.silence}
      filled == voiced \cup UNION {r[1] .. r[2] : r \in gaps}
      long   == {r \in spans(filled) : r[2] - r[1] + 1 >= c.cfg.speech}
  IN  UNION {(r[1] - c.cfg.pad) .. (r[2] + c.cfg.pad) : r \in long} \cap all

\* However the packets fall, a stream makes of a file what the same file makes
\* whole: the VAD keeps just the speech regions of the batch scan and hands out
\* their samples once each, in order, without having forgotten any too early;
\* the windows are those of the complete buffer.  These windows miss nothing,
\* overlap by at least what was asked for, start on encoder frames, and none of
\* a long file is short.  (VadSegmenter, WindowCursor, FileWindows, VadWindows)
StreamEqualsBatch ==
  cursor.done =>
    LET kept  == IF clip.vad THEN Kept(clip) ELSE 0 .. clip.len - 1
        whole == SelectSeq(Samples(0, clip.len, 0), LAMBDA k : k \in kept)
        len   == Len(released)
    IN /\ IF vadFailed THEN IsPrefix(released, whole) ELSE released = whole
       /\ clip.vad /\ ~vadFailed =>
            /\ UNION {seg.regions[k][1] .. seg.regions[k][2] - 1 : k \in DOMAIN seg.regions}
                 = kept
            /\ \A k \in DOMAIN seg.regions : k > 1 => seg.regions[k - 1][2] < seg.regions[k][1]
       /\ [k \in DOMAIN yielded |-> [from |-> yielded[k].from, to |-> yielded[k].to]]
            = SliceWindows(clip.spec, len)
       /\ (yielded = <<>>) = (len = 0)
       /\ \A k \in DOMAIN yielded :
            LET w == yielded[k] IN
            /\ w.held <= w.from /\ w.from % Frame = 0
            /\ w.to - w.from > Min({len, clip.spec.window - Frame})
                 \/ (len <= clip.spec.window /\ w.from = 0 /\ w.to = len)
            /\ w.to - w.from <= LastWindowMax(clip.spec)
            /\ k = 1 => w.from = 0
            /\ k > 1 => w.from <= yielded[k - 1].to - clip.spec.overlap
       /\ len > 0 => Last(yielded).to = len

=============================================================================
