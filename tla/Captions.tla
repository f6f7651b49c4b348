------------------------------- MODULE Captions -------------------------------
(***************************************************************************)
(* A transcript as captions, segments and documents (core/export/mod.rs,   *)
(* server/http/export.rs).  One pass over the words cuts cues at the       *)
(* limits of a line, another natural segments at pauses, ends of sentences *)
(* and changes of speaker; here they take the same word in one step.       *)
(*                                                                         *)
(* A word has its times in milliseconds, its length in bytes, as the limit *)
(* counts them, its speaker and whether it ends a sentence.                *)
(***************************************************************************)
EXTENDS Integers, Sequences, SequencesExt

CONSTANTS
  Exports,       \* [words, format, segments, chars, count], as asked for
  Unlabelled,    \* the speaker of a word nobody labelled
  LABEL_LENGTH,  \* bytes of "[SPEAKER_0] "
  SEGMENT_PAUSE_THRESHOLD, MAX_SEGMENT_DURATION

\* Times are whole milliseconds; a word has text.
ASSUME CaptionsAssumption ==
  /\ \A x \in Exports :
       /\ x.words \in Seq(ToSet(x.words)) /\ {x.chars, x.count} \subseteq Nat
       /\ \A w \in ToSet(x.words) : {w.start, w.end} \subseteq Int /\ w.len \in Nat \ {0}
  /\ LABEL_LENGTH \in Nat \ {0} /\ {SEGMENT_PAUSE_THRESHOLD, MAX_SEGMENT_DURATION} \subseteq Int

VARIABLES
  export,     \* the request: words, ExportParams
  taken,      \* words taken so far
  cues, cue, current_speaker, word_count,
  segments, segment,
  body        \* the response: blocks of [at, until, text]

captionVars == <<export, taken, cues, cue, current_speaker, word_count, segments, segment, body>>

Rendered == {"txt", "srt", "vtt", "md"}
NoCue == [start |-> 0, end |-> 0, length |-> 0, spaced |-> FALSE, words |-> <<>>]

CaptionInit ==
  /\ export \in Exports
  /\ taken = 0
  /\ cues = <<>> /\ current_speaker = Unlabelled /\ word_count = 0
  /\ cue = IF export.words = <<>> THEN NoCue
           ELSE [NoCue EXCEPT !.start = export.words[1].start, !.end = export.words[1].end]
  /\ segments = <<>> /\ segment = <<>>
  /\ body = [kind |-> "none", blocks |-> <<>>]

-----------------------------------------------------------------------------
(* Cues.                                                                   *)

\* flush: what has text, be it the label alone.
Flushed(done, c) == IF c.length = 0 THEN done ELSE Append(done, c)

\* A line begins at a word, with its label; the end is set when the word is taken.
Begun(c, w) ==
  [start |-> w.start, end |-> c.end, words |-> <<>>, spaced |-> w.speaker # Unlabelled,
   length |-> IF w.speaker = Unlabelled THEN 0 ELSE LABEL_LENGTH]

Would(c, w) == IF c.length = 0 THEN w.len ELSE c.length + 1 + w.len

Breaks(c, n, w) ==
  /\ c.length > 0
  /\ \/ export.chars > 0 /\ Would(c, w) > export.chars
     \/ export.count > 0 /\ n + 1 > export.count

WithWord(c, w) ==
  [c EXCEPT !.end = w.end, !.words = Append(@, w), !.spaced = FALSE,
            !.length = @ + w.len + (IF @ = 0 \/ c.spaced THEN 0 ELSE 1)]

\* It would count on across a change of speaker.
CountKept(changed) == word_count

CountAt(changed) == IF changed THEN 0 ELSE word_count

CueStep(w) ==
  LET changed == w.speaker # current_speaker
      done1 == IF changed THEN Flushed(cues, cue) ELSE cues
      open == IF changed THEN Begun(cue, w) ELSE cue
      n == CountAt(changed)
      breaks == Breaks(open, n, w)
  IN  /\ current_speaker' = w.speaker
      /\ cues' = IF breaks THEN Flushed(done1, open) ELSE done1
      /\ cue' = WithWord(IF breaks THEN [Begun(open, w) EXCEPT !.end = w.end] ELSE open, w)
      /\ word_count' = (IF breaks THEN 0 ELSE n) + 1

-----------------------------------------------------------------------------
(* Natural segments.                                                       *)

segment_speaker(words) ==
  IF \A k \in DOMAIN words : words[k].speaker = words[1].speaker
  THEN words[1].speaker ELSE Unlabelled

Segment(words) ==
  [start |-> words[1].start, end |-> Last(words).end, words |-> words,
   speaker |-> segment_speaker(words)]

CutsBefore(previous, w, from) ==
  \/ w.start - previous.end > SEGMENT_PAUSE_THRESHOLD
  \/ w.speaker # previous.speaker
  \/ previous.stop
  \/ w.end - from > MAX_SEGMENT_DURATION

SegmentStep(w) ==
  IF segment # <<>> /\ CutsBefore(Last(segment), w, segment[1].start)
  THEN segments' = Append(segments, Segment(segment)) /\ segment' = <<w>>
  ELSE segment' = Append(segment, w) /\ UNCHANGED segments

TakeWord ==
  /\ body.kind = "none" /\ taken < Len(export.words)
  /\ taken' = taken + 1
  /\ CueStep(export.words[taken'])
  /\ SegmentStep(export.words[taken'])
  /\ UNCHANGED <<export, body>>

-----------------------------------------------------------------------------
(* Documents.                                                              *)

AllCues == Flushed(cues, cue)
AllSegments == IF segment = <<>> THEN segments ELSE Append(segments, Segment(segment))

\* format_srt_time, format_vtt_time
Clock(ms) ==
  LET t == IF ms < 0 THEN 0 ELSE ms
      seconds == t \div 1000
      minutes == seconds \div 60
  IN  [h |-> minutes \div 60, m |-> minutes % 60, s |-> seconds % 60, ms |-> t % 1000]

\* format_timestamp_hms rounds to seconds first.
ClockSeconds(ms) == Clock((((IF ms < 0 THEN 0 ELSE ms) + 500) \div 1000) * 1000)

Text(words) == [k \in DOMAIN words |-> words[k].name]
Block(at, until, words) == [at |-> at, until |-> until, text |-> Text(words)]
Whole(words) == <<Block(Clock(0), Clock(0), words)>>
Lines ==
  [k \in DOMAIN AllCues |->
     Block(Clock(AllCues[k].start), Clock(AllCues[k].end), AllCues[k].words)]
Sections ==
  [k \in DOMAIN AllCues |->
     Block(ClockSeconds(AllCues[k].start), Clock(0), AllCues[k].words)]

\* render_export_response: JSON is answered elsewhere, with the segments if they were
\* asked for; of the others Markdown alone goes with segments.
Render ==
  /\ body.kind = "none" /\ taken = Len(export.words)
  /\ body' =
       IF export.format = "json"
       THEN [kind |-> "json", blocks |-> Whole(export.words)]
       ELSE IF export.format \notin Rendered THEN [kind |-> "invalid_format", blocks |-> <<>>]
       ELSE [kind |-> export.format,
             blocks |-> CASE export.format \in {"srt", "vtt"} -> Lines
                          [] export.format = "md" /\ export.segments -> Sections
                          [] OTHER -> Whole(export.words)]
  /\ UNCHANGED <<export, taken, cues, cue, current_speaker, word_count, segments, segment>>

CaptionNext == TakeWord \/ Render

CaptionSpec == CaptionInit /\ [][CaptionNext]_captionVars

-----------------------------------------------------------------------------
(* Properties.                                                             *)

Joined(seq) == FlattenSeq([k \in DOMAIN seq |-> seq[k].words])
OneSpeaker(words) == \A k \in DOMAIN words : words[k].speaker = words[1].speaker
SpansItsWords(p) == p.start = p.words[1].start /\ p.end = Last(p.words).end

\* The bytes of a line, its label included.
LineBytes(words) ==
  FoldLeft(LAMBDA n, m : n + m, -1, [k \in DOMAIN words |-> words[k].len + 1])
    + (IF words[1].speaker = Unlabelled THEN 0 ELSE LABEL_LENGTH)

\* A word that does not fit behind its own label, whose space is counted twice then;
\* the label becomes a cue without words.
TooWide(w) == w.speaker # Unlabelled /\ export.chars > 0 /\ LABEL_LENGTH + 1 + w.len > export.chars

Fits(words) ==
  /\ export.count > 0 => Len(words) <= export.count
  /\ export.chars > 0 => LineBytes(words) <= export.chars

\* A cue is of one speaker, within the limits unless it is a single word, and could
\* not have taken the next word.
CuesAreRight ==
  LET done == AllCues
      Follows(k, j) == done[j].words # <<>> /\ \A i \in k + 1 .. j - 1 : done[i].words = <<>>
  IN  /\ Joined(done) = SubSeq(export.words, 1, taken)
      /\ \A k \in DOMAIN done :
           IF done[k].words = <<>>
           THEN k < Len(done) /\ done[k + 1].words # <<>> /\ TooWide(done[k + 1].words[1])
           ELSE /\ OneSpeaker(done[k].words) /\ SpansItsWords(done[k])
                /\ Len(done[k].words) = 1 \/ Fits(done[k].words)
                /\ \A j \in k + 1 .. Len(done) :
                     Follows(k, j) => \/ done[k].words[1].speaker # done[j].words[1].speaker
                                      \/ ~Fits(Append(done[k].words, done[j].words[1]))

\* A segment is of one speaker, has no pause and no end of a sentence inside, is not
\* too long unless it is a single word, and ends where one of these would be wrong.
SegmentsAreRight ==
  LET done == AllSegments
      Steady(words) ==
        \A k \in 1 .. Len(words) - 1 :
          /\ words[k + 1].start - words[k].end <= SEGMENT_PAUSE_THRESHOLD
          /\ ~words[k].stop /\ words[k + 1].speaker = words[k].speaker
          /\ words[k + 1].end - words[1].start <= MAX_SEGMENT_DURATION
  IN  /\ Joined(done) = SubSeq(export.words, 1, taken)
      /\ \A k \in DOMAIN done :
           /\ SpansItsWords(done[k]) /\ Steady(done[k].words)
           /\ done[k].speaker = done[k].words[1].speaker
           /\ k < Len(done) => ~Steady(Append(done[k].words, done[k + 1].words[1]))

\* Every document has all the words once and in order, cut into lines, cues and
\* segments as described; a time on it is a time of day, no more than half a second
\* from its cue.  (build_cues, build_segments, render_export_response)
CaptionsAreWhole ==
  /\ CuesAreRight
  /\ SegmentsAreRight
  /\ body.kind \notin {"none", "invalid_format"} =>
       /\ FlattenSeq([k \in DOMAIN body.blocks |-> body.blocks[k].text]) = Text(export.words)
       /\ Len(body.blocks) > 1 =>
            \A k \in DOMAIN body.blocks :
              LET t == body.blocks[k].at
                  shown == 1000 * (3600 * t.h + 60 * t.m + t.s) + t.ms
                  from == IF AllCues[k].start < 0 THEN 0 ELSE AllCues[k].start
              IN  /\ t.m < 60 /\ t.s < 60 /\ t.ms < 1000
                  /\ from \in shown - 500 .. shown + 500
=============================================================================
