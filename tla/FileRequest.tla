----------------------------- MODULE FileRequest ------------------------------
(***************************************************************************)
(* One file from request to transcript (core/inference/engine/             *)
(* transcribe.rs, channels.rs): the audio whole or window by window, one   *)
(* voice or a channel for each speaker, then, if asked for, the speakers   *)
(* of a mixed recording (core/inference/diarization.rs), then the text     *)
(* passes.  Requests run side by side on their own triplets.  They share   *)
(* the speaker encoder, which the first of them that asks for it loads.    *)
(*                                                                         *)
(* What a window decodes to is given; LongForm is about windows, TextPass  *)
(* about the passes.  The clustering of voices is external: it says when   *)
(* who spoke, or that it will not.                                         *)
(***************************************************************************)
EXTENDS Naturals, Sequences, FiniteSets, SequencesExt, FiniteSetsExt

CONSTANTS
  Callers, Nobody,
  Asks,     \* requests: [source, diarization, budget, audio, turns]
  Models    \* the speaker model's file: "absent", "good", "corrupt"

VARIABLES
  model,
  encoder,   \* SpeakerLoadSlot, or "absent"
  mutex,     \* who holds the slot's lock
  loads,     \* history: attempts to load
  ask,
  doing,        \* where the request's thread is
  channel,   \* the channel being decoded
  results,     \* its words so far, and those of the channels before
  completed, \* completed_samples
  progress,  \* the counter the watchdog reads
  furthest,  \* history: the most it said
  shown,     \* the snapshot
  clustering, \* what the pipeline has come to
  sink,      \* diarization_outcome
  abort,
  early,     \* history: the flag was up when the last check was still ahead
  reply

encoderVars == <<model, encoder, mutex, loads>>
requestVars == <<ask, doing, channel, results, completed, progress, furthest, shown, clustering,
                 sink, abort, early, reply>>
fileVars == <<encoderVars, requestVars>>

Split(q) == q.source \in {"Channels", "ChannelStreams"}
Streamed(q) == q.source = "Bytes" /\ ~q.diarization
Lengths(q) == {q.audio[k].samples : k \in DOMAIN q.audio}
AddedUp(counts) == FoldLeft(LAMBDA n, m : n + m, 0, counts)
AllSamples(q) == AddedUp([k \in DOMAIN q.audio |-> q.audio[k].samples])

\* No word says who spoke it until somebody finds out.
NoSpeaker == 99
Label(words, speaker) == [k \in DOMAIN words |-> [words[k] EXCEPT !.speaker = speaker]]

\* A mixed recording is one; the words of a channel come in the order of time.
Uttered == [name : STRING, start : Nat, end : Nat, speaker : {NoSpeaker}]
Requested ==
  [source : {"Samples", "Bytes", "Channels", "ChannelStreams"}, diarization : BOOLEAN, budget : Nat,
   audio : Seq([samples : Nat, words : Seq(Uttered)]),
   turns : Seq([start : Nat, end : Nat, speaker : Nat])]
ASSUME FileAssumption ==
  /\ Nobody \notin Callers
  /\ Asks \subseteq Requested
  /\ \A q \in Asks :
       /\ ~Split(q) => Len(q.audio) <= 1
       /\ Split(q) => \A k \in DOMAIN q.audio : \A i, j \in DOMAIN q.audio[k].words :
                       i < j => q.audio[k].words[i].start <= q.audio[k].words[j].start

\* Words of several channels in the order of time, of one time by channel, of
\* one channel as they were said.
SaidBefore(words, i, j) ==
  \/ words[i].start < words[j].start
  \/ /\ words[i].start = words[j].start
     /\ words[i].speaker < words[j].speaker \/ (words[i].speaker = words[j].speaker /\ i < j)
PlaceOf(words, i) == Cardinality({j \in DOMAIN words : SaidBefore(words, j, i)}) + 1
Chronological(words) ==
  [k \in DOMAIN words |-> words[CHOOSE i \in DOMAIN words : PlaceOf(words, i) = k]]

\* The channels in their order, as the last one said it.
BySpeaker(perChannel) ==
  FlattenSeq([k \in DOMAIN perChannel |-> Label(perChannel[k], k - 1)])
merge_channel_results(perChannel) == Chronological(BySpeaker(perChannel))

-----------------------------------------------------------------------------
(* Speakers of a mixed recording.  Times are doubled where a midpoint is   *)
(* compared.                                                               *)

Mid(w) == w.start + w.end
turn_contains(turn, mid) == 2 * turn.start <= mid /\ mid <= 2 * turn.end

\* The first turn that contains the middle of the word.
FirstMatch(turns, mid) ==
  LET those == {k \in DOMAIN turns : turn_contains(turns[k], mid)}
  IN  IF those = {} THEN NoSpeaker ELSE turns[Min(those)].speaker

\* A cursor goes past a turn when its end is before the word's middle.
Past(turn, mid) == 2 * turn.end < mid

Cursor(turns, words) ==
  LET at0[k \in 0 .. Len(words)] ==
        IF k = 0 THEN 1
        ELSE Min({i \in at0[k - 1] .. Len(turns) + 1 :
                    i > Len(turns) \/ ~Past(turns[i], Mid(words[k]))})
  IN  [k \in DOMAIN words |-> at0[k]]

SpeakerAt(turns, cursor, mid) ==
  IF cursor > Len(turns) \/ ~turn_contains(turns[cursor], mid) THEN NoSpeaker
  ELSE turns[cursor].speaker

OrderedTurns(turns) ==
  /\ \A k \in DOMAIN turns : turns[k].start <= turns[k].end
  /\ \A k \in 1 .. Len(turns) - 1 : turns[k].end <= turns[k + 1].start
OrderedWords(words) == \A k \in 1 .. Len(words) - 1 : Mid(words[k]) <= Mid(words[k + 1])

assign_speakers_by_midpoint(turns, words) ==
  [k \in DOMAIN words |->
     [words[k] EXCEPT !.speaker =
        IF OrderedTurns(turns) /\ OrderedWords(words)
        THEN SpeakerAt(turns, Cursor(turns, words)[k], Mid(words[k]))
        ELSE FirstMatch(turns, Mid(words[k]))]]

-----------------------------------------------------------------------------
FileInit ==
  /\ model \in Models
  /\ encoder = IF model = "absent" THEN "absent" ELSE "pending"
  /\ mutex = Nobody /\ loads = 0
  /\ ask \in [Callers -> Asks]
  /\ doing = [c \in Callers |-> "called"]
  /\ channel = [c \in Callers |-> 1]
  /\ results = [c \in Callers |-> <<>>]
  /\ completed = [c \in Callers |-> 0]
  /\ progress = completed /\ furthest = completed
  /\ shown = [c \in Callers |-> <<>>]
  /\ clustering = [c \in Callers |-> "none"]
  /\ sink = [c \in Callers |-> "none"]
  /\ abort = [c \in Callers |-> FALSE] /\ early = abort
  /\ reply = [c \in Callers |-> [kind |-> "none", words |-> <<>>]]

Go(c, place) == doing' = [doing EXCEPT ![c] = place]
Return(c, kind, words) ==
  Go(c, "over") /\ reply' = [reply EXCEPT ![c] = [kind |-> kind, words |-> words]]
Fail(c, kind) == Return(c, kind, <<>>)
GivenUp(c) == Fail(c, "cancelled")

\* ctl.check_abort
check_abort(c, place) == IF abort[c] THEN GivenUp(c) ELSE Go(c, place) /\ UNCHANGED reply

\* Somebody gives the request up.
Abort(c) ==
  /\ doing[c] # "over" /\ ~abort[c]
  /\ abort' = [abort EXCEPT ![c] = TRUE]
  /\ early' = [early EXCEPT ![c] = doing[c] # "returning"]
  /\ UNCHANGED <<encoderVars, ask, doing, channel, results, completed, progress, furthest, shown,
                 clustering, sink, reply>>

\* validate_source_budget: what is in memory is measured at once.  A file that
\* is read whole is read here, and is too long before anything is decoded.
TooLong(q) == q.budget > 0 /\ \E n \in Lengths(q) : n > q.budget

Call(c) ==
  /\ doing[c] = "called"
  /\ IF abort[c] THEN GivenUp(c)
     ELSE IF TooLong(ask[c]) /\ ~Streamed(ask[c]) /\ ask[c].source # "ChannelStreams"
     THEN Fail(c, "too_long")
     ELSE IF ask[c].audio = <<>> THEN Return(c, "ok", <<>>)
     ELSE Go(c, "decode") /\ UNCHANGED reply
  /\ UNCHANGED <<encoderVars, ask, channel, results, completed, progress, furthest, shown,
                 clustering, sink, abort, early>>

-----------------------------------------------------------------------------
(* Decoding, channel by channel.                                           *)

Audio(c) == ask[c].audio[channel[c]]
report(c, n) ==
  /\ progress' = [progress EXCEPT ![c] = n]
  /\ furthest' = [furthest EXCEPT ![c] = Max({@, n})]

\* SnapshotPublisher::publish: a first channel that begins anew clears the rest.
publish(c, words) ==
  shown' = [shown EXCEPT ![c] =
    IF channel[c] = 1 THEN <<words>> ELSE SubSeq(@, 1, channel[c] - 1) \o <<words>>]

\* TranscriptSnapshot::get
get(c) ==
  IF Split(ask[c]) THEN Chronological(BySpeaker(shown[c])) ELSE FlattenSeq(shown[c])

\* The first of two windows.  A stream finds out here that it is too long.
FirstWindow(c) ==
  /\ doing[c] = "decode"
  /\ LET words == SubSeq(Audio(c).words, 1, Len(Audio(c).words) \div 2)
     IN  IF ask[c].budget > 0 /\ Audio(c).samples > ask[c].budget
         THEN Fail(c, "too_long") /\ UNCHANGED <<progress, furthest, shown>>
         ELSE /\ publish(c, words)
              /\ check_abort(c, "window")
              /\ IF abort[c] THEN UNCHANGED <<progress, furthest>>
                 ELSE report(c, completed[c] + Audio(c).samples \div 2)
  /\ UNCHANGED <<encoderVars, ask, channel, results, completed, clustering, sink, abort, early>>

LastWindow(c) ==
  /\ doing[c] = "window"
  /\ publish(c, Audio(c).words)
  /\ check_abort(c, "decoded")
  /\ IF abort[c] THEN UNCHANGED <<progress, furthest>>
     ELSE report(c, completed[c] + Audio(c).samples)
  /\ UNCHANGED <<encoderVars, ask, channel, results, completed, clustering, sink, abort, early>>

\* The next channel reports on top of those before it.
ChannelDone(c) ==
  /\ doing[c] = "decoded"
  /\ results' = [results EXCEPT ![c] = Append(@, Audio(c).words)]
  /\ IF abort[c] THEN GivenUp(c) /\ UNCHANGED <<completed, progress, furthest, channel>>
     ELSE /\ completed' = [completed EXCEPT ![c] = @ + Audio(c).samples]
          /\ IF Split(ask[c]) THEN report(c, completed'[c]) ELSE UNCHANGED <<progress, furthest>>
          /\ channel' = [channel EXCEPT ![c] = @ + 1]
          /\ IF channel[c] < Len(ask[c].audio) THEN Go(c, "decode")
             ELSE IF ask[c].diarization /\ ~Split(ask[c]) THEN Go(c, "encoder")
             ELSE Go(c, "finish")
          /\ UNCHANGED reply
  /\ UNCHANGED <<encoderVars, ask, shown, clustering, sink, abort, early>>

-----------------------------------------------------------------------------
(* Who spoke.                                                              *)

\* LazySpeakerEncoder::get_or_load: the lock is held while the model loads.
Lock(c) ==
  /\ doing[c] = "encoder" /\ mutex = Nobody
  /\ IF encoder = "pending"
     THEN Go(c, "loading") /\ mutex' = c /\ loads' = loads + 1 /\ UNCHANGED reply
     ELSE check_abort(c, "speakers") /\ UNCHANGED <<mutex, loads>>
  /\ UNCHANGED <<model, encoder, ask, channel, results, completed, progress, furthest, shown,
                 clustering, sink, abort, early>>

Loaded(c) ==
  /\ doing[c] = "loading"
  /\ encoder' = IF model = "good" THEN "ready" ELSE "failed"
  /\ mutex' = Nobody
  /\ check_abort(c, "speakers")
  /\ UNCHANGED <<model, loads, ask, channel, results, completed, progress, furthest, shown,
                 clustering, sink, abort, early>>

\* Without an encoder nobody is asked.
NoEncoder(c) ==
  /\ doing[c] = "speakers" /\ encoder # "ready" /\ clustering[c] = "none"
  /\ clustering' = [clustering EXCEPT ![c] = "no_speaker_model"]
  /\ UNCHANGED <<encoderVars, ask, doing, channel, results, completed, progress, furthest, shown,
                 sink, abort, early, reply>>

\* run_offline_with_abort: the models are called with the flag looked at before
\* and after; the pipeline takes a flag that is up for a failure of theirs.
Embed(c) ==
  /\ doing[c] = "speakers" /\ encoder = "ready" /\ clustering[c] = "none"
  /\ \E to \in (IF abort[c] THEN {"interrupted"} ELSE {"embedded", "ceiling", "failed"}) :
       clustering' = [clustering EXCEPT ![c] = to]
  /\ UNCHANGED <<encoderVars, ask, doing, channel, results, completed, progress, furthest, shown,
                 sink, abort, early, reply>>

\* The clustering itself is not interrupted.
Cluster(c) ==
  /\ doing[c] = "speakers" /\ clustering[c] = "embedded"
  /\ \E to \in {"applied", "failed"} : clustering' = [clustering EXCEPT ![c] = to]
  /\ UNCHANGED <<encoderVars, ask, doing, channel, results, completed, progress, furthest, shown,
                 sink, abort, early, reply>>

\* The outcome of the models is told as it is.
RecordUnchecked(c) ==
  /\ Go(c, "finish") /\ UNCHANGED reply
  /\ sink' = [sink EXCEPT ![c] = clustering[c]]
  /\ results' = [results EXCEPT ![c] =
       IF clustering[c] = "applied"
       THEN <<assign_speakers_by_midpoint(ask[c].turns, @[1])>> ELSE @]

\* A flag that went up meanwhile is no failure.
Record(c) ==
  /\ IF abort[c] THEN GivenUp(c) /\ UNCHANGED <<sink, results>>
     ELSE /\ Go(c, "finish") /\ UNCHANGED reply
          /\ sink' = [sink EXCEPT ![c] = clustering[c]]
          /\ results' = [results EXCEPT ![c] =
               IF clustering[c] = "applied"
               THEN <<assign_speakers_by_midpoint(ask[c].turns, @[1])>> ELSE @]

SpeakersDone(c) ==
  /\ doing[c] = "speakers"
  /\ clustering[c] \in {"no_speaker_model", "applied", "ceiling", "failed", "interrupted"}
  /\ Record(c)
  /\ UNCHANGED <<encoderVars, ask, channel, completed, progress, furthest, shown, clustering,
                 abort, early>>

\* finish_transcribe_result: the flag is looked at around the text passes.
Finish(c) ==
  /\ doing[c] = "finish"
  /\ check_abort(c, "returning")
  /\ UNCHANGED <<encoderVars, ask, channel, results, completed, progress, furthest, shown,
                 clustering, sink, abort, early>>

ReturnResult(c) ==
  /\ doing[c] = "returning"
  /\ Return(c, "ok", IF Split(ask[c]) THEN merge_channel_results(results[c])
                     ELSE FlattenSeq(results[c]))
  /\ UNCHANGED <<encoderVars, ask, channel, results, completed, progress, furthest, shown,
                 clustering, sink, abort, early>>

FileNext ==
  \E c \in Callers :
    \/ Abort(c) \/ Call(c) \/ FirstWindow(c) \/ LastWindow(c) \/ ChannelDone(c)
    \/ Lock(c) \/ Loaded(c) \/ NoEncoder(c) \/ Embed(c) \/ Cluster(c) \/ SpeakersDone(c)
    \/ Finish(c) \/ ReturnResult(c)

FileSpec == FileInit /\ [][FileNext]_fileVars

-----------------------------------------------------------------------------
(* Properties.                                                             *)

\* What was heard of channel k, with the speaker a split recording gives it.
Of(q, k) == IF Split(q) THEN k - 1 ELSE NoSpeaker
Voice(q, k) == Label(q.audio[k].words, Of(q, k))
\* Those places have just the words of the voice, as they follow each other.
SaidInOrder(voice, words, places) ==
  \E at \in [DOMAIN voice -> DOMAIN words] :
    /\ places = {at[i] : i \in DOMAIN voice}
    /\ \A i \in DOMAIN voice : words[at[i]] = voice[i]
    /\ \A i, j \in DOMAIN voice : i < j => at[i] < at[j]
Wanted(q) == q.diarization /\ ~Split(q)

\* A transcript has the words of every channel once, in the order of time; a word of
\* a mixed recording has the speaker of the first turn around its middle, if the
\* clustering was applied, and none otherwise, as the client is told.
TranscriptIsTrue(q, outcome, words) ==
  LET Spoken(k) == {i \in DOMAIN words : words[i].speaker = Of(q, k)}
  IN  /\ Len(words) = AddedUp([k \in DOMAIN q.audio |-> Len(q.audio[k].words)])
      /\ \A i \in 1 .. Len(words) - 1 : Split(q) => words[i].start <= words[i + 1].start
      /\ IF outcome = "applied"
         THEN words = [k \in DOMAIN words |->
                         [q.audio[1].words[k] EXCEPT !.speaker =
                            FirstMatch(q.turns, Mid(words[k]))]]
         ELSE \A k \in DOMAIN q.audio : SaidInOrder(Voice(q, k), words, Spoken(k))

\* A request that was given up in time has no transcript, whatever it was at, and is
\* not told that its speakers failed; one over its budget has none; the speaker
\* model is loaded once, by one of them, and all are told the same of it; progress
\* never falls, and ends at all there was; and what a time-out shows is what was heard.
\* (transcribe_request, transcribe_samples_with_overrides, get_or_load)
RequestsAreTrue ==
  /\ loads <= 1 /\ (encoder \in {"ready", "failed"} => loads = 1)
  /\ \A c \in Callers :
       /\ progress[c] = furthest[c] /\ sink[c] # "interrupted"
       /\ sink[c] = "no_speaker_model" => model # "good"
       /\ sink[c] \in {"applied", "ceiling", "failed"} => model = "good"
       /\ \A k \in DOMAIN shown[c] :
            /\ IsPrefix(shown[c][k], ask[c].audio[k].words)
            /\ k < channel[c] => shown[c][k] = ask[c].audio[k].words
       /\ Len(get(c)) = AddedUp([k \in DOMAIN shown[c] |-> Len(shown[c][k])])
       /\ reply[c].kind = "ok" =>
            /\ ~early[c] /\ ~TooLong(ask[c])
            /\ progress[c] = AllSamples(ask[c])
            /\ sink[c] # "none" <=> (Wanted(ask[c]) /\ ask[c].audio # <<>>)
            /\ TranscriptIsTrue(ask[c], sink[c], reply[c].words)
=============================================================================
