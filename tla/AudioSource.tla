------------------------------ MODULE AudioSource -----------------------------
(***************************************************************************)
(* How the audio of a file is read (core/inference/audio: stream/file.rs,  *)
(* wave.rs, opus.rs, decode/): packet by packet from a demuxer, or block by*)
(* block from the thread that decodes a WAVE file, into a resampler that   *)
(* works on whole chunks; and the two readings it must agree with, all     *)
(* channels at once and the scan that decides whether to split them.       *)
(*                                                                         *)
(* A sample is <<packet, frame, channel>>; what the resampler makes of a   *)
(* chunk is the chunk, since its output depends on where chunks are cut.   *)
(***************************************************************************)
EXTENDS Integers, Sequences, SequencesExt, FiniteSetsExt

CONSTANTS
  AudioFiles,     \* [kind, native, channels, packets, ends]
  Limits,         \* length budgets, in frames
  StagingFrames,  \* RESAMPLE_STAGING_FRAMES
  WavePacket      \* frames of a packet of a WAVE file, for symphonia

VARIABLES
  audio,      \* the file
  channel,    \* ChannelSelect: Mono or the number of a channel
  limit,      \* max_samples
  next,       \* the packet the demuxer or the thread reads next
  frames,     \* source_frames, decoded_48k
  pending,    \* decoded and not staged (Opus)
  acc,        \* ResampleTo16k: stage, out
  buf,        \* what was handed out, in its chunks
  result,     \* "reading", "eof", "ok", "failed", "toolong", "cancelled"
  abort,      \* what the caller's predicate says
  waveThread, \* the WAVE thread: "none", "decode", "send", "over", "panicked"
  hand,       \* the message it is sending
  sent,       \* the channel of one message
  rx,         \* whether its receiver is there
  reader      \* "open", dropped and in "join", "gone"

sourceOf == <<audio, channel, limit>>
readVars == <<frames, pending, acc, buf>>
threadVars == <<next, waveThread, hand, sent>>
endVars == <<rx, reader>>
audioVars == <<sourceOf, threadVars, readVars, result, abort, endVars>>

Mono == -1
Fails == [tag |-> "error", packet |-> 0]

----------------------------------------------------------------------------
(* Packets.  One is of this track or of another, decodes or does not (or   *)
(* brings the decoder down), and has a number of channels of its own.      *)

\* The samples of a packet for one channel, or the mix: of a packet with one
\* channel that is the mix and channel 0, and of one that has fewer channels
\* nothing.
Samples(f, p, c) ==
  LET packet == f.packets[p]
      plane == IF c = Mono /\ packet.ch = 1 THEN 0 ELSE c
  IN IF plane < packet.ch THEN [i \in 1 .. packet.n |-> <<p, i, plane>>] ELSE <<>>

Empty == [stage |-> <<>>, out |-> <<>>]
Drain(a) == IF a.stage = <<>> THEN a ELSE [stage |-> <<>>, out |-> Append(a.out, a.stage)]
flush_full(f, a) == IF f.native \/ Len(a.stage) < StagingFrames THEN a ELSE Drain(a)
Staged(a, samples) == [a EXCEPT !.stage = @ \o samples]

\* What there is to hand out: at 16 kHz the staged samples as they are.
Ready(f, a) == IF f.native THEN (IF a.stage = <<>> THEN <<>> ELSE <<a.stage>>) ELSE a.out
drain_ready_into(f, a) == IF f.native THEN Empty ELSE [a EXCEPT !.out = <<>>]
Finish(f, a) == IF f.native THEN Ready(f, a) ELSE Drain(a).out

\* Opus goes to the resampler in chunks of just the staging size.
FullChunks(samples) ==
  [k \in 1 .. Len(samples) \div StagingFrames |->
     SubSeq(samples, (k - 1) * StagingFrames + 1, k * StagingFrames)]
Rest(samples) ==
  SubSeq(samples, (Len(samples) \div StagingFrames) * StagingFrames + 1, Len(samples))
StageChunks(f, a, samples) ==
  FoldLeft(LAMBDA b, chunk : flush_full(f, Staged(b, chunk)), a, FullChunks(samples))

\* After a packet that decodes an end that was cut off is an end.
next_demux_packet(f, p, have_pcm) ==
  CASE p <= Len(f.packets) -> "packet"
    [] p > Len(f.packets) /\ (f.ends = "clean" \/ (f.ends = "cut" /\ have_pcm)) -> "end"
    [] OTHER -> "error"

----------------------------------------------------------------------------
(* Reading one channel, or the mix, as far as the next window needs.       *)

AudioInit ==
  /\ audio \in AudioFiles
  /\ channel \in {Mono, 0, 1}
  /\ limit \in Limits
  /\ next = 1 /\ frames = 0 /\ pending = <<>> /\ acc = Empty /\ buf = <<>>
  /\ result = "reading" /\ abort = FALSE
  /\ waveThread = IF audio.kind = "wave" THEN "decode" ELSE "none"
  /\ hand = Fails /\ sent = <<>> /\ rx = TRUE /\ reader = "open"

\* What a packet or block leaves behind, over the budget an error.
Take(samples, n) ==
  LET opus == audio.kind = "opus"
      all == IF opus THEN pending \o samples ELSE samples
      a == IF opus THEN StageChunks(audio, acc, all) ELSE flush_full(audio, Staged(acc, samples))
  IN /\ frames' = frames + n
     /\ IF frames + n > limit
        THEN result' = "toolong" /\ UNCHANGED <<pending, acc, buf>>
        ELSE /\ pending' = IF opus THEN Rest(all) ELSE <<>>
             /\ acc' = drain_ready_into(audio, a)
             /\ buf' = buf \o Ready(audio, a)
             /\ UNCHANGED result

\* One turn of the packet loop.
FillPacket ==
  /\ audio.kind # "wave" /\ result = "reading" /\ reader = "open" /\ ~abort
  /\ next_demux_packet(audio, next, frames > 0) = "packet"
  /\ next' = next + 1
  /\ LET packet == audio.packets[next]
     IN CASE packet.state = "other" -> UNCHANGED <<readVars, result>>
          [] packet.state = "bad" -> result' = "failed" /\ UNCHANGED readVars
          [] OTHER -> Take(Samples(audio, next, channel), packet.n)
  /\ UNCHANGED <<sourceOf, waveThread, hand, sent, abort, endVars>>

FillEnds ==
  /\ audio.kind # "wave" /\ result = "reading" /\ reader = "open" /\ ~abort
  /\ next_demux_packet(audio, next, frames > 0) # "packet"
  /\ result' = IF next_demux_packet(audio, next, frames > 0) = "end" THEN "eof" ELSE "failed"
  /\ UNCHANGED <<sourceOf, threadVars, readVars, abort, endVars>>

\* At the end the remainder goes through the resampler, once.
FinishInto ==
  /\ result = "eof" /\ reader = "open" /\ ~abort
  /\ buf' = buf \o Finish(audio, Staged(acc, pending))
  /\ acc' = Empty /\ pending' = <<>>
  /\ result' = "ok"
  /\ UNCHANGED <<sourceOf, threadVars, frames, abort, endVars>>

\* The predicate is asked before every packet and block, and behind it.
CheckAbort ==
  /\ abort /\ result \in {"reading", "eof"} /\ reader = "open"
  /\ result' = "cancelled"
  /\ UNCHANGED <<sourceOf, threadVars, readVars, abort, endVars>>

RaiseAbort ==
  /\ ~abort
  /\ abort' = TRUE
  /\ UNCHANGED <<sourceOf, threadVars, readVars, result, endVars>>

----------------------------------------------------------------------------
(* The WAVE thread and the reader at the other end of its channel.         *)

\* The decoder has a budget of its own, in other units: what is over ours may
\* be over its.
ThreadDecodes ==
  /\ waveThread = "decode"
  /\ IF next > Len(audio.packets)
     THEN IF audio.ends = "clean" THEN waveThread' = "over" /\ UNCHANGED hand
          ELSE waveThread' = "send" /\ hand' = Fails
     ELSE CASE audio.packets[next].state = "panic" -> waveThread' = "panicked" /\ UNCHANGED hand
            [] audio.packets[next].state = "bad" -> waveThread' = "send" /\ hand' = Fails
            [] OTHER -> /\ waveThread' = "send"
                        /\ \/ hand' = [tag |-> "block", packet |-> next]
                           \/ /\ FoldLeft(LAMBDA s, k : s + audio.packets[k].n, 0,
                                          [k \in 1 .. next |-> k]) > limit
                              /\ hand' = [Fails EXCEPT !.tag = "toolong"]
  /\ next' = next + 1
  /\ UNCHANGED <<sourceOf, readVars, sent, result, abort, endVars>>

ThreadEnded == waveThread \in {"none", "over", "panicked"}

\* A send waits for room, and fails when nobody receives any more.  An error
\* ends the thread.
ThreadSends ==
  /\ waveThread = "send"
  /\ \/ rx /\ sent = <<>> /\ sent' = <<hand>>
     \/ ~rx /\ UNCHANGED sent
  /\ waveThread' = IF ~rx \/ hand.tag # "block" THEN "over" ELSE "decode"
  /\ UNCHANGED <<sourceOf, next, hand, readVars, result, abort, endVars>>

RecvBlock ==
  /\ audio.kind = "wave" /\ result = "reading" /\ reader = "open" /\ ~abort
  /\ sent # <<>>
  /\ sent' = <<>>
  /\ LET message == Head(sent)
     IN CASE message.tag = "error" -> result' = "failed" /\ UNCHANGED readVars
          [] message.tag = "toolong" -> result' = "toolong" /\ UNCHANGED readVars
          [] OTHER -> Take(Samples(audio, message.packet, channel),
                           audio.packets[message.packet].n)
  /\ UNCHANGED <<sourceOf, next, waveThread, hand, abort, endVars>>

\* No sender is left: the thread is asked how it ended.
RecvEnds ==
  /\ audio.kind = "wave" /\ result = "reading" /\ reader = "open" /\ ~abort
  /\ sent = <<>> /\ ThreadEnded
  /\ result' = IF waveThread = "panicked" THEN "failed" ELSE "eof"
  /\ UNCHANGED <<sourceOf, threadVars, readVars, abort, endVars>>

\* A source that kept its receiver while it waits for the thread.
JoinFirst ==
  /\ reader = "open"
  /\ reader' = "join"
  /\ UNCHANGED <<sourceOf, threadVars, readVars, result, abort, rx>>

\* The source is dropped, at any time: first its receiver.
DropSource ==
  /\ reader = "open"
  /\ rx' = FALSE /\ reader' = "join"
  /\ UNCHANGED <<sourceOf, threadVars, readVars, result, abort>>

\* Then it waits for the thread.
Join ==
  /\ reader = "join" /\ ThreadEnded
  /\ reader' = "gone"
  /\ UNCHANGED <<sourceOf, threadVars, readVars, result, abort, rx>>

AudioNext ==
  \/ FillPacket \/ FillEnds \/ FinishInto \/ CheckAbort \/ RaiseAbort
  \/ ThreadDecodes \/ ThreadSends \/ RecvBlock \/ RecvEnds
  \/ DropSource \/ Join

AudioSpec == AudioInit /\ [][AudioNext]_audioVars

----------------------------------------------------------------------------
(* All channels at once (decode/channels.rs).                              *)

\* How far a file decodes: the packets of its track, and how it ends.
Heard(f, max) ==
  FoldLeft(LAMBDA h, p :
             CASE h.end # "" \/ f.packets[p].state = "other" -> h
               [] h.end = "" /\ f.packets[p].state \in {"bad", "panic"} ->
                    [h EXCEPT !.end = "failed"]
               [] OTHER -> [ps |-> Append(h.ps, p), n |-> h.n + f.packets[p].n,
                            end |-> IF h.n + f.packets[p].n > max THEN "toolong" ELSE ""],
           [ps |-> <<>>, n |-> 0, end |-> ""], [p \in DOMAIN f.packets |-> p])
Outcome(f, max) ==
  LET h == Heard(f, max)
  IN CASE h.end # "" -> h.end
       [] h.end = "" /\ (f.ends = "clean" \/ (f.ends = "cut" /\ h.n > 0)) -> "ok"
       [] OTHER -> "failed"

\* What a channel has of each packet.  The blocks of a WAVE file are ryf's: here the same
\* frames come from symphonia, in packets of its own.
InPackets(f, max, c) ==
  LET ps == Heard(f, max).ps
      each == [k \in DOMAIN ps |-> Samples(f, ps[k], c)]
      all == FlattenSeq(each)
  IN IF f.kind # "wave" THEN each
     ELSE [k \in 1 .. (Len(all) + WavePacket - 1) \div WavePacket |->
             SubSeq(all, (k - 1) * WavePacket + 1, Min({k * WavePacket, Len(all)}))]

\* Every channel a packet has is staged, the others stay as they are.
StageAll(f, pieces) ==
  FoldLeft(LAMBDA a, piece : flush_full(f, Staged(a, piece)), Empty, pieces)

\* A channel that appears begins there.  Opus is decoded whole and then staged in exact
\* chunks.
decode_audio_inner_channels(f, max) ==
  LET ps == Heard(f, max).ps
      most == Max({f.channels} \cup {f.packets[ps[k]].ch : k \in DOMAIN ps})
      all(c) == FlattenSeq(InPackets(f, max, c))
  IN IF f.kind = "opus"
     THEN [c \in 1 .. f.channels |->
             Finish(f, Staged(StageChunks(f, Empty, all(c - 1)), Rest(all(c - 1))))]
     ELSE [c \in 1 .. most |-> Finish(f, StageAll(f, InPackets(f, max, c - 1)))]

----------------------------------------------------------------------------
(* The scan before a split (decode/scan.rs, dual_mono.rs).                 *)

\* Two channels are one recording when their samples pair up alike, and there
\* are some: the correlation over all that was pushed.
Paired(left, right) == [k \in 1 .. Min({Len(left), Len(right)}) |-> <<left[k], right[k]>>]
DualMono(f, pairs) == pairs # <<>> /\ \A k \in DOMAIN pairs : f.packets[pairs[k][1][1]].same
is_dual_mono(f, channels) ==
  Len(channels) = 2 /\ DualMono(f, Paired(FlattenSeq(channels[1]), FlattenSeq(channels[2])))

\* Other than two channels need no look.  Opus is decoded whole; another file
\* packet by packet, in pairs of what the resamplers have ready, until one of
\* its packets is short of a channel.
scan_channels(f, max) ==
  LET ps == Heard(f, max).ps
      short == {k \in DOMAIN ps : f.packets[ps[k]].ch < 2}
      pieces == [c \in 1 .. 2 |-> InPackets(f, max, c - 1)]
      some == IF short = {} THEN Len(pieces[1]) ELSE Min(short) - 1
      step(s, k) ==
        LET as == [c \in 1 .. 2 |-> flush_full(f, Staged(s.accs[c], pieces[c][k]))]
        IN [accs |-> [c \in 1 .. 2 |-> drain_ready_into(f, as[c])],
            pairs |-> s.pairs \o Paired(FlattenSeq(Ready(f, as[1])), FlattenSeq(Ready(f, as[2])))]
      last == FoldLeft(step, [accs |-> <<Empty, Empty>>, pairs |-> <<>>], [k \in 1 .. some |-> k])
      tail(c) == FlattenSeq(Finish(f, last.accs[c]))
      whole == decode_audio_inner_channels(f, max)
  IN CASE f.channels # 2 -> [channels |-> f.channels, dual_mono |-> FALSE]
       [] f.channels = 2 /\ f.kind = "opus" ->
            [channels |-> Len(whole), dual_mono |-> is_dual_mono(f, whole)]
       [] OTHER ->
            [channels |-> 2, dual_mono |-> DualMono(f, last.pairs \o Paired(tail(1), tail(2)))]

mono_fallback_reason(scan) ==
  CASE scan.channels = 0 -> "no channels"
    [] scan.channels = 1 -> "mono audio"
    [] scan.channels = 2 /\ scan.dual_mono -> "dual-mono audio"
    [] scan.channels = 2 /\ ~scan.dual_mono -> "none"
    [] OTHER -> "more than two channels"

----------------------------------------------------------------------------
(* Properties.                                                             *)

\* Which frame of the track a sample is of.
FrameOf(f, sample) ==
  sample[2] + FoldLeft(LAMBDA n, p : IF f.packets[p].state = "other" THEN n ELSE n + f.packets[p].n,
                       0, [p \in 1 .. sample[1] - 1 |-> p])

\* What is read to its end is the whole file: every sample of the channel or
\* of the mix once and in order, of a file that decodes to an end a reader may
\* believe and within its budget; and a file is too long only if it is.  Each
\* sample is at the time of its frame, unless a packet is short of the channel:
\* file.rs:422 says that such a packet adds "nothing rather than shifting the
\* timeline", but what adds nothing moves all that follows forward by its length.
ReadingIsWhole ==
  LET ps == Heard(audio, limit).ps
      whole == FlattenSeq([k \in DOMAIN ps |-> Samples(audio, ps[k], channel)])
      read == FlattenSeq(buf)
      NoneShort == \A k \in DOMAIN ps :
                     Len(Samples(audio, ps[k], channel)) = audio.packets[ps[k]].n
  IN /\ result = "ok" =>
          /\ Outcome(audio, limit) = "ok" /\ read = whole
          /\ NoneShort => \A k \in DOMAIN read : FrameOf(audio, read[k]) = k
     /\ result = "toolong" => Heard(audio, limit).end = "toolong"
     /\ IsPrefix(read, whole)

\* One channel of a file is what the decode of all its channels makes of it: the
\* same samples, nothing where the file has no such channel, and the same chunks,
\* so that the resampled audio is the same.  The chunks not of a WAVE file:
\* file.rs:275 claims "same packet cadence" for it too, but the channel comes in
\* blocks of ryf (file.rs:284) and all of them in packets of symphonia
\* (channels.rs:184), so that away from 16 kHz the resampler is fed other chunks.
ChannelsAgree ==
  result = "ok" /\ channel # Mono =>
    LET all == decode_audio_inner_channels(audio, limit)
        one == IF channel < Len(all) THEN all[channel + 1] ELSE <<>>
    IN /\ FlattenSeq(buf) = FlattenSeq(one)
       /\ audio.native \/ audio.kind = "wave" \/ buf = one

\* A split file has two recordings: the scan says of a file, of whatever kind, what
\* the decoded channels say.  Not where a packet is short of a channel or has one
\* more: scan.rs:175 would "treat the stream as not dual-mono", but it breaks off and
\* answers with what came before (scan.rs:177).
ScanTellsChannels ==
  LET scan == scan_channels(audio, limit)
      all == decode_audio_inner_channels(audio, limit)
  IN /\ Outcome(audio, limit) = "ok"
     /\ \A p \in DOMAIN audio.packets : audio.packets[p].ch = audio.channels
     => /\ scan.channels = Len(all)
        /\ (mono_fallback_reason(scan) = "none") = (Len(all) = 2 /\ ~is_dual_mono(audio, all))

\* Reader and thread never wait for each other: the thread for room in the
\* channel, and the reader for the thread to end.
NeitherWaitsForOther ==
  ~(waveThread = "send" /\ rx /\ sent # <<>> /\ reader = "join")

AudioIsWhole ==
  /\ ReadingIsWhole
  /\ ChannelsAgree
  /\ ScanTellsChannels
  /\ NeitherWaitsForOther
=============================================================================
