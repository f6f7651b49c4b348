----------------------------- MODULE OpusPacket ------------------------------
(***************************************************************************)
(* The framing of Opus packets (inference/audio/opus/framing.rs) and the   *)
(* decode of a packet, frame by frame (opus.rs).                           *)
(*                                                                         *)
(* A packet is its code and duration, which the TOC byte has, and the bytes*)
(* behind it; the count byte of code 3 is the record of its fields.  A     *)
(* frame is where it begins and ends behind the TOC byte, counted from 0.  *)
(***************************************************************************)
EXTENDS Integers, Sequences, SequencesExt, FiniteSetsExt

CONSTANTS
  Wires,                     \* packets: [code, samples_per_frame, payload]
  LongLength,                \* 252: a length takes a second byte
  MaxByte,                   \* 255: the padding count goes on
  OPUS_MAX_FRAMES,
  OPUS_MAX_PACKET_SAMPLES

VARIABLES
  wire,       \* the packet
  handed,     \* frames given to the decoder
  pcm,        \* samples decoded
  packetEnd   \* "decoding", "decoded", "refused", "failed"

packetVars == <<wire, handed, pcm, packetEnd>>

Refused == [ok |-> FALSE, frames |-> <<>>]
Framed(frames) == [ok |-> TRUE, frames |-> frames]

\* A length at a place: itself and how many bytes it takes, 0 where it is cut off.
opus_frame_len(bytes, at, end) ==
  IF at >= end THEN [len |-> 0, used |-> 0]
  ELSE IF bytes[at + 1] < LongLength THEN [len |-> bytes[at + 1], used |-> 1]
  ELSE IF at + 1 >= end THEN [len |-> 0, used |-> 0]
  ELSE [len |-> bytes[at + 2] * 4 + bytes[at + 1], used |-> 2]

\* The padding: every full byte stands for one less and for more to come.
opus_padding_len(bytes, at) ==
  LET last == {k \in at .. Len(bytes) - 1 : bytes[k + 1] # MaxByte}
      k == CHOOSE k \in last : \A j \in last : k <= j
  IN IF last = {} THEN [len |-> 0, used |-> 0]
     ELSE [len |-> (k - at) * (MaxByte - 1) + bytes[k + 1], used |-> k - at + 1]

\* Frames of these sizes, one behind the other.
Adjacent(at, sizes) ==
  LET from[k \in 1 .. Len(sizes)] == IF k = 1 THEN at ELSE from[k - 1] + sizes[k - 1]
  IN [k \in DOMAIN sizes |-> <<from[k], from[k] + sizes[k]>>]

\* The lengths of all frames but the last, which takes what is left.
VbrSizes(bytes, from, end, count) ==
  LET read(s, k) ==
        LET l == opus_frame_len(bytes, s.at, end)
        IN IF ~s.ok \/ l.used = 0 THEN [s EXCEPT !.ok = FALSE]
           ELSE [s EXCEPT !.at = @ + l.used, !.sizes = Append(@, l.len), !.claimed = @ + l.len]
      all == FoldLeft(read, [ok |-> TRUE, at |-> from, sizes |-> <<>>, claimed |-> 0],
                      [k \in 1 .. count - 1 |-> k])
  IN [ok |-> all.ok /\ all.claimed <= end - all.at, at |-> all.at,
      sizes |-> Append(all.sizes, end - all.at - all.claimed)]

CbrSizes(from, end, count) ==
  [ok |-> (end - from) % count = 0, at |-> from,
   sizes |-> [k \in 1 .. count |-> (end - from) \div count]]

ManyFrames(bytes) ==
  LET count == bytes[1].count
      padding == IF bytes[1].padded THEN opus_padding_len(bytes, 1) ELSE [len |-> 0, used |-> 0]
      at == 1 + padding.used
      end == Len(bytes) - padding.len
      cut == IF bytes[1].vbr THEN VbrSizes(bytes, at, end, count) ELSE CbrSizes(at, end, count)
  IN IF \/ count \notin 1 .. OPUS_MAX_FRAMES
        \/ bytes[1].padded /\ padding.used = 0
        \/ at > end
        \/ ~cut.ok
     THEN Refused
     ELSE Framed(Adjacent(cut.at, cut.sizes))

TwoFrames(bytes) ==
  LET l == opus_frame_len(bytes, 0, Len(bytes))
  IN IF l.used = 0 \/ l.used + l.len > Len(bytes) THEN Refused
     ELSE Framed(Adjacent(l.used, <<l.len, Len(bytes) - l.used - l.len>>))

packet_samples(w, f) == w.samples_per_frame * Len(f.frames)

split_opus_packet(w) ==
  LET bytes == w.payload
      half == Len(bytes) \div 2
      cut == CASE w.code = 0 -> Framed(<<<<0, Len(bytes)>>>>)
               [] w.code = 1 -> IF Len(bytes) % 2 = 0 THEN Framed(Adjacent(0, <<half, half>>))
                                ELSE Refused
               [] w.code = 2 -> TwoFrames(bytes)
               [] OTHER -> IF bytes = <<>> THEN Refused ELSE ManyFrames(bytes)
  IN IF packet_samples(w, cut) > OPUS_MAX_PACKET_SAMPLES THEN Refused ELSE cut

----------------------------------------------------------------------------

PacketInit == wire \in Wires /\ handed = <<>> /\ pcm = 0 /\ packetEnd = "decoding"

Refuse ==
  /\ packetEnd = "decoding" /\ ~split_opus_packet(wire).ok
  /\ packetEnd' = "refused"
  /\ UNCHANGED <<wire, handed, pcm>>

\* The next frame goes to the decoder as a packet of its own, with the room
\* its predecessors left; the decoder may fill less of it, and what it says
\* beyond that does not count.
decode_packet_interleaved(written) ==
  LET f == split_opus_packet(wire)
  IN /\ packetEnd = "decoding" /\ f.ok /\ Len(handed) < Len(f.frames)
     /\ handed' = Append(handed, f.frames[Len(handed) + 1])
     /\ pcm' = pcm + Min({written, wire.samples_per_frame})
     /\ packetEnd' = IF Len(handed) + 1 = Len(f.frames) THEN "decoded" ELSE packetEnd
     /\ UNCHANGED wire

FrameFails ==
  /\ packetEnd = "decoding" /\ split_opus_packet(wire).ok
  /\ packetEnd' = "failed"
  /\ UNCHANGED <<wire, handed, pcm>>

PacketNext ==
  \/ Refuse
  \/ \E written \in {0, wire.samples_per_frame, wire.samples_per_frame + 1} :
       decode_packet_interleaved(written)
  \/ FrameFails

PacketSpec == PacketInit /\ [][PacketNext]_packetVars

----------------------------------------------------------------------------
(* What a packet of some frames looks like on the wire (RFC 6716, 3.2).    *)

Coded(n) ==
  IF n < LongLength THEN <<n>>
  ELSE LET first == LongLength + ((n - LongLength) % 4) IN <<first, (n - first) \div 4>>
PaddingCounts(n) ==
  {[k \in 1 .. full |-> MaxByte] \o <<n - full * (MaxByte - 1)>> :
     full \in {k \in 0 .. n : n - k * (MaxByte - 1) \in 0 .. MaxByte - 1}}
Equal(sizes) == \A k \in DOMAIN sizes : sizes[k] = sizes[1]
Total(sizes) == FoldLeft(LAMBDA a, b : a + b, 0, sizes)

\* The bytes before the frames, without the count byte; {} where the code
\* cannot carry frames of these sizes.
Headers(code, byte, sizes, padding) ==
  CASE code = 0 -> IF Len(sizes) = 1 THEN {<<>>} ELSE {}
    [] code = 1 -> IF Len(sizes) = 2 /\ Equal(sizes) THEN {<<>>} ELSE {}
    [] code = 2 -> IF Len(sizes) = 2 THEN {Coded(sizes[1])} ELSE {}
    [] OTHER ->
         IF Len(sizes) # byte.count \/ (~byte.vbr /\ ~Equal(sizes)) THEN {}
         ELSE {p \o (IF byte.vbr THEN FlattenSeq([k \in 1 .. Len(sizes) - 1 |-> Coded(sizes[k])])
                     ELSE <<>>) :
                 p \in (IF byte.padded THEN PaddingCounts(padding) ELSE {<<>>})}

\* All ways to read the packet as some frames: where they are.
Readings(w) ==
  LET bytes == w.payload
      many == w.code = 3
      lead == IF many THEN 1 ELSE 0
      byte == IF many THEN bytes[1] ELSE [count |-> 0, vbr |-> FALSE, padded |-> FALSE]
      counts == IF many THEN {byte.count} \cap (1 .. OPUS_MAX_FRAMES) ELSE {1, 2}
      sizes == UNION {[1 .. n -> 0 .. Len(bytes)] : n \in counts}
      paddings == IF byte.padded THEN 0 .. Len(bytes) ELSE {0}
      Fits(s, p, h) == /\ lead + Len(h) + Total(s) + p = Len(bytes)
                       /\ h = SubSeq(bytes, lead + 1, lead + Len(h))
  IN {Adjacent(lead + Len(r[3]), r[1]) :
        r \in {q \in UNION {{<<s, p, h>> : h \in Headers(w.code, byte, s, p)} :
                              s \in {t \in sizes : Total(t) <= Len(bytes)}, p \in paddings} :
                 Fits(q[1], q[2], q[3])}}

\* A packet is taken apart as RFC 6716 puts it together, and refused when it
\* is no packet of frames or lasts more than 120 ms: equal frames, explicit
\* lengths of one and of two bytes, and padding, whatever the bytes.  The
\* decoder is given all frames in order and fills no more than there is room.
FramesAreOfThePacket ==
  LET short == {f \in (IF wire.code = 3 /\ wire.payload = <<>> THEN {} ELSE Readings(wire)) :
                  wire.samples_per_frame * Len(f) <= OPUS_MAX_PACKET_SAMPLES}
  IN /\ packetEnd = "decoded" => short = {handed}
     /\ packetEnd = "refused" => short = {}
     /\ pcm <= Len(handed) * wire.samples_per_frame
=============================================================================
