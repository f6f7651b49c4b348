-------------------------- MODULE TranscriptProofs --------------------------
(***************************************************************************)
(* Proofs about what a client is told: of a live session (LiveText), for   *)
(* any engines, messages, vocabulary and length of an utterance, and of a  *)
(* file (FileRequest), for any requests, recordings and number of callers. *)
(*                                                                         *)
(* Live, the invariant says of each moment how four places agree: what the *)
(* client was told, what is on its way to it, what the run has come to and *)
(* what the assembler and the snapshot hold.  What is shown as immutable   *)
(* of one is always a prefix of the next.                                  *)
(*                                                                         *)
(* Of a file the invariant says of each request, part by part, how far it  *)
(* is: where its thread is, what the counter reads, what the snapshot has, *)
(* what is gathered, what came of its speakers.  A request touches nothing *)
(* of another but the slot of the speaker model.                           *)
(***************************************************************************)
EXTENDS LiveText, FileRequest, QueueLemmas, FiniteSetTheorems, TLAPS

\* A word of a text, a segment.
Tokens == [word : Vocabulary, passes : SUBSET {"itn", "punctuation"}]
SegmentRecords == [words : Seq(Vocabulary), text : Seq(Tokens), committed : Seq(Tokens),
                   tentative : Seq(Tokens), final : BOOLEAN, truncated : BOOLEAN]
Segments == {s \in SegmentRecords : /\ s.text = s.committed \o s.tentative
                                    /\ Unpassed(s.text) = s.words
                                    /\ s.final => s.tentative = <<>>}

\* What stays immutable of a segment; what the session shows as immutable of `words`.
Shown(s) == IF s.final THEN <<>> ELSE s.committed
Base(words) == IF resolved_commit_policy = "on_finalize" THEN <<>> ELSE Raw(words)

LastTold == IF out = <<>> THEN latest ELSE out[Len(out)]
HoldsFinal == answer # <<>> /\ answer[1].final

LiveTyped ==
  /\ kept \in Seq(Vocabulary) /\ tail \in Seq(Vocabulary) /\ frozen \in Seq(Vocabulary)
  /\ published \in Seq(Segments) /\ Len(published) <= 1
  /\ answer \in Seq(Segments) /\ Len(answer) <= 1
  /\ out \in Seq(Segments) /\ Len(out) <= 2
  /\ latest \in Segments /\ earlier \in Seq(Tokens)

\* Who works when; nothing was said before there was audio.
Phases ==
  /\ over => run = "none"
  /\ lost => over
  /\ run # "none" => out = <<>> /\ (audio_received \/ stopping)
  /\ run = "none" /\ ~over /\ ~audio_received =>
       kept = <<>> /\ frozen = <<>> /\ published = <<>> /\ out = <<>> /\ latest.final
  /\ run \notin {"back", "cleared"} => answer = <<>>

\* The segments told, and those about to be.
ToldInOrder ==
  ~lost =>
    /\ IsPrefix(earlier, latest.committed)
    /\ out # <<>> => IsPrefix(Shown(latest), out[1].committed)
    /\ Len(out) = 2 => IsPrefix(Shown(out[1]), out[2].committed)
    /\ LastTold.final => IsPrefix(frozen, LastTold.words)

\* The snapshot has what is kept.
SnapshotHasKept ==
  ~over =>
    IF published = <<>> THEN kept = <<>>
    ELSE /\ ~published[1].final /\ IsPrefix(kept, published[1].words)
         /\ IsPrefix(Base(kept), published[1].committed)

\* What the assembler keeps, the client has seen of it and the run has made of it.
AtWork ==
  ~over =>
    /\ run # "none" /\ LastTold.final => frozen = <<>>
    /\ ~HoldsFinal =>
         /\ IsPrefix(Shown(LastTold), Base(kept))
         /\ LastTold.final /\ answer = <<>> => kept = <<>>
         /\ run # "none" => IsPrefix(frozen, kept)
         /\ run = "cleared" \/ (run = "back" /\ stopping) => answer = <<>> /\ kept = <<>>
         /\ answer # <<>> => answer[1].committed = Base(kept)
    /\ HoldsFinal =>
         /\ kept = <<>> /\ published = <<>>
         /\ IsPrefix(Shown(LastTold), answer[1].committed)
         /\ IsPrefix(frozen, answer[1].words)

LiveInv == LiveTyped /\ Phases /\ ToldInOrder /\ SnapshotHasKept /\ AtWork

Fields == {"punctuation", "itn", "commit_policy", "endpoint_mode", "endpoint_silence",
           "min_silence", "diarization"}
ChoicesInv == DOMAIN settings = Fields /\ DOMAIN asked = Fields /\ ChoicesHold

-----------------------------------------------------------------------------
(* Prefixes.                                                               *)

\* IsPrefix, position by position.
LEMMA PrefixIs ==
  ASSUME NEW S, NEW s \in Seq(S), NEW t \in Seq(S)
  PROVE  IsPrefix(s, t) <=> Len(s) <= Len(t) /\ \A k \in 1 .. Len(s) : s[k] = t[k]
<1>1. Len(s) \in Nat /\ Len(t) \in Nat
  OBVIOUS
<1>2. SubSeq(s, 1, Len(s)) = s
  BY SubSeqFull
<1>3. ASSUME Len(s) <= Len(t)
      PROVE  SubSeq(t, 1, Len(s)) \in Seq(S) /\ Len(SubSeq(t, 1, Len(s))) = Len(s)
             /\ \A k \in 1 .. Len(s) : SubSeq(t, 1, Len(s))[k] = t[k]
  BY <1>1, <1>3
<1>4. ASSUME Len(s) <= Len(t), \A k \in 1 .. Len(s) : s[k] = t[k]
      PROVE  s = SubSeq(t, 1, Len(s))
  BY <1>1, <1>3, <1>4, SeqEqual
<1> QED BY <1>1, <1>2, <1>3, <1>4 DEF IsPrefix

\* What is a prefix of what.
LEMMA PrefixOf ==
  ASSUME NEW S, NEW s \in Seq(S), NEW t \in Seq(S)
  PROVE  /\ IsPrefix(s, s) /\ IsPrefix(<<>>, s) /\ IsPrefix(s, s \o t)
         /\ IsPrefix(s, <<>>) => s = <<>>
<1>1. <<>> \in Seq(S) /\ s \o t \in Seq(S) /\ Len(s) \in Nat /\ Len(t) \in Nat
  OBVIOUS
<1>a. \A u, v \in Seq(S) :
        IsPrefix(u, v) <=> Len(u) <= Len(v) /\ \A k \in 1 .. Len(u) : u[k] = v[k]
  BY PrefixIs
<1>b. Len(s \o t) = Len(s) + Len(t) /\ \A k \in 1 .. Len(s) : (s \o t)[k] = s[k]
  BY <1>1
<1>2. IsPrefix(s, s) /\ IsPrefix(<<>>, s)
  <2>1. Len(s) <= Len(s) /\ \A k \in 1 .. Len(s) : s[k] = s[k]
    BY <1>1
  <2>2. Len(<<>>) <= Len(s) /\ \A k \in 1 .. Len(<<>>) : <<>>[k] = s[k]
    BY <1>1
  <2> QED BY <1>1, <1>a, <2>1, <2>2
<1>3. IsPrefix(s, s \o t)
  <2>1. Len(s) <= Len(s \o t)
    BY <1>1, <1>b
  <2> QED BY <1>1, <1>a, <1>b, <2>1
<1>4. IsPrefix(s, <<>>) => s = <<>>
  BY <1>1 DEF IsPrefix
<1> QED BY <1>2, <1>3, <1>4

LEMMA PrefixThrough ==
  ASSUME NEW S, NEW s \in Seq(S), NEW t \in Seq(S), NEW u \in Seq(S),
         IsPrefix(s, t), IsPrefix(t, u)
  PROVE  IsPrefix(s, u)
BY PrefixIs

-----------------------------------------------------------------------------
(* Texts.                                                                  *)

\* Words as they are heard, before any pass.
LEMMA RawIs ==
  ASSUME NEW w \in Seq(Vocabulary)
  PROVE  /\ Raw(w) \in Seq(Tokens) /\ Len(Raw(w)) = Len(w) /\ Unpassed(Raw(w)) = w
         /\ \A k \in 1 .. Len(w) : Raw(w)[k] = [word |-> w[k], passes |-> {}]
<1>1. Len(w) \in Nat /\ DOMAIN w = 1 .. Len(w) /\ \A k \in 1 .. Len(w) : w[k] \in Vocabulary
  OBVIOUS
<1>2. \A k \in 1 .. Len(w) : [word |-> w[k], passes |-> {}] \in Tokens
  BY <1>1 DEF Tokens
<1>3. Raw(w) = [k \in 1 .. Len(w) |-> [word |-> w[k], passes |-> {}]]
  BY <1>1 DEF Raw
<1>4. Raw(w) \in [1 .. Len(w) -> Tokens]
  BY <1>2, <1>3
<1>5. Raw(w) \in Seq(Tokens) /\ Len(Raw(w)) = Len(w) /\ DOMAIN Raw(w) = 1 .. Len(w)
  BY <1>1, <1>4
<1>6. Unpassed(Raw(w)) = [k \in 1 .. Len(w) |-> Raw(w)[k].word]
  BY <1>5 DEF Unpassed
<1>7. \A k \in 1 .. Len(w) : Raw(w)[k].word = w[k]
  BY <1>3
<1>8. Unpassed(Raw(w)) = [k \in 1 .. Len(w) |-> w[k]]
  BY <1>6, <1>7
<1> QED BY <1>1, <1>3, <1>5, <1>8

\* Words behind a text, token by token.
LEMMA UnpassedIs ==
  ASSUME NEW s \in Seq(Tokens)
  PROVE  /\ Unpassed(s) \in Seq(Vocabulary) /\ Len(Unpassed(s)) = Len(s)
         /\ \A k \in 1 .. Len(s) : Unpassed(s)[k] = s[k].word
<1>1. Len(s) \in Nat /\ DOMAIN s = 1 .. Len(s) /\ \A k \in 1 .. Len(s) : s[k] \in Tokens
  OBVIOUS
<1>2. Unpassed(s) = [k \in 1 .. Len(s) |-> s[k].word]
  BY <1>1 DEF Unpassed
<1>3. Unpassed(s) \in [1 .. Len(s) -> Vocabulary]
  BY <1>1, <1>2 DEF Tokens
<1> QED BY <1>1, <1>2, <1>3

\* The words of two texts, one after the other.
LEMMA UnpassedConcat ==
  ASSUME NEW s \in Seq(Tokens), NEW t \in Seq(Tokens)
  PROVE  Unpassed(s \o t) = Unpassed(s) \o Unpassed(t)
<1> DEFINE a == Unpassed(s)
           b == Unpassed(t)
           c == Unpassed(s \o t)
<1>1. /\ s \o t \in Seq(Tokens) /\ Len(s \o t) = Len(s) + Len(t)
      /\ Len(s) \in Nat /\ Len(t) \in Nat
      /\ \A k \in 1 .. Len(s) : (s \o t)[k] = s[k]
      /\ \A k \in 1 .. Len(s) + Len(t) : k > Len(s) => (s \o t)[k] = t[k - Len(s)]
  BY ConcatProperties
<1>2. /\ a \in Seq(Vocabulary) /\ b \in Seq(Vocabulary) /\ c \in Seq(Vocabulary)
      /\ Len(a) = Len(s) /\ Len(b) = Len(t) /\ Len(c) = Len(s) + Len(t)
  BY <1>1, UnpassedIs
<1>3. \A k \in 1 .. Len(s) : c[k] = a[k]
  <2> SUFFICES ASSUME NEW k \in 1 .. Len(s) PROVE c[k] = a[k]
    OBVIOUS
  <2>1. k \in 1 .. Len(s \o t)
    BY <1>1
  <2> QED BY <1>1, <2>1, UnpassedIs
<1>4. \A k \in 1 .. Len(s) + Len(t) : k > Len(s) => c[k] = b[k - Len(s)]
  <2> SUFFICES ASSUME NEW k \in 1 .. Len(s) + Len(t), k > Len(s) PROVE c[k] = b[k - Len(s)]
    OBVIOUS
  <2>1. k - Len(s) \in 1 .. Len(t) /\ k \in 1 .. Len(s \o t)
    BY <1>1
  <2> QED BY ZenonT(60), <1>1, <2>1, UnpassedIs
<1> HIDE DEF a, b, c
<1>5. /\ a \o b \in Seq(Vocabulary) /\ Len(a \o b) = Len(a) + Len(b)
      /\ \A k \in 1 .. Len(a) + Len(b) :
           (a \o b)[k] = IF k <= Len(a) THEN a[k] ELSE b[k - Len(a)]
  <2>1. ASSUME NEW u \in Seq(Vocabulary), NEW v \in Seq(Vocabulary)
        PROVE  /\ u \o v \in Seq(Vocabulary) /\ Len(u \o v) = Len(u) + Len(v)
               /\ \A k \in 1 .. Len(u) + Len(v) :
                    (u \o v)[k] = IF k <= Len(u) THEN u[k] ELSE v[k - Len(u)]
    BY ConcatProperties
  <2> QED BY <1>2, <2>1
<1>6. \A k \in 1 .. Len(c) : c[k] = (a \o b)[k]
  BY <1>1, <1>2, <1>3, <1>4, <1>5
<1>7. c = a \o b
  BY <1>2, <1>5, <1>6, SeqEqual
<1> QED BY <1>7 DEF a, b, c

\* The text of words, one after the others.
LEMMA RawConcat ==
  ASSUME NEW s \in Seq(Vocabulary), NEW t \in Seq(Vocabulary)
  PROVE  Raw(s \o t) = Raw(s) \o Raw(t)
<1> DEFINE a == Raw(s)
           b == Raw(t)
           c == Raw(s \o t)
<1>1. /\ s \o t \in Seq(Vocabulary) /\ Len(s \o t) = Len(s) + Len(t)
      /\ Len(s) \in Nat /\ Len(t) \in Nat
      /\ \A k \in 1 .. Len(s) : (s \o t)[k] = s[k]
      /\ \A k \in 1 .. Len(s) + Len(t) : k > Len(s) => (s \o t)[k] = t[k - Len(s)]
  BY ConcatProperties
<1>2. /\ a \in Seq(Tokens) /\ b \in Seq(Tokens) /\ c \in Seq(Tokens)
      /\ Len(a) = Len(s) /\ Len(b) = Len(t) /\ Len(c) = Len(s) + Len(t)
  BY <1>1, RawIs
<1>3. \A k \in 1 .. Len(s) : c[k] = a[k]
  <2> SUFFICES ASSUME NEW k \in 1 .. Len(s) PROVE c[k] = a[k]
    OBVIOUS
  <2>1. k \in 1 .. Len(s \o t) /\ (s \o t)[k] = s[k]
    BY <1>1
  <2>2. c[k] = [word |-> (s \o t)[k], passes |-> {}] /\ a[k] = [word |-> s[k], passes |-> {}]
    BY <1>1, <2>1, RawIs
  <2> QED
    BY <2>1, <2>2
<1>4. \A k \in 1 .. Len(s) + Len(t) : k > Len(s) => c[k] = b[k - Len(s)]
  <2> SUFFICES ASSUME NEW k \in 1 .. Len(s) + Len(t), k > Len(s) PROVE c[k] = b[k - Len(s)]
    OBVIOUS
  <2>1. k - Len(s) \in 1 .. Len(t) /\ k \in 1 .. Len(s \o t) /\ (s \o t)[k] = t[k - Len(s)]
    BY <1>1
  <2>2. /\ c[k] = [word |-> (s \o t)[k], passes |-> {}]
        /\ b[k - Len(s)] = [word |-> t[k - Len(s)], passes |-> {}]
    BY <1>1, <2>1, RawIs
  <2> QED
    BY <2>1, <2>2
<1> HIDE DEF a, b, c
<1>5. /\ a \o b \in Seq(Tokens) /\ Len(a \o b) = Len(a) + Len(b)
      /\ \A k \in 1 .. Len(a) + Len(b) :
           (a \o b)[k] = IF k <= Len(a) THEN a[k] ELSE b[k - Len(a)]
  <2>1. ASSUME NEW u \in Seq(Tokens), NEW v \in Seq(Tokens)
        PROVE  /\ u \o v \in Seq(Tokens) /\ Len(u \o v) = Len(u) + Len(v)
               /\ \A k \in 1 .. Len(u) + Len(v) :
                    (u \o v)[k] = IF k <= Len(u) THEN u[k] ELSE v[k - Len(u)]
    BY ConcatProperties
  <2> QED BY <1>2, <2>1
<1>6. \A k \in 1 .. Len(c) : c[k] = (a \o b)[k]
  BY <1>1, <1>2, <1>3, <1>4, <1>5
<1>7. c = a \o b
  BY <1>2, <1>5, <1>6, SeqEqual
<1> QED BY <1>7 DEF a, b, c

\* The passes change no word's origin.
LEMMA PassedIs ==
  ASSUME NEW s \in Seq(Tokens)
  PROVE  /\ apply_text_postprocess(s) \in Seq(Tokens)
         /\ Unpassed(apply_text_postprocess(s)) = Unpassed(s)
<1> DEFINE p == apply_text_postprocess(s)
<1>1. Len(s) \in Nat /\ DOMAIN s = 1 .. Len(s) /\ \A k \in 1 .. Len(s) : s[k] \in Tokens
  OBVIOUS
<1>2. Passes \subseteq {"itn", "punctuation"}
  BY DEF Passes
<1>3. \A u \in Tokens : [u EXCEPT !.passes = @ \cup Passes] \in Tokens
                      /\ [u EXCEPT !.passes = @ \cup Passes].word = u.word
  BY <1>2 DEF Tokens
<1>4. p = [k \in 1 .. Len(s) |-> [s[k] EXCEPT !.passes = @ \cup Passes]]
  BY <1>1 DEF apply_text_postprocess
<1>5. p \in [1 .. Len(s) -> Tokens] /\ \A k \in 1 .. Len(s) : p[k].word = s[k].word
  BY <1>1, <1>3, <1>4
<1> HIDE DEF p
<1>6. p \in Seq(Tokens) /\ Len(p) = Len(s)
  BY <1>1, <1>5
<1>7. Unpassed(p) = Unpassed(s)
  BY <1>1, <1>5, <1>6 DEF Unpassed
<1> QED BY <1>6, <1>7 DEF p

-----------------------------------------------------------------------------
(* Segments.                                                               *)

\* What is shown as immutable grows with what is kept.
LEMMA BaseIs ==
  ASSUME NEW w \in Seq(Vocabulary), NEW l \in Seq(Vocabulary)
  PROVE  /\ Base(w) \in Seq(Tokens) /\ Base(<<>>) = <<>>
         /\ IsPrefix(Base(w), Base(w \o l))
<1>1. Raw(w) \in Seq(Tokens) /\ Raw(l) \in Seq(Tokens) /\ Raw(w \o l) = Raw(w) \o Raw(l)
  BY RawIs, RawConcat
<1>2. \A s, u \in Seq(Tokens) : IsPrefix(s, s \o u)
  BY PrefixOf
<1>3. IsPrefix(<<>>, <<>>)
  BY DEF IsPrefix
<1>4. <<>> \in Seq(Vocabulary) /\ Len(<<>>) = 0
  OBVIOUS
<1>5. Raw(<<>>) \in Seq(Tokens) /\ Len(Raw(<<>>)) = 0
  BY <1>4, RawIs
<1>6. Raw(<<>>) = <<>>
  BY <1>5
<1> QED BY <1>1, <1>2, <1>3, <1>6 DEF Base

\* The Finals that say nothing.
LEMMA EmptyIs ==
  /\ empty_final \in Segments /\ empty_final.final /\ empty_final.words = <<>>
  /\ empty_final.committed = <<>>
  /\ empty_truncated_final \in Segments /\ empty_truncated_final.final
  /\ empty_truncated_final.words = <<>> /\ empty_truncated_final.committed = <<>>
<1>1. <<>> \in Seq(Tokens) /\ <<>> \in Seq(Vocabulary) /\ Len(<<>>) = 0
  OBVIOUS
<1>2. <<>> \o <<>> = <<>>
  BY <1>1, ConcatEmptySeq
<1>3. Unpassed(<<>>) \in Seq(Vocabulary) /\ Len(Unpassed(<<>>)) = 0
  BY <1>1, UnpassedIs
<1>4. Unpassed(<<>>) = <<>>
  BY <1>3
<1> QED BY <1>1, <1>2, <1>4
    DEF empty_final, empty_truncated_final, Segment, Segments, SegmentRecords

\* A partial, a Final, by their parts.
Shows(w, c, u) == Segment(w, c, u, FALSE)
Ends(w, c) == Segment(w, c, <<>>, TRUE)
Spell(c, u, w) == Unpassed(c \o u) = w
IsPartial(s, w, c) == s \in Segments /\ ~s.final /\ s.words = w /\ s.committed = c

LEMMA PartialSegment ==
  ASSUME NEW w \in Seq(Vocabulary), NEW c \in Seq(Tokens),
         NEW u \in Seq(Tokens), Spell(c, u, w)
  PROVE  IsPartial(Shows(w, c, u), w, c)
<1> DEFINE s == Shows(w, c, u)
           x == c \o u
<1>0. x \in Seq(Tokens) /\ x = c \o u /\ Unpassed(x) = w
  BY DEF Spell
<1> HIDE DEF x
<1>1. s = [words |-> w, text |-> x, committed |-> c, tentative |-> u, final |-> FALSE,
           truncated |-> FALSE]
  BY <1>0 DEF Segment, Shows
<1> HIDE DEF s
<1>2. u \in Seq(Tokens)
  OBVIOUS
<1>3. s \in SegmentRecords
  BY <1>0, <1>1, <1>2 DEF SegmentRecords
<1>4. s.text = s.committed \o s.tentative /\ Unpassed(s.text) = s.words
      /\ (s.final => s.tentative = <<>>)
  BY <1>0, <1>1
<1>5. s \in Segments
  BY <1>3, <1>4 DEF Segments
<1>6. s.words = w /\ s.committed = c /\ ~s.final
  BY <1>1
<1> QED BY <1>5, <1>6 DEF s, IsPartial

\* A Final has all committed.
LEMMA FinalSegment ==
  ASSUME NEW w \in Seq(Vocabulary), NEW c \in Seq(Tokens),
         NEW x \in Seq(Tokens), x = c \o <<>>, Unpassed(x) = w
  PROVE  /\ Ends(w, c) \in Segments /\ Ends(w, c).words = w
         /\ Ends(w, c).committed = c /\ Ends(w, c).final
<1> DEFINE s == Ends(w, c)
<1>1. s = [words |-> w, text |-> x, committed |-> c, tentative |-> <<>>, final |-> TRUE,
           truncated |-> FALSE]
  BY DEF Segment, Ends
<1> HIDE DEF s
<1>2. <<>> \in Seq(Tokens)
  OBVIOUS
<1>3. s \in SegmentRecords
  BY <1>1, <1>2 DEF SegmentRecords
<1>4. s.text = s.committed \o s.tentative /\ Unpassed(s.text) = s.words
      /\ (s.final => s.tentative = <<>>)
  BY <1>1
<1>5. s \in Segments
  BY <1>3, <1>4 DEF Segments
<1>6. s.words = w /\ s.committed = c /\ s.final
  BY <1>1
<1> QED BY <1>5, <1>6 DEF s

\* A partial shows as immutable what the policy allows of what is kept.
LEMMA PartialIs ==
  ASSUME NEW w \in Seq(Vocabulary), NEW l \in Seq(Vocabulary)
  PROVE  /\ stream_partial(w, l) \in Segments /\ ~stream_partial(w, l).final
         /\ stream_partial(w, l).words = w \o l /\ stream_partial(w, l).committed = Base(w)
<1> DEFINE v == w \o l
           all == Raw(v)
           stable == Raw(w)
           live == Raw(l)
<1>1. v \in Seq(Vocabulary) /\ <<>> \in Seq(Tokens)
  OBVIOUS
<1>2. stable \in Seq(Tokens) /\ live \in Seq(Tokens)
  BY RawIs
<1>3. all = stable \o live
  BY RawConcat
<1>4. stream_partial(w, l) = IF resolved_commit_policy = "on_finalize"
                             THEN Shows(v, <<>>, all) ELSE Shows(v, stable, live)
  BY DEF stream_partial, Shows
<1>5. Base(w) = IF resolved_commit_policy = "on_finalize" THEN <<>> ELSE stable
  BY DEF Base
<1> HIDE DEF v
<1>6. all \in Seq(Tokens) /\ Unpassed(all) = v
  BY <1>1, RawIs
<1> HIDE DEF all, stable, live
<1>7. all = <<>> \o all
  BY <1>6, ConcatEmptySeq
<1>8. Spell(<<>>, all, v) /\ Spell(stable, live, v)
  BY <1>3, <1>6, <1>7 DEF Spell
<1>9. IsPartial(Shows(v, <<>>, all), v, <<>>)
  BY <1>1, <1>6, <1>8, PartialSegment
<1>10. IsPartial(Shows(v, stable, live), v, stable)
  BY <1>1, <1>2, <1>8, PartialSegment
<1>11. v = w \o l
  BY DEF v
<1>12. IsPartial(stream_partial(w, l), v, Base(w))
  BY <1>4, <1>5, <1>9, <1>10
<1> QED BY <1>11, <1>12 DEF IsPartial

\* A Final has every word, and what was immutable first.
LEMMA FinalIs ==
  ASSUME NEW w \in Seq(Vocabulary), NEW l \in Seq(Vocabulary)
  PROVE  /\ finalize_stream_segment(w, l) \in Segments /\ finalize_stream_segment(w, l).final
         /\ finalize_stream_segment(w, l).words = w \o l
         /\ IsPrefix(Base(w), finalize_stream_segment(w, l).committed)
<1> DEFINE p == stream_partial(w, l)
           c == p.committed
           a == apply_text_postprocess(p.tentative)
<1>1. /\ p \in SegmentRecords /\ p.words = w \o l /\ c = Base(w)
      /\ p.text = c \o p.tentative /\ Unpassed(p.text) = p.words
  BY PartialIs DEF Segments
<1>2. c \in Seq(Tokens) /\ p.tentative \in Seq(Tokens) /\ p.words \in Seq(Vocabulary)
  BY <1>1 DEF SegmentRecords
<1>3. a \in Seq(Tokens) /\ Unpassed(a) = Unpassed(p.tentative)
  BY <1>2, PassedIs
<1>4. finalize_stream_segment(w, l) = Ends(w \o l, c \o a)
  BY DEF finalize_stream_segment, Ends
<1>5. Unpassed(c \o a) = w \o l
  <2>1. Unpassed(c \o a) = Unpassed(c) \o Unpassed(p.tentative)
    BY <1>2, <1>3, UnpassedConcat
  <2>2. Unpassed(c \o p.tentative) = Unpassed(c) \o Unpassed(p.tentative)
    BY <1>2, UnpassedConcat
  <2> QED BY <1>1, <2>1, <2>2
<1> HIDE DEF a, c, p
<1>6. c \o a \in Seq(Tokens) /\ <<>> \in Seq(Tokens) /\ w \o l \in Seq(Vocabulary)
  BY <1>2, <1>3
<1>7. (c \o a) \o <<>> = c \o a
  BY <1>6, ConcatEmptySeq
<1>8. IsPrefix(c, c \o a)
  BY <1>2, <1>3, PrefixOf
<1> DEFINE b == c \o a
<1> HIDE DEF b
<1>9. /\ b \in Seq(Tokens) /\ b \o <<>> = b /\ Unpassed(b) = w \o l /\ IsPrefix(c, b)
      /\ finalize_stream_segment(w, l) = Ends(w \o l, b)
  BY <1>4, <1>5, <1>6, <1>7, <1>8 DEF b
<1> DEFINE v == w \o l
<1> HIDE DEF v
<1>10. v \in Seq(Vocabulary) /\ Unpassed(b) = v /\ b = b \o <<>>
  BY <1>6, <1>9 DEF v
<1>11. /\ Ends(v, b) \in Segments /\ Ends(v, b).words = v
       /\ Ends(v, b).committed = b /\ Ends(v, b).final
  BY <1>6, <1>9, <1>10, FinalSegment
<1>12. v = w \o l
  BY DEF v
<1> QED BY <1>1, <1>9, <1>11, <1>12

\* A segment made the last one loses nothing.
LEMMA TruncatedIs ==
  ASSUME NEW s \in Segments
  PROVE  /\ into_truncated_final(s) \in Segments /\ into_truncated_final(s).final
         /\ into_truncated_final(s).words = s.words
         /\ into_truncated_final(s).committed = s.text
         /\ IsPrefix(s.committed, s.text)
<1>1. /\ s \in SegmentRecords /\ s.text \in Seq(Tokens) /\ s.committed \in Seq(Tokens)
      /\ s.tentative \in Seq(Tokens) /\ s.text = s.committed \o s.tentative
      /\ Unpassed(s.text) = s.words
  BY DEF Segments, SegmentRecords
<1>2. s.text \o <<>> = s.text /\ <<>> \in Seq(Tokens)
  BY <1>1, ConcatEmptySeq
<1>3. IsPrefix(s.committed, s.text)
  BY <1>1, PrefixOf
<1>4. /\ into_truncated_final(s) \in SegmentRecords /\ into_truncated_final(s).final
      /\ into_truncated_final(s).words = s.words /\ into_truncated_final(s).text = s.text
      /\ into_truncated_final(s).committed = s.text /\ into_truncated_final(s).tentative = <<>>
  BY <1>1, <1>2 DEF into_truncated_final, SegmentRecords
<1> QED BY <1>1, <1>2, <1>3, <1>4 DEF Segments

\* A segment shows what it has committed, or, once it is final, nothing of the next.
LEMMA ShownIs ==
  ASSUME NEW s \in Segments
  PROVE  Shown(s) \in Seq(Tokens) /\ s.committed \in Seq(Tokens) /\ s.words \in Seq(Vocabulary)
BY DEF Shown, Segments, SegmentRecords

-----------------------------------------------------------------------------
(* What the steps of the session need.                                     *)

\* Prefixes of texts and of words, for use in the steps.
LEMMA TokenPrefixes ==
  /\ \A s, t, u \in Seq(Tokens) : IsPrefix(s, t) /\ IsPrefix(t, u) => IsPrefix(s, u)
  /\ \A s \in Seq(Tokens) : IsPrefix(s, s) /\ IsPrefix(<<>>, s)
BY PrefixThrough, PrefixOf

LEMMA WordPrefixes ==
  /\ \A s, t, u \in Seq(Vocabulary) : IsPrefix(s, t) /\ IsPrefix(t, u) => IsPrefix(s, u)
  /\ \A s \in Seq(Vocabulary) :
       IsPrefix(s, s) /\ IsPrefix(<<>>, s) /\ (IsPrefix(s, <<>>) => s = <<>>)
BY PrefixThrough, PrefixOf

\* The snapshot and the answer are a segment, if any.
LEMMA FewSegments ==
  ASSUME NEW s \in Seq(Segments)
  PROVE  /\ s # <<>> => s[1] \in Segments /\ Len(s) >= 1
         /\ Len(s) <= 1 => s = <<>> \/ s = <<s[1]>>
         /\ s # <<>> /\ Len(s) <= 1 => Len(s) = 1 /\ s[Len(s)] = s[1] /\ s = <<s[1]>>
<1>1. s # <<>> => s[1] \in Segments /\ Len(s) >= 1
  OBVIOUS
<1>2. s # <<>> /\ Len(s) <= 1 => Len(s) = 1
  <2>1. Len(s) \in Nat
    OBVIOUS
  <2> QED BY <1>1, <2>1
<1>3. ASSUME Len(s) = 1, s[1] \in Segments
      PROVE  s = <<s[1]>>
  <2>1. <<s[1]>> \in Seq(Segments) /\ Len(<<s[1]>>) = 1 /\ <<s[1]>>[1] = s[1]
    BY <1>3
  <2>2. \A k \in 1 .. Len(s) : s[k] = <<s[1]>>[k]
    BY <1>3, <2>1
  <2> QED BY <1>3, <2>1, <2>2, SeqEqual
<1> QED BY <1>1, <1>2, <1>3

\* The policy is the session's: as long as its settings are what they were.
LEMMA SamePolicy ==
  ASSUME settings' = settings, boot' = boot
  PROVE  resolved_commit_policy' = resolved_commit_policy
BY DEF resolved_commit_policy, Passes, ItnOn, PunctuationOn

\* A step of the run tells nothing, and changes no choice.
LEMMA RunTells ==
  ASSUME LiveInv, RunMoves
  PROVE  /\ ToldInOrder' /\ LastTold' = LastTold
         /\ resolved_commit_policy' = resolved_commit_policy
         /\ UNCHANGED <<settings, boot, asked, audio_received, stopping, out, over, latest,
                        earlier, lost, frozen>>
         /\ ~over
<1>1. UNCHANGED <<settings, boot, asked, audio_received, stopping, out, over, latest, earlier,
                  lost, frozen>> /\ ~over
  BY DEF RunMoves, configVars, toldVars
<1>2. ToldInOrder' /\ LastTold' = LastTold
  BY <1>1 DEF LiveInv, ToldInOrder, LastTold, Shown
<1> QED BY <1>1, <1>2, SamePolicy

\* A step of the run that keeps what is kept, and has come to no answer.
LEMMA RunGoesOn ==
  ASSUME LiveInv, RunMoves, run \in {"decoding", "decoded"},
         run' \in {"decoded", "failed", "panicked", "back"},
         run' = "back" /\ stopping => kept = <<>>,
         kept' = kept, tail' \in Seq(Vocabulary), answer' = answer,
         \/ published' = published
         \/ \E live \in Seq(Vocabulary) : published' = <<stream_partial(kept, live)>>
  PROVE  LiveInv'
<1>1. /\ ToldInOrder' /\ LastTold' = LastTold
      /\ resolved_commit_policy' = resolved_commit_policy
      /\ UNCHANGED <<audio_received, stopping, out, over, latest, earlier, lost, frozen>>
      /\ ~over
  BY RunTells
<1>2. kept \in Seq(Vocabulary) /\ Base(kept) \in Seq(Tokens)
  BY BaseIs DEF LiveInv, LiveTyped
<1>3. Base(kept)' = Base(kept)
  BY <1>1 DEF Base
<1>4. /\ published' \in Seq(Segments) /\ Len(published') <= 1
      /\ SnapshotHasKept'
  <2>1. CASE published' = published
    BY <1>1, <1>3, <2>1 DEF LiveInv, LiveTyped, SnapshotHasKept
  <2>2. ASSUME NEW live \in Seq(Vocabulary), published' = <<stream_partial(kept, live)>>
        PROVE  /\ published' \in Seq(Segments) /\ Len(published') <= 1 /\ SnapshotHasKept'
    <3> DEFINE p == stream_partial(kept, live)
    <3>1. p \in Segments /\ ~p.final /\ p.words = kept \o live /\ p.committed = Base(kept)
      BY <1>2, PartialIs
    <3>2. published' = <<p>>
      BY <2>2
    <3>3. IsPrefix(kept, kept \o live)
      BY <1>2, PrefixOf
    <3>4. IsPrefix(Base(kept), Base(kept))
      BY <1>2, TokenPrefixes
    <3> HIDE DEF p
    <3>5. /\ published' \in Seq(Segments) /\ Len(published') = 1 /\ published'[1] = p
          /\ published' # <<>>
      BY <3>1, <3>2
    <3>6. published'[1].final = p.final /\ published'[1].words = p.words
          /\ published'[1].committed = p.committed
      BY <3>5
    <3>7. IsPrefix(kept, published[1].words)' /\ IsPrefix(Base(kept), published[1].committed)'
      BY <1>3, <3>1, <3>3, <3>4, <3>6
    <3>8. ~published'[1].final
      BY <3>1, <3>5
    <3> QED BY <3>5, <3>7, <3>8 DEF SnapshotHasKept
  <2> QED BY <2>1, <2>2
<1>5. LiveTyped'
  BY <1>1, <1>4 DEF LiveInv, LiveTyped
<1>6. answer = <<>>
  BY DEF LiveInv, Phases
<1>7. Phases'
  BY <1>1, <1>6 DEF LiveInv, Phases
<1>8. AtWork'
  BY <1>1, <1>3, <1>6 DEF LiveInv, Phases, AtWork, HoldsFinal
<1> QED BY <1>1, <1>4, <1>5, <1>7, <1>8 DEF LiveInv

\* The last segment told, or about to be.
LEMMA LastSegment ==
  ASSUME LiveTyped
  PROVE  LastTold \in Segments /\ (out = <<>> => LastTold = latest)
BY DEF LiveTyped, LastTold

\* Nothing was said only if nothing is kept.
LEMMA EmptyWords ==
  ASSUME NEW s \in Seq(Vocabulary), NEW t \in Seq(Vocabulary), s \o t = <<>>
  PROVE  s = <<>> /\ t = <<>>
<1>1. Len(s \o t) = Len(s) + Len(t) /\ Len(s) \in Nat /\ Len(t) \in Nat
  OBVIOUS
<1>2. Len(s \o t) = 0
  OBVIOUS
<1> QED BY <1>1, <1>2

\* The steps of the run, one by one.
LEMMA RunWaitsKeeps ==
  ASSUME LiveInv, RunWaits PROVE LiveInv'
BY RunGoesOn DEF RunWaits, assembler, LiveInv, LiveTyped, RunMoves

LEMMA RunHearsKeeps ==
  ASSUME LiveInv, RunHears PROVE LiveInv'
<1>1. PICK n \in 0 .. (MaxWords - Len(kept)) : \E live \in [1 .. n -> Vocabulary] :
        /\ set_words(live)
        /\ IF stopping THEN UNCHANGED published ELSE publish_stream_partial(kept, live)
  BY DEF RunHears
<1>2. PICK live \in [1 .. n -> Vocabulary] :
        /\ set_words(live)
        /\ IF stopping THEN UNCHANGED published ELSE publish_stream_partial(kept, live)
  BY <1>1
<1>3. n \in Nat /\ live \in Seq(Vocabulary)
  <2>1. Len(kept) \in Nat
    BY DEF LiveInv, LiveTyped
  <2>2. n \in Nat
    BY <2>1, LiveAssumption
  <2> QED BY <2>2
<1>4. /\ tail' = live /\ kept' = kept
      /\ published' = published \/ published' = <<stream_partial(kept, live)>>
  BY <1>2 DEF set_words, publish_stream_partial
<1>5. RunMoves /\ run = "decoding" /\ run' = "decoded" /\ answer' = answer
  BY DEF RunHears
<1> QED BY <1>3, <1>4, <1>5, RunGoesOn

LEMMA NothingToDecodeKeeps ==
  ASSUME LiveInv, NothingToDecode PROVE LiveInv'
BY RunGoesOn DEF NothingToDecode, assembler, LiveInv, LiveTyped, RunMoves

LEMMA RunFailsKeeps ==
  ASSUME LiveInv, RunFails PROVE LiveInv'
<1>1. tail \in Seq(Vocabulary)
  BY DEF LiveInv, LiveTyped
<1> QED BY <1>1, RunGoesOn DEF RunFails, assembler, publish_stream_partial

LEMMA RunPanicsKeeps ==
  ASSUME LiveInv, RunPanics PROVE LiveInv'
<1>1. tail \in Seq(Vocabulary)
  BY DEF LiveInv, LiveTyped
<1> QED BY <1>1, RunGoesOn DEF RunPanics, assembler, publish_stream_partial

LEMMA NothingToFlushKeeps ==
  ASSUME LiveInv, NothingToFlush PROVE LiveInv'
<1>1. tail \in Seq(Vocabulary) /\ kept \in Seq(Vocabulary) /\ kept \o tail = <<>>
  BY DEF LiveInv, LiveTyped, NothingToFlush
<1>2. kept = <<>>
  BY <1>1, EmptyWords
<1> QED BY <1>1, <1>2, RunGoesOn DEF NothingToFlush, assembler

\* A step of the run that comes to what is shown of the words: as a partial.
LEMMA PartialAnswer ==
  ASSUME LiveInv, RunMoves, run = "decoded", run' = "back", ~stopping,
         kept' \in Seq(Vocabulary), tail' \in Seq(Vocabulary),
         IsPrefix(kept, kept'), IsPrefix(Base(kept), Base(kept')),
         answer' = Partial(kept', tail'),
         \/ published' = published /\ kept' = kept
         \/ published' = <<stream_partial(kept', tail')>>
  PROVE  LiveInv'
<1> DEFINE w == kept'
           p == stream_partial(w, tail')
<1>1. /\ ToldInOrder' /\ LastTold' = LastTold
      /\ resolved_commit_policy' = resolved_commit_policy
      /\ UNCHANGED <<audio_received, stopping, out, over, latest, earlier, lost, frozen>>
      /\ ~over
  BY RunTells
<1>2. kept \in Seq(Vocabulary) /\ Base(kept) \in Seq(Tokens) /\ Base(w) \in Seq(Tokens)
  BY BaseIs DEF LiveInv, LiveTyped
<1>3. Base(kept)' = Base(w)
  BY <1>1 DEF Base
<1>4. p \in Segments /\ ~p.final /\ p.words = w \o tail' /\ p.committed = Base(w)
  BY PartialIs
<1>5. IsPrefix(w, w \o tail') /\ IsPrefix(Base(w), Base(w))
  BY <1>2, PrefixOf, TokenPrefixes
<1>6. answer' = IF w \o tail' = <<>> THEN <<>> ELSE <<p>>
  BY DEF Partial
<1>7. w \o tail' = <<>> => w = <<>>
  BY EmptyWords
<1> HIDE DEF p
<1>8. answer' \in Seq(Segments) /\ Len(answer') <= 1
      /\ (answer' = <<>> => w = <<>>)
      /\ (answer' # <<>> => answer'[1] = p)
  BY <1>4, <1>6, <1>7
<1>9. published' \in Seq(Segments) /\ Len(published') <= 1 /\ SnapshotHasKept'
  <2>1. CASE published' = published /\ kept' = kept
    BY <1>1, <1>3, <2>1 DEF LiveInv, LiveTyped, SnapshotHasKept
  <2>2. CASE published' = <<p>>
    <3>1. /\ published' \in Seq(Segments) /\ Len(published') = 1 /\ published'[1] = p
          /\ published' # <<>>
      BY <1>4, <2>2
    <3>2. published'[1].final = p.final /\ published'[1].words = p.words
          /\ published'[1].committed = p.committed
      BY <3>1
    <3>3. IsPrefix(kept, published[1].words)' /\ IsPrefix(Base(kept), published[1].committed)'
      BY <1>3, <1>4, <1>5, <3>2
    <3>4. ~published'[1].final
      BY <1>4, <3>1
    <3> QED BY <3>1, <3>3, <3>4 DEF SnapshotHasKept
  <2> QED BY <2>1, <2>2 DEF p
<1>10. LiveTyped'
  BY <1>1, <1>8, <1>9 DEF LiveInv, LiveTyped
<1>11. Phases'
  BY <1>1 DEF LiveInv, Phases
<1>12. answer = <<>>
  BY DEF LiveInv, Phases
<1>13. IsPrefix(Shown(LastTold), Base(kept)) /\ IsPrefix(frozen, kept)
       /\ (LastTold.final => frozen = <<>>)
  BY <1>1, <1>12 DEF LiveInv, AtWork, HoldsFinal
<1>14. Shown(LastTold) \in Seq(Tokens) /\ frozen \in Seq(Vocabulary)
  BY LastSegment, ShownIs DEF LiveInv, LiveTyped
<1>15. IsPrefix(Shown(LastTold), Base(w)) /\ IsPrefix(frozen, w)
  BY <1>2, <1>13, <1>14, TokenPrefixes, WordPrefixes
<1>16. IsPrefix(Shown(LastTold), Base(kept))' /\ IsPrefix(frozen, kept)'
       /\ (LastTold.final => frozen = <<>>)'
  BY <1>1, <1>3, <1>13, <1>15 DEF Shown
<1>17. ~HoldsFinal' /\ (answer' # <<>> => (answer[1].committed = Base(kept))')
  BY <1>3, <1>4, <1>8 DEF HoldsFinal
<1>18. AtWork'
  BY <1>1, <1>8, <1>16, <1>17 DEF AtWork
<1> QED BY <1>1, <1>9, <1>10, <1>11, <1>18 DEF LiveInv

LEMMA RunShowsPartialKeeps ==
  ASSUME LiveInv, RunShowsPartial PROVE LiveInv'
<1>1. kept \in Seq(Vocabulary) /\ tail \in Seq(Vocabulary) /\ Base(kept) \in Seq(Tokens)
  BY BaseIs DEF LiveInv, LiveTyped
<1>2. /\ kept' = kept /\ tail' = tail /\ published' = published /\ RunMoves
      /\ run = "decoded" /\ run' = "back" /\ ~stopping /\ answer' = Partial(kept', tail')
  BY DEF RunShowsPartial, assembler
<1>3. IsPrefix(kept, kept') /\ IsPrefix(Base(kept), Base(kept'))
  BY <1>1, <1>2, TokenPrefixes, WordPrefixes
<1> QED BY <1>1, <1>2, <1>3, PartialAnswer

LEMMA RunCommitsKeeps ==
  ASSUME LiveInv, RunCommits PROVE LiveInv'
<1>1. kept \in Seq(Vocabulary) /\ tail \in Seq(Vocabulary) /\ Len(tail) \in Nat
  BY DEF LiveInv, LiveTyped
<1>2. PICK n \in 0 .. Len(tail) : commit_prefix(n)
  <2>1. Len(tail) \in 0 .. Len(tail)
    BY <1>1
  <2> QED BY <2>1 DEF RunCommits, commit_live
<1>3. /\ SubSeq(tail, 1, n) \in Seq(Vocabulary)
      /\ SubSeq(tail, n + 1, Len(tail)) \in Seq(Vocabulary)
  BY <1>1
<1>4. kept' = kept \o SubSeq(tail, 1, n) /\ kept' \in Seq(Vocabulary) /\ tail' \in Seq(Vocabulary)
  BY <1>1, <1>2, <1>3 DEF commit_prefix
<1>5. IsPrefix(kept, kept') /\ IsPrefix(Base(kept), Base(kept'))
  BY <1>1, <1>3, <1>4, PrefixOf, BaseIs
<1>6. /\ published' = <<stream_partial(kept', tail')>> /\ RunMoves
      /\ run = "decoded" /\ run' = "back" /\ ~stopping /\ answer' = Partial(kept', tail')
  BY DEF RunCommits, publish_stream_partial
<1> QED BY <1>4, <1>5, <1>6, PartialAnswer

\* Assembler and snapshot are empty while the Final is in the hands of the run.
LEMMA RunEndsUtteranceKeeps ==
  ASSUME LiveInv, RunEndsUtterance PROVE LiveInv'
<1> DEFINE f == finalize_stream_segment(kept, tail)
<1>1. /\ ToldInOrder' /\ LastTold' = LastTold
      /\ resolved_commit_policy' = resolved_commit_policy
      /\ UNCHANGED <<audio_received, stopping, out, over, latest, earlier, lost, frozen>>
      /\ ~over
  BY RunTells DEF RunEndsUtterance
<1>2. /\ kept \in Seq(Vocabulary) /\ tail \in Seq(Vocabulary) /\ kept \o tail \in Seq(Vocabulary)
      /\ Base(kept) \in Seq(Tokens) /\ Base(<<>>) = <<>>
  BY BaseIs DEF LiveInv, LiveTyped
<1>3. Base(kept') = <<>> /\ Base(kept)' = <<>>
  BY <1>1, <1>2 DEF Base, RunEndsUtterance
<1>4. /\ f \in Segments /\ f.final /\ f.words = kept \o tail /\ IsPrefix(Base(kept), f.committed)
  BY <1>2, FinalIs
<1>5. f.committed \in Seq(Tokens)
  BY <1>4, ShownIs
<1>6. answer' = (IF kept \o tail = <<>> THEN <<>> ELSE <<f>>) /\ kept' = <<>> /\ tail' = <<>>
      /\ published' = <<>> /\ run = "decoded" /\ run' = "cleared"
  BY DEF RunEndsUtterance, clear, NoSnapshot
<1>7. kept \o tail = <<>> => kept = <<>>
  BY <1>2, EmptyWords
<1>8. IsPrefix(kept, kept \o tail)
  BY <1>2, PrefixOf
<1> HIDE DEF f
<1>9. answer' \in Seq(Segments) /\ Len(answer') <= 1
      /\ (answer' = <<>> => kept = <<>>)
      /\ (answer' # <<>> => answer'[1] = f)
  BY <1>4, <1>6, <1>7
<1>10. <<>> \in Seq(Vocabulary) /\ <<>> \in Seq(Segments) /\ Len(<<>>) = 0
  OBVIOUS
<1>11. LiveTyped'
  BY <1>1, <1>6, <1>9, <1>10 DEF LiveInv, LiveTyped
<1>12. Phases'
  BY <1>1, <1>6 DEF LiveInv, Phases
<1>13. SnapshotHasKept'
  BY <1>6 DEF SnapshotHasKept
<1>14. answer = <<>>
  BY <1>6 DEF LiveInv, Phases
<1>15. IsPrefix(Shown(LastTold), Base(kept)) /\ IsPrefix(frozen, kept)
       /\ (LastTold.final => frozen = <<>>)
  BY <1>1, <1>6, <1>14 DEF LiveInv, AtWork, HoldsFinal
<1>16. Shown(LastTold) \in Seq(Tokens) /\ frozen \in Seq(Vocabulary)
  BY LastSegment, ShownIs DEF LiveInv, LiveTyped
<1>17. IsPrefix(Shown(LastTold), f.committed) /\ IsPrefix(frozen, f.words)
  BY <1>2, <1>4, <1>5, <1>8, <1>15, <1>16, TokenPrefixes, WordPrefixes
<1>18. Shown(LastTold)' = Shown(LastTold)
  BY <1>1 DEF Shown
<1>19. (LastTold.final => frozen = <<>>)'
  BY <1>1, <1>15
<1>20. AtWork'
  <2>1. CASE answer' = <<>>
    <3>1. kept = <<>> /\ Base(kept) = <<>> /\ ~HoldsFinal'
      BY <1>2, <1>9, <2>1 DEF HoldsFinal
    <3>2. IsPrefix(Shown(LastTold), Base(kept))' /\ IsPrefix(frozen, kept)'
      BY <1>1, <1>3, <1>6, <1>15, <1>18, <3>1
    <3> QED BY <1>6, <1>19, <2>1, <3>1, <3>2 DEF AtWork
  <2>2. CASE answer' # <<>>
    <3>1. HoldsFinal' /\ answer'[1] = f
      BY <1>4, <1>9, <2>2 DEF HoldsFinal
    <3>2. IsPrefix(Shown(LastTold), answer[1].committed)' /\ IsPrefix(frozen, answer[1].words)'
      BY <1>1, <1>17, <1>18, <3>1
    <3> QED BY <1>6, <1>19, <3>1, <3>2 DEF AtWork
  <2> QED BY <2>1, <2>2
<1> QED BY <1>1, <1>11, <1>12, <1>13, <1>20 DEF LiveInv

LEMMA RunReturnsKeeps ==
  ASSUME LiveInv, RunReturns PROVE LiveInv'
<1>1. /\ ToldInOrder' /\ LastTold' = LastTold
      /\ resolved_commit_policy' = resolved_commit_policy
      /\ UNCHANGED <<audio_received, stopping, out, over, latest, earlier, lost, frozen>>
      /\ ~over
  BY RunTells DEF RunReturns
<1>2. run = "cleared" /\ run' = "back" /\ UNCHANGED <<kept, tail, answer, published>>
  BY DEF RunReturns, assembler
<1>3. Base(kept)' = Base(kept) /\ Shown(LastTold)' = Shown(LastTold)
  BY <1>1, <1>2 DEF Base, Shown
<1>4. LiveTyped'
  BY <1>1, <1>2 DEF LiveInv, LiveTyped
<1>5. Phases'
  BY <1>1, <1>2 DEF LiveInv, Phases
<1>6. SnapshotHasKept'
  BY <1>1, <1>2, <1>3 DEF LiveInv, SnapshotHasKept
<1>7. HoldsFinal' = HoldsFinal
  BY <1>2 DEF HoldsFinal
<1>8. AtWork'
  BY <1>1, <1>2, <1>3, <1>7 DEF LiveInv, AtWork
<1> QED BY <1>1, <1>4, <1>5, <1>6, <1>8 DEF LiveInv

\* What is kept now is what a Final must not lose.
LEMMA StartRunKeeps ==
  ASSUME LiveInv, NEW stop \in BOOLEAN, StartRun(stop) PROVE LiveInv'
<1>1. /\ UNCHANGED <<boot, settings, kept, tail, published, out, over, latest, earlier, lost>>
      /\ ~over /\ out = <<>> /\ run = "none" /\ run' = "decoding" /\ stopping' = stop
      /\ answer' = <<>> /\ audio_received' = (audio_received \/ ~stop) /\ frozen' = kept
  BY DEF StartRun, Ready, assembler, toldVars
<1>2. resolved_commit_policy' = resolved_commit_policy
  BY <1>1, SamePolicy
<1>3. LastTold' = LastTold /\ Shown(LastTold)' = Shown(LastTold) /\ Base(kept)' = Base(kept)
      /\ LastTold = latest
  BY <1>1, <1>2 DEF LastTold, Shown, Base
<1>4. kept \in Seq(Vocabulary) /\ LastTold.words \in Seq(Vocabulary)
  BY LastSegment, ShownIs DEF LiveInv, LiveTyped
<1>5. answer = <<>> /\ ~lost
  BY <1>1 DEF LiveInv, Phases
<1>6. /\ IsPrefix(Shown(LastTold), Base(kept)) /\ (LastTold.final => kept = <<>>)
  BY <1>1, <1>5 DEF LiveInv, AtWork, HoldsFinal
<1>7. IsPrefix(kept, kept) /\ IsPrefix(<<>>, LastTold.words)
  BY <1>4, WordPrefixes
<1>8. LiveTyped'
  BY <1>1 DEF LiveInv, LiveTyped
<1>9. Phases'
  BY <1>1, <1>5 DEF LiveInv, Phases
<1>10. ToldInOrder'
  BY <1>1, <1>3, <1>5, <1>6, <1>7 DEF LiveInv, ToldInOrder
<1>11. SnapshotHasKept'
  BY <1>1, <1>3 DEF LiveInv, SnapshotHasKept
<1>12. AtWork'
  BY <1>1, <1>3, <1>6, <1>7 DEF AtWork, HoldsFinal
<1> QED BY <1>8, <1>9, <1>10, <1>11, <1>12 DEF LiveInv

\* The answer is told, and the assembler goes on from it.
LEMMA DeliverKeeps ==
  ASSUME LiveInv, Deliver PROVE LiveInv'
<1>1. /\ UNCHANGED <<boot, settings, audio_received, kept, tail, stopping, published, over,
                     latest, earlier, lost, frozen>>
      /\ run \in {"back", "failed"} /\ ~over /\ ~stopping
      /\ run' = "none" /\ answer' = <<>> /\ out' = answer
  BY DEF Deliver, configVars, assembler
<1>2. resolved_commit_policy' = resolved_commit_policy
  BY <1>1, SamePolicy
<1>3. Base(kept)' = Base(kept)
  BY <1>1, <1>2 DEF Base
<1>4. ~lost /\ out = <<>> /\ audio_received
  BY <1>1 DEF LiveInv, Phases
<1>5. LastTold = latest
  BY <1>4 DEF LastTold
<1>6. /\ answer \in Seq(Segments) /\ Len(answer) <= 1
      /\ answer # <<>> => /\ Len(answer) = 1 /\ answer[Len(answer)] = answer[1]
                          /\ answer[1] \in Segments
  BY FewSegments DEF LiveInv, LiveTyped
<1>7. LastTold' = IF answer = <<>> THEN latest ELSE answer[1]
  BY <1>1, <1>6 DEF LastTold
<1>8. /\ IsPrefix(earlier, latest.committed)
      /\ (latest.final => IsPrefix(frozen, latest.words))
  BY <1>4, <1>5 DEF LiveInv, ToldInOrder
<1>9. CASE answer = <<>>
  <2>1. ~HoldsFinal
    BY <1>9 DEF HoldsFinal
  <2>2. IsPrefix(Shown(latest), Base(kept)) /\ (latest.final => kept = <<>>)
    BY <1>1, <1>5, <1>9, <2>1 DEF LiveInv, AtWork
  <2>3. LastTold' = latest /\ Shown(LastTold)' = Shown(latest)
    BY <1>1, <1>7, <1>9 DEF Shown
  <2>4. LiveTyped' /\ Phases'
    BY <1>1, <1>4, <1>9 DEF LiveInv, LiveTyped, Phases
  <2>5. ToldInOrder'
    BY <1>1, <1>8, <1>9, <2>3 DEF ToldInOrder
  <2>6. SnapshotHasKept'
    BY <1>1, <1>3 DEF LiveInv, SnapshotHasKept
  <2>7. AtWork'
    BY <1>1, <1>3, <2>2, <2>3 DEF AtWork, HoldsFinal
  <2> QED BY <2>4, <2>5, <2>6, <2>7 DEF LiveInv
<1>10. CASE answer # <<>>
  <2>1. LastTold' = answer[1] /\ Shown(LastTold)' = Shown(answer[1])
        /\ out' # <<>> /\ Len(out') = 1 /\ out'[1] = answer[1]
    BY <1>1, <1>6, <1>7, <1>10 DEF Shown
  <2>2. /\ IsPrefix(Shown(latest), answer[1].committed)
        /\ (answer[1].final => kept = <<>> /\ IsPrefix(frozen, answer[1].words))
        /\ (~answer[1].final => answer[1].committed = Base(kept))
    BY <1>1, <1>5, <1>10 DEF LiveInv, AtWork, HoldsFinal
  <2>3. LiveTyped' /\ Phases'
    BY <1>1, <1>4, <1>6 DEF LiveInv, LiveTyped, Phases
  <2>4. Shown(latest)' = Shown(latest)
    BY <1>1 DEF Shown
  <2>5. ToldInOrder'
    BY <1>1, <1>8, <2>1, <2>2, <2>4 DEF ToldInOrder
  <2>6. SnapshotHasKept'
    BY <1>1, <1>3 DEF LiveInv, SnapshotHasKept
  <2>7. IsPrefix(Shown(answer[1]), Base(kept))
    <3>1. Base(kept) \in Seq(Tokens) /\ Base(<<>>) = <<>>
      BY BaseIs DEF LiveInv, LiveTyped
    <3> QED BY <2>2, <3>1, TokenPrefixes DEF Shown
  <2>8. AtWork'
    BY <1>1, <1>3, <2>1, <2>2, <2>7 DEF AtWork, HoldsFinal
  <2> QED BY <2>3, <2>5, <2>6, <2>8 DEF LiveInv
<1> QED BY <1>9, <1>10

\* After a panic nothing is promised, and the old snapshot is there.
LEMMA ResetKeeps ==
  ASSUME LiveInv, Reset PROVE LiveInv'
<1>1. /\ UNCHANGED <<audio_received, stopping, published, out, over, lost>>
      /\ run = "panicked" /\ ~over /\ ~stopping
      /\ run' = "none" /\ answer' = <<>> /\ kept' = <<>> /\ tail' = <<>>
      /\ latest' = empty_final /\ earlier' = <<>> /\ frozen' = <<>>
  BY DEF Reset
<1>2. ~lost /\ out = <<>> /\ audio_received
  BY <1>1 DEF LiveInv, Phases
<1>3. /\ empty_final \in Segments /\ empty_final.final /\ empty_final.words = <<>>
      /\ empty_final.committed = <<>>
  BY EmptyIs
<1>4. Base(kept)' = <<>>
  <2>1. Raw(<<>>) = <<>>
    BY DEF Raw
  <2> QED BY <1>1, <2>1 DEF Base
<1>5. LastTold' = empty_final /\ Shown(LastTold)' = <<>>
  BY <1>1, <1>2, <1>3 DEF LastTold, Shown
<1>6. <<>> \in Seq(Tokens) /\ <<>> \in Seq(Vocabulary) /\ <<>> \in Seq(Segments) /\ Len(<<>>) = 0
  OBVIOUS
<1>7. IsPrefix(<<>>, <<>>)
  BY <1>6, TokenPrefixes
<1>8. LiveTyped'
  BY <1>1, <1>3, <1>6 DEF LiveInv, LiveTyped
<1>9. Phases'
  BY <1>1, <1>2 DEF LiveInv, Phases
<1>10. ToldInOrder'
  BY <1>1, <1>2, <1>3, <1>5, <1>7 DEF ToldInOrder
<1>11. SnapshotHasKept'
  <2>1. published = <<>> \/ (published[1] \in Segments /\ ~published[1].final)
    BY <1>1, FewSegments DEF LiveInv, LiveTyped, SnapshotHasKept
  <2>2. CASE published = <<>>
    BY <1>1, <2>2 DEF SnapshotHasKept
  <2>3. CASE published # <<>>
    <3>1. published[1].words \in Seq(Vocabulary) /\ published[1].committed \in Seq(Tokens)
      BY <2>1, <2>3, ShownIs
    <3>2. IsPrefix(<<>>, published[1].words) /\ IsPrefix(<<>>, published[1].committed)
      BY <3>1, TokenPrefixes, WordPrefixes
    <3> QED BY <1>1, <1>4, <2>1, <2>3, <3>2 DEF SnapshotHasKept
  <2> QED BY <2>2, <2>3
<1>12. AtWork'
  BY <1>1, <1>4, <1>5, <1>7 DEF AtWork, HoldsFinal
<1> QED BY <1>8, <1>9, <1>10, <1>11, <1>12 DEF LiveInv

\* When the session is over only what is told matters.
LEMMA WhenOver ==
  ASSUME LiveTyped', ToldInOrder', over', run' = "none", answer' = <<>>
  PROVE  LiveInv'
BY DEF LiveInv, Phases, SnapshotHasKept, AtWork

\* A Stop ends with the answer, an empty Final or the snapshot.
LEMMA StoppedKeeps ==
  ASSUME LiveInv, Stopped PROVE LiveInv'
<1>1. /\ UNCHANGED <<kept, tail, published, latest, earlier, lost, frozen>>
      /\ run \in Returned /\ ~over /\ stopping
      /\ run' = "none" /\ over' = TRUE /\ answer' = <<>>
  BY DEF Stopped, assembler
<1>2. ~lost /\ out = <<>>
  BY <1>1 DEF LiveInv, Phases, Returned
<1>3. LastTold = latest /\ Shown(latest)' = Shown(latest)
  BY <1>1, <1>2 DEF LastTold, Shown
<1>4. /\ IsPrefix(earlier, latest.committed)
      /\ (latest.final => IsPrefix(frozen, latest.words))
  BY <1>2, <1>3 DEF LiveInv, ToldInOrder
<1>5. /\ kept \in Seq(Vocabulary) /\ Base(kept) \in Seq(Tokens) /\ Base(<<>>) = <<>>
      /\ latest \in Segments /\ Shown(latest) \in Seq(Tokens) /\ frozen \in Seq(Vocabulary)
  BY BaseIs, ShownIs DEF LiveInv, LiveTyped
<1>6. ASSUME NEW s \in Segments, out' = <<s>>, IsPrefix(Shown(latest), s.committed),
             s.final => IsPrefix(frozen, s.words)
      PROVE  LiveInv'
  <2>1. out' \in Seq(Segments) /\ Len(out') = 1 /\ out'[1] = s /\ out' # <<>>
    BY <1>6
  <2>2. LastTold' = s
    BY <2>1 DEF LastTold
  <2>3. ToldInOrder'
    BY <1>1, <1>3, <1>4, <1>6, <2>1, <2>2 DEF ToldInOrder
  <2>4. LiveTyped'
    BY <1>1, <2>1 DEF LiveInv, LiveTyped
  <2> QED BY <1>1, <2>3, <2>4, WhenOver
<1>7. ASSUME out' = <<>> PROVE LiveInv'
  <2>1. LastTold' = latest
    BY <1>1, <1>7 DEF LastTold
  <2>2. ToldInOrder'
    BY <1>1, <1>4, <1>7, <2>1 DEF ToldInOrder
  <2>3. LiveTyped'
    BY <1>1, <1>7 DEF LiveInv, LiveTyped
  <2> QED BY <1>1, <2>2, <2>3, WhenOver
<1>8. CASE run = "back"
  <2>1. CASE answer = <<>>
    <3>1. IsPrefix(Shown(latest), Base(kept)) /\ IsPrefix(frozen, kept) /\ kept = <<>>
      BY <1>1, <1>3, <1>8, <2>1 DEF LiveInv, AtWork, HoldsFinal
    <3>2. out' = <<empty_final>>
      BY <1>8, <2>1 DEF Stopped
    <3>3. /\ empty_final \in Segments /\ empty_final.words = <<>> /\ empty_final.committed = <<>>
      BY EmptyIs
    <3> QED BY <1>5, <1>6, <3>1, <3>2, <3>3
  <2>2. CASE answer # <<>>
    <3>1. HoldsFinal
      BY <1>1, <1>8, <2>2 DEF LiveInv, AtWork
    <3>2. /\ IsPrefix(Shown(latest), answer[1].committed)
          /\ IsPrefix(frozen, answer[1].words)
      BY <1>1, <1>3, <3>1 DEF LiveInv, AtWork
    <3>3. answer[1] \in Segments /\ answer = <<answer[1]>>
      BY <2>2, FewSegments DEF LiveInv, LiveTyped
    <3>4. out' = <<answer[1]>>
      BY <1>8, <2>2, <3>3 DEF Stopped
    <3> QED BY <1>6, <3>2, <3>3, <3>4
  <2> QED BY <2>1, <2>2
<1>9. CASE run # "back"
  <2>1. answer = <<>>
    BY <1>1, <1>9 DEF LiveInv, Phases, Returned
  <2>2. IsPrefix(Shown(latest), Base(kept))
    BY <1>1, <1>3, <2>1 DEF LiveInv, AtWork, HoldsFinal
  <2>3. out' = <<>> \/ out' = published
    BY <1>9 DEF Stopped
  <2>4. CASE published # <<>>
    <3>1. published[1] \in Segments /\ published = <<published[1]>>
      BY <2>4, FewSegments DEF LiveInv, LiveTyped
    <3>2. ~published[1].final /\ IsPrefix(Base(kept), published[1].committed)
      BY <1>1, <2>4 DEF LiveInv, SnapshotHasKept
    <3>3. IsPrefix(Shown(latest), published[1].committed)
      BY <1>5, <2>2, <3>1, <3>2, ShownIs, TokenPrefixes
    <3> QED BY <1>6, <1>7, <2>3, <3>1, <3>2, <3>3
  <2> QED BY <1>7, <2>3, <2>4
<1> QED BY <1>8, <1>9

\* A snapshot and the Final made of it.
LEMMA TwoSegments ==
  ASSUME NEW s \in Segments, NEW t \in Segments
  PROVE  /\ <<s>> \o <<t>> \in Seq(Segments) /\ Len(<<s>> \o <<t>>) = 2
         /\ (<<s>> \o <<t>>)[1] = s /\ (<<s>> \o <<t>>)[2] = t
BY ConcatProperties

\* send_abort tells segments.
LEMMA GoodbyeTyped ==
  ASSUME LiveTyped, NEW reason, Goodbye(reason)
  PROVE  out' \in Seq(Segments) /\ Len(out') <= 2
<1>1. empty_truncated_final \in Segments
  BY EmptyIs
<1>2. CASE published = <<>>
  <2>1. out' = <<>> \/ out' = <<empty_truncated_final>>
    BY <1>2 DEF Goodbye, NoSnapshot
  <2>2. <<>> \in Seq(Segments) /\ Len(<<>>) = 0
    OBVIOUS
  <2>3. <<empty_truncated_final>> \in Seq(Segments) /\ Len(<<empty_truncated_final>>) = 1
    BY <1>1
  <2>4. CASE out' = <<>>
    BY <2>2, <2>4
  <2>5. CASE out' = <<empty_truncated_final>>
    BY <2>3, <2>5
  <2> QED BY <2>1, <2>4, <2>5
<1>3. CASE published # <<>>
  <2> DEFINE p == published[1]
             z == into_truncated_final(p)
  <2>1. p \in Segments /\ published = <<p>>
    BY <1>3, FewSegments DEF LiveTyped
  <2>2. z \in Segments
    BY <2>1, TruncatedIs
  <2>3. out' = <<p>> \o <<>> \/ out' = <<p>> \o <<z>>
    BY <1>3, <2>1 DEF Goodbye, NoSnapshot
  <2> HIDE DEF p, z
  <2>4. <<p>> \o <<>> \in Seq(Segments) /\ Len(<<p>> \o <<>>) = 1
    BY <2>1
  <2>5. CASE out' = <<p>> \o <<>>
    BY <2>4, <2>5
  <2>6. <<p>> \o <<z>> \in Seq(Segments) /\ Len(<<p>> \o <<z>>) = 2
    BY <2>1, <2>2, TwoSegments
  <2>7. CASE out' = <<p>> \o <<z>>
    BY <2>6, <2>7
  <2> QED BY <2>3, <2>5, <2>7
<1> QED BY <1>2, <1>3

\* send_abort: the snapshot first, then, with a reason to, its Final.
LEMMA GoodbyeTells ==
  ASSUME LiveTyped, SnapshotHasKept, NEW reason, Goodbye(reason), ~over, out = <<>>,
         frozen' = frozen, IsPrefix(Shown(latest), Base(kept)), IsPrefix(frozen, kept),
         IsPrefix(earlier, latest.committed), latest.final => IsPrefix(frozen, latest.words)
  PROVE  /\ over' /\ UNCHANGED <<latest, earlier, published>>
         /\ out' \in Seq(Segments) /\ Len(out') <= 2 /\ ToldInOrder'
<1>1. over' /\ UNCHANGED <<latest, earlier, published>>
  BY DEF Goodbye
<1>2. /\ kept \in Seq(Vocabulary) /\ Base(kept) \in Seq(Tokens) /\ Base(<<>>) = <<>>
      /\ latest \in Segments /\ Shown(latest) \in Seq(Tokens) /\ frozen \in Seq(Vocabulary)
  BY BaseIs, ShownIs DEF LiveTyped
<1>3. Shown(latest)' = Shown(latest)
  BY <1>1 DEF Shown
<1>4. CASE published = <<>>
  <2>1. kept = <<>>
    BY <1>4 DEF SnapshotHasKept
  <2>2. out' = <<>> \/ out' = <<empty_truncated_final>>
    BY <1>4 DEF Goodbye, NoSnapshot
  <2>3. CASE out' = <<>>
    <3>1. LastTold' = latest
      BY <1>1, <2>3 DEF LastTold
    <3>2. ToldInOrder'
      BY <1>1, <2>3, <3>1 DEF ToldInOrder
    <3> QED BY <1>1, <2>3, <3>2
  <2>4. CASE out' = <<empty_truncated_final>>
    <3>1. /\ empty_truncated_final \in Segments /\ empty_truncated_final.words = <<>>
          /\ empty_truncated_final.committed = <<>>
      BY EmptyIs
    <3>2. /\ out' \in Seq(Segments) /\ Len(out') = 1 /\ out'[1] = empty_truncated_final
          /\ out' # <<>>
      BY <2>4, <3>1
    <3>3. LastTold' = empty_truncated_final
      BY <3>2 DEF LastTold
    <3>4. ToldInOrder'
      BY <1>1, <1>2, <1>3, <2>1, <3>1, <3>2, <3>3 DEF ToldInOrder
    <3> QED BY <1>1, <3>2, <3>4
  <2> QED BY <2>2, <2>3, <2>4
<1>5. CASE published # <<>>
  <2> DEFINE p == published[1]
             z == into_truncated_final(p)
  <2>1. p \in Segments /\ published = <<p>>
    BY <1>5, FewSegments DEF LiveTyped
  <2>2. ~p.final /\ IsPrefix(kept, p.words) /\ IsPrefix(Base(kept), p.committed)
    BY <1>5 DEF SnapshotHasKept
  <2>3. /\ z \in Segments /\ z.final /\ z.words = p.words /\ z.committed = p.text
        /\ IsPrefix(p.committed, p.text)
    BY <2>1, TruncatedIs
  <2>4. /\ p.committed \in Seq(Tokens) /\ p.words \in Seq(Vocabulary)
    BY <2>1, ShownIs
  <2>5. IsPrefix(Shown(latest), p.committed) /\ IsPrefix(frozen, z.words)
    BY <1>2, <2>2, <2>3, <2>4, TokenPrefixes, WordPrefixes
  <2>6. Shown(p) = p.committed
    BY <2>2 DEF Shown
  <2>7. out' = <<p>> \o <<>> \/ out' = <<p>> \o <<z>>
    BY <1>5, <2>1 DEF Goodbye, NoSnapshot
  <2> HIDE DEF p, z
  <2>8. CASE out' = <<p>> \o <<>>
    <3>1. out' \in Seq(Segments) /\ Len(out') = 1 /\ out'[1] = p /\ out' # <<>>
      BY <2>1, <2>8
    <3>2. LastTold' = p
      BY <3>1 DEF LastTold
    <3>3. ToldInOrder'
      BY <1>1, <1>3, <2>2, <2>5, <3>1, <3>2 DEF ToldInOrder
    <3> QED BY <1>1, <3>1, <3>3
  <2>9. CASE out' = <<p>> \o <<z>>
    <3>1. out' \in Seq(Segments) /\ Len(out') = 2 /\ out'[1] = p /\ out'[2] = z /\ out' # <<>>
      BY <2>1, <2>3, <2>9, TwoSegments
    <3>2. LastTold' = z
      BY <3>1 DEF LastTold
    <3>3. IsPrefix(Shown(out[1]), out[2].committed)'
      BY <2>3, <2>6, <3>1 DEF Shown
    <3>4. ToldInOrder'
      BY <1>1, <1>3, <2>5, <3>1, <3>2, <3>3 DEF ToldInOrder
    <3> QED BY <1>1, <3>1, <3>4
  <2> QED BY <2>7, <2>8, <2>9
<1> QED BY <1>4, <1>5

\* The run is given up: the snapshot is told, unless a Final is lost.
LEMMA AbandonKeeps ==
  ASSUME LiveInv, NEW reason, Abandon(reason) PROVE LiveInv'
<1>1. /\ UNCHANGED <<kept, tail, frozen>> /\ run # "none" /\ ~over /\ Goodbye(reason)
      /\ lost' = (\E k \in DOMAIN answer : answer[k].final)
      /\ run' = "none" /\ answer' = <<>>
  BY DEF Abandon, assembler
<1>2. ~lost /\ out = <<>>
  BY <1>1 DEF LiveInv, Phases
<1>3. LastTold = latest
  BY <1>2 DEF LastTold
<1>4. CASE lost'
  <2>1. over' /\ UNCHANGED <<latest, earlier, published>>
    BY <1>1 DEF Goodbye
  <2>2. ToldInOrder'
    BY <1>4 DEF ToldInOrder
  <2>3. out' \in Seq(Segments) /\ Len(out') <= 2
    BY <1>1, GoodbyeTyped DEF LiveInv
  <2>4. LiveTyped'
    BY <1>1, <2>1, <2>3 DEF LiveInv, LiveTyped
  <2> QED BY <1>1, <2>1, <2>2, <2>4, WhenOver
<1>5. CASE ~lost'
  <2>1. ~HoldsFinal
    BY <1>1, <1>5, FewSegments DEF HoldsFinal, LiveInv, LiveTyped
  <2>2. IsPrefix(Shown(latest), Base(kept)) /\ IsPrefix(frozen, kept)
    BY <1>1, <1>3, <2>1 DEF LiveInv, AtWork
  <2>3. IsPrefix(earlier, latest.committed) /\ (latest.final => IsPrefix(frozen, latest.words))
    BY <1>2, <1>3 DEF LiveInv, ToldInOrder
  <2>4. /\ over' /\ UNCHANGED <<latest, earlier, published>>
        /\ out' \in Seq(Segments) /\ Len(out') <= 2 /\ ToldInOrder'
    BY <1>1, <1>2, <2>2, <2>3, GoodbyeTells DEF LiveInv
  <2>5. LiveTyped'
    BY <1>1, <2>4 DEF LiveInv, LiveTyped
  <2> QED BY <1>1, <2>4, <2>5, WhenOver
<1> QED BY <1>4, <1>5

\* Nothing was heard yet.
LEMMA ConfigureAbandonedKeeps ==
  ASSUME LiveInv, NEW m, NEW reason, ConfigureAbandoned(m, reason) PROVE LiveInv'
<1>1. /\ UNCHANGED <<kept, tail, frozen, run, answer, lost>>
      /\ run = "none" /\ ~over /\ out = <<>> /\ ~audio_received /\ Goodbye(reason)
  BY DEF ConfigureAbandoned, assembler, Ready
<1>2. /\ ~lost /\ kept = <<>> /\ frozen = <<>> /\ latest.final /\ answer = <<>>
  BY <1>1 DEF LiveInv, Phases
<1>3. LastTold = latest
  BY <1>1 DEF LastTold
<1>4. IsPrefix(Shown(latest), Base(kept)) /\ IsPrefix(frozen, kept)
  <2>1. Base(<<>>) = <<>> /\ Shown(latest) = <<>>
    BY <1>2, BaseIs DEF LiveInv, LiveTyped, Shown
  <2>2. IsPrefix(<<>>, <<>>)
    BY DEF IsPrefix
  <2> QED BY <1>2, <2>1, <2>2
<1>5. IsPrefix(earlier, latest.committed) /\ (latest.final => IsPrefix(frozen, latest.words))
  BY <1>2, <1>3 DEF LiveInv, ToldInOrder
<1>6. /\ over' /\ UNCHANGED <<latest, earlier, published>>
      /\ out' \in Seq(Segments) /\ Len(out') <= 2 /\ ToldInOrder'
  BY <1>1, <1>4, <1>5, GoodbyeTells DEF LiveInv
<1>7. LiveTyped'
  BY <1>1, <1>6 DEF LiveInv, LiveTyped
<1> QED BY <1>1, <1>2, <1>6, <1>7, WhenOver

\* Between two frames the session ends with all its words.
LEMMA CutBetweenKeeps ==
  ASSUME LiveInv, CutBetween PROVE LiveInv'
<1> DEFINE f == finalize_stream_segment(kept, tail)
           z == into_truncated_final(f)
<1>1. /\ UNCHANGED <<run, answer, latest, earlier, lost>>
      /\ run = "none" /\ ~over /\ out = <<>> /\ over' = TRUE /\ frozen' = kept
      /\ out' = (IF kept \o tail = <<>> THEN <<empty_truncated_final>> ELSE <<z>>)
      /\ kept' = <<>> /\ tail' = <<>> /\ (published' = published \/ published' = <<>>)
  BY DEF CutBetween, Ready, clear, NoSnapshot
<1>2. ~lost /\ answer = <<>> /\ LastTold = latest
  BY <1>1 DEF LiveInv, Phases, LastTold
<1>3. IsPrefix(earlier, latest.committed)
  BY <1>2 DEF LiveInv, ToldInOrder
<1>3a. IsPrefix(Shown(latest), Base(kept))
  BY <1>1, <1>2 DEF LiveInv, AtWork, HoldsFinal
<1>4. /\ kept \in Seq(Vocabulary) /\ tail \in Seq(Vocabulary) /\ kept \o tail \in Seq(Vocabulary)
      /\ Base(kept) \in Seq(Tokens) /\ Base(<<>>) = <<>> /\ latest \in Segments
      /\ Shown(latest) \in Seq(Tokens)
  BY BaseIs, ShownIs DEF LiveInv, LiveTyped
<1>5. Shown(latest)' = Shown(latest)
  BY <1>1 DEF Shown
<1>6. ASSUME NEW s \in Segments, out' = <<s>>, IsPrefix(Shown(latest), s.committed),
             IsPrefix(kept, s.words)
      PROVE  LiveInv'
  <2>1. out' \in Seq(Segments) /\ Len(out') = 1 /\ out'[1] = s /\ out' # <<>>
    BY <1>6
  <2>2. LastTold' = s
    BY <2>1 DEF LastTold
  <2>3. ToldInOrder'
    BY <1>1, <1>3, <1>5, <1>6, <2>1, <2>2 DEF ToldInOrder
  <2>4. LiveTyped'
    <3>1. <<>> \in Seq(Vocabulary) /\ <<>> \in Seq(Segments) /\ Len(<<>>) = 0
      OBVIOUS
    <3>2. UNCHANGED <<answer, latest, earlier>> /\ frozen' = kept /\ kept' = <<>> /\ tail' = <<>>
          /\ (published' = published \/ published' = <<>>)
      BY <1>1
    <3>3. published' \in Seq(Segments) /\ Len(published') <= 1
      <4>1. CASE published' = published
        BY <4>1 DEF LiveInv, LiveTyped
      <4>2. CASE published' = <<>>
        BY <3>1, <4>2
      <4> QED BY <3>2, <4>1, <4>2
    <3>4. out' \in Seq(Segments) /\ Len(out') <= 2
      BY <2>1
    <3> QED BY <3>1, <3>2, <3>3, <3>4 DEF LiveInv, LiveTyped
  <2> QED BY <1>1, <1>2, <2>3, <2>4, WhenOver
<1>7. CASE kept \o tail = <<>>
  <2>1. kept = <<>>
    BY <1>4, <1>7, EmptyWords
  <2>2. /\ empty_truncated_final \in Segments /\ empty_truncated_final.words = <<>>
        /\ empty_truncated_final.committed = <<>>
    BY EmptyIs
  <2>3. IsPrefix(<<>>, <<>>)
    BY DEF IsPrefix
  <2> QED BY <1>1, <1>3a, <1>4, <1>6, <1>7, <2>1, <2>2, <2>3
<1>8. CASE kept \o tail # <<>>
  <2>1. /\ f \in Segments /\ f.words = kept \o tail /\ IsPrefix(Base(kept), f.committed)
    BY <1>4, FinalIs
  <2>2. /\ z \in Segments /\ z.words = f.words /\ z.committed = f.text
        /\ IsPrefix(f.committed, f.text)
    BY <2>1, TruncatedIs
  <2>3. f.committed \in Seq(Tokens) /\ z.committed \in Seq(Tokens)
    BY <2>1, <2>2, ShownIs
  <2>4. IsPrefix(Shown(latest), z.committed)
    BY <1>3a, <1>4, <2>1, <2>2, <2>3, TokenPrefixes
  <2>5. IsPrefix(kept, z.words)
    BY <1>4, <2>1, <2>2, PrefixOf
  <2>6. out' = <<z>>
    BY <1>1, <1>8
  <2> HIDE DEF z
  <2> QED BY <1>6, <2>2, <2>4, <2>5, <2>6
<1> QED BY <1>7, <1>8

\* A version nobody speaks ends the session.
LEMMA BadVersionKeeps ==
  ASSUME LiveInv, NEW m, BadVersion(m) PROVE LiveInv'
<1>1. /\ UNCHANGED <<kept, tail, run, answer, published, out, latest, earlier, frozen, lost>>
      /\ run = "none" /\ over' = TRUE
  BY DEF BadVersion, Ready, assembler
<1>2. LiveTyped'
  BY <1>1 DEF LiveInv, LiveTyped
<1>3. LastTold' = LastTold /\ Shown(latest)' = Shown(latest) /\ Shown(out[1])' = Shown(out[1])
  BY <1>1 DEF LastTold, Shown
<1>4. ToldInOrder'
  BY <1>1, <1>3 DEF LiveInv, ToldInOrder
<1>5. answer' = <<>>
  BY <1>1 DEF LiveInv, Phases
<1> QED BY <1>1, <1>2, <1>4, <1>5, WhenOver

\* A policy that changes before there is audio changes nothing that was told.
LEMMA ConfigureKeeps ==
  ASSUME LiveInv, NEW m, Configure(m) PROVE LiveInv'
<1>1. /\ UNCHANGED <<audio_received, kept, tail, run, stopping, answer, published, out, over,
                     latest, earlier, lost, frozen>>
      /\ run = "none" /\ ~over /\ out = <<>> /\ ~audio_received
  BY DEF Configure, Ready, assembler, toldVars
<1>2. kept = <<>> /\ frozen = <<>> /\ published = <<>> /\ latest.final /\ answer = <<>>
  BY <1>1 DEF LiveInv, Phases
<1>3. LastTold' = LastTold /\ Shown(latest)' = Shown(latest) /\ Shown(out[1])' = Shown(out[1])
      /\ LastTold = latest /\ Shown(latest) = <<>>
  BY <1>1, <1>2 DEF LastTold, Shown
<1>4. Base(kept)' = <<>>
  <2>1. Raw(<<>>) = <<>>
    BY DEF Raw
  <2> QED BY <1>1, <1>2, <2>1 DEF Base
<1>5. LiveTyped' /\ Phases'
  BY <1>1 DEF LiveInv, LiveTyped, Phases
<1>6. ToldInOrder'
  BY <1>1, <1>3 DEF LiveInv, ToldInOrder
<1>7. SnapshotHasKept'
  BY <1>1, <1>2 DEF SnapshotHasKept
<1>8. IsPrefix(<<>>, <<>>)
  BY DEF IsPrefix
<1>9. IsPrefix(Shown(LastTold), Base(kept))'
  BY <1>3, <1>4, <1>8 DEF Shown
<1>10. AtWork'
  BY <1>1, <1>2, <1>9 DEF AtWork, HoldsFinal
<1> QED BY <1>5, <1>6, <1>7, <1>10 DEF LiveInv

\* A segment is on its way no more.
LEMMA SendKeeps ==
  ASSUME LiveInv, Send PROVE LiveInv'
<1>1. /\ UNCHANGED <<boot, settings, audio_received, kept, tail, run, stopping, answer, published,
                     over, frozen, lost>>
      /\ out # <<>> /\ latest' = Head(out) /\ out' = Tail(out)
      /\ earlier' = Shown(latest)
  BY DEF Send, configVars, assembler, Shown
<1>2. resolved_commit_policy' = resolved_commit_policy
  BY <1>1, SamePolicy
<1>3. out \in Seq(Segments) /\ Len(out) \in 1 .. 2 /\ latest \in Segments
  <2>1. out \in Seq(Segments) /\ Len(out) <= 2 /\ latest \in Segments
    BY DEF LiveInv, LiveTyped
  <2>2. Len(out) \in Nat /\ Len(out) >= 1
    BY <1>1, <2>1, FewSegments
  <2>3. \A n \in Nat : n >= 1 /\ n <= 2 => n \in 1 .. 2
    OBVIOUS
  <2> QED BY <2>1, <2>2, <2>3
<1>4. /\ latest' = out[1] /\ latest' \in Segments /\ out' \in Seq(Segments)
      /\ Len(out') = Len(out) - 1 /\ (out' # <<>> => Len(out) = 2 /\ out'[1] = out[2])
  BY <1>1, <1>3
<1>5. LastTold' = LastTold
  BY <1>1, <1>3, <1>4 DEF LastTold
<1>6. earlier' \in Seq(Tokens)
  BY <1>1, <1>3, ShownIs
<1>7. LiveTyped'
  BY <1>1, <1>3, <1>4, <1>6 DEF LiveInv, LiveTyped
<1>8. Phases'
  BY <1>1 DEF LiveInv, Phases
<1>9. Shown(latest)' = Shown(out[1])
  BY <1>4 DEF Shown
<1>10. ToldInOrder'
  BY <1>1, <1>3, <1>4, <1>5, <1>9 DEF LiveInv, ToldInOrder
<1>11. Base(kept)' = Base(kept) /\ Shown(LastTold)' = Shown(LastTold)
  BY <1>1, <1>2, <1>5 DEF Base, Shown
<1>12. SnapshotHasKept'
  BY <1>1, <1>11 DEF LiveInv, SnapshotHasKept
<1>13. HoldsFinal' = HoldsFinal
  BY <1>1 DEF HoldsFinal
<1>14. AtWork'
  BY <1>1, <1>5, <1>11, <1>13 DEF LiveInv, AtWork
<1> QED BY <1>7, <1>8, <1>10, <1>12, <1>14 DEF LiveInv

-----------------------------------------------------------------------------
(* The theorems.                                                           *)

\* At first nothing is told.
LEMMA LiveStarts ==
  ASSUME LiveInit PROVE LiveInv
<1>1. <<>> \in Seq(Tokens) /\ <<>> \in Seq(Vocabulary) /\ <<>> \in Seq(Segments) /\ Len(<<>>) = 0
  OBVIOUS
<1>2. /\ empty_final \in Segments /\ empty_final.final /\ empty_final.words = <<>>
      /\ empty_final.committed = <<>>
  BY EmptyIs
<1>3. /\ kept = <<>> /\ tail = <<>> /\ frozen = <<>> /\ published = <<>> /\ answer = <<>>
      /\ out = <<>> /\ latest = empty_final /\ earlier = <<>> /\ run = "none" /\ ~over /\ ~lost
  BY DEF LiveInit, NoSnapshot
<1>4. IsPrefix(<<>>, <<>>)
  BY DEF IsPrefix
<1>5. LiveTyped
  BY <1>1, <1>2, <1>3 DEF LiveTyped
<1>6. Phases
  BY <1>2, <1>3 DEF Phases
<1>7. LastTold = empty_final /\ Shown(LastTold) = <<>> /\ Base(kept) = <<>>
  BY <1>1, <1>2, <1>3, BaseIs DEF LastTold, Shown
<1>8. ToldInOrder
  BY <1>1, <1>2, <1>3, <1>4, <1>7 DEF ToldInOrder
<1>9. SnapshotHasKept /\ AtWork
  BY <1>3, <1>4, <1>7 DEF SnapshotHasKept, AtWork, HoldsFinal
<1> QED BY <1>5, <1>6, <1>8, <1>9 DEF LiveInv

\* A step of nobody.
LEMMA LiveStutters ==
  ASSUME LiveInv, UNCHANGED liveVars PROVE LiveInv'
<1>1. UNCHANGED <<boot, settings, audio_received, kept, tail, run, stopping, answer, published,
                  out, over, latest, earlier, lost, frozen>>
  BY DEF liveVars, configVars, assembler, toldVars
<1>2. resolved_commit_policy' = resolved_commit_policy
  BY <1>1, SamePolicy
<1>3. /\ LastTold' = LastTold /\ HoldsFinal' = HoldsFinal
      /\ Shown(LastTold)' = Shown(LastTold) /\ Base(kept)' = Base(kept)
      /\ Shown(latest)' = Shown(latest) /\ Shown(out[1])' = Shown(out[1])
  BY <1>1, <1>2 DEF LastTold, HoldsFinal, Shown, Base
<1>4. LiveTyped' /\ Phases'
  BY <1>1 DEF LiveInv, LiveTyped, Phases
<1>5. ToldInOrder' /\ SnapshotHasKept' /\ AtWork'
  BY <1>1, <1>3 DEF LiveInv, ToldInOrder, SnapshotHasKept, AtWork
<1> QED BY <1>4, <1>5 DEF LiveInv

\* The invariant holds.
LEMMA LiveKept == LiveSpec => []LiveInv
<1>1. LiveInit => LiveInv
  BY LiveStarts
<1>2. LiveInv /\ [LiveNext]_liveVars => LiveInv'
  <2> SUFFICES ASSUME LiveInv, [LiveNext]_liveVars PROVE LiveInv'
    OBVIOUS
  <2>1. ASSUME NEW m \in Configures,
               \/ BadVersion(m) \/ Configure(m)
               \/ \E reason \in Reasons : ConfigureAbandoned(m, reason)
        PROVE  LiveInv'
    BY <2>1, BadVersionKeeps, ConfigureKeeps, ConfigureAbandonedKeeps
  <2>2. CASE RunWaits \/ RunHears \/ NothingToDecode \/ RunFails \/ RunPanics
    BY <2>2, RunWaitsKeeps, RunHearsKeeps, NothingToDecodeKeeps, RunFailsKeeps, RunPanicsKeeps
  <2>3. CASE \/ RunEndsUtterance \/ RunReturns \/ NothingToFlush \/ RunShowsPartial \/ RunCommits
    BY <2>3, RunEndsUtteranceKeeps, RunReturnsKeeps, NothingToFlushKeeps, RunShowsPartialKeeps,
       RunCommitsKeeps
  <2>4. CASE Deliver \/ Reset \/ Stopped \/ CutBetween \/ Send
    BY <2>4, DeliverKeeps, ResetKeeps, StoppedKeeps, CutBetweenKeeps, SendKeeps
  <2>5. ASSUME NEW stop \in BOOLEAN, StartRun(stop) PROVE LiveInv'
    BY <2>5, StartRunKeeps
  <2>6. ASSUME NEW reason \in Reasons, Abandon(reason) PROVE LiveInv'
    BY <2>6, AbandonKeeps
  <2>7. CASE UNCHANGED liveVars
    BY <2>7, LiveStutters
  <2> QED BY <2>1, <2>2, <2>3, <2>4, <2>5, <2>6, <2>7 DEF LiveNext
<1> QED BY <1>1, <1>2, PTL DEF LiveSpec

\* A client reads text that only grows, whatever the vocabulary, the length of an
\* utterance, the engines and what clients ask for: finalize_stream_segment and
\* into_truncated_final keep what was shown as immutable, publish_stream_partial
\* and the assembler agree about it, and no early end of a session says less.
THEOREM TextGrows == LiveSpec => []TextOnlyGrows
<1>1. LiveInv => TextOnlyGrows
  <2> SUFFICES ASSUME LiveInv, ~lost PROVE TextOnlyGrows
    BY DEF TextOnlyGrows
  <2>1. /\ latest \in Segments /\ latest.text = latest.committed \o latest.tentative
        /\ Unpassed(latest.text) = latest.words /\ (latest.final => latest.tentative = <<>>)
    BY DEF LiveInv, LiveTyped, Segments
  <2>2. IsPrefix(earlier, latest.committed)
    BY DEF LiveInv, ToldInOrder
  <2>3. out = <<>> /\ latest.final => IsPrefix(frozen, latest.words)
    BY DEF LiveInv, ToldInOrder, LastTold
  <2> QED BY <2>1, <2>2, <2>3 DEF TextOnlyGrows
<1> QED BY <1>1, LiveKept, PTL

\* The choices a state has.
LEMMA StateFields ==
  ASSUME NEW d
  PROVE  /\ DOMAIN create_state(d) = Fields
         /\ create_state(d).diarization = (d /\ boot.speakers)
         /\ create_state(d).min_silence = "boot"
BY DEF create_state, Fields

\* A message over the last ones, also in a state made anew.
LEMMA ConfigureKeepsChoices ==
  ASSUME ChoicesInv, NEW m, Configure(m) PROVE ChoicesInv'
<1> DEFINE base == Recreated(m)
           T == Taken(m)
           D == {"diarization"} \cap DOMAIN m
<1>1. DOMAIN settings = Fields /\ DOMAIN asked = Fields
  BY DEF ChoicesInv
<1>2. /\ settings' = Over(base, m, T) /\ asked' = Over(asked, m, T \cup D)
      /\ rebuilt' = (IF "min_silence" \in T THEN FALSE ELSE rebuilt \/ "diarization" \in DOMAIN m)
      /\ boot' = boot /\ panicked' = panicked
  BY DEF Configure
<1>3. "diarization" \notin T
  BY DEF Taken
<1>4. CASE "diarization" \notin DOMAIN m
  <2>1. base = settings /\ D = {}
    BY <1>4 DEF Recreated
  <2> HIDE DEF base, T, D
  <2>2. /\ settings' = [f \in Fields |-> IF f \in T THEN m[f] ELSE settings[f]]
        /\ asked' = [f \in Fields |-> IF f \in T THEN m[f] ELSE asked[f]]
    BY <1>1, <1>2, <2>1 DEF Over
  <2>3. DOMAIN settings' = Fields /\ DOMAIN asked' = Fields
    BY <2>2
  <2>4. \A f \in Fields : settings[f] = asked[f] => settings'[f] = asked'[f]
    BY <2>2
  <2>5. settings'.diarization = settings.diarization /\ asked'.diarization = asked.diarization
    BY <1>3, <2>2 DEF Fields
  <2>6. "min_silence" \in T => settings'.min_silence = asked'.min_silence
    BY <2>2 DEF Fields
  <2>7. ChoicesHold'
    BY <1>2, <1>4, <2>4, <2>5, <2>6 DEF ChoicesInv, ChoicesHold, Fields
  <2> QED BY <2>3, <2>7 DEF ChoicesInv
<1>5. CASE "diarization" \in DOMAIN m
  <2>1. D = {"diarization"}
    BY <1>5
  <2>2. base = [f \in Fields |-> IF f \in CarriedOver THEN settings[f]
                                 ELSE create_state(m.diarization)[f]]
    BY <1>1, <1>5 DEF Recreated
  <2> HIDE DEF base, T, D
  <2>3. /\ settings' = [f \in Fields |-> IF f \in T THEN m[f] ELSE base[f]]
        /\ asked' = [f \in Fields |-> IF f \in T \cup {"diarization"} THEN m[f] ELSE asked[f]]
    BY <1>1, <1>2, <2>1, <2>2 DEF Over
  <2>4. DOMAIN settings' = Fields /\ DOMAIN asked' = Fields
    BY <2>3
  <2>5. \A f \in CarriedOver : settings[f] = asked[f] => settings'[f] = asked'[f]
    BY <2>2, <2>3 DEF CarriedOver, Fields
  <2>6. settings'.diarization = (asked'.diarization /\ boot.speakers)
    <3>1. settings'["diarization"] = create_state(m.diarization)["diarization"]
      BY <1>3, <2>2, <2>3 DEF Fields, CarriedOver
    <3>2. asked'["diarization"] = m["diarization"]
      BY <2>3 DEF Fields
    <3> QED BY <3>1, <3>2, StateFields
  <2>7. "min_silence" \in T => settings'.min_silence = asked'.min_silence
    BY <2>3 DEF Fields
  <2>8. ChoicesHold'
    BY <1>2, <1>5, <2>5, <2>6, <2>7 DEF ChoicesInv, ChoicesHold, CarriedOver
  <2> QED BY <2>4, <2>8 DEF ChoicesInv
<1> QED BY <1>4, <1>5

\* A panic keeps three choices.
LEMMA ResetKeepsChoices ==
  ASSUME ChoicesInv, Reset PROVE ChoicesInv'
<1>1. /\ settings' = [create_state(FALSE) EXCEPT !.punctuation = settings.punctuation,
                        !.itn = settings.itn, !.commit_policy = settings.commit_policy]
      /\ panicked' = TRUE /\ boot' = boot /\ asked' = asked
  BY DEF Reset
<1>2. DOMAIN create_state(FALSE) = Fields
  BY StateFields
<1>3. DOMAIN settings' = Fields /\ \A f \in {"punctuation", "itn", "commit_policy"} :
        settings'[f] = settings[f]
  BY <1>1, <1>2 DEF Fields
<1> QED BY <1>1, <1>2, <1>3 DEF ChoicesInv, ChoicesHold

\* No other step changes a choice.
LEMMA SettingsStay ==
  ASSUME LiveNext, ~Reset, \A m \in Configures : ~Configure(m)
  PROVE  UNCHANGED <<boot, settings, asked, panicked, rebuilt>>
<1>1. ASSUME NEW m \in Configures,
             \/ BadVersion(m) \/ Configure(m)
             \/ \E reason \in Reasons : ConfigureAbandoned(m, reason)
      PROVE UNCHANGED <<boot, settings, asked, panicked, rebuilt>>
  BY <1>1 DEF BadVersion, ConfigureAbandoned, configVars
<1>2. ASSUME NEW stop \in BOOLEAN, StartRun(stop)
      PROVE UNCHANGED <<boot, settings, asked, panicked, rebuilt>>
  BY <1>2 DEF StartRun
<1>3. CASE RunMoves
  BY <1>3 DEF RunMoves, configVars
<1>4. CASE Deliver \/ Stopped \/ CutBetween \/ Send
  BY <1>4 DEF Deliver, Stopped, CutBetween, Send, configVars
<1>5. ASSUME NEW reason \in Reasons, Abandon(reason)
      PROVE UNCHANGED <<boot, settings, asked, panicked, rebuilt>>
  BY <1>5 DEF Abandon, configVars
<1>6. \/ RunWaits \/ RunHears \/ NothingToDecode \/ RunFails \/ RunPanics
      \/ RunEndsUtterance \/ RunReturns \/ NothingToFlush \/ RunShowsPartial \/ RunCommits
      => RunMoves
  BY DEF RunWaits, RunHears, NothingToDecode, RunFails, RunPanics, RunEndsUtterance, RunReturns,
         NothingToFlush, RunShowsPartial, RunCommits
<1> QED BY <1>1, <1>2, <1>3, <1>4, <1>5, <1>6 DEF LiveNext

\* What the client asked for holds, whatever engines there are and whatever the
\* messages say: handle_configure_message copies every choice into the state it
\* makes anew, handle_binary_frame those that survive a panic.
THEOREM ChoicesAreKept == LiveSpec => []ChoicesHold
<1>1. LiveInit => ChoicesInv
  BY StateFields DEF LiveInit, ChoicesInv, ChoicesHold
<1>2. ChoicesInv /\ [LiveNext]_liveVars => ChoicesInv'
  <2> SUFFICES ASSUME ChoicesInv, [LiveNext]_liveVars PROVE ChoicesInv'
    OBVIOUS
  <2>1. CASE Reset
    BY <2>1, ResetKeepsChoices
  <2>2. ASSUME NEW m \in Configures, Configure(m) PROVE ChoicesInv'
    BY <2>2, ConfigureKeepsChoices
  <2>3. CASE UNCHANGED <<boot, settings, asked, panicked, rebuilt>>
    BY <2>3 DEF ChoicesInv, ChoicesHold
  <2>4. UNCHANGED liveVars => UNCHANGED <<boot, settings, asked, panicked, rebuilt>>
    BY DEF liveVars, configVars
  <2> QED BY <2>1, <2>2, <2>3, <2>4, SettingsStay
<1>3. ChoicesInv => ChoicesHold
  BY DEF ChoicesInv
<1> QED BY <1>1, <1>2, <1>3, PTL DEF LiveSpec

-----------------------------------------------------------------------------
(* The transcript of a file: words of several channels, in order.          *)

\* A word with its speaker; a transcript in the order of time, and where each
\* word of the channels went in it.
Words == [name : STRING, start : Nat, end : Nat, speaker : Nat]
Merges(words, merged, at) ==
  /\ at \in [1 .. Len(words) -> 1 .. Len(words)]
  /\ merged \in Seq(Words) /\ Len(merged) = Len(words)
  /\ \A i \in 1 .. Len(words) : merged[at[i]] = words[i]
  /\ \A k \in 1 .. Len(words) : \E i \in 1 .. Len(words) : at[i] = k
  /\ \A i, j \in 1 .. Len(words) : SaidBefore(words, i, j) => at[i] < at[j]

\* The order is total.
LEMMA SaidBeforeIsOrder ==
  ASSUME NEW words \in Seq(Words), NEW i \in 1 .. Len(words), NEW j \in 1 .. Len(words),
         NEW k \in 1 .. Len(words)
  PROVE  /\ ~SaidBefore(words, i, i)
         /\ i # j => SaidBefore(words, i, j) \/ SaidBefore(words, j, i)
         /\ SaidBefore(words, i, j) /\ SaidBefore(words, j, k) => SaidBefore(words, i, k)
<1>1. \A x \in 1 .. Len(words) : words[x].start \in Nat /\ words[x].speaker \in Nat
  <2> SUFFICES ASSUME NEW x \in 1 .. Len(words)
               PROVE  words[x].start \in Nat /\ words[x].speaker \in Nat
    OBVIOUS
  <2>1. words[x] \in Words
    OBVIOUS
  <2> QED
    BY <2>1 DEF Words
<1>2. i \in Int /\ j \in Int /\ k \in Int
  OBVIOUS
<1>3. /\ words[i].start \in Nat /\ words[i].speaker \in Nat /\ words[j].start \in Nat
      /\ words[j].speaker \in Nat /\ words[k].start \in Nat /\ words[k].speaker \in Nat
  BY <1>1
<1>4. ~SaidBefore(words, i, i)
  BY <1>2, <1>3 DEF SaidBefore
<1>5. i # j => SaidBefore(words, i, j) \/ SaidBefore(words, j, i)
  BY <1>2, <1>3 DEF SaidBefore
<1>6. ASSUME SaidBefore(words, i, j), SaidBefore(words, j, k) PROVE SaidBefore(words, i, k)
  <2>1. words[i].start <= words[j].start /\ words[j].start <= words[k].start
    BY <1>3, <1>6 DEF SaidBefore
  <2>2. CASE words[i].start < words[k].start
    BY <2>2 DEF SaidBefore
  <2>3. CASE words[i].start = words[k].start
    <3>1. words[i].start = words[j].start /\ words[j].start = words[k].start
      BY <1>3, <2>1, <2>3
    <3> QED
      BY <1>2, <1>3, <1>6, <3>1 DEF SaidBefore
  <2> QED
    BY <1>3, <2>1, <2>2, <2>3
<1> QED
  BY <1>4, <1>5, <1>6

\* Of two words the earlier comes first, so no two have one place.
LEMMA PlacesFollow ==
  ASSUME NEW words \in Seq(Words), NEW i \in 1 .. Len(words), NEW j \in 1 .. Len(words)
  PROVE  /\ PlaceOf(words, i) \in 1 .. Len(words)
         /\ SaidBefore(words, i, j) => PlaceOf(words, i) < PlaceOf(words, j)
<1> DEFINE n == Len(words)
           earlierThan(x) == {y \in 1 .. n : SaidBefore(words, y, x)}
<1>1. n \in Nat /\ DOMAIN words = 1 .. n
  OBVIOUS
<1>2. IsFiniteSet(1 .. n) /\ Cardinality(1 .. n) = n
  <2> HIDE DEF n
  <2>1. 1 \in Int /\ n \in Int
    BY <1>1
  <2>2. Cardinality(1 .. n) = IF 1 > n THEN 0 ELSE n - 1 + 1
    BY <2>1, FS_Interval
  <2> QED
    BY <1>1, <2>1, <2>2, FS_Interval
<1>3. ASSUME NEW x \in 1 .. n
      PROVE  /\ IsFiniteSet(earlierThan(x)) /\ Cardinality(earlierThan(x)) \in Nat
             /\ PlaceOf(words, x) = Cardinality(earlierThan(x)) + 1
             /\ x \notin earlierThan(x)
  <2>1. earlierThan(x) \in SUBSET (1 .. n)
    OBVIOUS
  <2>2. IsFiniteSet(earlierThan(x))
    BY <1>2, <2>1, FS_Subset
  <2>3. Cardinality(earlierThan(x)) \in Nat
    BY <2>2, FS_CardinalityType
  <2>4. PlaceOf(words, x) = Cardinality(earlierThan(x)) + 1
    BY <1>1 DEF PlaceOf
  <2>5. x \notin earlierThan(x)
    BY SaidBeforeIsOrder
  <2> QED
    BY <2>2, <2>3, <2>4, <2>5
<1>4. Cardinality(earlierThan(i)) < n
  <2>1. earlierThan(i) \in SUBSET (1 .. n) /\ earlierThan(i) # 1 .. n
    BY <1>3
  <2>2. Cardinality(earlierThan(i)) <= n /\ Cardinality(earlierThan(i)) # n
    <3> HIDE DEF earlierThan, n
    <3> QED
      BY <1>2, <2>1, FS_Subset
  <2> QED
    BY <1>1, <1>3, <2>2
<1>5. ASSUME SaidBefore(words, i, j)
      PROVE  Cardinality(earlierThan(i)) < Cardinality(earlierThan(j))
  <2>1. earlierThan(i) \in SUBSET earlierThan(j)
    BY <1>5, SaidBeforeIsOrder
  <2>2. i \in earlierThan(j) /\ i \notin earlierThan(i)
    BY <1>3, <1>5
  <2>3. IsFiniteSet(earlierThan(j)) /\ Cardinality(earlierThan(i)) \in Nat
        /\ Cardinality(earlierThan(j)) \in Nat
    BY <1>3
  <2>4. Cardinality(earlierThan(i)) <= Cardinality(earlierThan(j))
        /\ Cardinality(earlierThan(i)) # Cardinality(earlierThan(j))
    <3> HIDE DEF earlierThan, n
    <3> QED
      BY <2>1, <2>2, <2>3, FS_Subset
  <2> QED
    BY <2>3, <2>4
<1>6. i \in 1 .. n /\ j \in 1 .. n
  OBVIOUS
<1> HIDE DEF earlierThan, n
<1>7. PlaceOf(words, i) \in 1 .. n
  BY <1>1, <1>3, <1>4, <1>6
<1>8. SaidBefore(words, i, j) => PlaceOf(words, i) < PlaceOf(words, j)
  BY <1>3, <1>5, <1>6
<1> QED
  BY <1>7, <1>8 DEF n

\* Sorting moves every word to its place.
LEMMA ChronologicalMerges ==
  ASSUME NEW words \in Seq(Words)
  PROVE  \E at : Merges(words, Chronological(words), at)
<1> DEFINE n == Len(words)
           at == [i \in 1 .. n |-> PlaceOf(words, i)]
           m == Chronological(words)
<1>1. n \in Nat /\ DOMAIN words = 1 .. n /\ \A i \in 1 .. n : words[i] \in Words
  OBVIOUS
<1>2. at \in [1 .. n -> 1 .. n]
  BY PlacesFollow
<1>3. \A i, j \in 1 .. n : SaidBefore(words, i, j) => at[i] < at[j]
  BY PlacesFollow
<1>4. \A i, j \in 1 .. n : at[i] = at[j] => i = j
  <2> SUFFICES ASSUME NEW i \in 1 .. n, NEW j \in 1 .. n, at[i] = at[j], i # j PROVE FALSE
    OBVIOUS
  <2>1. at[i] \in 1 .. n /\ ~(at[i] < at[j]) /\ ~(at[j] < at[i])
    BY <1>2
  <2> QED
    BY <1>3, <2>1, SaidBeforeIsOrder
<1>5. \A k \in 1 .. n : \E i \in 1 .. n : at[i] = k
  <2>1. IsFiniteSet(1 .. n)
    BY <1>1, FS_Interval
  <2> HIDE DEF at
  <2>2. at \in Injection(1 .. n, 1 .. n)
    BY <1>2, <1>4 DEF Injection, IsInjective
  <2>3. at \in Surjection(1 .. n, 1 .. n)
    BY <2>1, <2>2, FS_Injection
  <2> QED
    BY <2>3 DEF Surjection
<1>6. m = [k \in 1 .. n |-> words[CHOOSE i \in 1 .. n : PlaceOf(words, i) = k]]
  BY <1>1 DEF Chronological
<1>7. ASSUME NEW i \in 1 .. n PROVE m[at[i]] = words[i]
  <2>1. at[i] \in 1 .. n /\ at[i] = PlaceOf(words, i)
    BY <1>2
  <2>2. \A j \in 1 .. n : PlaceOf(words, j) = at[i] => j = i
    BY <1>4
  <2>3. (CHOOSE j \in 1 .. n : PlaceOf(words, j) = at[i]) = i
    BY <2>1, <2>2
  <2> HIDE DEF at, m
  <2> QED
    BY <1>6, <2>1, <2>3
<1>8. m \in Seq(Words) /\ Len(m) = n
  <2>1. \A k \in 1 .. n : words[CHOOSE i \in 1 .. n : PlaceOf(words, i) = k] \in Words
    BY <1>1, <1>5
  <2> HIDE DEF m
  <2> QED
    BY <1>1, <1>6, <2>1
<1> HIDE DEF at, m
<1>9. Merges(words, m, at)
  BY <1>2, <1>3, <1>5, <1>7, <1>8 DEF Merges, n
<1> QED
  BY <1>9 DEF m

\* So they stand in the order of time.
LEMMA MergedIsTimely ==
  ASSUME NEW words \in Seq(Words), NEW merged, NEW at, Merges(words, merged, at),
         NEW k \in 1 .. Len(words) - 1
  PROVE  merged[k].start <= merged[k + 1].start
<1> DEFINE n == Len(words)
<1>1. n \in Nat /\ k \in 1 .. n /\ k + 1 \in 1 .. n
  OBVIOUS
<1>2. PICK i \in 1 .. n : at[i] = k
  BY <1>1 DEF Merges
<1>3. PICK j \in 1 .. n : at[j] = k + 1
  BY <1>1 DEF Merges
<1>4. ~SaidBefore(words, j, i)
  <2>1. SaidBefore(words, j, i) => at[j] < at[i]
    BY <1>2, <1>3 DEF Merges
  <2> QED
    BY <1>1, <1>2, <1>3, <2>1
<1>5. merged[k] = words[i] /\ merged[k + 1] = words[j]
  BY <1>2, <1>3 DEF Merges
<1>6. words[i].start \in Nat /\ words[j].start \in Nat
  <2>1. words[i] \in Words /\ words[j] \in Words
    OBVIOUS
  <2> QED
    BY <2>1 DEF Words
<1> QED
  BY <1>4, <1>5, <1>6 DEF SaidBefore

-----------------------------------------------------------------------------
(* Channels in one transcript.                                             *)

\* A recording, and what its channels said; with the speaker that is the channel.
Recorded == [samples : Nat, words : Seq(Uttered)]
Timely(words) == \A i, j \in 1 .. Len(words) : i < j => words[i].start <= words[j].start

\* The same words of one speaker.
Labelled(l, words, x) ==
  /\ l \in Seq(Words) /\ Len(l) = Len(words)
  /\ \A i \in 1 .. Len(words) : l[i].speaker = x /\ l[i].start = words[i].start

\* A label changes the speaker, and no more.
LEMMA LabelIs ==
  ASSUME NEW words \in Seq(Words), NEW x \in Nat
  PROVE  Labelled(Label(words, x), words, x)
<1>1. Len(words) \in Nat /\ DOMAIN words = 1 .. Len(words)
      /\ \A i \in 1 .. Len(words) : words[i] \in Words
  OBVIOUS
<1>2. Label(words, x) = [i \in 1 .. Len(words) |-> [words[i] EXCEPT !.speaker = x]]
  BY <1>1 DEF Label
<1>3. \A w \in Words : /\ [w EXCEPT !.speaker = x] \in Words
                       /\ [w EXCEPT !.speaker = x].speaker = x
                       /\ [w EXCEPT !.speaker = x].start = w.start
  BY DEF Words
<1> DEFINE l == Label(words, x)
<1>4. l = [i \in 1 .. Len(words) |-> [words[i] EXCEPT !.speaker = x]]
  BY <1>2
<1>5. \A i \in 1 .. Len(words) : [words[i] EXCEPT !.speaker = x] \in Words
  BY <1>1, <1>3
<1> HIDE DEF l
<1>6. l \in Seq(Words) /\ Len(l) = Len(words)
  BY <1>1, <1>4, <1>5
<1>7. ASSUME NEW i \in 1 .. Len(words)
      PROVE  l[i].speaker = x /\ l[i].start = words[i].start
  <2>1. l[i] = [words[i] EXCEPT !.speaker = x] /\ words[i] \in Words
    BY <1>1, <1>4
  <2> QED
    BY <1>3, <2>1
<1> QED
  BY <1>6, <1>7 DEF l, Labelled

\* The channels' words, each with its speaker, lie one channel behind the other.
LEMMA BySpeakerIs ==
  ASSUME NEW per \in Seq(Seq(Words)), NEW off, RunningSums(off, LengthsOf(per))
  PROVE  /\ BySpeaker(per) \in Seq(Words) /\ Len(BySpeaker(per)) = off[Len(per)]
         /\ \E labelled \in Seq(Seq(Words)) :
              /\ Len(labelled) = Len(per)
              /\ \A k \in 1 .. Len(per) : labelled[k] = Label(per[k], k - 1)
                                          /\ Len(labelled[k]) = Len(per[k])
              /\ Spread(BySpeaker(per), off, labelled, Len(per))
<1> DEFINE n == Len(per)
           labelled == [k \in 1 .. n |-> Label(per[k], k - 1)]
<1>1. n \in Nat /\ DOMAIN per = 1 .. n /\ \A k \in 1 .. n : per[k] \in Seq(Words)
  OBVIOUS
<1>2. \A k \in 1 .. n : labelled[k] \in Seq(Words) /\ Len(labelled[k]) = Len(per[k])
  <2> SUFFICES ASSUME NEW k \in 1 .. n
               PROVE  labelled[k] \in Seq(Words) /\ Len(labelled[k]) = Len(per[k])
    OBVIOUS
  <2>1. k - 1 \in Nat
    BY <1>1
  <2> QED
    BY <1>1, <2>1, LabelIs DEF Labelled
<1>3. labelled \in Seq(Seq(Words)) /\ Len(labelled) = n /\ DOMAIN labelled = 1 .. n
  BY <1>1, <1>2
<1>4. \A k \in 1 .. n : labelled[k] = Label(per[k], k - 1)
  OBVIOUS
<1>5. BySpeaker(per) = FlattenSeq(labelled)
  BY <1>1 DEF BySpeaker
<1> HIDE DEF labelled
<1>6. LengthsOf(labelled) = LengthsOf(per)
  BY <1>1, <1>2, <1>3 DEF LengthsOf
<1>7. BySpeaker(per) \in Seq(Words) /\ Spread(BySpeaker(per), off, labelled, n)
  BY <1>3, <1>5, <1>6, FlattenSpread
<1>8. Len(BySpeaker(per)) = off[n]
  BY <1>7 DEF Spread
<1> QED
  BY <1>2, <1>3, <1>4, <1>7, <1>8

\* In the order of time, every channel's words are there as they followed each other.
LEMMA ChannelsKeepOrder ==
  ASSUME NEW per \in Seq(Seq(Words)), \A k \in 1 .. Len(per) : Timely(per[k]),
         NEW merged, merged = merge_channel_results(per), NEW k \in 1 .. Len(per)
  PROVE  SaidInOrder(Label(per[k], k - 1), merged,
                     {i \in DOMAIN merged : merged[i].speaker = k - 1})
<1> DEFINE words == BySpeaker(per)
           voice == Label(per[k], k - 1)
           n == Len(per)
<1>1. LengthsOf(per) \in Seq(Nat) /\ Len(LengthsOf(per)) = n
      /\ \A h \in 1 .. n : LengthsOf(per)[h] = Len(per[h]) /\ Len(per[h]) \in Nat
      /\ per[h] \in Seq(Words)
  BY LengthsAre
<1>2. PICK off : RunningSums(off, LengthsOf(per))
  BY <1>1, SumOffsets
<1>3. words \in Seq(Words) /\ Len(words) = off[n]
  BY <1>2, BySpeakerIs
<1>4. PICK labelled \in Seq(Seq(Words)) :
              /\ Len(labelled) = n
              /\ \A h \in 1 .. n : labelled[h] = Label(per[h], h - 1)
                                   /\ Len(labelled[h]) = Len(per[h])
              /\ Spread(words, off, labelled, n)
  BY <1>2, BySpeakerIs
<1> HIDE DEF words
<1>5. PICK at : Merges(words, merged, at)
  BY <1>3, ChronologicalMerges DEF merge_channel_results, words
<1>6. /\ per[k] \in Seq(Words) /\ k - 1 \in Nat /\ Len(per[k]) \in Nat /\ Timely(per[k])
      /\ off[k - 1] \in Nat
  <2>1. k - 1 \in 0 .. n /\ k - 1 \in Nat
    OBVIOUS
  <2>2. \A h \in 0 .. n : off[h] \in Nat
    BY <1>1, <1>2 DEF RunningSums
  <2> QED
    BY <1>1, <2>1, <2>2
<1>7. /\ voice \in Seq(Words) /\ Len(voice) = Len(per[k]) /\ DOMAIN voice = 1 .. Len(per[k])
      /\ \A i \in 1 .. Len(per[k]) : voice[i].speaker = k - 1 /\ voice[i].start = per[k][i].start
  <2> DEFINE c == per[k]
             x == k - 1
  <2>1. c \in Seq(Words) /\ x \in Nat /\ voice = Label(c, x)
    BY <1>6
  <2> HIDE DEF c, x, voice
  <2>2. /\ voice \in Seq(Words) /\ Len(voice) = Len(c)
        /\ \A i \in 1 .. Len(c) : voice[i].speaker = x /\ voice[i].start = c[i].start
    BY <2>1, LabelIs DEF Labelled
  <2>3. DOMAIN voice = 1 .. Len(c)
    BY <2>2
  <2> QED
    BY <2>2, <2>3 DEF c, x
<1>8. labelled[k] = voice
  BY <1>4
<1> HIDE DEF voice
<1> DEFINE from(i) == off[k - 1] + i
           to == [i \in DOMAIN voice |-> at[from(i)]]
<1>9. \A i \in 1 .. Len(voice) : from(i) \in 1 .. Len(words) /\ words[from(i)] = voice[i]
  BY <1>3, <1>4, <1>8 DEF Spread
<1>10. /\ at \in [1 .. Len(words) -> 1 .. Len(words)]
       /\ merged \in Seq(Words) /\ Len(merged) = Len(words) /\ DOMAIN merged = 1 .. Len(words)
       /\ \A i \in 1 .. Len(words) : merged[at[i]] = words[i]
       /\ \A j \in 1 .. Len(words) : \E i \in 1 .. Len(words) : at[i] = j
       /\ \A i, j \in 1 .. Len(words) : SaidBefore(words, i, j) => at[i] < at[j]
  BY <1>5 DEF Merges
<1>11. to \in [DOMAIN voice -> DOMAIN merged]
  BY <1>7, <1>9, <1>10
<1>12. \A i \in DOMAIN voice : merged[to[i]] = voice[i]
  BY <1>7, <1>9, <1>10
<1>13. ASSUME NEW i \in DOMAIN voice, NEW j \in DOMAIN voice, i < j PROVE to[i] < to[j]
  <2>1. i \in 1 .. Len(voice) /\ j \in 1 .. Len(voice)
    BY <1>7
  <2>2. from(i) \in 1 .. Len(words) /\ from(j) \in 1 .. Len(words) /\ from(i) < from(j)
    <3>1. from(i) \in 1 .. Len(words) /\ from(j) \in 1 .. Len(words)
      BY <1>9, <2>1
    <3>2. off[k - 1] \in Nat /\ i \in Nat /\ j \in Nat /\ i < j
      BY <1>6, <1>13, <2>1
    <3>3. off[k - 1] + i < off[k - 1] + j
      BY <3>2
    <3> QED
      BY <3>1, <3>3
  <2>3. per[k][i].start <= per[k][j].start
    BY <1>6, <1>7, <1>13, <2>1 DEF Timely
  <2>4. per[k][i].start \in Nat /\ per[k][j].start \in Nat
    <3>1. per[k][i] \in Words /\ per[k][j] \in Words
      BY <1>6, <1>7, <2>1
    <3> QED
      BY <3>1 DEF Words
  <2>5. /\ words[from(i)].start = per[k][i].start /\ words[from(j)].start = per[k][j].start
        /\ words[from(i)].speaker = k - 1 /\ words[from(j)].speaker = k - 1
    BY <1>7, <1>9, <2>1
  <2>6. to[i] = at[from(i)] /\ to[j] = at[from(j)]
    OBVIOUS
  <2> HIDE DEF from, to
  <2>7. SaidBefore(words, from(i), from(j))
    <3>1. \/ words[from(i)].start < words[from(j)].start
          \/ words[from(i)].start = words[from(j)].start
      BY <2>3, <2>4, <2>5
    <3>2. words[from(i)].speaker = words[from(j)].speaker
      BY <2>5
    <3> QED
      BY <2>2, <3>1, <3>2, Zenon DEF SaidBefore
  <2> QED
    BY <1>10, <2>2, <2>6, <2>7
<1>14. ASSUME NEW p \in DOMAIN merged, merged[p].speaker = k - 1
       PROVE  \E i \in DOMAIN voice : to[i] = p
  <2>1. PICK x \in 1 .. Len(words) : at[x] = p
    BY <1>10
  <2>2. words[x].speaker = k - 1
    BY <1>10, <1>14, <2>1
  <2>3. PICK h \in 1 .. n : \E m \in 1 .. Len(labelled[h]) : x = off[h - 1] + m
    BY <1>3, <1>4 DEF Spread
  <2>4. PICK m \in 1 .. Len(labelled[h]) : x = off[h - 1] + m
    BY <2>3
  <2>5. words[x] = labelled[h][m]
    BY <1>4, <2>4 DEF Spread
  <2>6. labelled[h] = Label(per[h], h - 1) /\ Len(labelled[h]) = Len(per[h]) /\ per[h] \in Seq(Words)
        /\ h - 1 \in Nat
    BY <1>1, <1>4
  <2>7. labelled[h][m].speaker = h - 1
    <3> DEFINE c == per[h]
               y == h - 1
               l == labelled[h]
    <3>1. c \in Seq(Words) /\ y \in Nat /\ l = Label(c, y) /\ m \in 1 .. Len(c)
      BY <2>6
    <3> HIDE DEF c, y, l
    <3>2. l[m].speaker = y
      BY <3>1, LabelIs DEF Labelled
    <3> QED
      BY <3>2 DEF l, y
  <2>8. h = k
    BY <2>2, <2>5, <2>7
  <2>9. m \in DOMAIN voice /\ x = from(m)
    BY <1>7, <1>8, <2>4, <2>8
  <2> QED
    BY <2>1, <2>9
<1> HIDE DEF to
<1>15. ASSUME NEW i \in DOMAIN voice PROVE to[i] \in DOMAIN merged /\ merged[to[i]].speaker = k - 1
  BY <1>7, <1>11, <1>12
<1> DEFINE spoken == {i \in DOMAIN merged : merged[i].speaker = k - 1}
           places == {to[i] : i \in DOMAIN voice}
<1>16. spoken = places
  <2>1. ASSUME NEW p \in spoken PROVE p \in places
    <3>1. PICK i \in DOMAIN voice : to[i] = p
      BY <1>14, <2>1
    <3> QED
      BY <3>1
  <2>2. ASSUME NEW p \in places PROVE p \in spoken
    <3>1. PICK i \in DOMAIN voice : p = to[i]
      BY <2>2
    <3> QED
      BY <1>15, <3>1
  <2> HIDE DEF spoken, places
  <2> QED
    BY <2>1, <2>2
<1> QED
  BY <1>11, <1>12, <1>13, <1>16 DEF SaidInOrder, voice

-----------------------------------------------------------------------------
(* The speaker of a word.                                                  *)

Turns == [start : Nat, end : Nat, speaker : Nat]

\* Where the cursor stands at the k-th word when it stood at `from`; what Cursor
\* recurses to.
Onward(turns, words, from, k) ==
  Min({i \in from .. Len(turns) + 1 : i > Len(turns) \/ ~Past(turns[i], Mid(words[k]))})
Moves(at0, turns, words, n) ==
  at0 = [k \in 0 .. n |-> IF k = 0 THEN 1 ELSE Onward(turns, words, at0[k - 1], k)]

LEMMA MinIs ==
  ASSUME NEW T \in SUBSET Nat, T # {}
  PROVE  Min(T) \in T /\ \A m \in T : Min(T) <= m
<1>1. \E n \in T : \A m \in T : n <= m
  BY LeastExists
<1> QED
  BY <1>1 DEF Min

\* There is such a function, so CHOOSE finds it.
LEMMA MovesExist ==
  ASSUME NEW turns, NEW words, NEW n \in Nat
  PROVE  \E at0 : Moves(at0, turns, words, n)
<1> DEFINE Has(m) == \E f : Moves(f, turns, words, m)
           G == {m \in Nat : Has(m)}
<1>1. 0 \in G
  <2> DEFINE e == [k \in 0 .. 0 |-> 1]
  <2>1. e = [k \in 0 .. 0 |-> IF k = 0 THEN 1 ELSE Onward(turns, words, e[k - 1], k)]
    OBVIOUS
  <2> HIDE DEF e
  <2>2. Moves(e, turns, words, 0)
    BY <2>1 DEF Moves
  <2>3. Has(0)
    BY <2>2
  <2> HIDE DEF Has
  <2> QED
    BY <2>3
<1>2. ASSUME NEW m \in Nat, m \in G PROVE m + 1 \in G
  <2>1. PICK f : Moves(f, turns, words, m)
    BY <1>2
  <2> DEFINE step(h, k) == IF k = 0 THEN 1 ELSE Onward(turns, words, h[k - 1], k)
             g == [k \in 0 .. m + 1 |-> IF k = m + 1 THEN Onward(turns, words, f[m], k) ELSE f[k]]
             e == [k \in 0 .. m |-> step(f, k)]
  <2>2. f = e /\ \A k \in 0 .. m : e[k] = step(f, k)
    BY <2>1 DEF Moves
  <2>3. ASSUME NEW k \in 0 .. m + 1 PROVE g[k] = step(g, k)
    <3>1. CASE k = m + 1
      <4>1. k - 1 = m /\ k # 0 /\ k - 1 \in 0 .. m + 1 /\ k - 1 # m + 1
        BY <3>1
      <4>2. g[k] = Onward(turns, words, f[m], k)
        BY <3>1
      <4>3. g[k - 1] = f[m]
        BY <4>1
      <4> HIDE DEF g
      <4> QED
        BY <4>1, <4>2, <4>3
    <3>2. CASE k # m + 1
      <4>1. k \in 0 .. m /\ g[k] = f[k]
        BY <3>2
      <4>2. k # 0 => k - 1 \in 0 .. m + 1 /\ k - 1 # m + 1 /\ g[k - 1] = f[k - 1]
        BY <4>1
      <4>3. f[k] = step(f, k)
        BY <2>2, <4>1
      <4> HIDE DEF g
      <4> QED
        BY <4>1, <4>2, <4>3
    <3> QED
      BY <3>1, <3>2
  <2>4. g = [k \in 0 .. m + 1 |-> step(g, k)]
    <3>1. g = [k \in 0 .. m + 1 |-> g[k]]
      OBVIOUS
    <3> HIDE DEF g
    <3> QED
      BY <2>3, <3>1
  <2> HIDE DEF g
  <2>5. Moves(g, turns, words, m + 1)
    BY <2>4 DEF Moves
  <2>6. Has(m + 1)
    BY <2>5
  <2> HIDE DEF Has
  <2> QED
    BY <2>6
<1>3. Nat \subseteq G
  <2> HIDE DEF G
  <2> QED
    BY <1>1, <1>2, Inductive
<1> QED
  BY <1>3

LEMMA CursorIs ==
  ASSUME NEW turns, NEW words, Len(words) \in Nat, DOMAIN words = 1 .. Len(words)
  PROVE  \E at0 : /\ Moves(at0, turns, words, Len(words))
                  /\ \A k \in 1 .. Len(words) : Cursor(turns, words)[k] = at0[k]
<1> DEFINE C == CHOOSE at0 : Moves(at0, turns, words, Len(words))
<1>1. Moves(C, turns, words, Len(words))
  BY MovesExist
<1>2. Cursor(turns, words) = [k \in DOMAIN words |-> C[k]]
  BY DEF Cursor, Moves, Onward
<1> HIDE DEF C
<1>3. \A k \in 1 .. Len(words) : Cursor(turns, words)[k] = C[k]
  BY <1>2
<1> QED
  BY <1>1, <1>3

\* The cursor stands at the first turn that is not past.
Foremost(turns, c, mid) ==
  /\ c \in 1 .. Len(turns) + 1
  /\ \A i \in 1 .. Len(turns) : i < c => Past(turns[i], mid)
  /\ c <= Len(turns) => ~Past(turns[c], mid)

LEMMA CursorIsForemost ==
  ASSUME NEW turns \in Seq(Turns), NEW words \in Seq(Words), OrderedWords(words),
         NEW k \in 1 .. Len(words)
  PROVE  Foremost(turns, Cursor(turns, words)[k], Mid(words[k]))
<1> DEFINE n == Len(words)
<1>1. n \in Nat /\ DOMAIN words = 1 .. n /\ Len(turns) \in Nat
  OBVIOUS
<1>2. PICK f : Moves(f, turns, words, n) /\ \A j \in 1 .. n : Cursor(turns, words)[j] = f[j]
  BY <1>1, CursorIs
<1>3. \A j \in 1 .. n : Mid(words[j]) \in Nat
  <2> SUFFICES ASSUME NEW j \in 1 .. n PROVE Mid(words[j]) \in Nat
    OBVIOUS
  <2>1. words[j] \in Words
    OBVIOUS
  <2>2. words[j].start \in Nat /\ words[j].end \in Nat
    BY <2>1 DEF Words
  <2> QED
    BY <2>2 DEF Mid
<1>4. \A i \in 1 .. Len(turns) : turns[i].end \in Nat
  <2> SUFFICES ASSUME NEW i \in 1 .. Len(turns) PROVE turns[i].end \in Nat
    OBVIOUS
  <2>1. turns[i] \in Turns
    OBVIOUS
  <2> QED
    BY <2>1 DEF Turns
<1>5. \A j \in 1 .. n : j + 1 \in 1 .. n => Mid(words[j]) <= Mid(words[j + 1])
  BY <1>1 DEF OrderedWords
<1> DEFINE e == [j \in 0 .. n |-> IF j = 0 THEN 1 ELSE Onward(turns, words, f[j - 1], j)]
<1>6. f = e
  BY <1>2 DEF Moves
<1>7. e[0] = 1 /\ \A j \in 1 .. n : e[j] = Onward(turns, words, f[j - 1], j)
  BY <1>1
<1> HIDE DEF e, n
<1>8. f[0] = 1 /\ \A j \in 1 .. n : f[j] = Onward(turns, words, f[j - 1], j)
  BY <1>6, <1>7
<1>9. ASSUME NEW j \in 1 .. n, NEW b, b = f[j - 1], b \in 1 .. Len(turns) + 1,
             \A i \in 1 .. Len(turns) : i < b => Past(turns[i], Mid(words[j]))
      PROVE  Foremost(turns, f[j], Mid(words[j]))
  <2> DEFINE T == {i \in b .. Len(turns) + 1 : i > Len(turns) \/ ~Past(turns[i], Mid(words[j]))}
  <2>1. T \in SUBSET Nat /\ Len(turns) + 1 \in T
    BY <1>1, <1>9
  <2>2. f[j] = Min(T)
    BY <1>8, <1>9 DEF Onward
  <2>3. f[j] \in T /\ \A i \in T : f[j] <= i
    <3> HIDE DEF T
    <3> QED
      BY <2>1, <2>2, MinIs
  <2> DEFINE c == f[j]
  <2>4. c \in b .. Len(turns) + 1 /\ (c <= Len(turns) => ~Past(turns[c], Mid(words[j])))
    BY <1>1, <1>9, <2>3
  <2>5. ASSUME NEW i \in 1 .. Len(turns), i < c PROVE Past(turns[i], Mid(words[j]))
    <3>1. CASE i < b
      BY <1>9, <3>1
    <3>2. CASE ~(i < b)
      <4>1. i \in b .. Len(turns) + 1
        BY <1>1, <1>9, <3>2
      <4>2. i \notin T
        BY <1>1, <1>9, <2>3, <2>4, <2>5, <4>1
      <4> QED
        BY <4>1, <4>2
    <3> QED
      BY <3>1, <3>2
  <2> HIDE DEF T, c
  <2>6. c \in 1 .. Len(turns) + 1
    BY <1>1, <1>9, <2>4
  <2>7. Foremost(turns, c, Mid(words[j]))
    BY <2>4, <2>5, <2>6 DEF Foremost
  <2> QED
    BY <2>7 DEF c
<1> DEFINE G == {j \in Nat : j + 1 \in 1 .. n => Foremost(turns, f[j + 1], Mid(words[j + 1]))}
<1>10. 0 \in G
  <2> SUFFICES ASSUME 1 \in 1 .. n PROVE Foremost(turns, f[1], Mid(words[1]))
    OBVIOUS
  <2> DEFINE b == f[1 - 1]
  <2>1. b = 1
    BY <1>8
  <2> HIDE DEF b
  <2>2. b \in 1 .. Len(turns) + 1 /\ \A i \in 1 .. Len(turns) : ~(i < b)
    BY <1>1, <2>1
  <2> QED
    BY <1>9, <2>2 DEF b
<1>11. ASSUME NEW j \in Nat, j \in G PROVE j + 1 \in G
  <2> SUFFICES ASSUME (j + 1) + 1 \in 1 .. n
               PROVE  Foremost(turns, f[(j + 1) + 1], Mid(words[(j + 1) + 1]))
    OBVIOUS
  <2> DEFINE h == j + 1
             b == f[h]
  <2>1. h \in 1 .. n /\ h + 1 \in 1 .. n /\ (h + 1) - 1 = h
    BY <1>1
  <2>2. Foremost(turns, b, Mid(words[h]))
    BY <1>11, <2>1
  <2>3. Mid(words[h]) <= Mid(words[h + 1]) /\ Mid(words[h]) \in Nat /\ Mid(words[h + 1]) \in Nat
    BY <1>3, <1>5, <2>1
  <2> HIDE DEF h, b
  <2>4. \A i \in 1 .. Len(turns) : i < b => Past(turns[i], Mid(words[h + 1]))
    BY <1>4, <2>2, <2>3 DEF Foremost, Past
  <2>5. b \in 1 .. Len(turns) + 1
    BY <2>2 DEF Foremost
  <2>6. b = f[(h + 1) - 1]
    BY <2>1 DEF b
  <2>7. Foremost(turns, f[h + 1], Mid(words[h + 1]))
    BY <1>9, <2>1, <2>4, <2>5, <2>6
  <2> QED
    BY <2>7 DEF h
<1>12. Nat \subseteq G
  <2> HIDE DEF G
  <2> QED
    BY <1>10, <1>11, Inductive
<1>13. k - 1 \in Nat /\ (k - 1) + 1 = k /\ k \in 1 .. n
  BY <1>1 DEF n
<1>14. Foremost(turns, f[k], Mid(words[k]))
  BY <1>12, <1>13
<1> QED
  BY <1>2, <1>13, <1>14

\* Turns that follow each other begin one after the other.
LEMMA TurnsAscend ==
  ASSUME NEW turns \in Seq(Turns), OrderedTurns(turns), NEW i \in 1 .. Len(turns),
         NEW j \in 1 .. Len(turns), i <= j
  PROVE  turns[i].start <= turns[j].start
<1>1. Len(turns) \in Nat /\ DOMAIN turns = 1 .. Len(turns)
  OBVIOUS
<1>2. \A h \in 1 .. Len(turns) : turns[h].start \in Nat /\ turns[h].end \in Nat
  <2> SUFFICES ASSUME NEW h \in 1 .. Len(turns)
               PROVE  turns[h].start \in Nat /\ turns[h].end \in Nat
    OBVIOUS
  <2>1. turns[h] \in Turns
    OBVIOUS
  <2> QED
    BY <2>1 DEF Turns
<1>3. \A h \in 1 .. Len(turns) : h + 1 \in 1 .. Len(turns) => turns[h].start <= turns[h + 1].start
  <2> SUFFICES ASSUME NEW h \in 1 .. Len(turns), h + 1 \in 1 .. Len(turns)
               PROVE  turns[h].start <= turns[h + 1].start
    OBVIOUS
  <2>1. h \in 1 .. Len(turns) - 1
    BY <1>1
  <2>2. turns[h].start <= turns[h].end /\ turns[h].end <= turns[h + 1].start
    BY <1>1, <2>1 DEF OrderedTurns
  <2> QED
    BY <1>2, <2>2
<1> DEFINE G == {d \in Nat : i + d \in 1 .. Len(turns) => turns[i].start <= turns[i + d].start}
<1>4. 0 \in G
  <2>1. i + 0 = i
    OBVIOUS
  <2> QED
    BY <1>2, <2>1
<1>5. ASSUME NEW d \in Nat, d \in G PROVE d + 1 \in G
  <2> SUFFICES ASSUME i + (d + 1) \in 1 .. Len(turns)
               PROVE  turns[i].start <= turns[i + (d + 1)].start
    OBVIOUS
  <2> DEFINE h == i + d
  <2>1. h \in 1 .. Len(turns) /\ i + (d + 1) = h + 1 /\ h + 1 \in 1 .. Len(turns)
    BY <1>1
  <2>2. turns[i].start <= turns[h].start
    BY <1>5, <2>1
  <2> HIDE DEF h
  <2> QED
    BY <1>2, <1>3, <2>1, <2>2
<1>6. Nat \subseteq G
  <2> HIDE DEF G
  <2> QED
    BY <1>4, <1>5, Inductive
<1>7. j - i \in Nat /\ i + (j - i) = j
  OBVIOUS
<1> QED
  BY <1>6, <1>7

\* So one pass over the turns finds for every word what a search of them all does.
LEMMA CursorFinds ==
  ASSUME NEW turns \in Seq(Turns), NEW words \in Seq(Words), OrderedTurns(turns),
         OrderedWords(words), NEW k \in 1 .. Len(words)
  PROVE  SpeakerAt(turns, Cursor(turns, words)[k], Mid(words[k])) = FirstMatch(turns, Mid(words[k]))
<1> DEFINE c == Cursor(turns, words)[k]
           mid == Mid(words[k])
           those == {i \in 1 .. Len(turns) : turn_contains(turns[i], mid)}
<1>1. Foremost(turns, c, mid)
  BY CursorIsForemost
<1>2. Len(turns) \in Nat /\ DOMAIN turns = 1 .. Len(turns)
  OBVIOUS
<1>3. mid \in Nat
  <2>1. words[k] \in Words
    OBVIOUS
  <2> QED
    BY <2>1 DEF Words, Mid
<1>4. \A h \in 1 .. Len(turns) : turns[h].start \in Nat /\ turns[h].end \in Nat
  <2> SUFFICES ASSUME NEW h \in 1 .. Len(turns)
               PROVE  turns[h].start \in Nat /\ turns[h].end \in Nat
    OBVIOUS
  <2>1. turns[h] \in Turns
    OBVIOUS
  <2> QED
    BY <2>1 DEF Turns
<1>5. FirstMatch(turns, mid) = IF those = {} THEN NoSpeaker ELSE turns[Min(those)].speaker
  BY <1>2 DEF FirstMatch
<1>6. SpeakerAt(turns, c, mid) = IF c > Len(turns) \/ ~turn_contains(turns[c], mid)
                                 THEN NoSpeaker ELSE turns[c].speaker
  BY DEF SpeakerAt
<1> HIDE DEF c, mid
<1>7. c \in 1 .. Len(turns) + 1
  BY <1>1 DEF Foremost
<1>8. ASSUME NEW i \in those PROVE c <= i /\ i \in 1 .. Len(turns)
  <2>1. i \in 1 .. Len(turns) /\ mid <= 2 * turns[i].end
    BY DEF turn_contains
  <2>2. ~Past(turns[i], mid)
    BY <1>3, <1>4, <2>1 DEF Past
  <2> QED
    BY <1>1, <1>7, <2>1, <2>2 DEF Foremost
<1>9. CASE c > Len(turns)
  <2>1. those = {}
    BY <1>2, <1>7, <1>8, <1>9
  <2> QED
    BY <1>5, <1>6, <1>9, <2>1 DEF c, mid
<1>10. CASE ~(c > Len(turns)) /\ turn_contains(turns[c], mid)
  <2>1. c \in those /\ those \in SUBSET Nat
    BY <1>2, <1>7, <1>10
  <2>2. Min(those) \in those /\ Min(those) <= c
    <3> HIDE DEF those
    <3> QED
      BY <2>1, MinIs
  <2>3. Min(those) = c
    <3> DEFINE m == Min(those)
    <3>1. m \in those /\ m <= c /\ m \in Nat
      BY <2>1, <2>2
    <3> HIDE DEF m
    <3>2. c <= m
      BY <1>8, <3>1
    <3> QED
      BY <1>7, <3>1, <3>2 DEF m
  <2> QED
    BY <1>5, <1>6, <1>10, <2>1, <2>3 DEF c, mid
<1>11. CASE ~(c > Len(turns)) /\ ~turn_contains(turns[c], mid)
  <2>1. c \in 1 .. Len(turns) /\ ~Past(turns[c], mid)
    BY <1>1, <1>2, <1>7, <1>11 DEF Foremost
  <2>2. mid < 2 * turns[c].start
    BY <1>3, <1>4, <1>11, <2>1 DEF Past, turn_contains
  <2>3. ASSUME NEW i \in those PROVE FALSE
    <3>1. i \in 1 .. Len(turns) /\ c <= i /\ 2 * turns[i].start <= mid
      BY <1>8 DEF turn_contains
    <3>2. turns[c].start <= turns[i].start
      BY <2>1, <3>1, TurnsAscend
    <3> QED
      BY <1>3, <1>4, <2>1, <2>2, <3>1, <3>2
  <2>4. those = {}
    BY <2>3
  <2> QED
    BY <1>5, <1>6, <1>11, <2>4 DEF c, mid
<1> QED
  BY <1>9, <1>10, <1>11

\* A word of a mixed recording has the speaker of the first turn around its middle.
LEMMA SpeakersAssigned ==
  ASSUME NEW turns \in Seq(Turns), NEW words \in Seq(Words), NEW named,
         named = assign_speakers_by_midpoint(turns, words)
  PROVE  /\ Len(named) = Len(words) /\ DOMAIN named = 1 .. Len(words)
         /\ named = [k \in DOMAIN named |->
                       [words[k] EXCEPT !.speaker = FirstMatch(turns, Mid(named[k]))]]
<1>1. Len(words) \in Nat /\ DOMAIN words = 1 .. Len(words)
      /\ \A k \in 1 .. Len(words) : words[k] \in Words
  OBVIOUS
<1> DEFINE who(k) == IF OrderedTurns(turns) /\ OrderedWords(words)
                     THEN SpeakerAt(turns, Cursor(turns, words)[k], Mid(words[k]))
                     ELSE FirstMatch(turns, Mid(words[k]))
<1>2. named = [k \in 1 .. Len(words) |-> [words[k] EXCEPT !.speaker = who(k)]]
  BY <1>1 DEF assign_speakers_by_midpoint
<1>3. \A k \in 1 .. Len(words) : who(k) = FirstMatch(turns, Mid(words[k]))
  BY CursorFinds
<1> HIDE DEF who
<1>4. \A w \in Words : \A x : Mid([w EXCEPT !.speaker = x]) = Mid(w)
  BY DEF Words, Mid
<1>5. \A k \in 1 .. Len(words) : Mid(named[k]) = Mid(words[k])
  <2> SUFFICES ASSUME NEW k \in 1 .. Len(words) PROVE Mid(named[k]) = Mid(words[k])
    OBVIOUS
  <2>1. words[k] \in Words /\ named[k] = [words[k] EXCEPT !.speaker = who(k)]
    BY <1>1, <1>2
  <2> QED
    BY <1>4, <2>1
<1>6. DOMAIN named = 1 .. Len(words) /\ Len(named) = Len(words)
  BY <1>1, <1>2
<1>7. named = [k \in 1 .. Len(words) |->
                 [words[k] EXCEPT !.speaker = FirstMatch(turns, Mid(words[k]))]]
  BY <1>2, <1>3
<1>8. [k \in 1 .. Len(words) |-> [words[k] EXCEPT !.speaker = FirstMatch(turns, Mid(words[k]))]]
      = [k \in 1 .. Len(words) |-> [words[k] EXCEPT !.speaker = FirstMatch(turns, Mid(named[k]))]]
  BY <1>5
<1> QED
  BY <1>6, <1>7, <1>8

-----------------------------------------------------------------------------
(* Recordings and results.                                                 *)

SamplesUpTo(q, j) == SumFrom(0, [k \in 1 .. j |-> q.audio[k].samples])
SaidUpTo(q, j) == [k \in 1 .. j |-> q.audio[k].words]

\* What a request is.
LEMMA AskIs ==
  ASSUME NEW q \in Asks
  PROVE  /\ q.diarization \in BOOLEAN /\ q.budget \in Nat /\ q.audio \in Seq(Recorded)
         /\ q.turns \in Seq(Turns)
         /\ Len(q.audio) \in Nat /\ DOMAIN q.audio = 1 .. Len(q.audio)
         /\ \A k \in 1 .. Len(q.audio) : /\ q.audio[k].samples \in Nat
                                         /\ q.audio[k].words \in Seq(Uttered)
                                         /\ q.audio[k].words \in Seq(Words)
                                         /\ Split(q) => Timely(q.audio[k].words)
         /\ ~Split(q) => Len(q.audio) <= 1
         /\ q.audio = <<>> <=> Len(q.audio) = 0
<1>1. q \in Requested
  BY FileAssumption
<1>2. q.diarization \in BOOLEAN /\ q.budget \in Nat
  BY <1>1 DEF Requested
<1>3. q.audio \in Seq(Recorded) /\ q.turns \in Seq(Turns)
  BY <1>1 DEF Requested, Recorded, Turns
<1> DEFINE a == q.audio
<1>4. a \in Seq(Recorded)
  BY <1>3
<1>5. (Split(q) => \A k \in DOMAIN a : \A i, j \in DOMAIN a[k].words :
                     i < j => a[k].words[i].start <= a[k].words[j].start)
      /\ (~Split(q) => Len(a) <= 1)
  BY FileAssumption
<1> HIDE DEF a
<1>6. Len(a) \in Nat /\ DOMAIN a = 1 .. Len(a) /\ (a = <<>> <=> Len(a) = 0)
      /\ \A k \in 1 .. Len(a) : a[k] \in Recorded
  BY <1>4
<1>7. Uttered \subseteq Words
  BY DEF Uttered, Words, NoSpeaker
<1>8. ASSUME NEW k \in 1 .. Len(a)
      PROVE  /\ a[k].samples \in Nat /\ a[k].words \in Seq(Uttered) /\ a[k].words \in Seq(Words)
             /\ Split(q) => Timely(a[k].words)
  <2>1. a[k] \in Recorded
    BY <1>6
  <2>2. a[k].samples \in Nat /\ a[k].words \in Seq(Uttered)
    BY <2>1 DEF Recorded
  <2> DEFINE w == a[k].words
  <2> HIDE DEF w
  <2>3. w \in Seq(Uttered)
    BY <2>2 DEF w
  <2>4. w \in Seq(Words) /\ DOMAIN w = 1 .. Len(w)
    BY <1>7, <2>3
  <2>5. Split(q) => Timely(w)
    BY <1>5, <1>6, <2>4 DEF Timely, w
  <2> QED
    BY <2>2, <2>4, <2>5 DEF w
<1> QED
  BY <1>2, <1>3, <1>5, <1>6, <1>8 DEF a

\* Samples add up channel by channel.
LEMMA SamplesAdd ==
  ASSUME NEW q \in Asks
  PROVE  /\ SamplesUpTo(q, 0) = 0
         /\ SamplesUpTo(q, Len(q.audio)) = AllSamples(q)
         /\ \A j \in 0 .. Len(q.audio) : SamplesUpTo(q, j) \in Nat
         /\ \A j \in Nat : j + 1 <= Len(q.audio) =>
              SamplesUpTo(q, j + 1) = SamplesUpTo(q, j) + q.audio[j + 1].samples
<1> DEFINE n == Len(q.audio)
           c(j) == [k \in 1 .. j |-> q.audio[k].samples]
<1>1. n \in Nat /\ DOMAIN q.audio = 1 .. n /\ \A k \in 1 .. n : q.audio[k].samples \in Nat
  BY AskIs
<1> HIDE DEF n
<1>2. \A j \in 0 .. n : c(j) \in Seq(Nat) /\ Len(c(j)) = j
  BY <1>1
<1>3. SamplesUpTo(q, 0) = 0
  <2>1. c(0) = <<>>
    OBVIOUS
  <2>2. SumFrom(0, <<>>) = 0
    <3>1. <<>> \in Seq(Nat) /\ 0 \in Nat
      OBVIOUS
    <3> QED
      BY <3>1, SumGrows
  <2> QED
    BY <2>1, <2>2 DEF SamplesUpTo
<1>4. SamplesUpTo(q, n) = AllSamples(q)
  BY <1>1 DEF SamplesUpTo, AllSamples, AddedUp, SumFrom
<1>5. ASSUME NEW j \in Nat, j + 1 <= n
      PROVE  SamplesUpTo(q, j + 1) = SamplesUpTo(q, j) + q.audio[j + 1].samples
  <2> DEFINE x == c(j)
             y == c(j + 1)
             v == q.audio[j + 1].samples
  <2>1. x \in Seq(Nat) /\ Len(x) = j /\ y \in Seq(Nat) /\ Len(y) = j + 1 /\ v \in Nat
    BY <1>1, <1>2, <1>5
  <2>2. y[j + 1] = v /\ \A k \in 1 .. j : y[k] = x[k]
    OBVIOUS
  <2>3. SumFrom(0, x) = SamplesUpTo(q, j) /\ SumFrom(0, y) = SamplesUpTo(q, j + 1)
    BY DEF SamplesUpTo
  <2> HIDE DEF x, y, v
  <2>4. y = Append(x, v)
    BY <2>1, <2>2
  <2>5. SumFrom(0, Append(x, v)) = SumFrom(0, x) + v
    BY <2>1, SumGrows
  <2> QED
    BY <2>3, <2>4, <2>5 DEF v
<1>6. ASSUME NEW j \in 0 .. n PROVE SamplesUpTo(q, j) \in Nat
  <2> DEFINE G == {i \in Nat : i <= n => SamplesUpTo(q, i) \in Nat}
  <2>1. 0 \in G
    BY <1>3
  <2>2. ASSUME NEW i \in Nat, i \in G PROVE i + 1 \in G
    <3> SUFFICES ASSUME i + 1 <= n PROVE SamplesUpTo(q, i + 1) \in Nat
      OBVIOUS
    <3>1. q.audio[i + 1].samples \in Nat /\ SamplesUpTo(q, i) \in Nat
      BY <1>1, <2>2
    <3> QED
      BY <1>5, <3>1
  <2>3. Nat \subseteq G
    <3> HIDE DEF G
    <3> QED
      BY <2>1, <2>2, Inductive
  <2> QED
    BY <1>1, <2>3
<1> QED
  BY <1>3, <1>4, <1>5, <1>6 DEF n

\* What was said is gathered channel by channel.
LEMMA SaidIs ==
  ASSUME NEW q \in Asks, NEW j \in Nat, j <= Len(q.audio)
  PROVE  /\ SaidUpTo(q, j) \in Seq(Seq(Words)) /\ Len(SaidUpTo(q, j)) = j
         /\ \A k \in 1 .. j : SaidUpTo(q, j)[k] = q.audio[k].words
         /\ j = 0 => SaidUpTo(q, j) = <<>>
         /\ j + 1 <= Len(q.audio) =>
              SaidUpTo(q, j + 1) = Append(SaidUpTo(q, j), q.audio[j + 1].words)
<1> DEFINE n == Len(q.audio)
           said(i) == [k \in 1 .. i |-> q.audio[k].words]
<1>1. n \in Nat /\ \A k \in 1 .. n : q.audio[k].words \in Seq(Words)
  BY AskIs
<1>2. j <= n
  OBVIOUS
<1> HIDE DEF n
<1>3. \A i \in 0 .. n : said(i) \in Seq(Seq(Words)) /\ Len(said(i)) = i
  BY <1>1
<1>4. j \in 0 .. n
  BY <1>1, <1>2
<1>5. j = 0 => said(j) = <<>>
  OBVIOUS
<1>6. ASSUME j + 1 <= n PROVE said(j + 1) = Append(said(j), q.audio[j + 1].words)
  <2> DEFINE x == said(j)
             y == said(j + 1)
             v == q.audio[j + 1].words
  <2>1. x \in Seq(Seq(Words)) /\ Len(x) = j /\ y \in Seq(Seq(Words)) /\ Len(y) = j + 1
        /\ v \in Seq(Words)
    BY <1>1, <1>3, <1>4, <1>6
  <2>2. y[j + 1] = v /\ \A k \in 1 .. j : y[k] = x[k]
    OBVIOUS
  <2> HIDE DEF x, y, v
  <2>3. y = Append(x, v)
    BY <2>1, <2>2
  <2> QED
    BY <2>3 DEF x, y, v
<1>7. said(j) \in Seq(Seq(Words)) /\ Len(said(j)) = j
  BY <1>3, <1>4
<1>8. \A k \in 1 .. j : said(j)[k] = q.audio[k].words
  OBVIOUS
<1>9. SaidUpTo(q, j) = said(j) /\ SaidUpTo(q, j + 1) = said(j + 1)
  BY DEF SaidUpTo
<1> HIDE DEF said
<1> QED
  BY <1>5, <1>6, <1>7, <1>8, <1>9 DEF n

-----------------------------------------------------------------------------
(* Transcripts.                                                            *)

\* A mixed recording is one sequence of words.
LEMMA FlattenOne ==
  ASSUME NEW S, NEW x \in Seq(S), NEW seqs, seqs = <<x>>
  PROVE  FlattenSeq(seqs) = x
<1>1. <<>> \in Seq(Seq(S)) /\ Append(<<>>, x) = <<x>> /\ <<>> \o x = x
  OBVIOUS
<1>2. FlattenSeq(<<>>) = <<>>
  BY DEF FlattenSeq
<1> QED
  BY <1>1, <1>2, FlattenAppend

\* A sequence of words in which a speaker has every one.
LEMMA AllInOrder ==
  ASSUME NEW words \in Seq(Words), NEW places, places = DOMAIN words
  PROVE  SaidInOrder(words, words, places)
<1> DEFINE at == [i \in DOMAIN words |-> i]
<1>1. at \in [DOMAIN words -> DOMAIN words]
  OBVIOUS
<1>2. places = {at[i] : i \in DOMAIN words}
  OBVIOUS
<1>3. \A i \in DOMAIN words : words[at[i]] = words[i]
  OBVIOUS
<1>4. \A i, j \in DOMAIN words : i < j => at[i] < at[j]
  OBVIOUS
<1> HIDE DEF at
<1> QED
  BY <1>1, <1>2, <1>3, <1>4 DEF SaidInOrder

\* The words of a request, counted.
AllWords(q) == AddedUp([k \in DOMAIN q.audio |-> Len(q.audio[k].words)])

LEMMA WordsCounted ==
  ASSUME NEW q \in Asks
  PROVE  AllWords(q) = SumFrom(0, LengthsOf(SaidUpTo(q, Len(q.audio))))
<1> DEFINE n == Len(q.audio)
           said == SaidUpTo(q, n)
<1>1. n \in Nat /\ DOMAIN q.audio = 1 .. n
  BY AskIs
<1>2. said \in Seq(Seq(Words)) /\ Len(said) = n /\ \A k \in 1 .. n : said[k] = q.audio[k].words
  <2>1. n <= Len(q.audio)
    BY <1>1
  <2> QED
    BY <1>1, <2>1, SaidIs
<1> HIDE DEF n, said
<1>3. DOMAIN said = 1 .. n
  BY <1>2
<1>4. LengthsOf(said) = [k \in DOMAIN q.audio |-> Len(q.audio[k].words)]
  BY <1>1, <1>2, <1>3 DEF LengthsOf
<1> QED
  BY <1>4 DEF AllWords, AddedUp, SumFrom, said, n

\* A split recording, merged.
LEMMA MergedIsTrue ==
  ASSUME NEW q \in Asks, Split(q), NEW outcome, outcome # "applied",
         NEW merged, merged = merge_channel_results(SaidUpTo(q, Len(q.audio)))
  PROVE  TranscriptIsTrue(q, outcome, merged)
<1> DEFINE n == Len(q.audio)
           per == SaidUpTo(q, n)
           words == BySpeaker(per)
<1>1. n \in Nat /\ DOMAIN q.audio = 1 .. n
  BY AskIs
<1>2. per \in Seq(Seq(Words)) /\ Len(per) = n /\ \A k \in 1 .. n : per[k] = q.audio[k].words
  <2>1. n <= Len(q.audio)
    BY <1>1
  <2> QED
    BY <1>1, <2>1, SaidIs
<1>3. \A k \in 1 .. n : Timely(per[k])
  BY <1>2, AskIs
<1>4. AllWords(q) = SumFrom(0, LengthsOf(per))
  BY WordsCounted
<1>5. merged = merge_channel_results(per)
  OBVIOUS
<1> HIDE DEF n, per
<1>6. PICK off : RunningSums(off, LengthsOf(per)) /\ SumFrom(0, LengthsOf(per)) = off[n]
  <2>1. LengthsOf(per) \in Seq(Nat) /\ Len(LengthsOf(per)) = n
    BY <1>2, LengthsAre
  <2> QED
    BY <2>1, SumOffsets
<1>7. words \in Seq(Words) /\ Len(words) = off[n]
  BY <1>2, <1>6, BySpeakerIs
<1> HIDE DEF words
<1>8. PICK at : Merges(words, merged, at)
  BY <1>5, <1>7, ChronologicalMerges DEF merge_channel_results, words
<1>9. merged \in Seq(Words) /\ Len(merged) = Len(words) /\ Len(words) \in Nat
  BY <1>7, <1>8 DEF Merges
<1>10. Len(merged) = AllWords(q)
  BY <1>4, <1>6, <1>7, <1>9
<1>11. \A i \in 1 .. Len(merged) - 1 : merged[i].start <= merged[i + 1].start
  BY <1>7, <1>8, <1>9, MergedIsTimely
<1>12. ASSUME NEW k \in 1 .. n
       PROVE  SaidInOrder(Voice(q, k), merged, {i \in DOMAIN merged : merged[i].speaker = Of(q, k)})
  <2>1. SaidInOrder(Label(per[k], k - 1), merged, {i \in DOMAIN merged : merged[i].speaker = k - 1})
    BY <1>2, <1>3, <1>5, ChannelsKeepOrder
  <2>2. Of(q, k) = k - 1 /\ Voice(q, k) = Label(per[k], k - 1)
    BY <1>2 DEF Of, Voice
  <2> QED
    BY <2>1, <2>2
<1> QED
  BY <1>1, <1>10, <1>11, <1>12 DEF TranscriptIsTrue, AllWords

\* A mixed recording of which nobody knows who spoke.
LEMMA MixedIsTrue ==
  ASSUME NEW q \in Asks, ~Split(q), NEW outcome, outcome # "applied", Len(q.audio) # 0,
         NEW words, words = FlattenSeq(SaidUpTo(q, Len(q.audio)))
  PROVE  TranscriptIsTrue(q, outcome, words)
<1>1. Len(q.audio) = 1 /\ DOMAIN q.audio = {1} /\ q.audio[1].words \in Seq(Words)
      /\ q.audio[1].words \in Seq(Uttered)
  <2> DEFINE n == Len(q.audio)
  <2>1. n \in Nat /\ n <= 1 /\ DOMAIN q.audio = 1 .. n
    BY AskIs
  <2>2. n # 0
    OBVIOUS
  <2> HIDE DEF n
  <2>3. n = 1 /\ 1 .. 1 = {1}
    BY <2>1, <2>2
  <2> QED
    BY <2>1, <2>3, AskIs DEF n
<1> DEFINE v == q.audio[1].words
           said == SaidUpTo(q, 1)
<1>2. said \in Seq(Seq(Words)) /\ Len(said) = 1 /\ said[1] = v
  BY <1>1, SaidIs
<1>3. said = <<v>>
  <2> HIDE DEF said, v
  <2>1. v \in Seq(Words)
    BY <1>1 DEF v
  <2> QED
    BY <1>2, <2>1, OneElement
<1>4. words = v
  BY <1>1, <1>3, FlattenOne
<1>5. AllWords(q) = Len(words)
  <2>1. AllWords(q) = SumFrom(0, LengthsOf(said))
    BY <1>1, WordsCounted
  <2>2. FlattenSeq(said) \in Seq(Words) /\ Len(FlattenSeq(said)) = SumFrom(0, LengthsOf(said))
    BY <1>2, FlattenLength
  <2> QED
    BY <1>1, <2>1, <2>2
<1> HIDE DEF v, said
<1>6. v \in Seq(Words) /\ v \in Seq(Uttered) /\ Len(v) \in Nat /\ DOMAIN v = 1 .. Len(v)
  BY <1>1 DEF v
<1>7. \A i \in 1 .. Len(v) : v[i].speaker = NoSpeaker /\ [v[i] EXCEPT !.speaker = NoSpeaker] = v[i]
  <2> SUFFICES ASSUME NEW i \in 1 .. Len(v)
               PROVE  v[i].speaker = NoSpeaker /\ [v[i] EXCEPT !.speaker = NoSpeaker] = v[i]
    OBVIOUS
  <2>1. v[i] \in Uttered
    BY <1>6
  <2> QED
    BY <2>1 DEF Uttered
<1>8. Voice(q, 1) = v
  <2>1. Voice(q, 1) = [i \in 1 .. Len(v) |-> [v[i] EXCEPT !.speaker = NoSpeaker]]
    BY <1>6 DEF Voice, Of, Label, v
  <2>2. [i \in 1 .. Len(v) |-> [v[i] EXCEPT !.speaker = NoSpeaker]] = [i \in 1 .. Len(v) |-> v[i]]
    BY <1>7
  <2> QED
    BY <1>6, <2>1, <2>2
<1>9. {i \in DOMAIN words : words[i].speaker = Of(q, 1)} = DOMAIN v
  BY <1>4, <1>6, <1>7 DEF Of
<1>10. SaidInOrder(Voice(q, 1), words, {i \in DOMAIN words : words[i].speaker = Of(q, 1)})
  BY <1>4, <1>6, <1>8, <1>9, AllInOrder
<1> QED
  BY <1>1, <1>5, <1>10 DEF TranscriptIsTrue, AllWords

\* A mixed recording whose words got their speakers.
LEMMA AppliedIsTrue ==
  ASSUME NEW q \in Asks, ~Split(q), Len(q.audio) # 0,
         NEW words, words = assign_speakers_by_midpoint(q.turns, q.audio[1].words)
  PROVE  TranscriptIsTrue(q, "applied", words)
<1>1. Len(q.audio) = 1 /\ DOMAIN q.audio = {1} /\ q.audio[1].words \in Seq(Words)
      /\ q.turns \in Seq(Turns)
  <2> DEFINE n == Len(q.audio)
  <2>1. n \in Nat /\ n <= 1 /\ DOMAIN q.audio = 1 .. n
    BY AskIs
  <2>2. n # 0
    OBVIOUS
  <2> HIDE DEF n
  <2>3. n = 1 /\ 1 .. 1 = {1}
    BY <2>1, <2>2
  <2> QED
    BY <2>1, <2>3, AskIs DEF n
<1> DEFINE v == q.audio[1].words
           said == SaidUpTo(q, 1)
<1>2. said \in Seq(Seq(Words)) /\ Len(said) = 1 /\ said[1] = v
  BY <1>1, SaidIs
<1>3. said = <<v>>
  <2> HIDE DEF said, v
  <2>1. v \in Seq(Words)
    BY <1>1 DEF v
  <2> QED
    BY <1>2, <2>1, OneElement
<1>4. AllWords(q) = Len(v)
  <2>1. AllWords(q) = SumFrom(0, LengthsOf(said))
    BY <1>1, WordsCounted
  <2>2. Len(FlattenSeq(said)) = SumFrom(0, LengthsOf(said))
    BY <1>2, FlattenLength
  <2>3. v \in Seq(Words) /\ said = <<v>>
    BY <1>1, <1>3
  <2> HIDE DEF said, v
  <2>4. FlattenSeq(said) = v
    BY <2>3, FlattenOne
  <2> QED
    BY <2>1, <2>2, <2>4
<1>5. /\ Len(words) = Len(v)
      /\ words = [k \in DOMAIN words |-> [v[k] EXCEPT !.speaker = FirstMatch(q.turns, Mid(words[k]))]]
  <2> DEFINE w == q.audio[1].words
             turned == q.turns
  <2>1. w \in Seq(Words) /\ turned \in Seq(Turns) /\ words = assign_speakers_by_midpoint(turned, w)
    BY <1>1
  <2> HIDE DEF w, turned
  <2>2. /\ Len(words) = Len(w)
        /\ words = [k \in DOMAIN words |-> [w[k] EXCEPT !.speaker = FirstMatch(turned, Mid(words[k]))]]
    BY <2>1, SpeakersAssigned
  <2> QED
    BY <2>2 DEF w, turned
<1>6. Len(words) = AllWords(q)
  BY <1>4, <1>5
<1> QED
  BY <1>5, <1>6 DEF TranscriptIsTrue, AllWords

\* A request without audio.
LEMMA NothingIsTrue ==
  ASSUME NEW q \in Asks, Len(q.audio) = 0
  PROVE  TranscriptIsTrue(q, "none", <<>>) /\ ~TooLong(q) /\ AllSamples(q) = 0
<1>1. DOMAIN q.audio = {} /\ Len(q.audio) \in Nat
  <2>1. DOMAIN q.audio = 1 .. 0
    BY AskIs
  <2> QED
    BY <2>1
<1>2. AllWords(q) = 0
  <2>1. [k \in DOMAIN q.audio |-> Len(q.audio[k].words)] = <<>>
    BY <1>1
  <2>2. SumFrom(0, <<>>) = 0
    <3>1. <<>> \in Seq(Nat) /\ 0 \in Nat
      OBVIOUS
    <3> QED
      BY <3>1, SumGrows
  <2> QED
    BY <2>1, <2>2 DEF AllWords, AddedUp, SumFrom
<1>3. AllSamples(q) = 0
  <2>1. SamplesUpTo(q, 0) = 0 /\ SamplesUpTo(q, Len(q.audio)) = AllSamples(q)
    BY SamplesAdd
  <2> QED
    BY <2>1
<1>4. ~TooLong(q)
  BY <1>1 DEF TooLong, Lengths
<1>5. TranscriptIsTrue(q, "none", <<>>)
  <2> DEFINE none == <<>>
  <2>1. Len(none) = 0
    OBVIOUS
  <2> HIDE DEF none
  <2>2. TranscriptIsTrue(q, "none", none)
    BY <1>1, <1>2, <2>1 DEF TranscriptIsTrue, AllWords
  <2> QED
    BY <2>2 DEF none
<1> QED
  BY <1>3, <1>4, <1>5

-----------------------------------------------------------------------------
(* Where a request is.                                                     *)

Working(d) == d \in {"decode", "window", "decoded"}
Speaking(d) == d \in {"encoder", "loading", "speakers"}
Ending(d) == d \in {"finish", "returning"}
Steps == {"called", "decode", "window", "decoded", "encoder", "loading", "speakers", "finish",
          "returning", "over"}

StepOf(q, d, ch) ==
  /\ q \in Asks /\ d \in Steps /\ ch \in 1 .. Len(q.audio) + 1
  /\ d = "called" => ch = 1
  /\ Working(d) => ch <= Len(q.audio)
  /\ Speaking(d) \/ Ending(d) => ch = Len(q.audio) + 1 /\ Len(q.audio) # 0
  /\ Speaking(d) => Wanted(q)

\* What the watchdog reads is what the channels done had, and as far as it is into
\* the next one.
ProgressOf(q, d, ch, done, told, most) ==
  /\ done = SamplesUpTo(q, ch - 1) /\ told \in Nat /\ most = told
  /\ d \notin {"window", "decoded", "over"} => told = done
  /\ d = "window" => told = done + q.audio[ch].samples \div 2
  /\ d = "decoded" => told = done + q.audio[ch].samples

\* The snapshot has a part for every channel done, and for the one that has begun.
ShownOf(q, d, ch, parts) ==
  /\ parts \in Seq(Seq(Words)) /\ Len(parts) <= Len(q.audio)
  /\ Len(parts) \in {ch - 1, ch}
  /\ \A k \in 1 .. Len(parts) :
       /\ IsPrefix(parts[k], q.audio[k].words)
       /\ k < ch => parts[k] = q.audio[k].words
  /\ d \notin {"window", "decoded", "over"} => Len(parts) = ch - 1
  /\ d \in {"window", "decoded"} => Len(parts) = ch
  /\ d = "decoded" => parts[ch] = q.audio[ch].words

\* The words are gathered channel by channel, then get their speakers.
GatheredOf(q, d, ch, outcome, gathered) ==
  /\ d = "called" \/ Working(d) \/ Speaking(d) => gathered = SaidUpTo(q, ch - 1)
  /\ Ending(d) =>
       IF outcome = "applied"
       THEN gathered = <<assign_speakers_by_midpoint(q.turns, q.audio[1].words)>>
       ELSE gathered = SaidUpTo(q, Len(q.audio))

\* What is told of the speakers is what came of them.
SpeakersOf(q, d, came, outcome, up, intime, file) ==
  /\ intime => up
  /\ d = "returning" => ~intime
  /\ came = "no_speaker_model" => file # "good"
  /\ came \in {"embedded", "applied", "ceiling", "failed", "interrupted"} => file = "good"
  /\ came = "interrupted" => up
  /\ outcome # "none" => outcome = came /\ outcome # "interrupted"
  /\ d = "called" \/ Working(d) \/ Speaking(d) => outcome = "none"
  /\ Ending(d) => (outcome # "none" <=> Wanted(q))

\* No channel that was decoded is over the budget.
WithinOf(q, d, ch) ==
  q.budget > 0 =>
    /\ \A k \in 1 .. Len(q.audio) : k < ch => q.audio[k].samples <= q.budget
    /\ d \in {"window", "decoded"} => q.audio[ch].samples <= q.budget

RepliedOf(q, d, outcome, intime, told, reported) ==
  /\ d # "over" => reported.kind # "ok"
  /\ reported.kind = "ok" =>
       /\ ~intime /\ ~TooLong(q) /\ told = AllSamples(q)
       /\ outcome # "none" <=> (Wanted(q) /\ q.audio # <<>>)
       /\ TranscriptIsTrue(q, outcome, reported.words)

RequestOf(c) ==
  /\ StepOf(ask[c], doing[c], channel[c])
  /\ ProgressOf(ask[c], doing[c], channel[c], completed[c], progress[c], furthest[c])
  /\ ShownOf(ask[c], doing[c], channel[c], shown[c])
  /\ GatheredOf(ask[c], doing[c], channel[c], sink[c], results[c])
  /\ SpeakersOf(ask[c], doing[c], clustering[c], sink[c], abort[c], early[c], model)
  /\ WithinOf(ask[c], doing[c], channel[c])
  /\ RepliedOf(ask[c], doing[c], sink[c], early[c], progress[c], reply[c])

\* The slot is loaded once, by whoever holds its lock.
SlotIs ==
  /\ encoder \in {"absent", "pending", "ready", "failed"} /\ model \in Models
  /\ encoder = "absent" => loads = 0 /\ model = "absent"
  /\ encoder = "pending" => loads = IF mutex = Nobody THEN 0 ELSE 1
  /\ encoder = "ready" => loads = 1 /\ model = "good"
  /\ encoder = "failed" => loads = 1 /\ model # "good"
  /\ mutex # Nobody => encoder = "pending"
  /\ \A c \in Callers :
       /\ doing[c] = "loading" => mutex = c
       /\ doing[c] = "speakers" => encoder # "pending"

Kept ==
  /\ DOMAIN ask = Callers /\ DOMAIN doing = Callers /\ DOMAIN channel = Callers
  /\ DOMAIN results = Callers /\ DOMAIN completed = Callers /\ DOMAIN progress = Callers
  /\ DOMAIN furthest = Callers /\ DOMAIN shown = Callers /\ DOMAIN clustering = Callers
  /\ DOMAIN sink = Callers /\ DOMAIN abort = Callers /\ DOMAIN early = Callers
  /\ DOMAIN reply = Callers

FilesAre == Kept /\ SlotIs /\ \A c \in Callers : RequestOf(c)

-----------------------------------------------------------------------------
(* Parts of it, one by one.                                                *)

LEMMA MaxOfTwo ==
  ASSUME NEW a \in Nat, NEW b \in Nat, a <= b
  PROVE  Max({a, b}) = b
<1> DEFINE both == {a, b}
<1>1. b \in both /\ \A y \in both : b >= y
  OBVIOUS
<1>2. \A x \in both : (\A y \in both : x >= y) => x = b
  OBVIOUS
<1> QED
  BY <1>1, <1>2 DEF Max

LEMMA BeginningIs ==
  ASSUME NEW S, NEW w \in Seq(S), NEW m \in 0 .. Len(w)
  PROVE  /\ SubSeq(w, 1, m) \in Seq(S) /\ IsPrefix(SubSeq(w, 1, m), w)
         /\ IsPrefix(w, w)
<1> DEFINE s == SubSeq(w, 1, m)
<1>1. Len(w) \in Nat /\ m \in Nat /\ m <= Len(w)
  OBVIOUS
<1>2. s \in Seq(S) /\ Len(s) = m /\ \A i \in 1 .. m : s[i] = w[i]
  OBVIOUS
<1> HIDE DEF s
<1>3. SubSeq(s, 1, m) = s
  BY <1>1, <1>2
<1>4. s = SubSeq(w, 1, m)
  BY DEF s
<1> QED
  BY <1>1, <1>2, <1>3, <1>4 DEF IsPrefix, s

\* The part of the channel is put after those of the channels before.
LEMMA Published ==
  ASSUME NEW S, NEW parts \in Seq(S), NEW ch \in Nat, ch >= 1, Len(parts) \in {ch - 1, ch},
         NEW w \in S, NEW new,
         new = IF ch = 1 THEN <<w>> ELSE SubSeq(parts, 1, ch - 1) \o <<w>>
  PROVE  /\ new \in Seq(S) /\ Len(new) = ch /\ new[ch] = w
         /\ \A k \in 1 .. ch - 1 : new[k] = parts[k]
<1>1. CASE ch = 1
  <2>1. new = <<w>> /\ 1 .. ch - 1 = {}
    BY <1>1
  <2> QED
    BY <1>1, <2>1
<1>2. CASE ch # 1
  <2> DEFINE first == SubSeq(parts, 1, ch - 1)
             m == ch - 1
  <2>1. m \in Nat /\ m <= Len(parts) /\ ch = m + 1 /\ Len(parts) \in Nat
    OBVIOUS
  <2>2. first = SubSeq(parts, 1, m)
    OBVIOUS
  <2>3. new = first \o <<w>>
    BY <1>2
  <2> HIDE DEF first, m
  <2>4. first \in Seq(S) /\ Len(first) = m /\ \A k \in 1 .. m : first[k] = parts[k]
    BY <2>1, <2>2
  <2>5. first \o <<w>> = Append(first, w)
    BY <2>4
  <2>6. new = Append(first, w)
    BY <2>3, <2>5
  <2>7. /\ new \in Seq(S) /\ Len(new) = m + 1 /\ new[m + 1] = w
        /\ \A k \in 1 .. m : new[k] = first[k]
    BY <2>4, <2>6, AppendIs
  <2>8. /\ new \in Seq(S) /\ Len(new) = ch /\ new[ch] = w
        /\ \A k \in 1 .. m : new[k] = parts[k]
    BY <2>1, <2>4, <2>7
  <2> QED
    BY <2>8 DEF m
<1> QED
  BY <1>1, <1>2

\* The first window's part is a beginning of what is said, the last one's is all of it.
LEMMA PartPublished ==
  ASSUME NEW q \in Asks, NEW ch \in 1 .. Len(q.audio), NEW d, d \in {"decode", "window"},
         NEW parts, ShownOf(q, d, ch, parts),
         NEW w \in Seq(Words), IsPrefix(w, q.audio[ch].words), NEW new,
         new = IF ch = 1 THEN <<w>> ELSE SubSeq(parts, 1, ch - 1) \o <<w>>
  PROVE  /\ ShownOf(q, "window", ch, new)
         /\ w = q.audio[ch].words => ShownOf(q, "decoded", ch, new)
<1>1. ch \in Nat /\ ch >= 1 /\ Len(q.audio) \in Nat /\ ch <= Len(q.audio)
  BY AskIs
<1>2. /\ parts \in Seq(Seq(Words)) /\ Len(parts) \in {ch - 1, ch}
      /\ \A k \in 1 .. Len(parts) : /\ IsPrefix(parts[k], q.audio[k].words)
                                    /\ k < ch => parts[k] = q.audio[k].words
  BY DEF ShownOf
<1>3. ASSUME NEW k \in 1 .. ch - 1
      PROVE  /\ IsPrefix(parts[k], q.audio[k].words) /\ parts[k] = q.audio[k].words
  <2>1. ch - 1 <= Len(parts)
    BY <1>1, <1>2
  <2>2. k \in 1 .. Len(parts) /\ k < ch
    <3> DEFINE m == Len(parts)
    <3>1. m \in Nat /\ ch - 1 <= m
      BY <1>1, <1>2, <2>1
    <3> HIDE DEF m
    <3>2. k \in 1 .. m /\ k < ch
      BY <1>1, <3>1
    <3> QED
      BY <3>2 DEF m
  <2> QED
    BY <1>2, <2>2
<1>4. /\ new \in Seq(Seq(Words)) /\ Len(new) = ch /\ new[ch] = w
      /\ \A k \in 1 .. ch - 1 : new[k] = parts[k]
  BY <1>1, <1>2, Published
<1>5. ASSUME NEW k \in 1 .. ch
      PROVE  IsPrefix(new[k], q.audio[k].words) /\ (k < ch => new[k] = q.audio[k].words)
  <2>1. CASE k = ch
    <3>1. ~(k < ch)
      BY <1>1, <2>1
    <3> QED
      BY <1>4, <2>1, <3>1, Zenon
  <2>2. CASE k # ch
    <3>1. k \in 1 .. ch - 1
      BY <1>1, <2>2
    <3>2. new[k] = parts[k] /\ IsPrefix(parts[k], q.audio[k].words) /\ parts[k] = q.audio[k].words
      BY <1>3, <1>4, <3>1
    <3> QED
      BY <3>2
  <2> QED
    BY <2>1, <2>2
<1>6. Len(new) \in {ch - 1, ch} /\ Len(new) <= Len(q.audio)
  BY <1>1, <1>4
<1>7. \A k \in 1 .. Len(new) : /\ IsPrefix(new[k], q.audio[k].words)
                               /\ k < ch => new[k] = q.audio[k].words
  BY <1>4, <1>5
<1>8. ShownOf(q, "window", ch, new)
  BY <1>4, <1>6, <1>7 DEF ShownOf
<1>9. w = q.audio[ch].words => ShownOf(q, "decoded", ch, new)
  BY <1>4, <1>6, <1>7 DEF ShownOf
<1> QED
  BY <1>8, <1>9

\* A request that is over keeps what it had.
LEMMA OverIs ==
  ASSUME NEW q, NEW d, NEW ch, NEW done, NEW told, NEW most, NEW parts, NEW came, NEW outcome,
         NEW up, NEW intime, NEW file, NEW gathered,
         StepOf(q, d, ch), ProgressOf(q, d, ch, done, told, most), ShownOf(q, d, ch, parts),
         SpeakersOf(q, d, came, outcome, up, intime, file), WithinOf(q, d, ch)
  PROVE  /\ StepOf(q, "over", ch) /\ ProgressOf(q, "over", ch, done, told, most)
         /\ ShownOf(q, "over", ch, parts) /\ GatheredOf(q, "over", ch, outcome, gathered)
         /\ SpeakersOf(q, "over", came, outcome, up, intime, file) /\ WithinOf(q, "over", ch)
<1>1. StepOf(q, "over", ch)
  BY DEF StepOf, Working, Speaking, Ending, Steps
<1>2. ProgressOf(q, "over", ch, done, told, most)
  BY DEF ProgressOf
<1>3. ShownOf(q, "over", ch, parts)
  BY DEF ShownOf
<1>4. GatheredOf(q, "over", ch, outcome, gathered)
  BY DEF GatheredOf, Working, Speaking, Ending
<1>5. SpeakersOf(q, "over", came, outcome, up, intime, file)
  BY DEF SpeakersOf, Working, Speaking, Ending
<1>6. WithinOf(q, "over", ch)
  BY DEF WithinOf
<1> QED
  BY <1>1, <1>2, <1>3, <1>4, <1>5, <1>6

\* What is not answered with a transcript says nothing.
LEMMA NotOk ==
  ASSUME NEW q, NEW d, NEW outcome, NEW intime, NEW told, NEW reported, reported.kind # "ok"
  PROVE  RepliedOf(q, d, outcome, intime, told, reported)
BY DEF RepliedOf

-----------------------------------------------------------------------------
(* What a step leaves alone.                                               *)

Aside(c) ==
  \A x \in Callers \ {c} :
    /\ doing'[x] = doing[x] /\ channel'[x] = channel[x] /\ results'[x] = results[x]
    /\ completed'[x] = completed[x] /\ progress'[x] = progress[x] /\ furthest'[x] = furthest[x]
    /\ shown'[x] = shown[x] /\ clustering'[x] = clustering[x] /\ sink'[x] = sink[x]
    /\ abort'[x] = abort[x] /\ early'[x] = early[x] /\ reply'[x] = reply[x]

LEMMA StepOfOne ==
  ASSUME FilesAre, NEW c \in Callers, Kept', SlotIs', Aside(c), ask' = ask, model' = model,
         RequestOf(c)'
  PROVE  FilesAre'
<1>1. ASSUME NEW x \in Callers, x # c PROVE RequestOf(x)'
  <2>1. RequestOf(x)
    BY DEF FilesAre
  <2>2. /\ doing'[x] = doing[x] /\ channel'[x] = channel[x] /\ results'[x] = results[x]
        /\ completed'[x] = completed[x] /\ progress'[x] = progress[x] /\ furthest'[x] = furthest[x]
        /\ shown'[x] = shown[x] /\ clustering'[x] = clustering[x] /\ sink'[x] = sink[x]
        /\ abort'[x] = abort[x] /\ early'[x] = early[x] /\ reply'[x] = reply[x]
    BY <1>1 DEF Aside
  <2> QED
    BY <2>1, <2>2 DEF RequestOf
<1>2. \A x \in Callers : RequestOf(x)'
  BY <1>1
<1> QED
  BY <1>2 DEF FilesAre

LEMMA SlotStays ==
  ASSUME SlotIs, encoderVars' = encoderVars,
         \A x \in Callers : doing'[x] = doing[x] \/ doing'[x] \notin {"loading", "speakers"}
  PROVE  SlotIs'
BY DEF SlotIs, encoderVars

\* A return and a look at the flag.
LEMMA ReturnIs ==
  ASSUME Kept, NEW c \in Callers, NEW kind, NEW words, Return(c, kind, words)
  PROVE  /\ DOMAIN doing' = Callers /\ DOMAIN reply' = Callers
         /\ \A x \in Callers \ {c} : doing'[x] = doing[x] /\ reply'[x] = reply[x]
         /\ doing'[c] = "over" /\ reply'[c].kind = kind /\ reply'[c].words = words
BY DEF Kept, Return, Go

LEMMA Checked ==
  ASSUME Kept, NEW c \in Callers, NEW place, check_abort(c, place)
  PROVE  /\ DOMAIN doing' = Callers /\ DOMAIN reply' = Callers
         /\ \A x \in Callers \ {c} : doing'[x] = doing[x] /\ reply'[x] = reply[x]
         /\ abort[c] => doing'[c] = "over" /\ reply'[c].kind # "ok"
         /\ ~abort[c] => doing'[c] = place /\ reply'[c] = reply[c]
<1>1. CASE abort[c]
  <2>1. Return(c, "cancelled", <<>>)
    BY <1>1 DEF check_abort, GivenUp, Fail
  <2> QED
    BY <1>1, <2>1, ReturnIs
<1>2. CASE ~abort[c]
  BY <1>2 DEF check_abort, Go, Kept
<1> QED
  BY <1>1, <1>2

\* What is published and reported.
LEMMA PublishedBy ==
  ASSUME Kept, NEW c \in Callers, NEW w, publish(c, w)
  PROVE  /\ DOMAIN shown' = Callers /\ \A x \in Callers \ {c} : shown'[x] = shown[x]
         /\ shown'[c] = IF channel[c] = 1 THEN <<w>>
                        ELSE SubSeq(shown[c], 1, channel[c] - 1) \o <<w>>
BY DEF Kept, publish

LEMMA Reported ==
  ASSUME Kept, NEW c \in Callers, NEW n \in Nat, report(c, n),
         furthest[c] = progress[c], progress[c] \in Nat, progress[c] <= n
  PROVE  /\ DOMAIN progress' = Callers /\ DOMAIN furthest' = Callers
         /\ \A x \in Callers \ {c} : progress'[x] = progress[x] /\ furthest'[x] = furthest[x]
         /\ progress'[c] = n /\ furthest'[c] = n
<1>1. Max({furthest[c], n}) = n
  BY MaxOfTwo
<1> QED
  BY <1>1 DEF Kept, report

-----------------------------------------------------------------------------
(* Every step of a request.                                                *)

LEMMA AbortKeeps ==
  ASSUME FilesAre, NEW c \in Callers, Abort(c)
  PROVE  FilesAre'
<1>1. RequestOf(c) /\ Kept /\ SlotIs
  BY DEF FilesAre
<1>2. Kept' /\ Aside(c)
  BY <1>1 DEF Abort, Kept, Aside
<1>3. SlotIs' /\ ask' = ask /\ model' = model
  <2>1. encoderVars' = encoderVars /\ doing' = doing
    BY DEF Abort, encoderVars
  <2> QED
    BY <1>1, <2>1, SlotStays DEF Abort, encoderVars
<1>4. /\ ask'[c] = ask[c] /\ doing'[c] = doing[c] /\ channel'[c] = channel[c]
      /\ results'[c] = results[c] /\ completed'[c] = completed[c] /\ progress'[c] = progress[c]
      /\ furthest'[c] = furthest[c] /\ shown'[c] = shown[c] /\ clustering'[c] = clustering[c]
      /\ sink'[c] = sink[c] /\ reply'[c] = reply[c]
      /\ abort'[c] = TRUE /\ early'[c] = (doing[c] # "returning") /\ doing[c] # "over"
  BY <1>1 DEF Abort, Kept
<1>5. SpeakersOf(ask[c], doing[c], clustering[c], sink[c], TRUE, early'[c], model)
  BY <1>1, <1>4 DEF RequestOf, SpeakersOf
<1>6. RepliedOf(ask[c], doing[c], sink[c], early'[c], progress[c], reply[c])
  BY <1>1, <1>4 DEF RequestOf, RepliedOf
<1>7. RequestOf(c)'
  BY <1>1, <1>3, <1>4, <1>5, <1>6 DEF RequestOf
<1> QED
  BY <1>2, <1>3, <1>7, StepOfOne

LEMMA CallKeeps ==
  ASSUME FilesAre, NEW c \in Callers, Call(c)
  PROVE  FilesAre'
<1> DEFINE q == ask[c]
           d == doing'[c]
           a == reply'[c]
<1>1. RequestOf(c) /\ Kept /\ SlotIs /\ doing[c] = "called"
  BY DEF FilesAre, Call
<1>2. ask' = ask /\ channel' = channel /\ results' = results /\ completed' = completed
      /\ progress' = progress /\ furthest' = furthest /\ shown' = shown
      /\ clustering' = clustering /\ sink' = sink /\ abort' = abort /\ early' = early
      /\ encoderVars' = encoderVars /\ model' = model
  BY DEF Call, encoderVars
<1>3. /\ DOMAIN doing' = Callers /\ DOMAIN reply' = Callers
      /\ \A x \in Callers \ {c} : doing'[x] = doing[x] /\ reply'[x] = reply[x]
      /\ \/ d = "over" /\ a.kind # "ok"
         \/ d = "over" /\ q.audio = <<>> /\ ~abort[c] /\ a.kind = "ok" /\ a.words = <<>>
         \/ d = "decode" /\ a = reply[c] /\ q.audio # <<>>
  <2>1. \/ Return(c, "cancelled", <<>>) \/ Return(c, "too_long", <<>>)
        \/ ~abort[c] /\ q.audio = <<>> /\ Return(c, "ok", <<>>)
        \/ q.audio # <<>> /\ Go(c, "decode") /\ UNCHANGED reply
    BY DEF Call, GivenUp, Fail
  <2>2. CASE Return(c, "cancelled", <<>>)
    BY <1>1, <2>2, ReturnIs
  <2>3. CASE Return(c, "too_long", <<>>)
    BY <1>1, <2>3, ReturnIs
  <2>4. CASE ~abort[c] /\ q.audio = <<>> /\ Return(c, "ok", <<>>)
    BY <1>1, <2>4, ReturnIs
  <2>5. CASE q.audio # <<>> /\ Go(c, "decode") /\ UNCHANGED reply
    BY <1>1, <2>5 DEF Go, Kept
  <2> QED
    BY <2>1, <2>2, <2>3, <2>4, <2>5
<1>4. Kept' /\ Aside(c)
  BY <1>1, <1>2, <1>3 DEF Kept, Aside
<1>5. SlotIs'
  BY <1>1, <1>2, <1>3, SlotStays
<1>6. /\ q \in Asks /\ channel[c] = 1 /\ sink[c] = "none" /\ progress[c] = SamplesUpTo(q, 0)
      /\ (early[c] => abort[c]) /\ reply[c].kind # "ok"
  BY <1>1 DEF RequestOf, StepOf, SpeakersOf, ProgressOf, RepliedOf
<1> HIDE DEF d, a
<1>7. RepliedOf(q, d, sink[c], early[c], progress[c], a)
  <2>1. CASE d = "over" /\ q.audio = <<>> /\ ~abort[c] /\ a.kind = "ok" /\ a.words = <<>>
    <3>1. Len(q.audio) = 0
      BY <2>1
    <3>2. TranscriptIsTrue(q, "none", <<>>) /\ ~TooLong(q) /\ AllSamples(q) = 0
      BY <1>6, <3>1, NothingIsTrue
    <3>3. progress[c] = 0
      BY <1>6, SamplesAdd
    <3> QED
      BY <1>6, <2>1, <3>2, <3>3 DEF RepliedOf
  <2>2. CASE a.kind # "ok"
    BY <2>2, NotOk
  <2> QED
    BY <1>3, <1>6, <2>1, <2>2 DEF a, d
<1>8. CASE d = "over"
  <2>1. /\ StepOf(q, "over", channel[c])
        /\ ProgressOf(q, "over", channel[c], completed[c], progress[c], furthest[c])
        /\ ShownOf(q, "over", channel[c], shown[c])
        /\ GatheredOf(q, "over", channel[c], sink[c], results[c])
        /\ SpeakersOf(q, "over", clustering[c], sink[c], abort[c], early[c], model)
        /\ WithinOf(q, "over", channel[c])
    BY <1>1, OverIs DEF RequestOf
  <2>2. RequestOf(c)'
    BY <1>2, <1>7, <1>8, <2>1 DEF RequestOf, d, a
  <2> QED
    BY <1>2, <1>4, <1>5, <2>2, StepOfOne
<1>9. CASE d = "decode" /\ q.audio # <<>>
  <2>1. Len(q.audio) \in Nat /\ Len(q.audio) # 0
    BY <1>6, <1>9, AskIs
  <2>2. StepOf(q, "decode", channel[c])
    BY <1>6, <2>1 DEF StepOf, Working, Speaking, Ending, Steps
  <2>3. ProgressOf(q, "decode", channel[c], completed[c], progress[c], furthest[c])
    BY <1>1 DEF RequestOf, ProgressOf
  <2>4. ShownOf(q, "decode", channel[c], shown[c])
    BY <1>1 DEF RequestOf, ShownOf
  <2>5. GatheredOf(q, "decode", channel[c], sink[c], results[c])
    BY <1>1 DEF RequestOf, GatheredOf, Ending
  <2>6. SpeakersOf(q, "decode", clustering[c], sink[c], abort[c], early[c], model)
    BY <1>1 DEF RequestOf, SpeakersOf, Ending
  <2>7. WithinOf(q, "decode", channel[c])
    BY <1>1 DEF RequestOf, WithinOf
  <2>8. RequestOf(c)'
    BY <1>2, <1>7, <1>9, <2>2, <2>3, <2>4, <2>5, <2>6, <2>7 DEF RequestOf, d, a
  <2> QED
    BY <1>2, <1>4, <1>5, <2>8, StepOfOne
<1> QED
  BY <1>3, <1>8, <1>9 DEF d, a

\* A window is decoded: the channel's part of the snapshot, then the flag, then how far.
LEMMA WindowKeeps ==
  ASSUME FilesAre, NEW c \in Callers, NEW d, NEW place, NEW w \in Seq(Words), NEW n \in Nat,
         doing[c] = d, d \in {"decode", "window"}, place \in {"window", "decoded"},
         publish(c, w), check_abort(c, place),
         IF abort[c] THEN UNCHANGED <<progress, furthest>> ELSE report(c, n),
         UNCHANGED <<encoderVars, ask, channel, results, completed, clustering, sink, abort, early>>,
         WithinOf(ask[c], place, channel[c]), progress[c] <= n,
         ProgressOf(ask[c], place, channel[c], completed[c], n, n),
         IsPrefix(w, ask[c].audio[channel[c]].words),
         place = "decoded" => w = ask[c].audio[channel[c]].words
  PROVE  FilesAre'
<1> DEFINE q == ask[c]
           ch == channel[c]
           sh == shown'[c]
<1>1. RequestOf(c) /\ Kept /\ SlotIs
  BY DEF FilesAre
<1>2. StepOf(q, d, ch) /\ q \in Asks /\ ch \in 1 .. Len(q.audio) /\ progress[c] \in Nat
      /\ furthest[c] = progress[c]
  <2>1. StepOf(q, d, ch) /\ q \in Asks /\ ch \in Nat /\ ch >= 1 /\ ch <= Len(q.audio)
    BY <1>1 DEF RequestOf, StepOf, Working
  <2>2. Len(q.audio) \in Nat
    BY <2>1, AskIs
  <2> QED
    BY <1>1, <2>1, <2>2 DEF RequestOf, ProgressOf
<1>3. /\ DOMAIN shown' = Callers /\ \A x \in Callers \ {c} : shown'[x] = shown[x]
      /\ sh = IF ch = 1 THEN <<w>> ELSE SubSeq(shown[c], 1, ch - 1) \o <<w>>
  BY <1>1, PublishedBy
<1>4. /\ DOMAIN doing' = Callers /\ DOMAIN reply' = Callers
      /\ \A x \in Callers \ {c} : doing'[x] = doing[x] /\ reply'[x] = reply[x]
      /\ abort[c] => doing'[c] = "over" /\ reply'[c].kind # "ok"
      /\ ~abort[c] => doing'[c] = place /\ reply'[c] = reply[c]
  BY <1>1, Checked
<1>5. /\ DOMAIN progress' = Callers /\ DOMAIN furthest' = Callers
      /\ \A x \in Callers \ {c} : progress'[x] = progress[x] /\ furthest'[x] = furthest[x]
      /\ abort[c] => progress'[c] = progress[c] /\ furthest'[c] = furthest[c]
      /\ ~abort[c] => progress'[c] = n /\ furthest'[c] = n
  <2>1. CASE abort[c]
    BY <1>1, <2>1 DEF Kept
  <2>2. CASE ~abort[c]
    BY <1>1, <1>2, <2>2, Reported
  <2> QED
    BY <2>1, <2>2
<1>6. /\ ask' = ask /\ channel' = channel /\ results' = results /\ completed' = completed
      /\ clustering' = clustering /\ sink' = sink /\ abort' = abort /\ early' = early
      /\ encoderVars' = encoderVars /\ model' = model
  BY DEF encoderVars
<1>7. Kept' /\ Aside(c)
  BY <1>1, <1>3, <1>4, <1>5, <1>6 DEF Kept, Aside
<1>8. SlotIs'
  <2>1. \A x \in Callers : doing'[x] = doing[x] \/ doing'[x] \notin {"loading", "speakers"}
    BY <1>4
  <2> QED
    BY <1>1, <1>6, <2>1, SlotStays
<1>9. ShownOf(q, d, ch, shown[c])
  BY <1>1 DEF RequestOf
<1>10. ShownOf(q, "window", ch, sh) /\ (place = "decoded" => ShownOf(q, "decoded", ch, sh))
  <2> DEFINE x == q
             y == ch
             z == sh
             o == shown[c]
  <2>1. x \in Asks /\ y \in 1 .. Len(x.audio) /\ ShownOf(x, d, y, o)
        /\ z = (IF y = 1 THEN <<w>> ELSE SubSeq(o, 1, y - 1) \o <<w>>)
        /\ IsPrefix(w, x.audio[y].words) /\ (place = "decoded" => w = x.audio[y].words)
    BY <1>2, <1>3, <1>9
  <2> HIDE DEF x, y, z, o
  <2>2. ShownOf(x, "window", y, z) /\ (place = "decoded" => ShownOf(x, "decoded", y, z))
    BY <2>1, PartPublished
  <2> QED
    BY <2>2 DEF x, y, z
<1> HIDE DEF sh
<1>11. CASE abort[c]
  <2>1. /\ StepOf(q, "over", ch) /\ ProgressOf(q, "over", ch, completed[c], progress[c], furthest[c])
        /\ GatheredOf(q, "over", ch, sink[c], results[c])
        /\ SpeakersOf(q, "over", clustering[c], sink[c], abort[c], early[c], model)
        /\ WithinOf(q, "over", ch)
    BY <1>1, OverIs DEF RequestOf
  <2>2. ShownOf(q, "over", ch, sh)
    BY <1>10 DEF ShownOf
  <2>3. RepliedOf(q, "over", sink[c], early[c], progress[c], reply'[c])
    BY <1>4, <1>11, NotOk
  <2>4. doing'[c] = "over" /\ progress'[c] = progress[c] /\ furthest'[c] = furthest[c]
    BY <1>4, <1>5, <1>11
  <2>5. RequestOf(c)'
    BY <1>6, <2>1, <2>2, <2>3, <2>4 DEF RequestOf, sh
  <2> QED
    BY <1>6, <1>7, <1>8, <2>5, StepOfOne
<1>12. CASE ~abort[c]
  <2>1. doing'[c] = place /\ progress'[c] = n /\ furthest'[c] = n /\ reply'[c] = reply[c]
    BY <1>4, <1>5, <1>12
  <2>2. StepOf(q, place, ch)
    BY <1>2 DEF StepOf, Working, Speaking, Ending, Steps
  <2>3. ShownOf(q, place, ch, sh)
    BY <1>10
  <2>4. GatheredOf(q, place, ch, sink[c], results[c])
    BY <1>1 DEF RequestOf, GatheredOf, Working, Ending
  <2>5. SpeakersOf(q, place, clustering[c], sink[c], abort[c], early[c], model)
    BY <1>1 DEF RequestOf, SpeakersOf, Working, Ending
  <2>6. RepliedOf(q, place, sink[c], early[c], n, reply[c])
    BY <1>1 DEF RequestOf, RepliedOf
  <2>7. RequestOf(c)'
    BY <1>6, <2>1, <2>2, <2>3, <2>4, <2>5, <2>6 DEF RequestOf, sh
  <2> QED
    BY <1>6, <1>7, <1>8, <2>7, StepOfOne
<1> QED
  BY <1>11, <1>12

\* Half of it is a beginning.
LEMMA HalfIs ==
  ASSUME NEW words \in Seq(Words), NEW w, w = SubSeq(words, 1, Len(words) \div 2)
  PROVE  w \in Seq(Words) /\ IsPrefix(w, words)
<1> DEFINE m == Len(words) \div 2
<1>1. m \in 0 .. Len(words)
  <2>1. Len(words) \in Nat
    OBVIOUS
  <2> QED
    BY <2>1
<1>2. w = SubSeq(words, 1, m)
  OBVIOUS
<1> HIDE DEF m
<1> QED
  BY <1>1, <1>2, BeginningIs

LEMMA WholeIs ==
  ASSUME NEW words \in Seq(Words)
  PROVE  IsPrefix(words, words)
<1>1. Len(words) \in 0 .. Len(words)
  OBVIOUS
<1> QED
  BY <1>1, BeginningIs

LEMMA FirstWindowKeeps ==
  ASSUME FilesAre, NEW c \in Callers, FirstWindow(c)
  PROVE  FilesAre'
<1> DEFINE q == ask[c]
           ch == channel[c]
           words == q.audio[ch].words
           samples == q.audio[ch].samples
           w == SubSeq(words, 1, Len(words) \div 2)
           n == completed[c] + samples \div 2
<1>1. RequestOf(c) /\ Kept /\ SlotIs /\ doing[c] = "decode"
  BY DEF FilesAre, FirstWindow
<1>2. q \in Asks /\ ch \in 1 .. Len(q.audio)
  <2>1. q \in Asks /\ ch \in Nat /\ ch >= 1 /\ ch <= Len(q.audio)
    BY <1>1 DEF RequestOf, StepOf, Working
  <2>2. Len(q.audio) \in Nat
    BY <2>1, AskIs
  <2> QED
    BY <2>1, <2>2
<1>3. words \in Seq(Words) /\ samples \in Nat /\ q.budget \in Nat
  BY <1>2, AskIs
<1>4. progress[c] = completed[c] /\ completed[c] \in Nat /\ furthest[c] = progress[c]
  BY <1>1 DEF RequestOf, ProgressOf
<1>5. Audio(c) = q.audio[ch]
  BY DEF Audio
<1>6. CASE q.budget > 0 /\ samples > q.budget
  <2>1. Return(c, "too_long", <<>>) /\ UNCHANGED <<progress, furthest, shown>>
    BY <1>5, <1>6 DEF FirstWindow, Fail
  <2>2. /\ DOMAIN doing' = Callers /\ DOMAIN reply' = Callers
        /\ \A x \in Callers \ {c} : doing'[x] = doing[x] /\ reply'[x] = reply[x]
        /\ doing'[c] = "over" /\ reply'[c].kind = "too_long"
    BY <1>1, <2>1, ReturnIs
  <2>3. /\ ask' = ask /\ channel' = channel /\ results' = results /\ completed' = completed
        /\ progress' = progress /\ furthest' = furthest /\ shown' = shown
        /\ clustering' = clustering /\ sink' = sink /\ abort' = abort /\ early' = early
        /\ encoderVars' = encoderVars /\ model' = model
    BY <2>1 DEF FirstWindow, encoderVars
  <2>4. Kept' /\ Aside(c)
    BY <1>1, <2>2, <2>3 DEF Kept, Aside
  <2>5. SlotIs'
    BY <1>1, <2>2, <2>3, SlotStays
  <2>6. /\ StepOf(q, "over", ch) /\ ProgressOf(q, "over", ch, completed[c], progress[c], furthest[c])
        /\ ShownOf(q, "over", ch, shown[c]) /\ GatheredOf(q, "over", ch, sink[c], results[c])
        /\ SpeakersOf(q, "over", clustering[c], sink[c], abort[c], early[c], model)
        /\ WithinOf(q, "over", ch)
    BY <1>1, OverIs DEF RequestOf
  <2>7. RepliedOf(q, "over", sink[c], early[c], progress[c], reply'[c])
    BY <2>2, NotOk
  <2>8. RequestOf(c)'
    BY <2>2, <2>3, <2>6, <2>7 DEF RequestOf
  <2> QED
    BY <2>3, <2>4, <2>5, <2>8, StepOfOne
<1>7. CASE ~(q.budget > 0 /\ samples > q.budget)
  <2>1. /\ publish(c, w) /\ check_abort(c, "window")
        /\ IF abort[c] THEN UNCHANGED <<progress, furthest>> ELSE report(c, n)
        /\ UNCHANGED <<encoderVars, ask, channel, results, completed, clustering, sink, abort, early>>
    BY <1>5, <1>7 DEF FirstWindow
  <2>2. w \in Seq(Words) /\ IsPrefix(w, words)
    BY <1>3, HalfIs
  <2>3. n \in Nat /\ progress[c] <= n
    BY <1>3, <1>4
  <2>4. WithinOf(q, "window", ch)
    <3>1. WithinOf(q, "decode", ch)
      BY <1>1 DEF RequestOf
    <3>2. q.budget > 0 => samples <= q.budget
      BY <1>3, <1>7
    <3> QED
      BY <3>1, <3>2 DEF WithinOf
  <2>5. ProgressOf(q, "window", ch, completed[c], n, n)
    BY <1>1, <2>3 DEF RequestOf, ProgressOf
  <2> HIDE DEF w, n
  <2> QED
    BY <1>1, <2>1, <2>2, <2>3, <2>4, <2>5, WindowKeeps
<1> QED
  BY <1>6, <1>7

LEMMA LastWindowKeeps ==
  ASSUME FilesAre, NEW c \in Callers, LastWindow(c)
  PROVE  FilesAre'
<1> DEFINE q == ask[c]
           ch == channel[c]
           words == q.audio[ch].words
           samples == q.audio[ch].samples
           n == completed[c] + samples
<1>1. RequestOf(c) /\ Kept /\ SlotIs /\ doing[c] = "window"
  BY DEF FilesAre, LastWindow
<1>2. q \in Asks /\ ch \in 1 .. Len(q.audio)
  <2>1. q \in Asks /\ ch \in Nat /\ ch >= 1 /\ ch <= Len(q.audio)
    BY <1>1 DEF RequestOf, StepOf, Working
  <2>2. Len(q.audio) \in Nat
    BY <2>1, AskIs
  <2> QED
    BY <2>1, <2>2
<1>3. words \in Seq(Words) /\ samples \in Nat
  BY <1>2, AskIs
<1>4. progress[c] = completed[c] + samples \div 2 /\ completed[c] \in Nat
  <2>1. progress[c] = completed[c] + samples \div 2 /\ completed[c] = SamplesUpTo(q, ch - 1)
    BY <1>1 DEF RequestOf, ProgressOf
  <2>2. ch - 1 \in 0 .. Len(q.audio)
    BY <1>2
  <2> QED
    BY <1>2, <2>1, <2>2, SamplesAdd
<1>5. Audio(c) = q.audio[ch]
  BY DEF Audio
<1>6. /\ publish(c, words) /\ check_abort(c, "decoded")
      /\ IF abort[c] THEN UNCHANGED <<progress, furthest>> ELSE report(c, n)
      /\ UNCHANGED <<encoderVars, ask, channel, results, completed, clustering, sink, abort, early>>
  BY <1>5 DEF LastWindow
<1>7. IsPrefix(words, words)
  <2> HIDE DEF words
  <2>1. words \in Seq(Words)
    BY <1>3
  <2> QED
    BY <2>1, WholeIs
<1>8. n \in Nat /\ progress[c] <= n
  BY <1>3, <1>4
<1>9. WithinOf(q, "decoded", ch)
  BY <1>1 DEF RequestOf, WithinOf
<1>10. ProgressOf(q, "decoded", ch, completed[c], n, n)
  BY <1>1, <1>8 DEF RequestOf, ProgressOf
<1> HIDE DEF n
<1> QED
  BY <1>1, <1>3, <1>6, <1>7, <1>8, <1>9, <1>10, WindowKeeps

LEMMA ChannelDoneKeeps ==
  ASSUME FilesAre, NEW c \in Callers, ChannelDone(c)
  PROVE  FilesAre'
<1> DEFINE q == ask[c]
           ch == channel[c]
           words == q.audio[ch].words
           samples == q.audio[ch].samples
           n == Len(q.audio)
           total == completed[c] + samples
<1>1. RequestOf(c) /\ Kept /\ SlotIs /\ doing[c] = "decoded"
  BY DEF FilesAre, ChannelDone
<1>2. q \in Asks /\ n \in Nat /\ ch \in Nat /\ ch >= 1 /\ ch <= n /\ ch \in 1 .. n
  <2>1. q \in Asks /\ ch \in Nat /\ ch >= 1 /\ ch <= Len(q.audio)
    BY <1>1 DEF RequestOf, StepOf, Working
  <2>2. Len(q.audio) \in Nat
    BY <2>1, AskIs
  <2> QED
    BY <2>1, <2>2
<1>3. words \in Seq(Words) /\ samples \in Nat
  BY <1>2, AskIs
<1>4. /\ completed[c] = SamplesUpTo(q, ch - 1) /\ completed[c] \in Nat /\ progress[c] = total
      /\ furthest[c] = progress[c] /\ total = SamplesUpTo(q, ch) /\ total \in Nat
  <2>1. /\ completed[c] = SamplesUpTo(q, ch - 1) /\ progress[c] = total
        /\ furthest[c] = progress[c]
    BY <1>1 DEF RequestOf, ProgressOf
  <2>2. ch - 1 \in Nat /\ ch - 1 \in 0 .. n /\ (ch - 1) + 1 = ch
    BY <1>2
  <2>3. SamplesUpTo(q, ch) = SamplesUpTo(q, ch - 1) + samples
    <3>1. (ch - 1) + 1 <= Len(q.audio)
      BY <1>2
    <3> QED
      BY <1>2, <2>2, <3>1, SamplesAdd
  <2>4. completed[c] \in Nat
    BY <1>2, <2>1, <2>2, SamplesAdd
  <2> QED
    BY <1>3, <2>1, <2>3, <2>4
<1>5. results[c] = SaidUpTo(q, ch - 1) /\ Append(results[c], words) = SaidUpTo(q, ch)
  <2>1. results[c] = SaidUpTo(q, ch - 1)
    BY <1>1 DEF RequestOf, GatheredOf, Working
  <2> DEFINE j == ch - 1
  <2>2. j \in Nat /\ j + 1 = ch /\ j <= Len(q.audio) /\ j + 1 <= Len(q.audio)
    BY <1>2
  <2>3. results[c] = SaidUpTo(q, j)
    BY <2>1
  <2> HIDE DEF j
  <2>4. SaidUpTo(q, j + 1) = Append(SaidUpTo(q, j), q.audio[j + 1].words)
    BY <1>2, <2>2, SaidIs
  <2> QED
    BY <2>1, <2>2, <2>3, <2>4
<1>6. Audio(c) = q.audio[ch]
  BY DEF Audio
<1> HIDE DEF total
<1>7. /\ ask' = ask /\ shown' = shown /\ clustering' = clustering /\ sink' = sink
      /\ abort' = abort /\ early' = early /\ encoderVars' = encoderVars /\ model' = model
  BY DEF ChannelDone, encoderVars
<1>8. /\ DOMAIN results' = Callers /\ \A x \in Callers \ {c} : results'[x] = results[x]
      /\ results'[c] = SaidUpTo(q, ch)
  <2>1. results' = [results EXCEPT ![c] = Append(results[c], words)]
    BY <1>6 DEF ChannelDone
  <2> QED
    BY <1>1, <1>5, <2>1 DEF Kept
<1>9. CASE abort[c]
  <2>1. Return(c, "cancelled", <<>>) /\ UNCHANGED <<completed, progress, furthest, channel>>
    BY <1>9 DEF ChannelDone, GivenUp, Fail
  <2>2. /\ DOMAIN doing' = Callers /\ DOMAIN reply' = Callers
        /\ \A x \in Callers \ {c} : doing'[x] = doing[x] /\ reply'[x] = reply[x]
        /\ doing'[c] = "over" /\ reply'[c].kind = "cancelled"
    BY <1>1, <2>1, ReturnIs
  <2>3. channel' = channel /\ completed' = completed /\ progress' = progress /\ furthest' = furthest
    BY <2>1
  <2>4. Kept' /\ Aside(c)
    BY <1>1, <1>7, <1>8, <2>2, <2>3 DEF Kept, Aside
  <2>5. SlotIs'
    BY <1>1, <1>7, <2>2, SlotStays
  <2>6. /\ StepOf(q, "over", ch) /\ ProgressOf(q, "over", ch, completed[c], progress[c], furthest[c])
        /\ ShownOf(q, "over", ch, shown[c]) /\ GatheredOf(q, "over", ch, sink[c], results'[c])
        /\ SpeakersOf(q, "over", clustering[c], sink[c], abort[c], early[c], model)
        /\ WithinOf(q, "over", ch)
    BY <1>1, OverIs DEF RequestOf
  <2>7. RepliedOf(q, "over", sink[c], early[c], progress[c], reply'[c])
    BY <2>2, NotOk
  <2>8. RequestOf(c)'
    BY <1>7, <2>2, <2>3, <2>6, <2>7 DEF RequestOf
  <2> QED
    BY <1>7, <2>4, <2>5, <2>8, StepOfOne
<1>10. CASE ~abort[c]
  <2> DEFINE d == doing'[c]
  <2>1. /\ completed' = [completed EXCEPT ![c] = completed[c] + samples]
        /\ IF Split(q) THEN report(c, completed'[c]) ELSE UNCHANGED <<progress, furthest>>
        /\ channel' = [channel EXCEPT ![c] = channel[c] + 1]
        /\ IF ch < n THEN Go(c, "decode")
           ELSE IF q.diarization /\ ~Split(q) THEN Go(c, "encoder") ELSE Go(c, "finish")
        /\ reply' = reply
    BY <1>6, <1>10 DEF ChannelDone
  <2>2. /\ DOMAIN completed' = Callers /\ completed'[c] = total
        /\ DOMAIN channel' = Callers /\ channel'[c] = ch + 1
        /\ \A x \in Callers \ {c} : completed'[x] = completed[x] /\ channel'[x] = channel[x]
    BY <1>1, <2>1 DEF Kept, total
  <2>3. /\ DOMAIN progress' = Callers /\ DOMAIN furthest' = Callers
        /\ \A x \in Callers \ {c} : progress'[x] = progress[x] /\ furthest'[x] = furthest[x]
        /\ progress'[c] = total /\ furthest'[c] = total
    <3>1. CASE Split(q)
      <4>1. report(c, total) /\ progress[c] \in Nat /\ progress[c] <= total
        BY <1>4, <2>1, <2>2, <3>1
      <4> QED
        BY <1>1, <1>4, <4>1, Reported
    <3>2. CASE ~Split(q)
      BY <1>1, <1>4, <2>1, <3>2 DEF Kept
    <3> QED
      BY <3>1, <3>2
  <2>4. /\ DOMAIN doing' = Callers /\ \A x \in Callers \ {c} : doing'[x] = doing[x]
        /\ \/ d = "decode" /\ ch < n
           \/ d = "encoder" /\ ch = n /\ Wanted(q)
           \/ d = "finish" /\ ch = n /\ ~Wanted(q)
    BY <1>1, <1>2, <2>1 DEF Kept, Go, Wanted
  <2>5. Kept' /\ Aside(c)
    BY <1>1, <1>7, <1>8, <2>1, <2>2, <2>3, <2>4 DEF Kept, Aside
  <2>6. SlotIs'
    BY <1>1, <1>7, <2>4, SlotStays
  <2> HIDE DEF d
  <2>7. (ch + 1) - 1 = ch /\ ch + 1 \in 1 .. n + 1
    BY <1>2
  <2>8. StepOf(q, d, ch + 1)
    BY <1>2, <2>4, <2>7 DEF StepOf, Working, Speaking, Ending, Steps
  <2>9. ProgressOf(q, d, ch + 1, total, total, total)
    BY <1>4, <2>4, <2>7 DEF ProgressOf
  <2>10. ShownOf(q, d, ch + 1, shown[c])
    <3> DEFINE parts == shown[c]
    <3>1. /\ parts \in Seq(Seq(Words)) /\ Len(parts) = ch
          /\ \A k \in 1 .. ch : IsPrefix(parts[k], q.audio[k].words)
          /\ \A k \in 1 .. ch : k < ch => parts[k] = q.audio[k].words
          /\ parts[ch] = words
      BY <1>1 DEF RequestOf, ShownOf
    <3> HIDE DEF parts
    <3>2. \A k \in 1 .. ch : parts[k] = q.audio[k].words
      BY <1>2, <3>1
    <3> QED
      BY <1>2, <2>4, <2>7, <3>1, <3>2 DEF ShownOf, parts
  <2>11. GatheredOf(q, d, ch + 1, sink[c], results'[c])
    <3>1. sink[c] = "none"
      BY <1>1 DEF RequestOf, SpeakersOf, Working
    <3> QED
      BY <1>8, <2>4, <2>7, <3>1 DEF GatheredOf, Ending
  <2>12. SpeakersOf(q, d, clustering[c], sink[c], abort[c], early[c], model)
    BY <1>1, <2>4 DEF RequestOf, SpeakersOf, Working, Ending
  <2>13. WithinOf(q, d, ch + 1)
    <3>1. WithinOf(q, "decoded", ch)
      BY <1>1 DEF RequestOf
    <3>2. ASSUME NEW k \in 1 .. n, k < ch + 1, q.budget > 0 PROVE q.audio[k].samples <= q.budget
      <4>1. CASE k = ch
        BY <3>1, <3>2, <4>1 DEF WithinOf
      <4>2. CASE k < ch
        BY <3>1, <3>2, <4>2 DEF WithinOf
      <4> QED
        BY <1>2, <3>2, <4>1, <4>2
    <3> QED
      BY <2>4, <3>2 DEF WithinOf
  <2>14. RepliedOf(q, d, sink[c], early[c], total, reply[c])
    BY <1>1, <2>4 DEF RequestOf, RepliedOf
  <2>15. RequestOf(c)'
    BY <1>7, <2>1, <2>2, <2>3, <2>8, <2>9, <2>10, <2>11, <2>12, <2>13, <2>14 DEF RequestOf, d
  <2> QED
    BY <1>7, <2>5, <2>6, <2>15, StepOfOne
<1> QED
  BY <1>9, <1>10

-----------------------------------------------------------------------------
(* Who spoke, and the end.                                                 *)

\* A step that only looks at the flag.
LEMMA CheckKeeps ==
  ASSUME NEW c \in Callers, RequestOf(c), Kept, NEW place, check_abort(c, place),
         UNCHANGED <<ask, channel, results, completed, progress, furthest, shown, clustering,
                     sink, abort, early>>,
         model' = model,
         \/ doing[c] \in {"encoder", "loading"} /\ place = "speakers"
         \/ doing[c] = "finish" /\ place = "returning"
  PROVE  /\ Kept' /\ Aside(c) /\ ask' = ask /\ RequestOf(c)'
         /\ \A x \in Callers \ {c} : doing'[x] = doing[x]
         /\ doing'[c] \in {"over", place}
<1> DEFINE q == ask[c]
           ch == channel[c]
           d == doing[c]
<1>1. /\ DOMAIN doing' = Callers /\ DOMAIN reply' = Callers
      /\ \A x \in Callers \ {c} : doing'[x] = doing[x] /\ reply'[x] = reply[x]
      /\ abort[c] => doing'[c] = "over" /\ reply'[c].kind # "ok"
      /\ ~abort[c] => doing'[c] = place /\ reply'[c] = reply[c]
  BY Checked
<1>2. Kept' /\ Aside(c)
  BY <1>1 DEF Kept, Aside
<1>3. CASE abort[c]
  <2>1. /\ StepOf(q, "over", ch) /\ ProgressOf(q, "over", ch, completed[c], progress[c], furthest[c])
        /\ ShownOf(q, "over", ch, shown[c]) /\ GatheredOf(q, "over", ch, sink[c], results[c])
        /\ SpeakersOf(q, "over", clustering[c], sink[c], abort[c], early[c], model)
        /\ WithinOf(q, "over", ch)
    BY OverIs DEF RequestOf
  <2>2. RepliedOf(q, "over", sink[c], early[c], progress[c], reply'[c])
    BY <1>1, <1>3, NotOk
  <2>3. RequestOf(c)'
    BY <1>1, <1>3, <2>1, <2>2 DEF RequestOf
  <2> QED
    BY <1>1, <1>2, <1>3, <2>3
<1>4. CASE ~abort[c]
  <2>1. \/ d \in {"encoder", "loading"} /\ place = "speakers"
        \/ d = "finish" /\ place = "returning"
    OBVIOUS
  <2>2. /\ StepOf(q, d, ch) /\ ProgressOf(q, d, ch, completed[c], progress[c], furthest[c])
        /\ ShownOf(q, d, ch, shown[c]) /\ GatheredOf(q, d, ch, sink[c], results[c])
        /\ SpeakersOf(q, d, clustering[c], sink[c], abort[c], early[c], model)
        /\ WithinOf(q, d, ch) /\ RepliedOf(q, d, sink[c], early[c], progress[c], reply[c])
    BY DEF RequestOf
  <2> HIDE DEF d
  <2>3. StepOf(q, place, ch)
    BY <2>1, <2>2 DEF StepOf, Working, Speaking, Ending, Steps
  <2>4. ProgressOf(q, place, ch, completed[c], progress[c], furthest[c])
    BY <2>1, <2>2 DEF ProgressOf
  <2>5. ShownOf(q, place, ch, shown[c])
    BY <2>1, <2>2 DEF ShownOf
  <2>6. GatheredOf(q, place, ch, sink[c], results[c])
    BY <2>1, <2>2 DEF GatheredOf, Working, Speaking, Ending
  <2>7. SpeakersOf(q, place, clustering[c], sink[c], abort[c], early[c], model)
    BY <1>4, <2>1, <2>2 DEF SpeakersOf, Working, Speaking, Ending
  <2>8. WithinOf(q, place, ch)
    BY <2>1, <2>2 DEF WithinOf
  <2>9. RepliedOf(q, place, sink[c], early[c], progress[c], reply[c])
    BY <2>1, <2>2 DEF RepliedOf
  <2>10. doing'[c] = place /\ reply'[c] = reply[c]
    BY <1>1, <1>4
  <2>11. RequestOf(c)'
    BY <2>3, <2>4, <2>5, <2>6, <2>7, <2>8, <2>9, <2>10 DEF RequestOf
  <2> QED
    BY <1>1, <1>2, <2>10, <2>11
<1> QED
  BY <1>3, <1>4

\* Whoever loads has the lock.
LEMMA HolderLoads ==
  ASSUME SlotIs
  PROVE  /\ Nobody \notin Callers
         /\ \A x \in Callers : doing[x] = "loading" => mutex = x /\ mutex # Nobody
<1>1. Nobody \notin Callers
  BY FileAssumption, Zenon
<1>2. \A x \in Callers : doing[x] = "loading" => mutex = x
  BY DEF SlotIs
<1> QED
  BY <1>1, <1>2

LEMMA LockKeeps ==
  ASSUME FilesAre, NEW c \in Callers, Lock(c)
  PROVE  FilesAre'
<1>1. RequestOf(c) /\ Kept /\ SlotIs /\ doing[c] = "encoder" /\ mutex = Nobody
  BY DEF FilesAre, Lock
<1>2. /\ UNCHANGED <<ask, channel, results, completed, progress, furthest, shown, clustering,
                     sink, abort, early>>
      /\ model' = model /\ encoder' = encoder
  BY DEF Lock
<1>3. CASE encoder = "pending"
  <2>1. Go(c, "loading") /\ mutex' = c /\ loads' = loads + 1 /\ reply' = reply
    BY <1>3 DEF Lock
  <2>2. DOMAIN doing' = Callers /\ doing'[c] = "loading"
        /\ \A x \in Callers \ {c} : doing'[x] = doing[x]
    BY <1>1, <2>1 DEF Go, Kept
  <2>3. Kept' /\ Aside(c)
    BY <1>1, <1>2, <2>1, <2>2 DEF Kept, Aside
  <2>4. SlotIs'
    <3>1. loads' = 1 /\ c # Nobody
      BY <1>1, <1>3, <2>1, HolderLoads DEF SlotIs
    <3>2. \A x \in Callers : doing'[x] = "loading" => x = c
      BY <1>1, <2>2, HolderLoads
    <3>3. \A x \in Callers : doing'[x] # "speakers"
      BY <1>1, <1>3, <2>2 DEF SlotIs
    <3> QED
      BY <1>1, <1>2, <1>3, <2>1, <3>1, <3>2, <3>3 DEF SlotIs
  <2>5. StepOf(ask[c], "loading", channel[c])
    BY <1>1 DEF RequestOf, StepOf, Working, Speaking, Steps
  <2>6. ProgressOf(ask[c], "loading", channel[c], completed[c], progress[c], furthest[c])
    BY <1>1 DEF RequestOf, ProgressOf
  <2>7. ShownOf(ask[c], "loading", channel[c], shown[c])
    BY <1>1 DEF RequestOf, ShownOf
  <2>8. GatheredOf(ask[c], "loading", channel[c], sink[c], results[c])
    BY <1>1 DEF RequestOf, GatheredOf, Speaking, Ending
  <2>9. SpeakersOf(ask[c], "loading", clustering[c], sink[c], abort[c], early[c], model)
    BY <1>1 DEF RequestOf, SpeakersOf, Speaking, Ending
  <2>10. WithinOf(ask[c], "loading", channel[c])
    BY <1>1 DEF RequestOf, WithinOf
  <2>11. RepliedOf(ask[c], "loading", sink[c], early[c], progress[c], reply[c])
    BY <1>1 DEF RequestOf, RepliedOf
  <2>12. RequestOf(c)'
    BY <1>2, <2>1, <2>2, <2>5, <2>6, <2>7, <2>8, <2>9, <2>10, <2>11 DEF RequestOf
  <2> QED
    BY <1>2, <2>3, <2>4, <2>12, StepOfOne
<1>4. CASE encoder # "pending"
  <2>1. check_abort(c, "speakers") /\ mutex' = mutex /\ loads' = loads
    BY <1>4 DEF Lock
  <2>2. /\ Kept' /\ Aside(c) /\ ask' = ask /\ RequestOf(c)'
        /\ \A x \in Callers \ {c} : doing'[x] = doing[x]
        /\ doing'[c] \in {"over", "speakers"}
    BY <1>1, <1>2, <2>1, CheckKeeps
  <2>3. SlotIs'
    BY <1>1, <1>2, <1>4, <2>1, <2>2 DEF SlotIs
  <2> QED
    BY <1>2, <2>2, <2>3, StepOfOne
<1> QED
  BY <1>3, <1>4

LEMMA LoadedKeeps ==
  ASSUME FilesAre, NEW c \in Callers, Loaded(c)
  PROVE  FilesAre'
<1>1. RequestOf(c) /\ Kept /\ SlotIs /\ doing[c] = "loading"
  BY DEF FilesAre, Loaded
<1>2. /\ UNCHANGED <<ask, channel, results, completed, progress, furthest, shown, clustering,
                     sink, abort, early>>
      /\ model' = model /\ loads' = loads /\ mutex' = Nobody /\ check_abort(c, "speakers")
      /\ encoder' = IF model = "good" THEN "ready" ELSE "failed"
  BY DEF Loaded
<1>3. /\ Kept' /\ Aside(c) /\ ask' = ask /\ RequestOf(c)'
      /\ \A x \in Callers \ {c} : doing'[x] = doing[x]
      /\ doing'[c] \in {"over", "speakers"}
  BY <1>1, <1>2, CheckKeeps
<1>4. mutex = c /\ c # Nobody
  BY <1>1, HolderLoads
<1>5. SlotIs'
  <2>1. loads' = 1 /\ encoder' \in {"ready", "failed"} /\ model' \in Models
    BY <1>1, <1>2, <1>4 DEF SlotIs
  <2>2. \A x \in Callers : doing'[x] # "loading"
    <3>1. \A x \in Callers : doing[x] = "loading" => x = c
      BY <1>1, <1>4, HolderLoads
    <3>2. doing'[c] # "loading" /\ \A x \in Callers \ {c} : doing'[x] = doing[x]
      BY <1>3
    <3> QED
      BY <3>1, <3>2
  <2> QED
    BY <1>2, <2>1, <2>2 DEF SlotIs
<1> QED
  BY <1>2, <1>3, <1>5, StepOfOne

LEMMA FinishKeeps ==
  ASSUME FilesAre, NEW c \in Callers, Finish(c)
  PROVE  FilesAre'
<1>1. RequestOf(c) /\ Kept /\ SlotIs /\ doing[c] = "finish"
  BY DEF FilesAre, Finish
<1>2. /\ UNCHANGED <<ask, channel, results, completed, progress, furthest, shown, clustering,
                     sink, abort, early>>
      /\ model' = model /\ encoderVars' = encoderVars /\ check_abort(c, "returning")
  BY DEF Finish, encoderVars
<1>3. /\ Kept' /\ Aside(c) /\ ask' = ask /\ RequestOf(c)'
      /\ \A x \in Callers \ {c} : doing'[x] = doing[x]
      /\ doing'[c] \in {"over", "returning"}
  BY <1>1, <1>2, CheckKeeps
<1>4. SlotIs'
  BY <1>1, <1>2, <1>3, SlotStays
<1> QED
  BY <1>2, <1>3, <1>4, StepOfOne

\* The pipeline comes to something: only what it came to changes.
LEMMA CameKeeps ==
  ASSUME FilesAre, NEW c \in Callers, doing[c] = "speakers", NEW to,
         clustering' = [clustering EXCEPT ![c] = to],
         UNCHANGED <<encoderVars, ask, doing, channel, results, completed, progress, furthest,
                     shown, sink, abort, early, reply>>,
         to = "no_speaker_model" => model # "good",
         to # "no_speaker_model" => model = "good",
         to = "interrupted" => abort[c]
  PROVE  FilesAre'
<1>1. RequestOf(c) /\ Kept /\ SlotIs
  BY DEF FilesAre
<1>2. DOMAIN clustering' = Callers /\ clustering'[c] = to
      /\ \A x \in Callers \ {c} : clustering'[x] = clustering[x]
  BY <1>1 DEF Kept
<1>3. Kept' /\ Aside(c)
  BY <1>1, <1>2 DEF Kept, Aside
<1>4. SlotIs' /\ ask' = ask /\ model' = model
  <2>1. encoderVars' = encoderVars /\ doing' = doing
    OBVIOUS
  <2> QED
    BY <1>1, <2>1, SlotStays DEF encoderVars
<1>5. SpeakersOf(ask[c], doing[c], to, sink[c], abort[c], early[c], model)
  BY <1>1 DEF RequestOf, SpeakersOf, Speaking, Ending
<1>6. RequestOf(c)'
  BY <1>1, <1>2, <1>4, <1>5 DEF RequestOf
<1> QED
  BY <1>3, <1>4, <1>6, StepOfOne

LEMMA CameToKeeps ==
  ASSUME FilesAre, NEW c \in Callers, NoEncoder(c) \/ Embed(c) \/ Cluster(c)
  PROVE  FilesAre'
<1>1. RequestOf(c) /\ SlotIs
  BY DEF FilesAre
<1>2. CASE NoEncoder(c)
  <2>1. model # "good"
    BY <1>1, <1>2 DEF NoEncoder, SlotIs
  <2> QED
    BY <1>2, <2>1, CameKeeps DEF NoEncoder
<1>3. CASE Embed(c)
  <2>1. PICK to \in {"interrupted", "embedded", "ceiling", "failed"} :
          /\ clustering' = [clustering EXCEPT ![c] = to]
          /\ to = "interrupted" => abort[c]
    BY <1>3 DEF Embed
  <2>2. model = "good"
    BY <1>1, <1>3 DEF Embed, SlotIs
  <2> QED
    BY <1>3, <2>1, <2>2, CameKeeps DEF Embed
<1>4. CASE Cluster(c)
  <2>1. PICK to \in {"applied", "failed"} : clustering' = [clustering EXCEPT ![c] = to]
    BY <1>4 DEF Cluster
  <2>2. model = "good"
    BY <1>1, <1>4 DEF Cluster, RequestOf, SpeakersOf
  <2> QED
    BY <1>4, <2>1, <2>2, CameKeeps DEF Cluster
<1> QED
  BY <1>2, <1>3, <1>4

\* The words of a mixed recording are one sequence, whoever said them.
LEMMA OneGathered ==
  ASSUME NEW q \in Asks, ~Split(q), Len(q.audio) # 0
  PROVE  Len(q.audio) = 1 /\ SaidUpTo(q, Len(q.audio))[1] = q.audio[1].words
<1> DEFINE n == Len(q.audio)
<1>1. n \in Nat /\ n <= 1
  BY AskIs
<1>2. n # 0
  OBVIOUS
<1>3. n = 1
  <2> HIDE DEF n
  <2> QED
    BY <1>1, <1>2
<1>4. 1 \in Nat /\ 1 <= Len(q.audio) /\ 1 \in 1 .. 1
  BY <1>3
<1> QED
  BY <1>3, <1>4, SaidIs

LEMMA SpeakersDoneKeeps ==
  ASSUME FilesAre, NEW c \in Callers, SpeakersDone(c)
  PROVE  FilesAre'
<1> DEFINE q == ask[c]
           ch == channel[c]
           n == Len(q.audio)
           came == clustering[c]
<1>1. RequestOf(c) /\ Kept /\ SlotIs /\ doing[c] = "speakers"
  BY DEF FilesAre, SpeakersDone
<1>2. /\ ask' = ask /\ channel' = channel /\ completed' = completed /\ progress' = progress
      /\ furthest' = furthest /\ shown' = shown /\ clustering' = clustering /\ abort' = abort
      /\ early' = early /\ encoderVars' = encoderVars /\ model' = model
  BY DEF SpeakersDone, encoderVars
<1>3. q \in Asks /\ n # 0 /\ Wanted(q) /\ ch = n + 1 /\ n \in Nat
  <2>1. q \in Asks /\ n # 0 /\ Wanted(q) /\ ch = n + 1
    BY <1>1 DEF RequestOf, StepOf, Speaking
  <2> QED
    BY <2>1, AskIs
<1>4. CASE abort[c]
  <2>1. Return(c, "cancelled", <<>>) /\ sink' = sink /\ results' = results
    BY <1>4 DEF SpeakersDone, Record, GivenUp, Fail
  <2>2. /\ DOMAIN doing' = Callers /\ DOMAIN reply' = Callers
        /\ \A x \in Callers \ {c} : doing'[x] = doing[x] /\ reply'[x] = reply[x]
        /\ doing'[c] = "over" /\ reply'[c].kind = "cancelled"
    BY <1>1, <2>1, ReturnIs
  <2>3. Kept' /\ Aside(c)
    BY <1>1, <1>2, <2>1, <2>2 DEF Kept, Aside
  <2>4. SlotIs'
    BY <1>1, <1>2, <2>2, SlotStays
  <2>5. /\ StepOf(q, "over", ch) /\ ProgressOf(q, "over", ch, completed[c], progress[c], furthest[c])
        /\ ShownOf(q, "over", ch, shown[c]) /\ GatheredOf(q, "over", ch, sink[c], results[c])
        /\ SpeakersOf(q, "over", came, sink[c], abort[c], early[c], model)
        /\ WithinOf(q, "over", ch)
    BY <1>1, OverIs DEF RequestOf
  <2>6. RepliedOf(q, "over", sink[c], early[c], progress[c], reply'[c])
    BY <2>2, NotOk
  <2>7. RequestOf(c)'
    BY <1>2, <2>1, <2>2, <2>5, <2>6 DEF RequestOf
  <2> QED
    BY <1>2, <2>3, <2>4, <2>7, StepOfOne
<1>5. CASE ~abort[c]
  <2>1. /\ Go(c, "finish") /\ reply' = reply /\ sink' = [sink EXCEPT ![c] = clustering[c]]
        /\ results' = [results EXCEPT ![c] =
             IF clustering[c] = "applied"
             THEN <<assign_speakers_by_midpoint(ask[c].turns, results[c][1])>> ELSE results[c]]
        /\ clustering[c] \in {"no_speaker_model", "applied", "ceiling", "failed", "interrupted"}
    BY <1>5 DEF SpeakersDone, Record
  <2>2. /\ DOMAIN doing' = Callers /\ DOMAIN sink' = Callers /\ DOMAIN results' = Callers
        /\ doing'[c] = "finish" /\ sink'[c] = came
        /\ results'[c] = IF came = "applied"
                         THEN <<assign_speakers_by_midpoint(q.turns, results[c][1])>>
                         ELSE results[c]
        /\ \A x \in Callers \ {c} :
             doing'[x] = doing[x] /\ sink'[x] = sink[x] /\ results'[x] = results[x]
    BY <1>1, <2>1 DEF Kept, Go
  <2>3. Kept' /\ Aside(c)
    BY <1>1, <1>2, <2>1, <2>2 DEF Kept, Aside
  <2>4. SlotIs'
    BY <1>1, <1>2, <2>2, SlotStays
  <2>5. GatheredOf(q, "finish", ch, came, results'[c])
    <3>1. results[c] = SaidUpTo(q, n)
      <4>1. results[c] = SaidUpTo(q, ch - 1)
        BY <1>1 DEF RequestOf, GatheredOf, Speaking
      <4>2. ch - 1 = n
        BY <1>3
      <4> QED
        BY <4>1, <4>2
    <3>2. results[c][1] = q.audio[1].words
      BY <1>3, <3>1, OneGathered DEF Wanted
    <3> QED
      BY <2>2, <3>1, <3>2 DEF GatheredOf, Working, Speaking
  <2>6. SpeakersOf(q, "finish", came, came, abort[c], early[c], model)
    BY <1>1, <1>3, <1>5, <2>1 DEF RequestOf, SpeakersOf, Working, Speaking
  <2>7. StepOf(q, "finish", ch)
    BY <1>1 DEF RequestOf, StepOf, Working, Speaking, Ending, Steps
  <2>8. ProgressOf(q, "finish", ch, completed[c], progress[c], furthest[c])
    BY <1>1 DEF RequestOf, ProgressOf
  <2>9. ShownOf(q, "finish", ch, shown[c])
    BY <1>1 DEF RequestOf, ShownOf
  <2>10. WithinOf(q, "finish", ch)
    BY <1>1 DEF RequestOf, WithinOf
  <2>11. RepliedOf(q, "finish", came, early[c], progress[c], reply[c])
    BY <1>1 DEF RequestOf, RepliedOf
  <2>12. RequestOf(c)'
    BY <1>2, <2>1, <2>2, <2>5, <2>6, <2>7, <2>8, <2>9, <2>10, <2>11 DEF RequestOf
  <2> QED
    BY <1>2, <2>3, <2>4, <2>12, StepOfOne
<1> QED
  BY <1>4, <1>5

\* With their speakers they are still one sequence.
LEMMA AssignedIs ==
  ASSUME NEW q \in Asks, ~Split(q), Len(q.audio) # 0, NEW gathered,
         gathered = <<assign_speakers_by_midpoint(q.turns, q.audio[1].words)>>
  PROVE  TranscriptIsTrue(q, "applied", FlattenSeq(gathered))
<1> DEFINE named == assign_speakers_by_midpoint(q.turns, q.audio[1].words)
           words == q.audio[1].words
           S == {named[k] : k \in DOMAIN words}
<1>1. words \in Seq(Words)
  BY AskIs, OneGathered
<1>2. named \in [DOMAIN words -> S]
  BY DEF assign_speakers_by_midpoint
<1>3. named \in Seq(S)
  <2> HIDE DEF named, words, S
  <2>1. Len(words) \in Nat /\ DOMAIN words = 1 .. Len(words)
    BY <1>1
  <2> QED
    BY <1>2, <2>1
<1>4. TranscriptIsTrue(q, "applied", named)
  BY AppliedIsTrue
<1>5. gathered = <<named>>
  OBVIOUS
<1> HIDE DEF named, words, S
<1>6. FlattenSeq(gathered) = named
  BY <1>3, <1>5, FlattenOne
<1> QED
  BY <1>4, <1>6

\* What is answered at the end.
LEMMA AnswerIsTrue ==
  ASSUME NEW q \in Asks, Len(q.audio) # 0, NEW outcome, outcome # "none" <=> Wanted(q),
         NEW gathered, GatheredOf(q, "returning", Len(q.audio) + 1, outcome, gathered),
         NEW words, words = IF Split(q) THEN merge_channel_results(gathered)
                            ELSE FlattenSeq(gathered)
  PROVE  TranscriptIsTrue(q, outcome, words)
<1>1. IF outcome = "applied"
      THEN gathered = <<assign_speakers_by_midpoint(q.turns, q.audio[1].words)>>
      ELSE gathered = SaidUpTo(q, Len(q.audio))
  BY DEF GatheredOf, Ending
<1>2. CASE Split(q)
  <2>1. outcome # "applied"
    BY <1>2 DEF Wanted
  <2>2. words = merge_channel_results(SaidUpTo(q, Len(q.audio)))
    BY <1>1, <1>2, <2>1
  <2> QED
    BY <1>2, <2>1, <2>2, MergedIsTrue
<1>3. CASE ~Split(q) /\ outcome = "applied"
  BY <1>1, <1>3, AssignedIs
<1>4. CASE ~Split(q) /\ outcome # "applied"
  BY <1>1, <1>4, MixedIsTrue
<1> QED
  BY <1>2, <1>3, <1>4

LEMMA ReturnResultKeeps ==
  ASSUME FilesAre, NEW c \in Callers, ReturnResult(c)
  PROVE  FilesAre'
<1> DEFINE q == ask[c]
           ch == channel[c]
           n == Len(q.audio)
           words == IF Split(q) THEN merge_channel_results(results[c]) ELSE FlattenSeq(results[c])
<1>1. RequestOf(c) /\ Kept /\ SlotIs /\ doing[c] = "returning"
  BY DEF FilesAre, ReturnResult
<1>2. /\ ask' = ask /\ channel' = channel /\ results' = results /\ completed' = completed
      /\ progress' = progress /\ furthest' = furthest /\ shown' = shown
      /\ clustering' = clustering /\ sink' = sink /\ abort' = abort /\ early' = early
      /\ encoderVars' = encoderVars /\ model' = model
  BY DEF ReturnResult, encoderVars
<1>3. Return(c, "ok", words)
  BY DEF ReturnResult
<1>4. q \in Asks /\ n # 0 /\ ch = n + 1 /\ n \in Nat
  <2>1. q \in Asks /\ n # 0 /\ ch = n + 1
    BY <1>1 DEF RequestOf, StepOf, Ending
  <2> QED
    BY <2>1, AskIs
<1>5. /\ ~early[c] /\ (sink[c] # "none" <=> Wanted(q))
      /\ GatheredOf(q, "returning", n + 1, sink[c], results[c])
  BY <1>1, <1>4 DEF RequestOf, SpeakersOf, Ending
<1>6. TranscriptIsTrue(q, sink[c], words)
  BY <1>4, <1>5, AnswerIsTrue
<1> HIDE DEF words
<1>7. /\ DOMAIN doing' = Callers /\ DOMAIN reply' = Callers
      /\ \A x \in Callers \ {c} : doing'[x] = doing[x] /\ reply'[x] = reply[x]
      /\ doing'[c] = "over" /\ reply'[c].kind = "ok" /\ reply'[c].words = words
  BY <1>1, <1>3, ReturnIs
<1>8. Kept' /\ Aside(c)
  BY <1>1, <1>2, <1>7 DEF Kept, Aside
<1>9. SlotIs'
  BY <1>1, <1>2, <1>7, SlotStays
<1>10. /\ StepOf(q, "over", ch) /\ ProgressOf(q, "over", ch, completed[c], progress[c], furthest[c])
       /\ ShownOf(q, "over", ch, shown[c]) /\ GatheredOf(q, "over", ch, sink[c], results[c])
       /\ SpeakersOf(q, "over", clustering[c], sink[c], abort[c], early[c], model)
       /\ WithinOf(q, "over", ch)
  BY <1>1, OverIs DEF RequestOf
<1>11. progress[c] = AllSamples(q)
  <2>1. progress[c] = SamplesUpTo(q, ch - 1) /\ ch - 1 = n
    BY <1>1, <1>4 DEF RequestOf, ProgressOf
  <2> QED
    BY <1>4, <2>1, SamplesAdd
<1>12. ~TooLong(q)
  <2>1. WithinOf(q, "returning", n + 1)
    BY <1>1, <1>4 DEF RequestOf
  <2>2. q.budget \in Nat /\ DOMAIN q.audio = 1 .. n /\ \A k \in 1 .. n : q.audio[k].samples \in Nat
    BY <1>4, AskIs
  <2>3. ASSUME q.budget > 0, NEW k \in 1 .. n PROVE ~(q.audio[k].samples > q.budget)
    <3>1. q.audio[k].samples <= q.budget /\ q.audio[k].samples \in Nat
      BY <1>4, <2>1, <2>2, <2>3 DEF WithinOf
    <3> QED
      BY <2>2, <3>1
  <2> QED
    BY <2>2, <2>3 DEF TooLong, Lengths
<1>13. q.audio # <<>>
  BY <1>4
<1>14. RepliedOf(q, "over", sink[c], early[c], progress[c], reply'[c])
  BY <1>5, <1>6, <1>7, <1>11, <1>12, <1>13 DEF RepliedOf
<1>15. RequestOf(c)'
  BY <1>2, <1>7, <1>10, <1>14 DEF RequestOf
<1> QED
  BY <1>2, <1>8, <1>9, <1>15, StepOfOne

-----------------------------------------------------------------------------
(* From the first state on.                                                *)

LEMMA FilesBegin ==
  ASSUME FileInit
  PROVE  FilesAre
<1>1. Kept
  BY DEF FileInit, Kept
<1>2. SlotIs
  BY DEF FileInit, SlotIs
<1>3. ASSUME NEW c \in Callers PROVE RequestOf(c)
  <2> DEFINE q == ask[c]
             none == <<>>
  <2>1. /\ q \in Asks /\ doing[c] = "called" /\ channel[c] = 1 /\ results[c] = none
        /\ completed[c] = 0 /\ progress[c] = 0 /\ furthest[c] = 0 /\ shown[c] = none
        /\ clustering[c] = "none" /\ sink[c] = "none" /\ ~abort[c] /\ ~early[c]
        /\ reply[c].kind = "none"
    BY DEF FileInit
  <2>2. Len(q.audio) \in Nat
    BY <2>1, AskIs
  <2>3. none \in Seq(Seq(Words)) /\ Len(none) = 0 /\ 1 - 1 = 0
    OBVIOUS
  <2>4. SaidUpTo(q, 0) = none /\ SamplesUpTo(q, 0) = 0
    BY <2>1, <2>2, SaidIs, SamplesAdd
  <2> HIDE DEF none
  <2>5. StepOf(q, "called", 1)
    BY <2>1, <2>2 DEF StepOf, Working, Speaking, Ending, Steps
  <2>6. ProgressOf(q, "called", 1, 0, 0, 0)
    BY <2>3, <2>4 DEF ProgressOf
  <2>7. ShownOf(q, "called", 1, none)
    BY <2>2, <2>3 DEF ShownOf
  <2>8. GatheredOf(q, "called", 1, "none", none)
    BY <2>3, <2>4 DEF GatheredOf, Ending
  <2>9. SpeakersOf(q, "called", "none", "none", abort[c], early[c], model)
    BY <2>1 DEF SpeakersOf, Ending
  <2>10. WithinOf(q, "called", 1)
    BY DEF WithinOf
  <2>11. RepliedOf(q, "called", "none", early[c], 0, reply[c])
    BY <2>1, NotOk
  <2> QED
    BY <2>1, <2>5, <2>6, <2>7, <2>8, <2>9, <2>10, <2>11 DEF RequestOf
<1> QED
  BY <1>1, <1>2, <1>3 DEF FilesAre

LEMMA FilesStay ==
  ASSUME FilesAre, [FileNext]_fileVars
  PROVE  FilesAre'
<1>1. CASE UNCHANGED fileVars
  <2>1. /\ encoderVars' = encoderVars /\ ask' = ask /\ doing' = doing /\ channel' = channel
        /\ results' = results /\ completed' = completed /\ progress' = progress
        /\ furthest' = furthest /\ shown' = shown /\ clustering' = clustering /\ sink' = sink
        /\ abort' = abort /\ early' = early /\ reply' = reply /\ model' = model
    BY <1>1 DEF fileVars, requestVars, encoderVars
  <2>2. SlotIs'
    BY <2>1, SlotStays DEF FilesAre
  <2>3. Kept'
    BY <2>1 DEF FilesAre, Kept
  <2>4. ASSUME NEW c \in Callers PROVE RequestOf(c)'
    BY <2>1 DEF FilesAre, RequestOf
  <2> QED
    BY <2>2, <2>3, <2>4 DEF FilesAre
<1>2. ASSUME NEW c \in Callers,
             \/ Abort(c) \/ Call(c) \/ FirstWindow(c) \/ LastWindow(c) \/ ChannelDone(c)
             \/ Lock(c) \/ Loaded(c) \/ NoEncoder(c) \/ Embed(c) \/ Cluster(c) \/ SpeakersDone(c)
             \/ Finish(c) \/ ReturnResult(c)
      PROVE  FilesAre'
  BY <1>2, AbortKeeps, CallKeeps, FirstWindowKeeps, LastWindowKeeps, ChannelDoneKeeps, LockKeeps,
     LoadedKeeps, CameToKeeps, SpeakersDoneKeeps, FinishKeeps, ReturnResultKeeps
<1> QED
  BY <1>1, <1>2 DEF FileNext

\* What a time-out shows has as many words as its parts.
LEMMA ShownAddsUp ==
  ASSUME NEW parts \in Seq(Seq(Words)), NEW sum,
         sum = AddedUp([k \in DOMAIN parts |-> Len(parts[k])])
  PROVE  /\ Len(FlattenSeq(parts)) = sum
         /\ Len(Chronological(BySpeaker(parts))) = sum
<1>1. sum = SumFrom(0, LengthsOf(parts))
  BY DEF AddedUp, SumFrom, LengthsOf
<1>2. Len(FlattenSeq(parts)) = sum
  BY <1>1, FlattenLength
<1> DEFINE words == BySpeaker(parts)
<1>3. LengthsOf(parts) \in Seq(Nat) /\ Len(LengthsOf(parts)) = Len(parts)
  BY LengthsAre
<1>4. PICK off : RunningSums(off, LengthsOf(parts)) /\ SumFrom(0, LengthsOf(parts)) = off[Len(parts)]
  BY <1>3, SumOffsets
<1>5. words \in Seq(Words) /\ Len(words) = sum
  BY <1>1, <1>4, BySpeakerIs
<1> HIDE DEF words
<1>6. PICK at : Merges(words, Chronological(words), at)
  BY <1>5, ChronologicalMerges
<1>7. Len(Chronological(words)) = sum
  BY <1>5, <1>6 DEF Merges
<1> QED
  BY <1>2, <1>7 DEF words

LEMMA FilesAreTrue ==
  ASSUME FilesAre
  PROVE  RequestsAreTrue
<1>1. loads <= 1 /\ (encoder \in {"ready", "failed"} => loads = 1)
  <2>1. loads \in {0, 1}
    BY DEF FilesAre, SlotIs
  <2> QED
    BY <2>1 DEF FilesAre, SlotIs
<1>2. ASSUME NEW c \in Callers
      PROVE  /\ progress[c] = furthest[c] /\ sink[c] # "interrupted"
             /\ sink[c] = "no_speaker_model" => model # "good"
             /\ sink[c] \in {"applied", "ceiling", "failed"} => model = "good"
             /\ \A k \in DOMAIN shown[c] :
                  /\ IsPrefix(shown[c][k], ask[c].audio[k].words)
                  /\ k < channel[c] => shown[c][k] = ask[c].audio[k].words
             /\ Len(get(c)) = AddedUp([k \in DOMAIN shown[c] |-> Len(shown[c][k])])
             /\ reply[c].kind = "ok" =>
                  /\ ~early[c] /\ ~TooLong(ask[c])
                  /\ progress[c] = AllSamples(ask[c])
                  /\ sink[c] # "none" <=> (Wanted(ask[c]) /\ ask[c].audio # <<>>)
                  /\ TranscriptIsTrue(ask[c], sink[c], reply[c].words)
  <2>1. RequestOf(c)
    BY DEF FilesAre
  <2>2. progress[c] = furthest[c]
    BY <2>1 DEF RequestOf, ProgressOf
  <2>3. /\ sink[c] # "interrupted" /\ (sink[c] = "no_speaker_model" => model # "good")
        /\ sink[c] \in {"applied", "ceiling", "failed"} => model = "good"
    BY <2>1 DEF RequestOf, SpeakersOf
  <2>4. /\ shown[c] \in Seq(Seq(Words))
        /\ \A k \in 1 .. Len(shown[c]) :
             /\ IsPrefix(shown[c][k], ask[c].audio[k].words)
             /\ k < channel[c] => shown[c][k] = ask[c].audio[k].words
    BY <2>1 DEF RequestOf, ShownOf
  <2>5. DOMAIN shown[c] = 1 .. Len(shown[c])
    BY <2>4
  <2>6. Len(get(c)) = AddedUp([k \in DOMAIN shown[c] |-> Len(shown[c][k])])
    BY <2>4, ShownAddsUp DEF get
  <2>7. reply[c].kind = "ok" =>
          /\ ~early[c] /\ ~TooLong(ask[c])
          /\ progress[c] = AllSamples(ask[c])
          /\ sink[c] # "none" <=> (Wanted(ask[c]) /\ ask[c].audio # <<>>)
          /\ TranscriptIsTrue(ask[c], sink[c], reply[c].words)
    BY <2>1 DEF RequestOf, RepliedOf
  <2> QED
    BY <2>2, <2>3, <2>4, <2>5, <2>6, <2>7
<1> QED
  BY <1>1, <1>2 DEF RequestsAreTrue

\* What a request is answered is true, for any requests, recordings and number of
\* callers at once: transcribe_request, its channels and its voices report every
\* piece of progress once and in order, show no more than is decoded, ask for
\* speakers just when they are wanted, give no transcript to a request given up
\* meanwhile, and give the transcript every word of every channel, by its speaker.
THEOREM RequestsHold == FileSpec => []RequestsAreTrue
<1>1. FileInit => FilesAre
  BY FilesBegin
<1>2. FilesAre /\ [FileNext]_fileVars => FilesAre'
  BY FilesStay
<1>3. FilesAre => RequestsAreTrue
  BY FilesAreTrue
<1> QED
  BY <1>1, <1>2, <1>3, PTL DEF FileSpec

=============================================================================
