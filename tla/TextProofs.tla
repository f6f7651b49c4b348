--------------------------- MODULE TextProofs ----------------------------
(* What the engine says comes out as said.  Captions come out whole, for    *)
(* any export of words: no word lost, out of order, in two cues or over     *)
(* the line.  Words are the letters of their tokens, for any vocabulary,    *)
(* and hotwords read as they were asked for.  The folds, the flattening     *)
(* and the recursive functions of Captions and Hotwords are data of any     *)
(* length: induction over them is QueueLemmas' Inductive.                   *)
EXTENDS Captions, WordFormat, QueueLemmas, FiniteSetTheorems, TLAPS

-----------------------------------------------------------------------------
(* Captions.                                                               *)

\* What CueInv says of an export, as operators that the steps take as wholes.
Words(x) == ToSet(x.words)
Cue(x) == [start : Int, end : Int, length : Nat, spaced : BOOLEAN, words : Seq(Words(x))]

FitsIn(x, said) ==
  /\ x.count > 0 => Len(said) <= x.count
  /\ x.chars > 0 => LineBytes(said) <= x.chars
WideIn(x, w) == w.speaker # Unlabelled /\ x.chars > 0 /\ LABEL_LENGTH + 1 + w.len > x.chars

RightCue(x, c) ==
  /\ c.words # <<>> /\ OneSpeaker(c.words) /\ SpansItsWords(c)
  /\ Len(c.words) = 1 \/ FitsIn(x, c.words)
Apart(x, c, d) ==
  c.words[1].speaker # d.words[1].speaker \/ ~FitsIn(x, Append(c.words, d.words[1]))
FollowsIn(cut, k, j) == cut[j].words # <<>> /\ \A i \in k + 1 .. j - 1 : cut[i].words = <<>>

\* What CuesAreRight says of one cue and of what comes after it.
RightAt(x, cut, k) ==
  IF cut[k].words = <<>>
  THEN k < Len(cut) /\ cut[k + 1].words # <<>> /\ WideIn(x, cut[k + 1].words[1])
  ELSE RightCue(x, cut[k])
       /\ \A j \in k + 1 .. Len(cut) : FollowsIn(cut, k, j) => Apart(x, cut[k], cut[j])
RightCues(x, cut) == \A k \in 1 .. Len(cut) : RightAt(x, cut, k)

\* The open cue takes a word that begins no other.
LEMMA CueGrows ==
  ASSUME NEW x, NEW S, NEW cut \in Seq(S), NEW c \in S, NEW d \in S,
         RightCues(x, Append(cut, c)), c.words # <<>>,
         RightCue(x, d), d.words[1] = c.words[1]
  PROVE  RightCues(x, Append(cut, d))
<1> DEFINE old == Append(cut, c)
           new == Append(cut, d)
           n == Len(cut)
<1>1. /\ n \in Nat /\ Len(old) = n + 1 /\ Len(new) = n + 1
      /\ old[n + 1] = c /\ new[n + 1] = d /\ \A i \in 1 .. n : new[i] = cut[i] /\ old[i] = cut[i]
  OBVIOUS
<1>2. \A i \in 1 .. n + 1 : /\ new[i].words = <<>> <=> old[i].words = <<>>
                            /\ new[i].words # <<>> => new[i].words[1] = old[i].words[1]
  BY <1>1 DEF RightCue
<1>3. RightCues(x, old)
  OBVIOUS
<1> HIDE DEF old, new, n
<1>4. ASSUME NEW k \in 1 .. n + 1 PROVE RightAt(x, new, k)
  <2>1. RightAt(x, old, k)
    BY <1>1, <1>3 DEF RightCues
  <2>2. CASE new[k].words = <<>>
    <3>1. old[k].words = <<>> /\ k < n + 1 /\ k + 1 \in 1 .. n + 1
      BY <1>1, <1>2, <2>1, <2>2 DEF RightAt
    <3> QED
      BY <1>1, <1>2, <2>1, <2>2, <3>1 DEF RightAt
  <2>3. CASE new[k].words # <<>>
    <3>1. old[k].words # <<>>
      BY <1>2, <2>3
    <3>2. RightCue(x, new[k])
      BY <1>1, <2>1, <3>1 DEF RightAt
    <3>3. ASSUME NEW j \in k + 1 .. n + 1, FollowsIn(new, k, j) PROVE Apart(x, new[k], new[j])
      <4>1. FollowsIn(old, k, j)
        BY <1>1, <1>2, <3>3 DEF FollowsIn
      <4>2. Apart(x, old[k], old[j])
        BY <1>1, <2>1, <3>1, <4>1 DEF RightAt
      <4>3. k \in 1 .. n /\ new[k] = old[k] /\ new[j].words[1] = old[j].words[1]
        BY <1>1, <1>2, <3>3 DEF FollowsIn
      <4> QED
        BY <4>2, <4>3 DEF Apart
    <3> QED
      BY <1>1, <2>3, <3>2, <3>3 DEF RightAt
  <2> QED
    BY <2>2, <2>3
<1>5. RightCues(x, new)
  BY <1>1, <1>4 DEF RightCues
<1> QED
  BY <1>5 DEF new

\* It is closed, and another begins.
LEMMA CueBegins ==
  ASSUME NEW x, NEW S, NEW cut \in Seq(S), NEW d \in S, RightCues(x, cut), RightCue(x, d),
         cut # <<>> => cut[Len(cut)].words # <<>> /\ Apart(x, cut[Len(cut)], d)
  PROVE  RightCues(x, Append(cut, d))
<1> DEFINE new == Append(cut, d)
           n == Len(cut)
<1>1. /\ n \in Nat /\ Len(new) = n + 1 /\ new[n + 1] = d /\ \A i \in 1 .. n : new[i] = cut[i]
  OBVIOUS
<1>2. n # 0 => cut[n].words # <<>> /\ Apart(x, cut[n], d)
  OBVIOUS
<1>3. \A k \in 1 .. n : RightAt(x, cut, k)
  BY DEF RightCues
<1> HIDE DEF new
<1>4. ASSUME NEW k \in 1 .. n PROVE RightAt(x, new, k)
  <2>1. RightAt(x, cut, k) /\ new[k] = cut[k]
    BY <1>1, <1>3
  <2>2. CASE cut[k].words = <<>>
    <3>1. k < n /\ k + 1 \in 1 .. n
      BY <1>1, <2>1, <2>2 DEF RightAt
    <3> QED
      BY <1>1, <2>1, <2>2, <3>1 DEF RightAt
  <2>3. CASE cut[k].words # <<>>
    <3>1. ASSUME NEW j \in k + 1 .. n + 1, FollowsIn(new, k, j) PROVE Apart(x, new[k], new[j])
      <4>1. CASE j = n + 1
        <5>1. k = n
          <6>1. k # n => n \in k + 1 .. j - 1 /\ new[n] = cut[n]
            BY <1>1, <4>1
          <6> QED
            BY <1>1, <1>2, <3>1, <6>1 DEF FollowsIn
        <5> QED
          BY <1>1, <1>2, <4>1, <5>1
      <4>2. CASE j # n + 1
        <5>1. j \in k + 1 .. n /\ j \in 1 .. n
          BY <1>1, <4>2
        <5>2. FollowsIn(cut, k, j)
          BY SMTT(30), <1>1, <3>1, <5>1 DEF FollowsIn
        <5> QED
          BY <1>1, <2>1, <2>3, <5>1, <5>2 DEF RightAt
      <4> QED
        BY <4>1, <4>2
    <3> QED
      BY <1>1, <2>1, <2>3, <3>1 DEF RightAt
  <2> QED
    BY <2>2, <2>3
<1>5. RightAt(x, new, n + 1)
  BY <1>1 DEF RightAt, RightCue
<1>6. RightCues(x, new)
  BY <1>1, <1>4, <1>5 DEF RightCues
<1> QED
  BY <1>6 DEF new

\* The label is a cue of its own where a word does not fit behind it.
LEMMA LabelBegins ==
  ASSUME NEW x, NEW S, NEW cut \in Seq(S), NEW b \in S, NEW d \in S,
         RightCues(x, cut), RightCue(x, d), b.words = <<>>, WideIn(x, d.words[1]),
         cut # <<>> => cut[Len(cut)].words # <<>> /\ Apart(x, cut[Len(cut)], d)
  PROVE  RightCues(x, Append(Append(cut, b), d))
<1> DEFINE new == Append(Append(cut, b), d)
           n == Len(cut)
<1>1. /\ n \in Nat /\ Len(new) = n + 2 /\ new[n + 1] = b /\ new[n + 2] = d
      /\ \A i \in 1 .. n : new[i] = cut[i]
  OBVIOUS
<1>2. n # 0 => cut[n].words # <<>> /\ Apart(x, cut[n], d)
  OBVIOUS
<1>3. \A k \in 1 .. n : RightAt(x, cut, k)
  BY DEF RightCues
<1> HIDE DEF new
<1>4. ASSUME NEW k \in 1 .. n PROVE RightAt(x, new, k)
  <2>1. RightAt(x, cut, k) /\ new[k] = cut[k]
    BY <1>1, <1>3
  <2>2. CASE cut[k].words = <<>>
    <3>1. k < n /\ k + 1 \in 1 .. n
      BY <1>1, <2>1, <2>2 DEF RightAt
    <3> QED
      BY <1>1, <2>1, <2>2, <3>1 DEF RightAt
  <2>3. CASE cut[k].words # <<>>
    <3>1. ASSUME NEW j \in k + 1 .. n + 2, FollowsIn(new, k, j) PROVE Apart(x, new[k], new[j])
      <4>1. CASE j = n + 2
        <5>1. k = n
          <6>1. k # n => n \in k + 1 .. j - 1 /\ new[n] = cut[n]
            BY <1>1, <4>1
          <6> QED
            BY <1>1, <1>2, <3>1, <6>1 DEF FollowsIn
        <5> QED
          BY <1>1, <1>2, <4>1, <5>1
      <4>2. CASE j = n + 1
        BY <1>1, <3>1, <4>2 DEF FollowsIn
      <4>3. CASE j \notin {n + 1, n + 2}
        <5>1. j \in k + 1 .. n /\ j \in 1 .. n
          BY <1>1, <4>3
        <5>2. FollowsIn(cut, k, j)
          BY <1>1, <3>1, <5>1 DEF FollowsIn
        <5> QED
          BY <1>1, <2>1, <2>3, <5>1, <5>2 DEF RightAt
      <4> QED
        BY <4>1, <4>2, <4>3
    <3> QED
      BY <1>1, <2>1, <2>3, <3>1 DEF RightAt
  <2> QED
    BY <2>2, <2>3
<1>5. RightAt(x, new, n + 1)
  BY <1>1 DEF RightAt, RightCue
<1>6. RightAt(x, new, n + 2)
  BY <1>1 DEF RightAt, RightCue
<1>7. RightCues(x, new)
  BY <1>1, <1>4, <1>5, <1>6 DEF RightCues
<1> QED
  BY <1>7 DEF new

\* The bytes of the words, with a space before each but the first.
Counts(said) == [k \in DOMAIN said |-> said[k].len + 1]
Bytes(said) == SumFrom(-1, Counts(said))

\* A word takes its bytes and a space.
LEMMA BytesAppend ==
  ASSUME NEW S, NEW said \in Seq(S), NEW w \in S, \A v \in S : v.len \in Nat
  PROVE  /\ Bytes(<<>>) = -1
         /\ Bytes(Append(said, w)) = Bytes(said) + w.len + 1
         /\ Bytes(said) \in Int
<1>1. Counts(said) \in Seq(Int) /\ w.len + 1 \in Int /\ w.len \in Nat
  BY DEF Counts
<1>2. Counts(Append(said, w)) = Append(Counts(said), w.len + 1) /\ Counts(<<>>) = <<>>
  BY DEF Counts
<1>3. SumFrom(-1, <<>>) = -1
      /\ SumFrom(-1, Append(Counts(said), w.len + 1)) = SumFrom(-1, Counts(said)) + (w.len + 1)
  BY <1>1, SumGrows
<1>4. SumFrom(-1, Counts(said)) \in Int
  BY <1>1, SumTyped
<1> QED
  BY <1>1, <1>2, <1>3, <1>4 DEF Bytes

Label(w) == IF w.speaker = Unlabelled THEN 0 ELSE LABEL_LENGTH

\* A line is its label and its bytes.
LEMMA LineIs ==
  ASSUME NEW S, NEW said \in Seq(S), NEW w \in S, \A v \in S : v.len \in Nat
  PROVE  /\ LineBytes(<<w>>) = w.len + Label(w)
         /\ said # <<>> => LineBytes(Append(said, w)) = LineBytes(said) + w.len + 1
<1>1. LABEL_LENGTH \in Nat
  BY CaptionsAssumption
<1>2. LineBytes(<<w>>) = w.len + Label(w)
  <2> DEFINE none == <<>>
  <2>1. none \in Seq(S) /\ Append(none, w) = <<w>> /\ <<w>>[1] = w
    OBVIOUS
  <2> HIDE DEF none
  <2>2. Bytes(none) = -1
    BY BytesAppend DEF none
  <2>3. Bytes(<<w>>) = -1 + w.len + 1
    BY <2>1, <2>2, BytesAppend
  <2>4. LineBytes(<<w>>) = Bytes(<<w>>) + Label(w)
    BY <2>1 DEF LineBytes, Bytes, Counts, SumFrom, Label
  <2> QED
    BY <1>1, <2>3, <2>4 DEF Label
<1>3. ASSUME said # <<>> PROVE LineBytes(Append(said, w)) = LineBytes(said) + w.len + 1
  <2> DEFINE more == Append(said, w)
  <2>1. more[1] = said[1]
    BY <1>3
  <2>2. Bytes(more) = Bytes(said) + w.len + 1
    BY BytesAppend
  <2> HIDE DEF more
  <2>3. LineBytes(more) = Bytes(more) + Label(said[1]) /\ LineBytes(said) = Bytes(said) + Label(said[1])
    BY <2>1 DEF LineBytes, Bytes, Counts, SumFrom, Label
  <2>4. Bytes(said) \in Int
    BY BytesAppend
  <2>5. Label(said[1]) \in Int
    BY <1>1 DEF Label
  <2>6. LineBytes(more) = LineBytes(said) + w.len + 1
    BY <2>2, <2>3, <2>4, <2>5
  <2> QED
    BY <2>6 DEF more
<1> QED
  BY <1>2, <1>3

\* What is assumed of a word and of the limits.
LEMMA WordIs ==
  ASSUME NEW x \in Exports, NEW w \in Words(x)
  PROVE  /\ w.start \in Int /\ w.end \in Int /\ w.len \in Nat \ {0}
         /\ x.chars \in Nat /\ x.count \in Nat /\ LABEL_LENGTH \in Nat \ {0}
  BY CaptionsAssumption DEF Words

\* A cue with words, as it grows.
Good(x, d) ==
  d \in Cue(x) /\ RightCue(x, d) /\ d.spaced = FALSE /\ d.length = LineBytes(d.words) /\ d.length > 0
Fresh(x, b, w) ==
  b \in Cue(x) /\ b.words = <<>> /\ b.start = w.start /\ b.length = Label(w)
    /\ b.spaced = (w.speaker # Unlabelled)

\* A cue that is begun has its label, if any, and no words.
LEMMA BegunIsFresh ==
  ASSUME NEW x \in Exports, NEW w \in Words(x), NEW c, c.end \in Int
  PROVE  Fresh(x, Begun(c, w), w) /\ Fresh(x, [Begun(c, w) EXCEPT !.end = w.end], w)
<1> DEFINE e == Begun(c, w)
<1>1. w.start \in Int /\ w.end \in Int /\ LABEL_LENGTH \in Nat
  BY WordIs
<1>2. /\ e \in Cue(x) /\ e.words = <<>> /\ e.start = w.start /\ e.length = Label(w)
      /\ e.spaced = (w.speaker # Unlabelled)
  BY <1>1 DEF Begun, Cue, Label
<1> HIDE DEF e
<1>3. [e EXCEPT !.end = w.end] \in Cue(x)
  BY <1>1, <1>2 DEF Cue
<1>4. Fresh(x, [e EXCEPT !.end = w.end], w)
  BY <1>1, <1>2, <1>3 DEF Fresh, Cue
<1> QED
  BY <1>2, <1>4 DEF e, Fresh

\* A word put into an empty cue makes it a right one.
LEMMA CueOfOne ==
  ASSUME NEW x \in Exports, NEW w \in Words(x), NEW b, Fresh(x, b, w)
  PROVE  Good(x, WithWord(b, w)) /\ WithWord(b, w).words = <<w>>
<1> DEFINE d == WithWord(b, w)
<1>1. /\ w.end \in Int /\ w.len \in Nat \ {0} /\ LABEL_LENGTH \in Nat \ {0}
  BY WordIs
<1>2. /\ b \in Cue(x) /\ b.words = <<>> /\ b.start = w.start /\ b.length = Label(w)
      /\ b.spaced = (w.speaker # Unlabelled)
  BY DEF Fresh
<1>3. d.words = <<w>> /\ d.start = w.start /\ d.end = w.end /\ d.spaced = FALSE
  BY <1>2 DEF WithWord, Cue
<1>4. d.length = w.len + Label(w)
  BY <1>1, <1>2 DEF WithWord, Cue, Label
<1>5. d \in Cue(x)
  <2>1. d.length \in Nat /\ <<w>> \in Seq(Words(x))
    BY <1>1, <1>4 DEF Label
  <2> QED
    BY <1>1, <1>2, <1>3, <2>1 DEF WithWord, Cue
<1> HIDE DEF d
<1>6. LineBytes(d.words) = d.length
  <2>1. \A v \in Words(x) : v.len \in Nat
    BY WordIs
  <2>2. <<w>> \in Seq(Words(x))
    OBVIOUS
  <2>3. LineBytes(<<w>>) = w.len + Label(w)
    BY <2>1, <2>2, LineIs
  <2> QED
    BY <1>3, <1>4, <2>3
<1>7. d.length > 0
  BY <1>1, <1>4 DEF Label
<1>8. RightCue(x, d)
  BY <1>3 DEF RightCue, OneSpeaker, SpansItsWords, Last
<1> QED
  BY <1>3, <1>5, <1>6, <1>7, <1>8 DEF Good, d

\* A word that fits, put into a right cue of its speaker, leaves it right.
LEMMA CueOfMore ==
  ASSUME NEW x \in Exports, NEW w \in Words(x), NEW c, Good(x, c), c.words[1].speaker = w.speaker,
         x.chars > 0 => c.length + 1 + w.len <= x.chars,
         x.count > 0 => Len(c.words) + 1 <= x.count
  PROVE  Good(x, WithWord(c, w)) /\ WithWord(c, w).words = Append(c.words, w)
<1> DEFINE d == WithWord(c, w)
           said == c.words
           more == Append(said, w)
<1>1. /\ w.end \in Int /\ w.len \in Nat \ {0} /\ x.chars \in Nat /\ x.count \in Nat
  BY WordIs
<1>2. /\ c \in Cue(x) /\ RightCue(x, c) /\ c.spaced = FALSE /\ c.length = LineBytes(said)
      /\ c.length > 0 /\ c.length \in Nat /\ said \in Seq(Words(x)) /\ said # <<>>
  BY DEF Good, Cue, RightCue
<1>3. d.words = more /\ d.start = c.start /\ d.end = w.end /\ d.spaced = FALSE
        /\ d.length = c.length + w.len + 1
  BY <1>1, <1>2 DEF WithWord, Cue
<1>4. more \in Seq(Words(x)) /\ more[1] = said[1] /\ Len(more) = Len(said) + 1
        /\ more[Len(more)] = w /\ \A i \in 1 .. Len(said) : more[i] = said[i]
  BY <1>2
<1>5. d \in Cue(x)
  <2>1. d.length \in Nat
    BY <1>1, <1>2, <1>3
  <2> QED
    BY <1>1, <1>2, <1>3, <1>4, <2>1 DEF WithWord, Cue
<1>6. LineBytes(more) = d.length
  <2>1. \A v \in Words(x) : v.len \in Nat
    BY WordIs
  <2>2. LineBytes(more) = LineBytes(said) + w.len + 1
    BY <1>2, <2>1, LineIs
  <2> QED
    BY <1>2, <1>3, <2>2
<1> HIDE DEF d, more, said
<1>7. OneSpeaker(more)
  <2>1. OneSpeaker(said) /\ said[1].speaker = w.speaker
    BY <1>2 DEF RightCue, said
  <2>2. DOMAIN more = 1 .. Len(said) + 1 /\ DOMAIN said = 1 .. Len(said) /\ Len(said) \in Nat
    BY <1>2, <1>4
  <2>3. ASSUME NEW i \in 1 .. Len(said) + 1 PROVE more[i].speaker = more[1].speaker
    BY <1>4, <2>1, <2>2 DEF OneSpeaker
  <2> QED
    BY <2>2, <2>3 DEF OneSpeaker
<1>8. SpansItsWords(d)
  BY <1>2, <1>3, <1>4 DEF RightCue, SpansItsWords, Last, said
<1>9. FitsIn(x, more)
  BY <1>1, <1>2, <1>3, <1>4, <1>6 DEF FitsIn, said
<1>10. RightCue(x, d)
  BY <1>3, <1>4, <1>7, <1>8, <1>9 DEF RightCue
<1>11. d.length > 0
  BY <1>1, <1>2, <1>3
<1>12. Good(x, d) /\ d.words = more
  BY <1>3, <1>5, <1>6, <1>10, <1>11 DEF Good
<1> QED
  BY <1>12 DEF d, more, said

\* The words of one cue or segment more.
LEMMA JoinedAppend ==
  ASSUME NEW S, NEW C, \A d \in C : d.words \in Seq(S), NEW cut \in Seq(C), NEW c \in C
  PROVE  /\ Joined(Append(cut, c)) = Joined(cut) \o c.words
         /\ Joined(cut) \in Seq(S) /\ Joined(<<>>) = <<>>
<1> DEFINE Of(seq) == [k \in DOMAIN seq |-> seq[k].words]
<1>1. Of(cut) \in Seq(Seq(S)) /\ c.words \in Seq(S)
  OBVIOUS
<1>2. Of(Append(cut, c)) = Append(Of(cut), c.words)
  OBVIOUS
<1>3. Joined(<<>>) = <<>>
  BY DEF Joined, FlattenSeq
<1>4. Joined(Append(cut, c)) = FlattenSeq(Of(Append(cut, c))) /\ Joined(cut) = FlattenSeq(Of(cut))
  BY DEF Joined
<1> HIDE DEF Of
<1> QED
  BY <1>1, <1>2, <1>3, <1>4, FlattenAppend

\* The same for cues.
LEMMA CueJoined ==
  ASSUME NEW x, NEW cut \in Seq(Cue(x)), NEW c \in Cue(x)
  PROVE  Joined(Append(cut, c)) = Joined(cut) \o c.words
<1> DEFINE S == Words(x)
           C == Cue(x)
<1>1. (\A d \in C : d.words \in Seq(S)) /\ cut \in Seq(C) /\ c \in C
  BY DEF Cue
<1> HIDE DEF S, C
<1> QED
  BY <1>1, JoinedAppend

\* The open cue and those before it hold the words taken; each is right for its export.
CueInv ==
  /\ export \in Exports /\ taken \in 0 .. Len(export.words) /\ cues \in Seq(Cue(export))
  /\ IF taken = 0
     THEN /\ cues = <<>> /\ cue \in Cue(export) /\ cue.length = 0 /\ cue.words = <<>>
          /\ cue.spaced = FALSE /\ current_speaker = Unlabelled /\ word_count = 0
          /\ export.words # <<>> => cue.start = export.words[1].start
     ELSE /\ Good(export, cue) /\ current_speaker = cue.words[1].speaker
          /\ word_count = Len(cue.words)
  /\ RightCues(export, AllCues)
  /\ Joined(cues) \o cue.words = SubSeq(export.words, 1, taken)

\* The word at hand, and what closes the open cue before it.
Next1 == export.words[taken + 1]
CueChanges == taken > 0 => cue.words[1].speaker # Next1.speaker
CueIsFull ==
  \/ export.chars > 0 /\ cue.length + 1 + Next1.len > export.chars
  \/ export.count > 0 /\ Len(cue.words) + 1 > export.count

\* It is a word of the export, and taken next.
LEMMA NextWord ==
  ASSUME export \in Exports, taken \in 0 .. Len(export.words), taken < Len(export.words)
  PROVE  /\ Next1 \in Words(export)
         /\ SubSeq(export.words, 1, taken + 1) = Append(SubSeq(export.words, 1, taken), Next1)
         /\ taken + 1 \in 1 .. Len(export.words)
<1>1. export.words \in Seq(Words(export))
  BY CaptionsAssumption DEF Words
<1> QED
  BY <1>1 DEF Next1

\* A word goes into the open cue, into a new one, or behind a label of its own.
LEMMA CueStepIs ==
  ASSUME CueInv, TakeWord
  PROVE  \/ /\ taken > 0 /\ cue.words[1].speaker = Next1.speaker /\ ~CueIsFull
            /\ cues' = cues /\ cue' = WithWord(cue, Next1) /\ word_count' = word_count + 1
         \/ \E b : /\ Fresh(export, b, Next1) /\ cue' = WithWord(b, Next1) /\ word_count' = 1
                   /\ taken > 0 => CueChanges \/ CueIsFull
                   /\ \/ cues' = AllCues
                      \/ /\ WideIn(export, Next1) /\ CueChanges
                         /\ \E d \in Cue(export) : d.words = <<>> /\ cues' = Append(AllCues, d)
<1> DEFINE w == Next1
           open == Begun(cue, w)
<1>1. /\ export \in Exports /\ taken < Len(export.words) /\ taken \in Nat /\ w \in Words(export)
      /\ cue \in Cue(export)
  BY NextWord DEF CueInv, TakeWord, Good
<1>2. /\ w.start \in Int /\ w.end \in Int /\ w.len \in Nat \ {0} /\ LABEL_LENGTH \in Nat \ {0}
      /\ export.chars \in Nat /\ export.count \in Nat
  BY <1>1, WordIs
<1>3. CueStep(w)
  BY <1>1 DEF TakeWord, Next1
<1>4. Fresh(export, open, w) /\ open.length \in Nat /\ open.words = <<>>
  <2>1. cue.end \in Int
    BY <1>1 DEF Cue
  <2>2. Fresh(export, open, w)
    BY <1>1, <2>1, BegunIsFresh
  <2> HIDE DEF open
  <2> QED
    BY <2>2 DEF Fresh, Cue
<1> HIDE DEF w
<1>5. ASSUME w.speaker # current_speaker
      PROVE  \E b : /\ Fresh(export, b, w) /\ cue' = WithWord(b, w) /\ word_count' = 1
                    /\ CueChanges
                    /\ \/ cues' = AllCues
                       \/ /\ WideIn(export, w)
                          /\ \E d \in Cue(export) : d.words = <<>> /\ cues' = Append(AllCues, d)
  <2>1. CueChanges
    BY <1>5 DEF CueInv, CueChanges, w
  <2>2. CASE Breaks(open, 0, w)
    <3> DEFINE b == [Begun(open, w) EXCEPT !.end = w.end]
    <3>1. cues' = Flushed(AllCues, open) /\ cue' = WithWord(b, w) /\ word_count' = 1
      BY <1>3, <1>5, <2>2 DEF CueStep, CountAt, AllCues
    <3>2. Fresh(export, b, w)
      <4>1. open.end \in Int
        BY <1>4 DEF Fresh, Cue
      <4> HIDE DEF open
      <4> QED
        BY <1>1, <4>1, BegunIsFresh
    <3>3. open.length # 0 /\ WideIn(export, w)
      BY <1>2, <1>4, <2>2 DEF Breaks, Would, WideIn, Begun
    <3>4. cues' = Append(AllCues, open) /\ open \in Cue(export)
      BY <1>4, <3>1, <3>3 DEF Flushed, Fresh
    <3> HIDE DEF b, open
    <3> QED
      BY <1>4, <2>1, <3>1, <3>2, <3>3, <3>4
  <2>3. CASE ~Breaks(open, 0, w)
    <3>1. cues' = AllCues /\ cue' = WithWord(open, w) /\ word_count' = 1
      BY <1>3, <1>5, <2>3 DEF CueStep, CountAt, AllCues
    <3> HIDE DEF open
    <3> QED
      BY <1>4, <2>1, <3>1
  <2> QED
    BY <2>2, <2>3
<1>6. ASSUME w.speaker = current_speaker, taken = 0
      PROVE  Fresh(export, cue, w) /\ cue' = WithWord(cue, w) /\ word_count' = 1 /\ cues' = AllCues
  <2>1. cues = <<>> /\ cue.length = 0 /\ cue.words = <<>> /\ cue.spaced = FALSE
          /\ w.speaker = Unlabelled /\ word_count = 0 /\ cue.start = w.start
    BY <1>1, <1>6 DEF CueInv, Next1, w
  <2>2. ~Breaks(cue, 0, w)
    BY <2>1 DEF Breaks
  <2>3. cues' = cues /\ cue' = WithWord(cue, w) /\ word_count' = 1
    BY <1>3, <1>6, <2>1, <2>2 DEF CueStep, CountAt
  <2> QED
    BY <1>1, <2>1, <2>3 DEF Fresh, Label, AllCues, Flushed
<1>12. cue.end \in Int
  BY <1>1 DEF Cue
<1>7. ASSUME w.speaker = current_speaker, taken > 0
      PROVE  \/ /\ cue.words[1].speaker = w.speaker /\ ~CueIsFull
                /\ cues' = cues /\ cue' = WithWord(cue, w) /\ word_count' = word_count + 1
             \/ \E b : /\ Fresh(export, b, w) /\ cue' = WithWord(b, w) /\ word_count' = 1
                       /\ CueIsFull /\ cues' = AllCues
  <2>1. /\ cue.words[1].speaker = w.speaker /\ cue.length > 0 /\ cue.length \in Nat
        /\ word_count = Len(cue.words) /\ word_count \in Nat
    <3>1. Good(export, cue) /\ cue.words[1].speaker = w.speaker /\ word_count = Len(cue.words)
      BY <1>1, <1>7 DEF CueInv
    <3>2. cue.words \in Seq(Words(export)) /\ cue.length \in Nat
      BY <1>1 DEF Cue
    <3> QED
      BY <3>1, <3>2 DEF Good
  <2>2. Breaks(cue, word_count, w) <=> CueIsFull
    BY <1>2, <2>1 DEF Breaks, Would, CueIsFull, w
  <2>3. CASE CueIsFull
    <3> DEFINE b == [Begun(cue, w) EXCEPT !.end = w.end]
    <3>1. cues' = AllCues /\ cue' = WithWord(b, w) /\ word_count' = 1
      BY <1>3, <1>7, <2>2, <2>3 DEF CueStep, CountAt, AllCues
    <3>2. Fresh(export, b, w)
      BY <1>1, <1>12, BegunIsFresh
    <3> HIDE DEF b
    <3> QED
      BY <2>3, <3>1, <3>2
  <2>4. CASE ~CueIsFull
    BY <1>3, <1>7, <2>1, <2>2, <2>4 DEF CueStep, CountAt
  <2> QED
    BY <2>3, <2>4
<1> HIDE DEF open
<1>8. taken = 0 \/ taken > 0
  BY <1>1
<1>9. CASE w.speaker # current_speaker
  BY <1>5, <1>9 DEF w
<1>10. CASE w.speaker = current_speaker /\ taken = 0
  BY <1>6, <1>10 DEF w
<1>11. CASE w.speaker = current_speaker /\ taken > 0
  BY <1>7, <1>11 DEF w
<1> QED
  BY <1>8, <1>9, <1>10, <1>11

\* Every cue so far, open or not.
LEMMA AllCuesAre ==
  ASSUME CueInv
  PROVE  /\ AllCues \in Seq(Cue(export)) /\ Joined(AllCues) = SubSeq(export.words, 1, taken)
         /\ taken = 0 => AllCues = <<>>
         /\ taken > 0 => AllCues = Append(cues, cue) /\ AllCues[Len(AllCues)] = cue
                           /\ Good(export, cue)
<1>1. taken \in Nat /\ cues \in Seq(Cue(export)) /\ cue \in Cue(export)
  BY DEF CueInv, Good
<1>2. \A d \in Cue(export) : d.words \in Seq(Words(export))
  BY DEF Cue
<1>3. CASE taken = 0
  <2>1. cues = <<>> /\ cue.length = 0 /\ cue.words = <<>>
    BY <1>3 DEF CueInv
  <2>2. AllCues = <<>>
    BY <2>1 DEF AllCues, Flushed
  <2>3. Joined(<<>>) = <<>>
    BY <1>1, <1>2, JoinedAppend
  <2>4. SubSeq(export.words, 1, taken) = <<>>
    BY <1>3, <2>1, <2>3 DEF CueInv
  <2>5. ~(taken > 0) /\ <<>> \in Seq(Cue(export))
    BY <1>3
  <2> QED
    BY <1>3, <2>2, <2>3, <2>4, <2>5, Zenon
<1>4. CASE taken > 0
  <2>1. Good(export, cue)
    BY <1>4 DEF CueInv
  <2>2. AllCues = Append(cues, cue)
    BY <2>1 DEF AllCues, Flushed, Good
  <2>3. Joined(Append(cues, cue)) = Joined(cues) \o cue.words
    BY <1>1, <1>2, JoinedAppend
  <2>4. Joined(cues) \o cue.words = SubSeq(export.words, 1, taken)
    BY DEF CueInv
  <2>5. Append(cues, cue) \in Seq(Cue(export)) /\ Append(cues, cue)[Len(Append(cues, cue))] = cue
    BY <1>1
  <2> QED
    BY <1>4, <2>1, <2>2, <2>3, <2>4, <2>5
<1> QED
  BY <1>1, <1>3, <1>4

\* A cue that is closed could not have taken the word it is closed before.
LEMMA CueApart ==
  ASSUME CueInv, taken > 0, CueChanges \/ CueIsFull, NEW d, d.words = <<Next1>>,
         Next1 \in Words(export)
  PROVE  Apart(export, cue, d)
<1>1. Good(export, cue) /\ export \in Exports
  BY DEF CueInv
<1>2. /\ cue.length = LineBytes(cue.words) /\ cue.words \in Seq(Words(export))
      /\ cue.words # <<>> /\ cue.length \in Nat
  BY <1>1 DEF Good, RightCue, Cue
<1>3. /\ Next1.len \in Nat /\ export.chars \in Nat /\ export.count \in Nat
      /\ \A v \in Words(export) : v.len \in Nat
  BY <1>1, WordIs
<1>4. CASE CueChanges
  BY <1>4 DEF CueChanges, Apart
<1>5. CASE CueIsFull
  <2>1. LineBytes(Append(cue.words, Next1)) = cue.length + Next1.len + 1
    BY <1>2, <1>3, LineIs
  <2>2. Len(Append(cue.words, Next1)) = Len(cue.words) + 1 /\ Len(cue.words) \in Nat
    BY <1>2
  <2>3. ~FitsIn(export, Append(cue.words, Next1))
    BY <1>2, <1>3, <1>5, <2>1, <2>2 DEF FitsIn, CueIsFull
  <2>4. d.words[1] = Next1
    OBVIOUS
  <2> QED
    BY <2>3, <2>4 DEF Apart
<1> QED
  BY <1>4, <1>5

\* Every word taken keeps the cues right.
LEMMA CueInvStep ==
  ASSUME CueInv, TakeWord
  PROVE  CueInv'
<1> DEFINE w == Next1
           x == export
<1>1. /\ x \in Exports /\ taken < Len(x.words) /\ taken \in 0 .. Len(x.words)
      /\ w \in Words(x) /\ cues \in Seq(Cue(x)) /\ RightCues(x, AllCues)
      /\ cue.words \in Seq(Words(x))
  BY NextWord DEF CueInv, TakeWord, Good, Cue
<1>2. export' = x /\ taken' = taken + 1 /\ current_speaker' = w.speaker
  BY DEF TakeWord, CueStep, Next1
<1>3. taken' \in 0 .. Len(x.words) /\ taken' # 0
  BY <1>1, <1>2
<1>4. SubSeq(x.words, 1, taken') = Append(SubSeq(x.words, 1, taken), w)
  BY <1>1, <1>2, NextWord
<1>5. /\ AllCues \in Seq(Cue(x)) /\ Joined(AllCues) = SubSeq(x.words, 1, taken)
      /\ taken = 0 => AllCues = <<>>
      /\ taken > 0 => AllCues = Append(cues, cue) /\ AllCues[Len(AllCues)] = cue /\ Good(x, cue)
  BY AllCuesAre
<1>6. \A d \in Cue(x) : d.words \in Seq(Words(x))
  BY DEF Cue
<1> HIDE DEF w, x
<1>7. ASSUME NEW d, NEW before, cue' = d, cues' = before, before \in Seq(Cue(x)),
             Good(x, d), d.words[1].speaker = w.speaker, word_count' = Len(d.words),
             RightCues(x, Append(before, d)),
             Joined(before) \o d.words = Append(SubSeq(x.words, 1, taken), w)
      PROVE  CueInv'
  <2>1. AllCues' = Append(before, d)
    BY <1>7 DEF AllCues, Flushed, Good
  <2> QED
    BY <1>1, <1>2, <1>3, <1>4, <1>7, <2>1 DEF CueInv
<1>8. CASE /\ taken > 0 /\ cue.words[1].speaker = w.speaker /\ ~CueIsFull
           /\ cues' = cues /\ cue' = WithWord(cue, w) /\ word_count' = word_count + 1
  <2> DEFINE d == WithWord(cue, w)
  <2>1. Good(x, cue) /\ AllCues = Append(cues, cue) /\ word_count = Len(cue.words)
    BY <1>5, <1>8 DEF CueInv
  <2>2. /\ cue.length \in Nat /\ cue.words # <<>> /\ cue \in Cue(x)
    BY <2>1 DEF Good, Cue, RightCue
  <2>3. w.len \in Nat /\ x.chars \in Nat /\ x.count \in Nat
    BY <1>1, WordIs
  <2>4. /\ x.chars > 0 => cue.length + 1 + w.len <= x.chars
        /\ x.count > 0 => Len(cue.words) + 1 <= x.count
    BY SMTT(30), <1>1, <1>8, <2>2, <2>3 DEF CueIsFull, w, x
  <2>5. Good(x, d) /\ d.words = Append(cue.words, w)
    BY <1>1, <1>8, <2>1, <2>4, CueOfMore
  <2> HIDE DEF d
  <2>6. d.words[1] = cue.words[1] /\ Len(d.words) = Len(cue.words) + 1
    BY <1>1, <2>2, <2>5
  <2>7. d \in Cue(x) /\ RightCue(x, d)
    BY <2>5 DEF Good
  <2>8. RightCues(x, Append(cues, d))
    BY <1>1, <2>1, <2>2, <2>6, <2>7, CueGrows
  <2>9. Joined(cues) \o d.words = Append(SubSeq(x.words, 1, taken), w)
    <3>1. Joined(cues) \in Seq(Words(x))
      BY <1>1, <1>6, <2>2, JoinedAppend
    <3>2. Joined(cues) \o Append(cue.words, w) = Append(Joined(cues) \o cue.words, w)
      BY <1>1, <3>1
    <3>3. Joined(cues) \o cue.words = SubSeq(x.words, 1, taken)
      BY DEF CueInv, x
    <3> QED
      BY <2>5, <3>2, <3>3
  <2>10. cue' = d
    BY <1>8 DEF d
  <2> QED
    BY <1>1, <1>7, <1>8, <2>1, <2>5, <2>6, <2>8, <2>9, <2>10
<1>9. CASE \E b : /\ Fresh(x, b, w) /\ cue' = WithWord(b, w) /\ word_count' = 1
                  /\ taken > 0 => CueChanges \/ CueIsFull
                  /\ \/ cues' = AllCues
                     \/ /\ WideIn(x, w) /\ CueChanges
                        /\ \E d \in Cue(x) : d.words = <<>> /\ cues' = Append(AllCues, d)
  <2>1. PICK b : /\ Fresh(x, b, w) /\ cue' = WithWord(b, w) /\ word_count' = 1
                 /\ taken > 0 => CueChanges \/ CueIsFull
                 /\ \/ cues' = AllCues
                    \/ /\ WideIn(x, w) /\ CueChanges
                       /\ \E d \in Cue(x) : d.words = <<>> /\ cues' = Append(AllCues, d)
    BY <1>9
  <2> DEFINE d == WithWord(b, w)
  <2>2. Good(x, d) /\ d.words = <<w>>
    BY <1>1, <2>1, CueOfOne
  <2>3. cue' = d
    BY <2>1
  <2> HIDE DEF d
  <2>4. d \in Cue(x) /\ RightCue(x, d) /\ d.words[1] = w /\ Len(d.words) = 1
    BY <2>2 DEF Good
  <2>5. PICK all : all = AllCues
    OBVIOUS
  <2>6. all # <<>> => all[Len(all)].words # <<>> /\ Apart(x, all[Len(all)], d)
    <3>1. SUFFICES ASSUME taken > 0 PROVE cue.words # <<>> /\ Apart(x, cue, d)
      BY <1>1, <1>5, <2>5
    <3>2. Good(x, cue)
      BY <1>5, <3>1
    <3>3. Apart(x, cue, d)
      BY <1>1, <2>1, <2>2, <3>1, CueApart DEF w, x
    <3> QED
      BY <3>2, <3>3 DEF Good, RightCue
  <2>7. all \in Seq(Cue(x)) /\ RightCues(x, all) /\ Joined(all) = SubSeq(x.words, 1, taken)
    BY <1>1, <1>5, <2>5
  <2>8. SubSeq(x.words, 1, taken) \in Seq(Words(x))
    BY <1>6, <2>4, <2>7, JoinedAppend
  <2>9. SubSeq(x.words, 1, taken) \o <<w>> = Append(SubSeq(x.words, 1, taken), w)
    BY <1>1, <2>8
  <2>10. CASE cues' = AllCues
    <3>1. RightCues(x, Append(all, d))
      BY <2>4, <2>6, <2>7, CueBegins
    <3> QED
      BY <1>7, <2>1, <2>2, <2>3, <2>4, <2>5, <2>7, <2>9, <2>10, <3>1
  <2>11. CASE WideIn(x, w) /\ \E e \in Cue(x) : e.words = <<>> /\ cues' = Append(AllCues, e)
    <3>1. PICK e \in Cue(x) : e.words = <<>> /\ cues' = Append(all, e)
      BY <2>5, <2>11
    <3>2. RightCues(x, Append(Append(all, e), d))
      BY <2>4, <2>6, <2>7, <2>11, <3>1, LabelBegins
    <3>3. Joined(Append(all, e)) = SubSeq(x.words, 1, taken) \o <<>>
      <4>1. Joined(Append(all, e)) = Joined(all) \o e.words
        BY <2>7, CueJoined
      <4> QED
        BY <2>7, <3>1, <4>1
    <3>4. SubSeq(x.words, 1, taken) \o <<>> = SubSeq(x.words, 1, taken)
      BY <2>8
    <3>5. Append(all, e) \in Seq(Cue(x))
      BY <2>7
    <3> DEFINE before == Append(all, e)
    <3>6. /\ cues' = before /\ before \in Seq(Cue(x)) /\ RightCues(x, Append(before, d))
          /\ Joined(before) \o d.words = Append(SubSeq(x.words, 1, taken), w)
      BY <2>2, <2>9, <3>1, <3>2, <3>3, <3>4, <3>5
    <3> HIDE DEF before
    <3> QED
      BY <1>7, <2>1, <2>2, <2>3, <2>4, <3>6
  <2> QED
    BY <2>1, <2>10, <2>11
<1> QED
  <2> USE DEF w, x
  <2> QED
    BY <1>8, <1>9, CueStepIs

\* Segments.

\* Nothing cuts between these words.
SteadyIn(said) ==
  \A k \in 1 .. Len(said) - 1 :
    /\ said[k + 1].start - said[k].end <= SEGMENT_PAUSE_THRESHOLD
    /\ ~said[k].stop /\ said[k + 1].speaker = said[k].speaker
    /\ said[k + 1].end - said[1].start <= MAX_SEGMENT_DURATION
Parts(x) == {Segment(s) : s \in Seq(Words(x)) \ {<<>>}}
RightPart(p) == SteadyIn(p.words) /\ OneSpeaker(p.words)
RightParts(cut) ==
  /\ \A k \in 1 .. Len(cut) : RightPart(cut[k])
  /\ \A k \in 1 .. Len(cut) - 1 : ~SteadyIn(Append(cut[k].words, cut[k + 1].words[1]))

\* The open segment and those before it hold the words taken; each is right.
SegmentInv ==
  /\ export \in Exports /\ taken \in 0 .. Len(export.words)
  /\ segments \in Seq(Parts(export)) /\ segment \in Seq(Words(export))
  /\ taken = 0 => segments = <<>> /\ segment = <<>>
  /\ taken > 0 => segment # <<>>
  /\ RightParts(AllSegments)
  /\ Joined(segments) \o segment = SubSeq(export.words, 1, taken)

\* A segment is its words.
LEMMA PartIs ==
  ASSUME NEW x, NEW said \in Seq(Words(x)), said # <<>>
  PROVE  /\ Segment(said) \in Parts(x) /\ Segment(said).words = said
         /\ SpansItsWords(Segment(said))
         /\ OneSpeaker(said) => Segment(said).speaker = said[1].speaker
<1>1. Segment(said) \in Parts(x)
  BY DEF Parts
<1> QED
  BY <1>1 DEF Segment, SpansItsWords, OneSpeaker, segment_speaker

\* So are those made already.
LEMMA PartsAre ==
  ASSUME NEW x, NEW p \in Parts(x)
  PROVE  /\ p.words \in Seq(Words(x)) /\ p.words # <<>> /\ SpansItsWords(p)
         /\ OneSpeaker(p.words) => p.speaker = p.words[1].speaker
<1>1. PICK s \in Seq(Words(x)) : s # <<>> /\ p = Segment(s)
  BY DEF Parts
<1> QED
  BY <1>1, PartIs

\* A word belongs to the open segment just if nothing cuts before it.
LEMMA SteadyGrows ==
  ASSUME NEW S, NEW said \in Seq(S), said # <<>>, NEW w, SteadyIn(said)
  PROVE  SteadyIn(Append(said, w)) <=>
           /\ w.start - Last(said).end <= SEGMENT_PAUSE_THRESHOLD
           /\ ~Last(said).stop /\ w.speaker = Last(said).speaker
           /\ w.end - said[1].start <= MAX_SEGMENT_DURATION
<1> DEFINE more == Append(said, w)
           n == Len(said)
           Fine(k) == /\ more[k + 1].start - more[k].end <= SEGMENT_PAUSE_THRESHOLD
                      /\ ~more[k].stop /\ more[k + 1].speaker = more[k].speaker
                      /\ more[k + 1].end - more[1].start <= MAX_SEGMENT_DURATION
<1>1. /\ n \in Nat \ {0} /\ Len(more) = n + 1 /\ more[n + 1] = w /\ Last(said) = more[n]
      /\ more[1] = said[1] /\ \A k \in 1 .. n : more[k] = said[k]
  BY DEF Last
<1>2. SteadyIn(more) <=> \A k \in 1 .. n : Fine(k)
  BY <1>1 DEF SteadyIn
<1> HIDE DEF more
<1>3. \A k \in 1 .. n - 1 : Fine(k)
  BY <1>1 DEF SteadyIn
<1> HIDE DEF Fine
<1>4. SteadyIn(more) <=> Fine(n)
  BY <1>1, <1>2, <1>3
<1> QED
  BY <1>1, <1>4 DEF more, Fine

\* The code cuts before a word just if the word would break the segment.
LEMMA CutIs ==
  ASSUME NEW x \in Exports, NEW said \in Seq(Words(x)), said # <<>>, SteadyIn(said),
         NEW w \in Words(x)
  PROVE  CutsBefore(Last(said), w, said[1].start) <=> ~SteadyIn(Append(said, w))
<1>1. Last(said) \in Words(x) /\ said[1] \in Words(x)
  BY DEF Last
<1>2. /\ w.start \in Int /\ w.end \in Int /\ Last(said).end \in Int /\ said[1].start \in Int
      /\ SEGMENT_PAUSE_THRESHOLD \in Int /\ MAX_SEGMENT_DURATION \in Int
  BY <1>1, WordIs, CaptionsAssumption
<1>3. SteadyIn(Append(said, w)) <=>
        /\ w.start - Last(said).end <= SEGMENT_PAUSE_THRESHOLD
        /\ ~Last(said).stop /\ w.speaker = Last(said).speaker
        /\ w.end - said[1].start <= MAX_SEGMENT_DURATION
  BY SteadyGrows
<1> HIDE DEF Last
<1> QED
  BY <1>2, <1>3 DEF CutsBefore

\* The last segment may change if it begins as before and is right.
LEMMA PartGrows ==
  ASSUME NEW S, NEW cut \in Seq(S), NEW p \in S, NEW q \in S,
         RightParts(Append(cut, p)), RightPart(q), q.words[1] = p.words[1]
  PROVE  RightParts(Append(cut, q))
<1> DEFINE old == Append(cut, p)
           new == Append(cut, q)
           n == Len(cut)
<1>1. /\ n \in Nat /\ Len(old) = n + 1 /\ Len(new) = n + 1
      /\ old[n + 1] = p /\ new[n + 1] = q /\ \A i \in 1 .. n : new[i] = cut[i] /\ old[i] = cut[i]
  OBVIOUS
<1>2. RightParts(old)
  OBVIOUS
<1> HIDE DEF old, new, n
<1>3. \A k \in 1 .. n + 1 : RightPart(new[k])
  BY <1>1, <1>2 DEF RightParts
<1>4. ASSUME NEW k \in 1 .. n PROVE ~SteadyIn(Append(new[k].words, new[k + 1].words[1]))
  <2>1. k + 1 \in 1 .. n + 1 /\ new[k] = old[k] /\ new[k + 1].words[1] = old[k + 1].words[1]
    BY <1>1
  <2>2. k \in 1 .. Len(old) - 1
    BY <1>1
  <2> QED
    BY <1>2, <2>1, <2>2 DEF RightParts
<1>5. RightParts(new)
  BY <1>1, <1>3, <1>4 DEF RightParts
<1> QED
  BY <1>5 DEF new

\* A segment may follow if the one before it could not take its first word.
LEMMA PartBegins ==
  ASSUME NEW S, NEW cut \in Seq(S), NEW q \in S, RightParts(cut), RightPart(q),
         cut # <<>> => ~SteadyIn(Append(cut[Len(cut)].words, q.words[1]))
  PROVE  RightParts(Append(cut, q))
<1> DEFINE new == Append(cut, q)
           n == Len(cut)
<1>1. /\ n \in Nat /\ Len(new) = n + 1 /\ new[n + 1] = q /\ \A i \in 1 .. n : new[i] = cut[i]
  OBVIOUS
<1>2. n # 0 => ~SteadyIn(Append(cut[n].words, q.words[1]))
  OBVIOUS
<1>3. RightParts(cut) /\ n = Len(cut)
  OBVIOUS
<1> HIDE DEF new, n
<1>4. \A k \in 1 .. n + 1 : RightPart(new[k])
  BY <1>1, <1>3 DEF RightParts
<1>5. ASSUME NEW k \in 1 .. n PROVE ~SteadyIn(Append(new[k].words, new[k + 1].words[1]))
  <2>1. CASE k = n
    BY <1>1, <1>2, <2>1
  <2>2. CASE k # n
    <3>1. k \in 1 .. n - 1 /\ k + 1 \in 1 .. n
      BY <1>1, <2>2
    <3> QED
      BY <1>1, <1>3, <3>1 DEF RightParts
  <2> QED
    BY <2>1, <2>2
<1>6. RightParts(new)
  BY <1>1, <1>4, <1>5 DEF RightParts
<1> QED
  BY <1>6 DEF new

\* The words of one segment more.
LEMMA PartJoined ==
  ASSUME NEW x, NEW cut \in Seq(Parts(x)), NEW said \in Seq(Words(x)), said # <<>>
  PROVE  /\ Joined(Append(cut, Segment(said))) = Joined(cut) \o said
         /\ Joined(cut) \in Seq(Words(x))
<1> DEFINE S == Words(x)
           C == Parts(x)
           p == Segment(said)
<1>1. cut \in Seq(C) /\ p \in C /\ p.words = said
  BY PartIs
<1>3. \A d \in C : d.words \in Seq(S)
  BY PartsAre
<1> HIDE DEF S, C, p
<1>2. ASSUME NEW c \in C PROVE Joined(Append(cut, c)) = Joined(cut) \o c.words
  BY <1>1, <1>3, JoinedAppend
<1>4. Joined(cut) \in Seq(S)
  BY <1>1, <1>3, JoinedAppend
<1> QED
  BY <1>1, <1>2, <1>4 DEF p, S

\* Every segment so far, open or not.
LEMMA AllSegmentsAre ==
  ASSUME SegmentInv
  PROVE  /\ AllSegments \in Seq(Parts(export))
         /\ Joined(AllSegments) = SubSeq(export.words, 1, taken)
         /\ Joined(AllSegments) \in Seq(Words(export))
         /\ segment # <<>> => AllSegments = Append(segments, Segment(segment))
                                /\ RightPart(Segment(segment))
<1>1. /\ segments \in Seq(Parts(export)) /\ segment \in Seq(Words(export)) /\ taken \in Nat
      /\ Joined(segments) \o segment = SubSeq(export.words, 1, taken)
      /\ RightParts(AllSegments)
  BY DEF SegmentInv
<1>2. CASE segment = <<>>
  <2>1. segments = <<>> /\ AllSegments = <<>>
    BY <1>1, <1>2 DEF SegmentInv, AllSegments
  <2>2. Joined(<<>>) = <<>>
    BY DEF Joined, FlattenSeq
  <2>3. <<>> \o <<>> = <<>> /\ <<>> \in Seq(Parts(export)) /\ <<>> \in Seq(Words(export))
    OBVIOUS
  <2> QED
    BY <1>1, <1>2, <2>1, <2>2, <2>3
<1>3. CASE segment # <<>>
  <2> DEFINE p == Segment(segment)
             all == Append(segments, p)
  <2>1. AllSegments = all
    BY <1>3 DEF AllSegments
  <2>2. Joined(all) = Joined(segments) \o segment /\ Joined(segments) \in Seq(Words(export))
    BY <1>1, <1>3, PartJoined
  <2>3. p \in Parts(export)
    BY <1>1, <1>3, PartIs
  <2> HIDE DEF p
  <2>4. all \in Seq(Parts(export)) /\ Len(all) \in 1 .. Len(all) /\ all[Len(all)] = p
    BY <1>1, <2>3
  <2>5. RightPart(p)
    BY <1>1, <2>1, <2>4 DEF RightParts
  <2>6. Joined(segments) \o segment \in Seq(Words(export))
    <3> DEFINE S == Words(export)
    <3>1. segment \in Seq(S) /\ Joined(segments) \in Seq(S)
      BY <1>1, <2>2
    <3> HIDE DEF S
    <3>2. Joined(segments) \o segment \in Seq(S)
      BY <3>1
    <3> QED
      BY <3>2 DEF S
  <2> QED
    BY <1>1, <2>1, <2>2, <2>4, <2>5, <2>6 DEF p
<1> QED
  BY <1>2, <1>3

\* Every word taken keeps the segments right.
LEMMA SegmentInvStep ==
  ASSUME SegmentInv, TakeWord
  PROVE  SegmentInv'
<1> DEFINE w == Next1
           x == export
<1>1. /\ x \in Exports /\ taken < Len(x.words) /\ taken \in 0 .. Len(x.words)
      /\ w \in Words(x) /\ segments \in Seq(Parts(x)) /\ segment \in Seq(Words(x))
      /\ RightParts(AllSegments) /\ Joined(segments) \o segment = SubSeq(x.words, 1, taken)
  BY NextWord DEF SegmentInv, TakeWord
<1>2. export' = x /\ taken' = taken + 1 /\ SegmentStep(w)
  BY DEF TakeWord, Next1
<1>3. taken' \in 0 .. Len(x.words) /\ taken' # 0
  BY <1>1, <1>2
<1>4. SubSeq(x.words, 1, taken') = Append(SubSeq(x.words, 1, taken), w)
  BY <1>1, <1>2, NextWord
<1>5. /\ AllSegments \in Seq(Parts(x)) /\ Joined(AllSegments) = SubSeq(x.words, 1, taken)
      /\ Joined(AllSegments) \in Seq(Words(x))
      /\ segment # <<>> => AllSegments = Append(segments, Segment(segment))
                             /\ RightPart(Segment(segment))
  BY AllSegmentsAre
<1> HIDE DEF w, x
<1>6. ASSUME NEW before \in Seq(Parts(x)), NEW said \in Seq(Words(x)), said # <<>>,
             segments' = before, segment' = said, RightParts(Append(before, Segment(said))),
             Joined(before) \o said = Append(SubSeq(x.words, 1, taken), w)
      PROVE  SegmentInv'
  <2>1. AllSegments' = Append(before, Segment(said))
    BY <1>6 DEF AllSegments
  <2> QED
    BY <1>1, <1>2, <1>3, <1>4, <1>6, <2>1 DEF SegmentInv
<1>7. CASE segment = <<>>
  <2>1. segments = <<>> /\ AllSegments = <<>> /\ segments' = <<>> /\ segment' = Append(<<>>, w)
    BY <1>1, <1>2, <1>7 DEF SegmentInv, AllSegments, SegmentStep
  <2>2. Append(<<>>, w) = <<w>> /\ <<w>> \in Seq(Words(x)) /\ <<w>> # <<>> /\ <<>> \in Seq(Parts(x))
    BY <1>1
  <2>3. RightPart(Segment(<<w>>)) /\ Segment(<<w>>) \in Parts(x)
    <3> DEFINE one == <<w>>
               q == Segment(one)
    <3>1. q \in Parts(x) /\ q.words = one
      BY <2>2, PartIs
    <3>2. SteadyIn(one) /\ OneSpeaker(one)
      BY DEF SteadyIn, OneSpeaker
    <3> HIDE DEF one, q
    <3>3. RightPart(q)
      BY <3>1, <3>2 DEF RightPart
    <3> QED
      BY <3>1, <3>3 DEF one, q
  <2>4. RightParts(<<>>)
    BY DEF RightParts
  <2>5. RightParts(Append(<<>>, Segment(<<w>>)))
    BY <2>2, <2>3, <2>4, PartBegins
  <2>6. Joined(<<>>) \o <<w>> = Append(SubSeq(x.words, 1, taken), w)
    BY <1>5, <2>1
  <2> QED
    BY <1>6, <2>1, <2>2, <2>5, <2>6
<1>8. CASE segment # <<>>
  <2> DEFINE p == Segment(segment)
             more == Append(segment, w)
  <2>1. p \in Parts(x) /\ p.words = segment /\ RightPart(p) /\ AllSegments = Append(segments, p)
    BY <1>1, <1>5, <1>8, PartIs
  <2>2. more \in Seq(Words(x)) /\ more # <<>> /\ more[1] = segment[1]
    BY <1>1, <1>8
  <2>3. CutsBefore(Last(segment), w, segment[1].start) <=> ~SteadyIn(more)
    BY <1>1, <1>8, <2>1, CutIs DEF RightPart
  <2>4. Segment(more) \in Parts(x) /\ Segment(more).words = more
    BY <2>2, PartIs
  <2> HIDE DEF p, more
  <2>5. CASE CutsBefore(Last(segment), w, segment[1].start)
    <3>1. segments' = Append(segments, p) /\ segment' = <<w>>
      BY <1>2, <1>8, <2>5 DEF SegmentStep, p
    <3> DEFINE before == Append(segments, p)
               one == <<w>>
               q == Segment(one)
    <3>2. one \in Seq(Words(x)) /\ one # <<>> /\ one[1] = w
      BY <1>1
    <3>3. q \in Parts(x) /\ q.words = one
      BY <3>2, PartIs
    <3>4. SteadyIn(one) /\ OneSpeaker(one)
      BY DEF SteadyIn, OneSpeaker
    <3>5. before \in Seq(Parts(x)) /\ before[Len(before)] = p /\ RightParts(before)
      BY <1>1, <2>1
    <3>6. Joined(before) \o one = Append(SubSeq(x.words, 1, taken), w)
      BY <1>1, <1>5, <2>1
    <3> HIDE DEF before, one, q
    <3>7. RightPart(q) /\ q.words[1] = w
      BY <3>2, <3>3, <3>4 DEF RightPart
    <3>8. ~SteadyIn(Append(p.words, q.words[1]))
      BY <2>1, <2>3, <2>5, <3>7 DEF more
    <3>9. RightParts(Append(before, q))
      BY <3>3, <3>5, <3>7, <3>8, PartBegins
    <3>10. segments' = before /\ segment' = one
      BY <3>1 DEF before, one
    <3> QED
      BY <1>6, <3>2, <3>5, <3>6, <3>9, <3>10 DEF q
  <2>6. CASE ~CutsBefore(Last(segment), w, segment[1].start)
    <3>1. segments' = segments /\ segment' = more
      BY <1>2, <1>8, <2>6 DEF SegmentStep, more
    <3>2. OneSpeaker(more)
      <4>1. OneSpeaker(segment) /\ w.speaker = Last(segment).speaker
        BY <2>1, <2>6 DEF RightPart, CutsBefore
      <4>2. /\ DOMAIN more = 1 .. Len(segment) + 1 /\ more[Len(segment) + 1] = w
            /\ Len(segment) \in Nat \ {0} /\ DOMAIN segment = 1 .. Len(segment)
            /\ \A i \in 1 .. Len(segment) : more[i] = segment[i]
        BY <1>1, <1>8 DEF more
      <4>3. w.speaker = segment[1].speaker
        BY <4>1, <4>2 DEF OneSpeaker, Last
      <4>4. ASSUME NEW i \in 1 .. Len(segment) + 1 PROVE more[i].speaker = more[1].speaker
        BY <4>1, <4>2, <4>3 DEF OneSpeaker
      <4> QED
        BY <4>2, <4>4 DEF OneSpeaker
    <3> DEFINE q == Segment(more)
    <3>3. RightPart(q)
      BY <2>3, <2>4, <2>6, <3>2 DEF RightPart
    <3>4. q.words[1] = p.words[1]
      BY <2>1, <2>2, <2>4
    <3> HIDE DEF q
    <3>5. RightParts(Append(segments, q))
      BY <1>1, <2>1, <2>4, <3>3, <3>4, PartGrows DEF q
    <3>6. Joined(segments) \o more = Append(SubSeq(x.words, 1, taken), w)
      <4>1. Joined(segments) \in Seq(Words(x))
        BY <1>1, <1>8, PartJoined
      <4>2. ASSUME NEW a \in Seq(Words(x))
            PROVE  a \o Append(segment, w) = Append(a \o segment, w)
        BY SMTT(30), <1>1
      <4> QED
        BY <1>1, <4>1, <4>2 DEF more
    <3> QED
      BY <1>1, <1>6, <2>2, <3>1, <3>5, <3>6 DEF q
  <2> QED
    BY <2>5, <2>6
<1> QED
  BY <1>7, <1>8

-----------------------------------------------------------------------------
(* Documents.                                                              *)

\* The time a clock shows, in milliseconds, and what it is to show a time.
Shown(t) == 1000 * (3600 * t.h + 60 * t.m + t.s) + t.ms
FromZero(ms) == IF ms < 0 THEN 0 ELSE ms
OnClock(t, ms) ==
  /\ t.m < 60 /\ t.s < 60 /\ t.ms < 1000
  /\ FromZero(ms) \in Shown(t) - 500 .. Shown(t) + 500

\* A clock shows the time it is given.
LEMMA ClockIs ==
  ASSUME NEW ms \in Int
  PROVE  /\ Clock(ms).m < 60 /\ Clock(ms).s < 60 /\ Clock(ms).ms < 1000
         /\ Shown(Clock(ms)) = FromZero(ms)
<1> DEFINE t == FromZero(ms)
           seconds == t \div 1000
           minutes == seconds \div 60
<1>1. t \in Nat
  BY DEF FromZero
<1>2. Clock(ms) = [h |-> minutes \div 60, m |-> minutes % 60, s |-> seconds % 60, ms |-> t % 1000]
  BY DEF Clock, FromZero
<1> HIDE DEF t
<1>3. seconds \in Nat /\ t = 1000 * seconds + (t % 1000) /\ t % 1000 \in 0 .. 999
  BY <1>1
<1> HIDE DEF seconds
<1>4. minutes \in Nat /\ seconds = 60 * minutes + (seconds % 60) /\ seconds % 60 \in 0 .. 59
  BY <1>3
<1> HIDE DEF minutes
<1>5. minutes \div 60 \in Nat /\ minutes = 60 * (minutes \div 60) + (minutes % 60)
        /\ minutes % 60 \in 0 .. 59
  BY <1>4
<1>6. t = 1000 * (3600 * (minutes \div 60) + 60 * (minutes % 60) + (seconds % 60)) + (t % 1000)
  BY <1>3, <1>4, <1>5
<1> QED
  BY <1>2, <1>3, <1>4, <1>5, <1>6 DEF Shown, t

\* Rounded to whole seconds, a clock is off by half a second at most.
LEMMA ClockSecondsIs ==
  ASSUME NEW ms \in Int
  PROVE  OnClock(ClockSeconds(ms), ms)
<1> DEFINE t == FromZero(ms)
           r == ((t + 500) \div 1000) * 1000
<1>1. t \in Nat
  BY DEF FromZero
<1>2. ClockSeconds(ms) = Clock(r)
  BY DEF ClockSeconds, FromZero
<1> HIDE DEF t
<1>3. r \in Nat /\ t \in r - 500 .. r + 500
  BY <1>1
<1> HIDE DEF r
<1>4. Shown(Clock(r)) = r
  BY <1>3, ClockIs DEF FromZero
<1>5. Clock(r).m < 60 /\ Clock(r).s < 60 /\ Clock(r).ms < 1000
  BY <1>3, ClockIs
<1> QED
  BY <1>2, <1>3, <1>4, <1>5 DEF t, OnClock

\* The text of two parts is the texts of both.
LEMMA TextJoins ==
  ASSUME NEW S, NEW a \in Seq(S), NEW b \in Seq(S)
  PROVE  Text(a \o b) = Text(a) \o Text(b)
<1> DEFINE N == {w.name : w \in S}
           c == a \o b
           d == Text(a) \o Text(b)
<1>1. /\ c \in Seq(S) /\ Len(c) = Len(a) + Len(b) /\ Len(a) \in Nat /\ Len(b) \in Nat
      /\ \A k \in 1 .. Len(c) : c[k] = IF k <= Len(a) THEN a[k] ELSE b[k - Len(a)]
  OBVIOUS
<1>2. ASSUME NEW q \in Seq(S)
      PROVE  /\ Text(q) \in Seq(N) /\ Len(Text(q)) = Len(q)
             /\ \A k \in 1 .. Len(q) : Text(q)[k] = q[k].name
  BY DEF Text
<1>3. /\ Text(a) \in Seq(N) /\ Text(b) \in Seq(N) /\ Text(c) \in Seq(N)
      /\ Len(Text(a)) = Len(a) /\ Len(Text(b)) = Len(b) /\ Len(Text(c)) = Len(c)
  BY <1>1, <1>2
<1>4. /\ d \in Seq(N) /\ Len(d) = Len(a) + Len(b)
      /\ \A k \in 1 .. Len(d) : d[k] = IF k <= Len(a) THEN Text(a)[k] ELSE Text(b)[k - Len(a)]
  <2> HIDE DEF N, c
  <2>1. PICK s : s = Text(a)
    OBVIOUS
  <2>2. PICK t : t = Text(b)
    OBVIOUS
  <2>3. s \in Seq(N) /\ t \in Seq(N) /\ Len(s) = Len(a) /\ Len(t) = Len(b)
    BY <1>3, <2>1, <2>2
  <2>4. /\ s \o t \in Seq(N) /\ Len(s \o t) = Len(a) + Len(b)
        /\ \A k \in 1 .. Len(s \o t) : (s \o t)[k] = IF k <= Len(a) THEN s[k] ELSE t[k - Len(a)]
    BY <2>3
  <2> QED
    BY <2>1, <2>2, <2>4
<1> HIDE DEF N, c, d
<1>5. ASSUME NEW k \in 1 .. Len(c) PROVE Text(c)[k] = d[k]
  <2>1. Text(c)[k] = c[k].name /\ k \in 1 .. Len(d)
    BY <1>1, <1>2, <1>4
  <2>2. CASE k <= Len(a)
    <3>1. k \in 1 .. Len(a)
      BY <1>1, <2>2
    <3> QED
      BY <1>1, <1>2, <1>4, <2>1, <2>2, <3>1
  <2>3. CASE ~(k <= Len(a))
    <3>1. k - Len(a) \in 1 .. Len(b)
      BY <1>1, <2>3
    <3> QED
      BY <1>1, <1>2, <1>4, <2>1, <2>3, <3>1
  <2> QED
    BY <2>2, <2>3
<1>6. Text(c) = d
  BY <1>1, <1>3, <1>4, <1>5, SeqEqual
<1> QED
  BY <1>6 DEF c, d

\* The text of what is joined is what the texts join to.
LEMMA FlattenText ==
  ASSUME NEW S, NEW seqs \in Seq(Seq(S))
  PROVE  FlattenSeq([k \in DOMAIN seqs |-> Text(seqs[k])]) = Text(FlattenSeq(seqs))
<1> DEFINE n == Len(seqs)
           texts == [k \in DOMAIN seqs |-> Text(seqs[k])]
<1>1. n \in Nat /\ Len(texts) = n /\ \A k \in 1 .. n : texts[k] = Text(seqs[k]) /\ seqs[k] \in Seq(S)
  OBVIOUS
<1>2. CASE n = 0
  <2>1. seqs = <<>> /\ texts = <<>> /\ FlattenSeq(<<>>) = <<>> /\ Text(<<>>) = <<>>
    BY <1>2 DEF FlattenSeq, Text
  <2> QED
    BY <2>1
<1>3. CASE n # 0
  <2> HIDE DEF texts
  <2>1. PICK f : Joins(f, seqs) /\ FlattenSeq(seqs) = f[n]
    BY <1>1, <1>3, JoinedIs
  <2>2. PICK g : Joins(g, texts) /\ FlattenSeq(texts) = g[n]
    BY <1>1, <1>3, JoinedIs
  <2>3. \A k \in 1 .. n : f[k] \in Seq(S)
    BY <2>1, FlattenTyped
  <2> DEFINE G == {k \in Nat : k \in 1 .. n => g[k] = Text(f[k])}
  <2>4. 0 \in G
    OBVIOUS
  <2>5. ASSUME NEW k \in Nat, k \in G PROVE k + 1 \in G
    <3> SUFFICES ASSUME k + 1 \in 1 .. n PROVE g[k + 1] = Text(f[k + 1])
      OBVIOUS
    <3>1. f[k + 1] = IF k + 1 = 1 THEN seqs[k + 1] ELSE f[k + 1 - 1] \o seqs[k + 1]
      BY <2>1, JoinsStep
    <3>2. g[k + 1] = IF k + 1 = 1 THEN texts[k + 1] ELSE g[k + 1 - 1] \o texts[k + 1]
      BY <1>1, <2>2, JoinsStep
    <3>3. texts[k + 1] = Text(seqs[k + 1]) /\ seqs[k + 1] \in Seq(S)
      BY <1>1
    <3>4. CASE k = 0
      BY <3>1, <3>2, <3>3, <3>4
    <3>5. CASE k # 0
      <4>1. k \in 1 .. n /\ k + 1 - 1 = k /\ k + 1 # 1
        BY <1>1, <3>5
      <4>2. g[k] = Text(f[k]) /\ f[k] \in Seq(S)
        BY <2>3, <2>5, <4>1
      <4>3. Text(f[k] \o seqs[k + 1]) = Text(f[k]) \o Text(seqs[k + 1])
        BY <3>3, <4>2, TextJoins
      <4> QED
        BY <3>1, <3>2, <3>3, <4>1, <4>2, <4>3
    <3> QED
      BY <3>4, <3>5
  <2>6. Nat \subseteq G
    <3> HIDE DEF G
    <3> QED
      BY <2>4, <2>5, Inductive
  <2>7. g[n] = Text(f[n])
    BY <1>1, <1>3, <2>6
  <2> QED
    BY <2>1, <2>2, <2>7 DEF texts
<1> QED
  BY <1>2, <1>3

\* A document is made of all words.
BodyInv ==
  body.kind \notin {"none", "invalid_format"} =>
    /\ taken = Len(export.words)
    /\ body.blocks \in {Whole(export.words), Lines, Sections}

\* The inductive invariant.
CaptionInv == CueInv /\ SegmentInv /\ BodyInv

\* All of a sequence is the sequence.
LEMMA WordsWhole ==
  ASSUME NEW S, NEW said \in Seq(S)
  PROVE  SubSeq(said, 1, Len(said)) = said
  OBVIOUS

\* The blocks read as the words do, and are at the times of the cues.
Reads(blocks) == FlattenSeq([k \in DOMAIN blocks |-> blocks[k].text]) = Text(export.words)
Timed(blocks) == \A k \in DOMAIN blocks : OnClock(blocks[k].at, AllCues[k].start)

\* What is shown of the cues is all their words, at their times.
LEMMA BlocksAre ==
  ASSUME CueInv, taken = Len(export.words), NEW blocks \in {Lines, Sections}
  PROVE  Reads(blocks) /\ Timed(blocks)
<1> DEFINE S == Words(export)
           all == AllCues
           Of == [k \in DOMAIN all |-> all[k].words]
<1>1. /\ all \in Seq(Cue(export)) /\ Joined(all) = SubSeq(export.words, 1, taken)
      /\ export.words \in Seq(S)
  BY AllCuesAre, CaptionsAssumption DEF CueInv, Words
<1>2. ASSUME NEW k \in DOMAIN all PROVE all[k].words \in Seq(S) /\ all[k].start \in Int
  <2> HIDE DEF all
  <2>1. all[k] \in Cue(export)
    BY <1>1
  <2> HIDE DEF S
  <2> QED
    BY <2>1 DEF Cue, S
<1>3. Joined(all) = export.words /\ Joined(all) = FlattenSeq(Of)
  BY <1>1, WordsWhole DEF Joined
<1>4. DOMAIN blocks = DOMAIN all /\ \A k \in DOMAIN all :
        /\ blocks[k].text = Text(all[k].words)
        /\ blocks[k].at \in {Clock(all[k].start), ClockSeconds(all[k].start)}
  BY DEF Lines, Sections, Block
<1> HIDE DEF all
<1>5. FlattenSeq([k \in DOMAIN blocks |-> blocks[k].text]) = Text(export.words)
  <2>1. Of \in Seq(Seq(S))
    BY <1>1, <1>2
  <2>2. [k \in DOMAIN blocks |-> blocks[k].text] = [k \in DOMAIN Of |-> Text(Of[k])]
    BY <1>4
  <2> HIDE DEF Of, S
  <2>3. FlattenSeq([k \in DOMAIN Of |-> Text(Of[k])]) = Text(FlattenSeq(Of))
    BY <2>1, FlattenText
  <2> QED
    BY <1>3, <2>2, <2>3
<1>6. ASSUME NEW k \in DOMAIN blocks PROVE OnClock(blocks[k].at, all[k].start)
  <2>1. PICK ms : ms = all[k].start /\ ms \in Int
    BY <1>2, <1>4
  <2>2. OnClock(Clock(ms), ms)
    <3>1. FromZero(ms) \in Int /\ Shown(Clock(ms)) = FromZero(ms)
      BY <2>1, ClockIs DEF FromZero
    <3>2. FromZero(ms) \in Shown(Clock(ms)) - 500 .. Shown(Clock(ms)) + 500
      BY <3>1
    <3> QED
      BY <2>1, <3>2, ClockIs DEF OnClock
  <2>3. OnClock(ClockSeconds(ms), ms)
    BY <2>1, ClockSecondsIs
  <2> QED
    BY <1>4, <2>1, <2>2, <2>3
<1> QED
  BY <1>5, <1>6 DEF all, Reads, Timed

\* A document without times is one block, which has all words.
LEMMA WholeIs ==
  ASSUME NEW S, NEW said \in Seq(S)
  PROVE  /\ FlattenSeq([k \in DOMAIN Whole(said) |-> Whole(said)[k].text]) = Text(said)
         /\ Len(Whole(said)) = 1
<1> DEFINE N == {w.name : w \in S}
           t == Text(said)
           none == <<>>
<1>1. t \in Seq(N) /\ none \in Seq(Seq(N)) /\ none \o t = t /\ Append(none, t) = <<t>>
  BY DEF Text
<1>2. [k \in DOMAIN Whole(said) |-> Whole(said)[k].text] = <<t>> /\ Len(Whole(said)) = 1
  BY DEF Whole, Block
<1>3. FlattenSeq(none) = none
  BY DEF FlattenSeq
<1> HIDE DEF N, t, none
<1>4. FlattenSeq(Append(none, t)) = FlattenSeq(none) \o t
  BY <1>1, FlattenAppend
<1>5. none = <<>>
  BY DEF none
<1> QED
  BY <1>1, <1>2, <1>3, <1>4, <1>5 DEF t

\* It has in it what is promised.
LEMMA CaptionInvSuffices == CaptionInv => CaptionsAreWhole
<1> SUFFICES ASSUME CaptionInv PROVE CaptionsAreWhole
  OBVIOUS
<1>1. CuesAreRight
  <2>1. /\ Joined(AllCues) = SubSeq(export.words, 1, taken) /\ RightCues(export, AllCues)
        /\ DOMAIN AllCues = 1 .. Len(AllCues)
    <3>1. CueInv
      BY DEF CaptionInv
    <3>2. AllCues \in Seq(Cue(export)) /\ Joined(AllCues) = SubSeq(export.words, 1, taken)
      BY <3>1, AllCuesAre
    <3> QED
      BY <3>1, <3>2 DEF CueInv
  <2> HIDE DEF AllCues
  <2> QED
    BY <2>1 DEF CuesAreRight, RightCues, RightAt, RightCue, FollowsIn, Apart, FitsIn, Fits, WideIn,
                TooWide
<1>2. SegmentsAreRight
  <2>1. /\ Joined(AllSegments) = SubSeq(export.words, 1, taken) /\ RightParts(AllSegments)
        /\ AllSegments \in Seq(Parts(export)) /\ DOMAIN AllSegments = 1 .. Len(AllSegments)
        /\ Len(AllSegments) \in Nat
    <3>1. SegmentInv
      BY DEF CaptionInv
    <3>2. /\ AllSegments \in Seq(Parts(export))
          /\ Joined(AllSegments) = SubSeq(export.words, 1, taken)
      BY <3>1, AllSegmentsAre
    <3> QED
      BY <3>1, <3>2 DEF SegmentInv
  <2> HIDE DEF AllSegments
  <2>2. \A k \in DOMAIN AllSegments :
          /\ SpansItsWords(AllSegments[k]) /\ SteadyIn(AllSegments[k].words)
          /\ AllSegments[k].speaker = AllSegments[k].words[1].speaker
    <3> SUFFICES ASSUME NEW k \in DOMAIN AllSegments
                 PROVE  /\ SpansItsWords(AllSegments[k]) /\ SteadyIn(AllSegments[k].words)
                        /\ AllSegments[k].speaker = AllSegments[k].words[1].speaker
      OBVIOUS
    <3>1. AllSegments[k] \in Parts(export) /\ RightPart(AllSegments[k])
      BY <2>1 DEF RightParts
    <3> QED
      BY <3>1, PartsAre DEF RightPart
  <2>3. \A k \in DOMAIN AllSegments : k < Len(AllSegments) =>
          ~SteadyIn(Append(AllSegments[k].words, AllSegments[k + 1].words[1]))
    BY <2>1 DEF RightParts
  <2> QED
    BY <2>1, <2>2, <2>3 DEF SegmentsAreRight, SteadyIn
<1>3. ASSUME body.kind \notin {"none", "invalid_format"}
      PROVE  Reads(body.blocks) /\ (Len(body.blocks) > 1 => Timed(body.blocks))
  <2>1. taken = Len(export.words) /\ body.blocks \in {Whole(export.words), Lines, Sections}
    BY <1>3 DEF CaptionInv, BodyInv
  <2>2. CASE body.blocks = Whole(export.words)
    <3>1. export.words \in Seq(Words(export))
      BY CaptionsAssumption DEF CaptionInv, CueInv, Words
    <3>2. Len(body.blocks) = 1
      BY <2>2, <3>1, WholeIs
    <3>3. ~(Len(body.blocks) > 1)
      BY <3>2
    <3>4. Reads(body.blocks)
      BY <2>2, <3>1, WholeIs DEF Reads
    <3> QED
      BY <3>3, <3>4
  <2>3. CASE body.blocks \in {Lines, Sections}
    <3>1. CueInv
      BY DEF CaptionInv
    <3> QED
      BY <2>1, <2>3, <3>1, BlocksAre
  <2> QED
    BY <2>1, <2>2, <2>3
<1> HIDE DEF AllCues
<1> QED
  BY <1>1, <1>2, <1>3 DEF CaptionsAreWhole, Reads, Timed, OnClock, FromZero, Shown

\* Captions, segments and documents have every word once, within their limits, of one
\* speaker and at their times, for any transcript.  (build_cues, build_segments,
\* render_export_response)
THEOREM CaptionsHold == CaptionSpec => []CaptionsAreWhole
<1>1. CaptionInit => CaptionInv
  <2> SUFFICES ASSUME CaptionInit PROVE CaptionInv
    OBVIOUS
  <2>1. export \in Exports /\ export.words \in Seq(Words(export)) /\ taken = 0
    BY CaptionsAssumption DEF CaptionInit, Words
  <2>2. /\ cues = <<>> /\ segments = <<>> /\ segment = <<>> /\ current_speaker = Unlabelled
        /\ word_count = 0 /\ body.kind = "none" /\ AllSegments = <<>>
    BY DEF CaptionInit, AllSegments
  <2>3. /\ cue \in Cue(export) /\ cue.length = 0 /\ cue.words = <<>> /\ cue.spaced = FALSE
        /\ export.words # <<>> => cue.start = export.words[1].start
    <3>1. CASE export.words = <<>>
      BY <3>1 DEF CaptionInit, NoCue, Cue
    <3>2. CASE export.words # <<>>
      <4>1. export.words[1] \in Words(export)
        BY <2>1, <3>2
      <4>2. export.words[1].start \in Int /\ export.words[1].end \in Int
        BY <2>1, <4>1, WordIs
      <4>3. cue = [start |-> export.words[1].start, end |-> export.words[1].end, length |-> 0,
                   spaced |-> FALSE, words |-> <<>>]
        BY <3>2 DEF CaptionInit, NoCue
      <4> QED
        BY <4>2, <4>3 DEF Cue
    <3> QED
      BY <3>1, <3>2
  <2>4. AllCues = <<>>
    BY <2>2, <2>3 DEF AllCues, Flushed
  <2>5. Joined(<<>>) = <<>> /\ <<>> \o <<>> = <<>> /\ SubSeq(export.words, 1, 0) = <<>>
    BY <2>1 DEF Joined, FlattenSeq
  <2>6. taken \in 0 .. Len(export.words)
    BY <2>1
  <2> DEFINE none == <<>>
  <2>9. /\ Len(none) = 0 /\ none \in Seq(Cue(export)) /\ none \in Seq(Parts(export))
        /\ none \in Seq(Words(export))
    OBVIOUS
  <2>10. RightCues(export, none) /\ RightParts(none)
    BY <2>9 DEF RightCues, RightParts
  <2>11. Joined(none) \o none = SubSeq(export.words, 1, taken)
    BY <2>1, <2>5
  <2>12. /\ cues = none /\ cue.words = none /\ AllCues = none
        /\ segments = none /\ segment = none /\ AllSegments = none
    BY <2>2, <2>3, <2>4
  <2>7. CueInv
    <3> HIDE DEF none
    <3> QED
      BY <2>1, <2>2, <2>3, <2>6, <2>9, <2>10, <2>11, <2>12 DEF CueInv
  <2>8. SegmentInv
    <3> HIDE DEF none
    <3>1. ~(taken > 0) /\ segments = <<>> /\ segment = <<>>
      BY <2>1, <2>2
    <3> QED
      BY <2>1, <2>6, <2>9, <2>10, <2>11, <2>12, <3>1 DEF SegmentInv
  <2> QED
    BY <2>2, <2>7, <2>8 DEF CaptionInv, BodyInv
<1>2. CaptionInv /\ [CaptionNext]_captionVars => CaptionInv'
  <2> SUFFICES ASSUME CaptionInv, [CaptionNext]_captionVars PROVE CaptionInv'
    OBVIOUS
  <2>1. CASE TakeWord
    <3>1. CueInv' /\ SegmentInv'
      BY <2>1, CueInvStep, SegmentInvStep DEF CaptionInv
    <3>2. BodyInv'
      BY <2>1 DEF TakeWord, BodyInv
    <3> QED
      BY <3>1, <3>2 DEF CaptionInv
  <2>2. CASE Render
    <3>1. CueInv' /\ SegmentInv'
      BY <2>2 DEF CaptionInv, CueInv, SegmentInv, Render, AllCues, AllSegments
    <3>2. /\ taken' = Len(export'.words)
          /\ body'.kind \notin {"none", "invalid_format"} =>
               body'.blocks \in {Whole(export.words), Lines, Sections}
      BY <2>2 DEF Render
    <3>3. export' = export /\ Lines' = Lines /\ Sections' = Sections
      BY <2>2 DEF Render, Lines, Sections, AllCues
    <3> QED
      BY <3>1, <3>2, <3>3 DEF CaptionInv, BodyInv
  <2>3. CASE UNCHANGED captionVars
    <3>1. CueInv' /\ SegmentInv'
      BY <2>3 DEF CaptionInv, CueInv, SegmentInv, captionVars, AllCues, AllSegments
    <3>2. BodyInv'
      BY <2>3 DEF CaptionInv, BodyInv, captionVars, Lines, Sections, AllCues
    <3> QED
      BY <3>1, <3>2 DEF CaptionInv
  <2> QED
    BY <2>1, <2>2, <2>3 DEF CaptionNext
<1> QED
  BY <1>1, <1>2, CaptionInvSuffices, PTL DEF CaptionSpec

-----------------------------------------------------------------------------
(* Words out of tokens.  The operators of the properties, for any tokens.  *)

TextIn(v, h, k) == token_text(v, h[k].id)
OpenedIn(v, h, k) == Cardinality({j \in 1 .. k : Opens(TextIn(v, h, j))})
SpellsIn(v, h, place) ==
  {k \in DOMAIN h : OpenedIn(v, h, k) = place /\ Clean(TextIn(v, h, k)) # <<>>}
PlacesIn(v, h) == {place \in 0 .. Len(h) : SpellsIn(v, h, place) # {}}
RankIn(v, h, place) == Cardinality({p \in PlacesIn(v, h) : p <= place})
Piece(v, h, own, k) == IF k \in own THEN Clean(TextIn(v, h, k)) ELSE <<>>
SpelledIn(v, h, own) == FlattenSeq([k \in DOMAIN h |-> Piece(v, h, own, k)])

\* A word that consists of these letters.
RightWord(v, h, o, w, own) ==
  /\ w.text = SpelledIn(v, h, own)
  /\ w.start = h[Min(own)].frame + o
  /\ w.end = h[Max(own)].frame + o
  /\ Len(w.parts) = Cardinality(own)
  /\ Range(w.parts) = Range([k \in own |-> h[k].frame])
RightWords(v, h, o, ws) ==
  /\ Len(ws) = Cardinality(PlacesIn(v, h))
  /\ \A place \in PlacesIn(v, h) :
       RightWord(v, h, o, ws[RankIn(v, h, place)], SpellsIn(v, h, place))

\* The property, as these operators say it.
LEMMA LettersAre == WordsAreLetters <=> (done => RightWords(script.vocab, heard, frame_offset, words))
  BY DEF WordsAreLetters, RightWords, RightWord, SpelledIn, Piece, RankIn, PlacesIn, SpellsIn,
         OpenedIn, TextIn, TextOf, OpenedBy, Spelling, Places, SpelledBy

Heard == [id : Nat, frame : Nat]
Vocab(v) == v \in Seq(Seq(Alphabet(v)))
Here(v, h) == OpenedIn(v, h, Len(h))

\* What one token more does to a text.
Grows(v, h, x, more) == Vocab(v) /\ h \in Seq(Heard) /\ x \in Heard /\ more = Append(h, x)

\* A token more leaves the text of those before it.
LEMMA TextsKept ==
  ASSUME NEW v, NEW h, NEW x, NEW more, Grows(v, h, x, more)
  PROVE  /\ Len(h) \in Nat /\ Len(more) = Len(h) + 1 /\ more \in Seq(Heard)
         /\ DOMAIN h = 1 .. Len(h) /\ DOMAIN more = 1 .. Len(h) + 1
         /\ more[Len(h) + 1] = x /\ \A k \in 1 .. Len(h) : more[k] = h[k]
         /\ TextIn(v, more, Len(h) + 1) = token_text(v, x.id)
         /\ \A k \in 1 .. Len(h) : TextIn(v, more, k) = TextIn(v, h, k)
  BY DEF Grows, TextIn

\* How many tokens opened a word is a number, and grows.
LEMMA OpenedTyped ==
  ASSUME NEW v, NEW h, NEW k \in Nat
  PROVE  /\ OpenedIn(v, h, k) \in Nat /\ OpenedIn(v, h, k) <= k
         /\ \A j \in 0 .. k : OpenedIn(v, h, j) <= OpenedIn(v, h, k)
<1> DEFINE B(n) == {j \in 1 .. n : Opens(TextIn(v, h, j))}
<1>1. \A n \in Nat : IsFiniteSet(1 .. n) /\ Cardinality(1 .. n) = n
  BY FS_Interval
<1>2. \A n \in Nat : B(n) \subseteq 1 .. n
  OBVIOUS
<1>3. \A n \in Nat : IsFiniteSet(B(n)) /\ Cardinality(B(n)) <= n /\ Cardinality(B(n)) \in Nat
  BY <1>1, <1>2, FS_Subset, FS_CardinalityType
<1>4. \A j \in 0 .. k : B(j) \subseteq B(k)
  OBVIOUS
<1>5. \A j \in 0 .. k : Cardinality(B(j)) <= Cardinality(B(k))
  BY <1>3, <1>4, FS_Subset
<1> QED
  BY <1>3, <1>5 DEF OpenedIn

\* A token more opens a word at the end or none.
LEMMA OpenedKept ==
  ASSUME NEW v, NEW h, NEW x, NEW more, Grows(v, h, x, more)
  PROVE  /\ \A k \in 0 .. Len(h) : OpenedIn(v, more, k) = OpenedIn(v, h, k)
         /\ Here(v, more) = Here(v, h) + (IF Opens(token_text(v, x.id)) THEN 1 ELSE 0)
         /\ Here(v, h) \in Nat /\ Here(v, h) <= Len(h)
<1> DEFINE n == Len(h)
<1>1. /\ n \in Nat /\ Len(more) = n + 1 /\ TextIn(v, more, n + 1) = token_text(v, x.id)
      /\ \A k \in 1 .. n : TextIn(v, more, k) = TextIn(v, h, k)
  BY TextsKept
<1> HIDE DEF n
<1>2. ASSUME NEW k \in 0 .. n PROVE OpenedIn(v, more, k) = OpenedIn(v, h, k)
  <2>1. {j \in 1 .. k : Opens(TextIn(v, more, j))} = {j \in 1 .. k : Opens(TextIn(v, h, j))}
    BY <1>1
  <2> QED
    BY <2>1 DEF OpenedIn
<1> DEFINE B == {j \in 1 .. n : Opens(TextIn(v, more, j))}
           C == {j \in 1 .. n + 1 : Opens(TextIn(v, more, j))}
<1>3. IsFiniteSet(B)
  <2>1. IsFiniteSet(1 .. n) /\ B \subseteq 1 .. n
    BY <1>1, FS_Interval
  <2> QED
    BY <2>1, FS_Subset
<1>4. CASE Opens(token_text(v, x.id))
  <2>1. C = B \cup {n + 1} /\ n + 1 \notin B
    BY <1>1, <1>4
  <2>2. Cardinality(C) = Cardinality(B) + 1
    BY <2>1, <1>3, FS_AddElement
  <2>3. OpenedIn(v, more, n + 1) = OpenedIn(v, more, n) + 1
    BY <2>2 DEF OpenedIn
  <2> QED
    BY SMTT(30), <1>1, <1>2, <1>4, <2>3, OpenedTyped DEF Here, n
<1>5. CASE ~Opens(token_text(v, x.id))
  <2>1. C = B
    BY <1>1, <1>5
  <2>3. OpenedIn(v, more, n + 1) = OpenedIn(v, more, n)
    BY <2>1 DEF OpenedIn
  <2> QED
    BY <1>1, <1>2, <1>5, <2>3, OpenedTyped DEF Here, n
<1> QED
  BY <1>4, <1>5

\* A token more spells in the last place or in none.
LEMMA SpellsKept ==
  ASSUME NEW v, NEW h, NEW x, NEW more, Grows(v, h, x, more)
  PROVE  /\ \A p : SpellsIn(v, more, p) =
                     SpellsIn(v, h, p) \cup
                       (IF p = Here(v, more) /\ Clean(token_text(v, x.id)) # <<>>
                        THEN {Len(h) + 1} ELSE {})
         /\ \A p : SpellsIn(v, h, p) \subseteq 1 .. Len(h)
         /\ \A p : SpellsIn(v, h, p) # {} => p \in Nat /\ p <= Here(v, h)
<1> DEFINE n == Len(h)
<1>1. /\ n \in Nat /\ DOMAIN h = 1 .. n /\ DOMAIN more = 1 .. n + 1 /\ Len(more) = n + 1
      /\ TextIn(v, more, n + 1) = token_text(v, x.id)
      /\ \A k \in 1 .. n : TextIn(v, more, k) = TextIn(v, h, k)
  BY TextsKept
<1>2. /\ \A k \in 1 .. n : OpenedIn(v, more, k) = OpenedIn(v, h, k)
      /\ OpenedIn(v, more, n + 1) = Here(v, more)
  BY <1>1, OpenedKept DEF Here
<1>3. \A k \in 1 .. n : OpenedIn(v, h, k) \in Nat /\ OpenedIn(v, h, k) <= Here(v, h)
  BY <1>1, OpenedTyped DEF Here
<1> HIDE DEF n
<1>4. ASSUME NEW p
      PROVE  SpellsIn(v, more, p) =
               SpellsIn(v, h, p) \cup
                 (IF p = Here(v, more) /\ Clean(token_text(v, x.id)) # <<>> THEN {n + 1} ELSE {})
  BY <1>1, <1>2 DEF SpellsIn
<1>5. \A p : SpellsIn(v, h, p) \subseteq 1 .. n
  BY <1>1 DEF SpellsIn
<1>6. \A p : SpellsIn(v, h, p) # {} => p \in Nat /\ p <= Here(v, h)
  BY <1>1, <1>3 DEF SpellsIn
<1> QED
  BY <1>4, <1>5, <1>6 DEF n

Within(own, h) == own \subseteq 1 .. Len(h)

\* The set of a place's letters, and their number.
LEMMA SpellsFinite ==
  ASSUME NEW v, NEW h, Len(h) \in Nat, NEW own, Within(own, h)
  PROVE  IsFiniteSet(own) /\ Cardinality(own) \in Nat
<1>1. IsFiniteSet(1 .. Len(h))
  BY FS_Interval
<1> QED
  BY <1>1, FS_Subset, FS_CardinalityType DEF Within

\* Places are counted from the first.
LEMMA PlacesFinite ==
  ASSUME NEW v, NEW h, Len(h) \in Nat
  PROVE  /\ IsFiniteSet(PlacesIn(v, h)) /\ PlacesIn(v, h) \subseteq Nat
         /\ Cardinality(PlacesIn(v, h)) \in Nat
         /\ \A p \in PlacesIn(v, h) : /\ RankIn(v, h, p) \in 1 .. Cardinality(PlacesIn(v, h))
                                      /\ \A q \in PlacesIn(v, h) :
                                           q < p => RankIn(v, h, q) < RankIn(v, h, p)
<1> DEFINE P == PlacesIn(v, h)
           U(p) == {q \in P : q <= p}
<1>1. P \subseteq 0 .. Len(h) /\ IsFiniteSet(0 .. Len(h))
  BY FS_Interval DEF PlacesIn
<1>2. IsFiniteSet(P) /\ Cardinality(P) \in Nat
  BY <1>1, FS_Subset, FS_CardinalityType
<1>3. P \subseteq Nat
  BY <1>1
<1> HIDE DEF P
<1>4. ASSUME NEW p \in P PROVE RankIn(v, h, p) \in 1 .. Cardinality(P)
  <2>1. U(p) \subseteq P /\ p \in U(p)
    BY <1>3
  <2>2. IsFiniteSet(U(p)) /\ Cardinality(U(p)) <= Cardinality(P)
    BY <2>1, <1>2, FS_Subset
  <2>3. Cardinality(U(p)) \in Nat /\ Cardinality(U(p)) # 0
    BY <2>1, <2>2, FS_CardinalityType, FS_EmptySet
  <2> QED
    BY <1>2, <2>2, <2>3 DEF RankIn, P
<1>5. ASSUME NEW p \in P, NEW q \in P, q < p PROVE RankIn(v, h, q) < RankIn(v, h, p)
  <2>0. p \in Nat /\ q \in Nat /\ \A r \in U(q) : r \in P /\ r \in Nat /\ r <= q
    BY <1>3
  <2>a. \A r \in U(q) : r \in U(p)
    BY <2>0, <1>5
  <2>b. p \in U(p) /\ p \notin U(q)
    BY <2>0, <1>5
  <2>1. U(q) \subseteq U(p) /\ p \in U(p) /\ p \notin U(q) /\ U(p) \subseteq P
    BY <2>a, <2>b
  <2>2. IsFiniteSet(U(p)) /\ Cardinality(U(p)) \in Nat
    BY <2>1, <1>2, FS_Subset, FS_CardinalityType
  <2>3. /\ IsFiniteSet(U(q)) /\ Cardinality(U(q)) <= Cardinality(U(p))
        /\ Cardinality(U(q)) = Cardinality(U(p)) => U(q) = U(p)
    BY <2>1, <2>2, FS_Subset
  <2>4. Cardinality(U(q)) \in Nat
    BY <2>3, FS_CardinalityType
  <2> QED
    BY <2>1, <2>2, <2>3, <2>4 DEF RankIn, P
<1> QED
  BY <1>2, <1>3, <1>4, <1>5 DEF P

\* The letters of a set as the text grows behind them, and with one more.
LEMMA SpelledKept ==
  ASSUME NEW v, NEW h, NEW x, NEW more, NEW own, Grows(v, h, x, more), Within(own, h)
  PROVE  /\ SpelledIn(v, h, own) \in Seq(Alphabet(v))
         /\ SpelledIn(v, more, own) = SpelledIn(v, h, own)
<1> DEFINE n == Len(h)
           A == Alphabet(v)
           e == [k \in DOMAIN h |-> Piece(v, h, own, k)]
           none == <<>>
<1>0. h \in Seq(Heard)
  BY DEF Grows
<1>1. /\ n \in Nat /\ DOMAIN h = 1 .. n /\ DOMAIN more = 1 .. n + 1
      /\ TextIn(v, more, n + 1) = token_text(v, x.id)
      /\ \A k \in 1 .. n : TextIn(v, more, k) = TextIn(v, h, k)
  BY TextsKept
<1>a. own \subseteq 1 .. n
  BY DEF Within
<1>2. \A id : token_text(v, id) \in Seq(A) /\ Clean(token_text(v, id)) \in Seq(A)
  <2> TAKE id
  <2>1. token_text(v, id) \in Seq(A)
    BY DEF token_text, Grows, Vocab
  <2> QED
    BY <2>1 DEF Clean, Opens
<1>3. \A k \in 1 .. n : Piece(v, h, own, k) \in Seq(A)
  BY <1>2 DEF Piece, TextIn
<1>4. e \in Seq(Seq(A)) /\ none \in Seq(A)
  BY <1>0, <1>1, <1>2, <1>3
<1>5. [k \in DOMAIN more |-> Piece(v, more, own, k)] = Append(e, none)
  <2>1. Len(e) = n
    BY <1>1
  <2>2. \A k \in 1 .. n : Piece(v, more, own, k) = Piece(v, h, own, k)
    BY <1>1 DEF Piece
  <2>3. n + 1 \notin own
    BY <1>1, <1>a
  <2>4. Piece(v, more, own, n + 1) = none
    BY <2>3 DEF Piece
  <2> QED
    BY <1>1, <2>1, <2>2, <2>4
<1> HIDE DEF e, none, A
<1>7. FlattenSeq(Append(e, none)) = FlattenSeq(e) \o none /\ FlattenSeq(e) \in Seq(A)
  BY <1>4, FlattenAppend
<1>9. FlattenSeq(e) \o none = FlattenSeq(e)
  BY <1>7 DEF none
<1>10. SpelledIn(v, h, own) = FlattenSeq(e)
  BY DEF SpelledIn, e
<1>11. SpelledIn(v, more, own) = FlattenSeq(e)
  BY <1>5, <1>7, <1>9 DEF SpelledIn
<1> QED
  BY <1>7, <1>10, <1>11 DEF A

\* What is spelled with the new token.
LEMMA SpelledMore ==
  ASSUME NEW v, NEW h, NEW x, NEW more, NEW own, NEW wider,
         Grows(v, h, x, more), Within(own, h), wider = own \cup {Len(h) + 1}
  PROVE  /\ SpelledIn(v, more, wider) = SpelledIn(v, h, own) \o Clean(token_text(v, x.id))
         /\ Clean(token_text(v, x.id)) \in Seq(Alphabet(v))
<1> DEFINE n == Len(h)
           A == Alphabet(v)
           e == [k \in DOMAIN h |-> Piece(v, h, own, k)]
           c == Clean(token_text(v, x.id))
<1>0. h \in Seq(Heard)
  BY DEF Grows
<1>1. /\ n \in Nat /\ DOMAIN h = 1 .. n /\ DOMAIN more = 1 .. n + 1
      /\ TextIn(v, more, n + 1) = token_text(v, x.id)
      /\ \A k \in 1 .. n : TextIn(v, more, k) = TextIn(v, h, k)
  BY TextsKept
<1>a. own \subseteq 1 .. n
  BY DEF Within
<1>2. \A id : token_text(v, id) \in Seq(A) /\ Clean(token_text(v, id)) \in Seq(A)
  <2> TAKE id
  <2>1. token_text(v, id) \in Seq(A)
    BY DEF token_text, Grows, Vocab
  <2> QED
    BY <2>1 DEF Clean, Opens
<1>3. \A k \in 1 .. n : Piece(v, h, own, k) \in Seq(A)
  BY <1>2 DEF Piece, TextIn
<1>4. e \in Seq(Seq(A)) /\ c \in Seq(A)
  BY <1>0, <1>1, <1>2, <1>3
<1>6. [k \in DOMAIN more |-> Piece(v, more, wider, k)] = Append(e, c)
  <2>1. Len(e) = n
    BY <1>1
  <2>2. \A k \in 1 .. n : Piece(v, more, wider, k) = Piece(v, h, own, k)
    BY <1>1 DEF Piece
  <2>3. Piece(v, more, wider, n + 1) = c
    BY <1>1 DEF Piece
  <2>4. \A k \in 1 .. n : e[k] = Piece(v, h, own, k)
    BY <1>1
  <2>5. Append(e, c) = [k \in 1 .. n + 1 |-> IF k = n + 1 THEN c ELSE e[k]]
    BY <2>1
  <2> HIDE DEF e, c
  <2>6. \A k \in 1 .. n + 1 : Piece(v, more, wider, k) = IF k = n + 1 THEN c ELSE e[k]
    <3> SUFFICES ASSUME NEW k \in 1 .. n + 1
                 PROVE  Piece(v, more, wider, k) = IF k = n + 1 THEN c ELSE e[k]
      OBVIOUS
    <3>1. CASE k = n + 1
      BY <2>3, <3>1
    <3>2. CASE k # n + 1
      <4>1. k \in 1 .. n
        BY <1>1, <3>2
      <4> QED
        BY <4>1, <2>2, <2>4, <3>2
    <3> QED
      BY <3>1, <3>2
  <2> QED
    BY <1>1, <2>5, <2>6
<1> HIDE DEF e, c, A
<1>8. FlattenSeq(Append(e, c)) = FlattenSeq(e) \o c
  BY <1>4, FlattenAppend
<1>10. SpelledIn(v, h, own) = FlattenSeq(e)
  BY DEF SpelledIn, e
<1>12. SpelledIn(v, more, wider) = FlattenSeq(e) \o c
  BY <1>6, <1>8 DEF SpelledIn
<1> QED
  BY <1>4, <1>10, <1>12 DEF c, A

\* The first and the last of some places, and of those with one behind them.
LEMMA EndsAre ==
  ASSUME NEW n \in Nat, NEW own, own \subseteq 1 .. n, own # {}
  PROVE  /\ Min(own) \in own /\ Max(own) \in own
         /\ Min(own \cup {n + 1}) = Min(own) /\ Max(own \cup {n + 1}) = n + 1
<1>1. \A k \in own : k \in Nat /\ k <= n
  OBVIOUS
<1>2. PICK k \in own : \A j \in own : k <= j
  BY <1>1, LeastExists
<1>3. Min(own) \in own /\ \A j \in own : Min(own) <= j
  BY <1>2 DEF Min
<1> DEFINE T == {n - j : j \in own}
<1>4. T \in SUBSET Nat /\ T # {}
  BY <1>1
<1>5. PICK t \in T : \A u \in T : t <= u
  BY <1>4, LeastExists
<1>6. PICK m \in own : t = n - m
  BY <1>5
<1>7. \A j \in own : j <= m
  <2> SUFFICES ASSUME NEW j \in own PROVE j <= m
    OBVIOUS
  <2>1. t <= n - j
    BY <1>5
  <2> QED
    BY <1>1, <1>6, <2>1
<1>8. Max(own) \in own
  BY <1>1, <1>7 DEF Max
<1> DEFINE wider == own \cup {n + 1}
           a == Min(own)
<1>a. a \in own /\ a \in Nat /\ a <= n /\ \A j \in own : a <= j
  BY <1>1, <1>3
<1> HIDE DEF a
<1>9. a \in wider /\ \A j \in wider : a <= j
  BY <1>1, <1>a
<1>10. \A b \in wider : (\A j \in wider : b <= j) => b = a
  BY <1>1, <1>a, <1>9
<1>11. n + 1 \in wider /\ \A j \in wider : n + 1 >= j
  BY <1>1
<1>12. \A b \in wider : (\A j \in wider : b >= j) => b = n + 1
  BY <1>1, <1>11
<1> HIDE DEF wider
<1>13. Min(wider) = a
  BY <1>9, <1>10 DEF Min
<1>14. Max(wider) = n + 1
  BY <1>11, <1>12 DEF Max
<1> QED
  BY <1>3, <1>8, <1>13, <1>14 DEF wider, a

\* A word stays right as the text goes on.
LEMMA WordKept ==
  ASSUME NEW v, NEW h, NEW x, NEW more, NEW own, NEW o, NEW w,
         Grows(v, h, x, more), Within(own, h), own # {}, RightWord(v, h, o, w, own)
  PROVE  RightWord(v, more, o, w, own)
<1>0. Len(h) \in Nat /\ \A k \in 1 .. Len(h) : more[k] = h[k]
  BY TextsKept
<1>1. /\ Len(h) \in Nat /\ \A k \in 1 .. Len(h) : more[k] = h[k]
      /\ own \subseteq 1 .. Len(h)
  BY <1>0 DEF Within
<1>2. SpelledIn(v, more, own) = SpelledIn(v, h, own)
  BY SpelledKept
<1>3. Min(own) \in own /\ Max(own) \in own
  BY <1>1, EndsAre
<1>4. [k \in own |-> more[k].frame] = [k \in own |-> h[k].frame]
  BY <1>1
<1> QED
  BY <1>1, <1>2, <1>3, <1>4 DEF RightWord

Word(v) == [text : Seq(Alphabet(v)), start : Int, end : Int, parts : Seq(Nat)]
EmitAt(w, o) == [text |-> w.text, start |-> w.start + o, end |-> w.end + o, parts |-> w.parts]

\* What a token spells goes to the end of the word.
LEMMA SpellIs ==
  ASSUME NEW v, NEW w \in Word(v), NEW c \in Seq(Alphabet(v)), c # <<>>, NEW f \in Nat
  PROVE  /\ Spell(w, c, f) \in Word(v) /\ Spell(w, c, f).text = w.text \o c
         /\ Spell(w, c, f).text # <<>>
         /\ Spell(w, c, f).start = (IF w.start = -1 THEN f ELSE w.start)
         /\ Spell(w, c, f).end = f /\ Spell(w, c, f).parts = Append(w.parts, f)
<1> DEFINE A == Alphabet(v)
<1>1. w.text \in Seq(A) /\ w.start \in Int /\ w.parts \in Seq(Nat)
  BY DEF Word
<1>2. w.text \o c \in Seq(A) /\ w.text \o c # <<>>
  BY <1>1
<1> HIDE DEF A
<1>3. Append(w.parts, f) \in Seq(Nat)
  BY <1>1
<1> QED
  BY <1>1, <1>2, <1>3 DEF Spell, Word, A

\* A letter group more in a word.
LEMMA WordGrows ==
  ASSUME NEW v, NEW h, NEW x, NEW more, NEW own, NEW o \in Nat, NEW w \in Word(v),
         Grows(v, h, x, more), Within(own, h), own # {},
         w.start # -1, RightWord(v, h, o, EmitAt(w, o), own),
         Clean(token_text(v, x.id)) # <<>>
  PROVE  RightWord(v, more, o, EmitAt(Spell(w, Clean(token_text(v, x.id)), x.frame), o),
                   own \cup {Len(h) + 1})
<1> DEFINE n == Len(h)
           wider == own \cup {Len(h) + 1}
           c == Clean(token_text(v, x.id))
           d == Spell(w, c, x.frame)
<1>1. /\ n \in Nat /\ \A k \in 1 .. n : more[k] = h[k]
      /\ more[n + 1] = x
  BY TextsKept
<1>2. own \subseteq 1 .. n /\ n + 1 \notin own
  BY <1>1 DEF Within
<1>3. x.frame \in Nat
  BY DEF Grows, Heard
<1>4. wider = own \cup {Len(h) + 1}
  OBVIOUS
<1> HIDE DEF wider
<1>5. SpelledIn(v, more, wider) = SpelledIn(v, h, own) \o c /\ c \in Seq(Alphabet(v))
  BY SMTT(30), <1>4, SpelledMore
<1> HIDE DEF c
<1>6. /\ d.text = w.text \o c /\ d.start = w.start /\ d.end = x.frame
      /\ d.parts = Append(w.parts, x.frame)
  <2>1. c # <<>>
    BY DEF c
  <2> QED
    BY <2>1 DEF Spell
<1> HIDE DEF d
<1>7. /\ w.text = SpelledIn(v, h, own) /\ w.start + o = h[Min(own)].frame + o
      /\ Len(w.parts) = Cardinality(own)
      /\ Range(w.parts) = Range([k \in own |-> h[k].frame])
  BY DEF RightWord, EmitAt
<1>8. /\ Min(own) \in own /\ Min(wider) = Min(own) /\ Max(wider) = n + 1
  BY <1>1, <1>2, <1>4, EndsAre
<1>9. Cardinality(wider) = Cardinality(own) + 1
  <2>1. IsFiniteSet(own)
    BY <1>1, SpellsFinite
  <2> QED
    BY <2>1, <1>2, <1>4, FS_AddElement
<1>10. w.parts \in Seq(Nat)
  BY DEF Word
<1>11. Len(d.parts) = Cardinality(wider)
  BY <1>3, <1>6, <1>7, <1>9, <1>10
<1>12. Range(d.parts) = Range([k \in wider |-> more[k].frame])
  <2>1. Range(d.parts) = Range(w.parts) \cup {x.frame}
    <3>1. /\ Len(d.parts) = Len(w.parts) + 1 /\ d.parts[Len(w.parts) + 1] = x.frame
          /\ DOMAIN d.parts = 1 .. Len(w.parts) + 1 /\ DOMAIN w.parts = 1 .. Len(w.parts)
          /\ \A k \in 1 .. Len(w.parts) : d.parts[k] = w.parts[k]
          /\ Len(w.parts) \in Nat
      BY <1>3, <1>6, <1>10
    <3> QED
      BY SMTT(30), <3>1 DEF Range
  <2>2. Range([k \in wider |-> more[k].frame]) = Range([k \in own |-> h[k].frame]) \cup {x.frame}
    BY <1>1, <1>2, <1>4 DEF Range
  <2> QED
    BY <1>7, <2>1, <2>2
<1>13. more[Min(wider)] = h[Min(own)] /\ more[Max(wider)] = x
  BY <1>1, <1>2, <1>8
<1> QED
  BY <1>5, <1>6, <1>7, <1>11, <1>12, <1>13 DEF RightWord, EmitAt, wider, c, d

\* A word of one letter group.
LEMMA WordStarts ==
  ASSUME NEW v, NEW h, NEW x, NEW more, NEW o \in Nat,
         Grows(v, h, x, more), SpelledIn(v, h, {}) = <<>>,
         Clean(token_text(v, x.id)) # <<>>
  PROVE  RightWord(v, more, o, EmitAt(Spell(NoWord, Clean(token_text(v, x.id)), x.frame), o),
                   {Len(h) + 1})
<1> DEFINE n == Len(h)
           none == {}
           wider == {Len(h) + 1}
           c == Clean(token_text(v, x.id))
<1>1. n \in Nat /\ more[n + 1] = x
  BY TextsKept
<1>2. x.frame \in Nat
  BY DEF Grows, Heard
<1>3. wider = none \cup {Len(h) + 1} /\ Within(none, h)
  BY DEF Within
<1>4. Min(wider) = n + 1 /\ Max(wider) = n + 1 /\ Cardinality(wider) = 1
  <2>1. \A b \in wider : b = n + 1
    OBVIOUS
  <2>2. n + 1 \in wider /\ n + 1 \in Nat
    BY <1>1
  <2>3. Cardinality(wider) = 1
    BY FS_Singleton
  <2> HIDE DEF wider
  <2>4. Min(wider) = n + 1
    BY <2>1, <2>2 DEF Min
  <2>5. Max(wider) = n + 1
    BY <2>1, <2>2 DEF Max
  <2> QED
    BY <2>3, <2>4, <2>5
<1> HIDE DEF wider
<1>5. SpelledIn(v, more, wider) = SpelledIn(v, h, none) \o c /\ c \in Seq(Alphabet(v))
  BY <1>3, SpelledMore
<1>6. SpelledIn(v, more, wider) = c /\ <<>> \o c = c
  BY <1>5
<1>7. Range([k \in wider |-> more[k].frame]) = {x.frame}
  BY <1>1 DEF Range, wider
<1>8. Range(<<x.frame>>) = {x.frame} /\ Len(<<x.frame>>) = 1
  BY DEF Range
<1> DEFINE d == Spell(NoWord, c, x.frame)
<1>9. d.text = c /\ d.start = x.frame /\ d.end = x.frame /\ d.parts = <<x.frame>>
  <2>1. d = [text |-> <<>> \o c, start |-> x.frame, end |-> x.frame, parts |-> Append(<<>>, x.frame)]
    BY DEF Spell, NoWord
  <2>2. Append(<<>>, x.frame) = <<x.frame>>
    OBVIOUS
  <2> HIDE DEF d
  <2> QED
    BY <1>6, <2>1, <2>2
<1> HIDE DEF d
<1> QED
  BY <1>1, <1>2, <1>4, <1>6, <1>7, <1>8, <1>9 DEF RightWord, EmitAt, wider, c, d

\* The words behind and the one under way.
AllWords(w, ws, o) == IF w.text = <<>> THEN ws ELSE Append(ws, EmitAt(w, o))

\* Every place behind is a word, and the place at hand the word under way.
WordState(v, h, o, w, ws, place) ==
  /\ o \in Nat /\ w \in Word(v) /\ ws \in Seq(Word(v))
  /\ SpelledIn(v, h, {}) = <<>>
  /\ RightWords(v, h, o, AllWords(w, ws, o))
  /\ w.text = <<>> => w = NoWord
  /\ w.text # <<>> => w.start # -1
  /\ w.text = <<>> <=> SpellsIn(v, h, place) = {}

\* A token changes the places it does not spell at not at all.
LEMMA PlacesKept ==
  ASSUME NEW v, NEW h, NEW x, NEW more, Grows(v, h, x, more)
  PROVE  /\ \A p \in PlacesIn(v, h) : p \in Nat /\ p <= Here(v, h)
         /\ PlacesIn(v, more) = PlacesIn(v, h) \cup
              (IF Clean(token_text(v, x.id)) # <<>> THEN {Here(v, more)} ELSE {})
<1> DEFINE n == Len(h)
           c == Clean(token_text(v, x.id))
           q == Here(v, more)
<1>1. n \in Nat /\ Len(more) = n + 1
  BY TextsKept
<1>2. q \in Nat /\ q <= n + 1 /\ Here(v, h) \in Nat /\ Here(v, h) <= n /\ Here(v, h) <= q
  BY <1>1, OpenedKept
<1>3. \A p : SpellsIn(v, more, p) =
               SpellsIn(v, h, p) \cup (IF p = q /\ c # <<>> THEN {n + 1} ELSE {})
  BY SpellsKept
<1>4. \A p : SpellsIn(v, h, p) # {} => p \in Nat /\ p <= Here(v, h)
  BY SpellsKept
<1> HIDE DEF q, c, n
<1>5. \A p : p \in PlacesIn(v, h) <=> SpellsIn(v, h, p) # {}
  BY <1>1, <1>2, <1>4 DEF PlacesIn, n
<1>6. \A p : SpellsIn(v, more, p) # {} <=> SpellsIn(v, h, p) # {} \/ (p = q /\ c # <<>>)
  BY <1>3
<1>7. \A p : SpellsIn(v, more, p) # {} => p \in 0 .. n + 1
  BY <1>1, <1>2, <1>4, <1>6
<1>8. \A p : p \in PlacesIn(v, more) <=> SpellsIn(v, more, p) # {}
  BY <1>1, <1>7 DEF PlacesIn
<1>9. \A p \in PlacesIn(v, h) : p \in Nat /\ p <= Here(v, h)
  BY <1>4, <1>5
<1>10. \A p : p \in PlacesIn(v, more) <=> p \in PlacesIn(v, h) \/ (p = q /\ c # <<>>)
  BY <1>5, <1>6, <1>8
<1>11. CASE c # <<>>
  BY <1>9, <1>10, <1>11 DEF q, c
<1>12. CASE c = <<>>
  BY <1>9, <1>10, <1>12 DEF q, c
<1> QED
  BY <1>11, <1>12

\* The place at hand never goes back.
LEMMA HereIs ==
  ASSUME NEW v, NEW h, NEW x, NEW more, Grows(v, h, x, more)
  PROVE  /\ Len(h) \in Nat /\ Here(v, h) \in Nat /\ Here(v, h) <= Len(h)
         /\ Here(v, more) \in Nat /\ Here(v, h) <= Here(v, more)
         /\ Here(v, more) <= Len(h) + 1
<1>1. Here(v, more) = Here(v, h) + (IF Opens(token_text(v, x.id)) THEN 1 ELSE 0)
  BY OpenedKept
<1>2. Here(v, h) \in Nat /\ Here(v, h) <= Len(h)
  BY OpenedKept
<1>3. Len(h) \in Nat
  BY TextsKept
<1> HIDE DEF Opens
<1> QED
  BY <1>1, <1>2, <1>3

\* A token spells at the place it is in, and nowhere else.
LEMMA SpellsSame ==
  ASSUME NEW v, NEW h, NEW x, NEW more, NEW p, Grows(v, h, x, more),
         p # Here(v, more) \/ Clean(token_text(v, x.id)) = <<>>
  PROVE  SpellsIn(v, more, p) = SpellsIn(v, h, p)
<1> DEFINE c == Clean(token_text(v, x.id))
           q == Here(v, more)
           a(r) == SpellsIn(v, more, r)
           b(r) == SpellsIn(v, h, r)
           n == Len(h)
<1>1. \A r : a(r) = b(r) \cup (IF r = q /\ c # <<>> THEN {n + 1} ELSE {})
  BY SpellsKept
<1>2. p # q \/ c = <<>>
  OBVIOUS
<1> HIDE DEF a, b, c, q, n
<1>3. a(p) = b(p)
  BY <1>1, <1>2
<1> QED
  BY <1>3 DEF a, b

\* A token that spells does so in the last place.
LEMMA SpellsMore ==
  ASSUME NEW v, NEW h, NEW x, NEW more, NEW place, Grows(v, h, x, more),
         place = Here(v, more), Clean(token_text(v, x.id)) # <<>>
  PROVE  SpellsIn(v, more, place) = SpellsIn(v, h, place) \cup {Len(h) + 1}
<1> DEFINE c == Clean(token_text(v, x.id))
           q == Here(v, more)
           a(r) == SpellsIn(v, more, r)
           b(r) == SpellsIn(v, h, r)
           n == Len(h)
<1>1. \A r : a(r) = b(r) \cup (IF r = q /\ c # <<>> THEN {n + 1} ELSE {})
  BY SpellsKept
<1>2. place = q /\ c # <<>>
  OBVIOUS
<1> HIDE DEF a, b, c, q, n
<1>3. a(place) = b(place) \cup {n + 1}
  BY <1>1, <1>2
<1> QED
  BY <1>3 DEF a, b, n

\* The words behind stay as they are when a token spells nothing in their places.
LEMMA OthersKept ==
  ASSUME NEW v, NEW h, NEW x, NEW more, NEW o, NEW all, NEW p,
         Grows(v, h, x, more), RightWords(v, h, o, all), p \in PlacesIn(v, h),
         p # Here(v, more) \/ Clean(token_text(v, x.id)) = <<>>
  PROVE  RightWord(v, more, o, all[RankIn(v, h, p)], SpellsIn(v, more, p))
<1> DEFINE own == SpellsIn(v, h, p)
           w == all[RankIn(v, h, p)]
<1>1. RightWord(v, h, o, w, own)
  BY DEF RightWords
<1>2. SpellsIn(v, more, p) = own
  BY SpellsSame
<1>3. own # {} /\ Within(own, h)
  BY SpellsKept DEF PlacesIn, Within
<1> HIDE DEF own, w
<1>4. RightWord(v, more, o, w, own)
  BY <1>1, <1>3, WordKept
<1> QED
  BY <1>2, <1>4 DEF w

\* A token that spells nothing leaves the words as they are.
LEMMA SilentStep ==
  ASSUME NEW v, NEW h, NEW x, NEW more, NEW o, NEW w, NEW ws,
         Grows(v, h, x, more), WordState(v, h, o, w, ws, Here(v, more)),
         Clean(token_text(v, x.id)) = <<>>
  PROVE  WordState(v, more, o, w, ws, Here(v, more))
<1> DEFINE all == AllWords(w, ws, o)
<1>1. PlacesIn(v, more) = PlacesIn(v, h)
  BY PlacesKept
<1>2. \A p : SpellsIn(v, more, p) = SpellsIn(v, h, p)
  BY SpellsSame
<1>3. RightWords(v, h, o, all)
  BY DEF WordState
<1> HIDE DEF all
<1>4. \A p : RankIn(v, more, p) = RankIn(v, h, p)
  BY <1>1 DEF RankIn
<1>5. \A p \in PlacesIn(v, h) : RightWord(v, more, o, all[RankIn(v, h, p)], SpellsIn(v, more, p))
  BY <1>3, OthersKept
<1>6. Len(all) = Cardinality(PlacesIn(v, h))
  BY <1>3 DEF RightWords
<1>7. RightWords(v, more, o, all)
  BY <1>1, <1>4, <1>5, <1>6 DEF RightWords
<1>8. SpelledIn(v, more, {}) = SpelledIn(v, h, {})
  <2>1. Within({}, h)
    BY DEF Within
  <2> QED
    BY <2>1, SpelledKept
<1> QED
  BY <1>2, <1>7, <1>8 DEF WordState, all

\* A token that spells begins the word of its place, or goes on with it.
LEMMA LetterStep ==
  ASSUME NEW v, NEW h, NEW x, NEW more, NEW o, NEW w, NEW ws,
         Grows(v, h, x, more), WordState(v, h, o, w, ws, Here(v, more)),
         Clean(token_text(v, x.id)) # <<>>
  PROVE  WordState(v, more, o, Spell(w, Clean(token_text(v, x.id)), x.frame), ws, Here(v, more))
<1> DEFINE all == AllWords(w, ws, o)
           c == Clean(token_text(v, x.id))
           d == Spell(w, c, x.frame)
           q == Here(v, more)
           own == SpellsIn(v, h, q)
           new == EmitAt(d, o)
           P == PlacesIn(v, h)
           n == Len(h)
<1>1. /\ o \in Nat /\ w \in Word(v) /\ ws \in Seq(Word(v)) /\ SpelledIn(v, h, {}) = <<>>
      /\ RightWords(v, h, o, all)
      /\ w.text = <<>> => w = NoWord
  BY DEF WordState
<1>2. (w.text # <<>> => w.start # -1) /\ (w.text = <<>> <=> own = {})
  BY DEF WordState
<1>3. RightWords(v, h, o, all)
  BY DEF WordState
<1>4. x.frame \in Nat
  BY DEF Grows, Heard
<1>5. c \in Seq(Alphabet(v)) /\ c # <<>>
  <2>1. c \in Seq(Alphabet(v))
    <3>1. token_text(v, x.id) \in Seq(Alphabet(v))
      BY DEF token_text, Grows, Vocab
    <3> QED
      BY <3>1 DEF Clean, Opens
  <2> QED
    BY <2>1
<1>6. d \in Word(v) /\ d.text # <<>> /\ d.start # -1
  <2> HIDE DEF c
  <2>1. w \in Word(v)
    BY <1>1
  <2>2. d \in Word(v) /\ d.text # <<>> /\ d.start = (IF w.start = -1 THEN x.frame ELSE w.start)
    BY SMTT(30), <2>1, <1>4, <1>5, SpellIs
  <2> QED
    BY <1>4, <2>2
<1>7. SpellsIn(v, more, q) = own \cup {n + 1}
  BY SpellsMore
<1>8. /\ \A p \in P : p \in Nat /\ p <= q
      /\ PlacesIn(v, more) = P \cup {q} /\ q \in Nat
  <2>1. Here(v, h) \in Nat /\ q \in Nat /\ Here(v, h) <= q
    BY HereIs
  <2>2. /\ \A p \in P : p \in Nat /\ p <= Here(v, h)
        /\ PlacesIn(v, more) = P \cup {q}
    BY PlacesKept
  <2> QED
    BY <2>1, <2>2
<1>9. q \in P <=> own # {}
  <2>1. /\ q \in Nat /\ q <= n + 1 /\ n \in Nat /\ Here(v, h) <= n
        /\ Here(v, h) \in Nat
    BY HereIs
  <2>2. own # {} => q <= Here(v, h)
    BY SpellsKept
  <2> QED
    BY <2>1, <2>2 DEF PlacesIn
<1>10. n \in Nat /\ Len(more) \in Nat
  BY TextsKept
<1>11. /\ IsFiniteSet(P) /\ Cardinality(P) \in Nat /\ Len(all) = Cardinality(P)
       /\ \A p \in P : /\ RankIn(v, h, p) \in 1 .. Cardinality(P)
                       /\ \A r \in P : r < p => RankIn(v, h, r) < RankIn(v, h, p)
  <2>1. Len(all) = Cardinality(P)
    BY <1>3 DEF RightWords
  <2> QED
    BY <2>1, <1>10, PlacesFinite
<1>12. SpelledIn(v, more, {}) = <<>>
  <2>1. Within({}, h)
    BY DEF Within
  <2> QED
    BY <1>1, <2>1, SpelledKept
<1>13. AllWords(d, ws, o) = Append(ws, new)
  BY <1>6 DEF AllWords
<1>14. \A p \in P \ {q} : RightWord(v, more, o, all[RankIn(v, h, p)], SpellsIn(v, more, p))
  BY <1>3, OthersKept
<1> DEFINE Q == PlacesIn(v, more)
           R(p) == RankIn(v, h, p)
           S(p) == RankIn(v, more, p)
           line == Append(ws, new)
           sets(p) == SpellsIn(v, more, p)
<1>a. /\ Len(line) = Len(ws) + 1 /\ line[Len(ws) + 1] = new /\ Len(ws) \in Nat
      /\ \A k \in 1 .. Len(ws) : line[k] = ws[k]
  BY <1>1
<1>b. \A p \in P \ {q} : S(p) = R(p)
  <2> SUFFICES ASSUME NEW p \in P, p # q PROVE S(p) = R(p)
    OBVIOUS
  <2>1. {r \in Q : r <= p} = {r \in P : r <= p}
    BY <1>8
  <2> QED
    BY <2>1 DEF RankIn
<1>c. S(q) = Cardinality(Q)
  <2>1. {r \in Q : r <= q} = Q
    BY <1>8
  <2> QED
    BY <2>1 DEF RankIn
<1>d. Q = P \cup {q}
  BY <1>8
<1>e. Len(line) = Cardinality(Q) /\ (\A p \in P \ {q} : line[R(p)] = all[R(p)]) /\ RightWord(v, more, o, new, sets(q))
  <2>1. CASE own = {}
    <3>1. all = ws /\ w = NoWord
      BY <1>1, <1>2, <2>1 DEF AllWords
    <3>2. Cardinality(Q) = Cardinality(P) + 1
      BY <1>9, <1>11, <1>d, <2>1, FS_AddElement
    <3>3. sets(q) = {n + 1}
      BY <1>7, <2>1
    <3>4. RightWord(v, more, o, new, {n + 1})
      BY <1>1, <3>1, WordStarts
    <3> HIDE DEF all, sets, new, line, P, Q, R, own, q, n
    <3>5. \A p \in P : R(p) \in 1 .. Len(ws)
      BY <1>11, <3>1 DEF R
    <3> QED
      BY <1>11, <1>a, <3>1, <3>2, <3>3, <3>4, <3>5
  <2>2. CASE own # {}
    <3> DEFINE old == EmitAt(w, o)
    <3>1. all = Append(ws, old) /\ w.start # -1 /\ q \in P
      BY <1>2, <1>9, <2>2 DEF AllWords
    <3>2. /\ Len(all) = Len(ws) + 1 /\ all[Len(ws) + 1] = old
          /\ \A k \in 1 .. Len(ws) : all[k] = ws[k]
      BY <1>1, <3>1
    <3>3. Q = P
      BY <1>d, <3>1
    <3>4. R(q) = Cardinality(P)
      <4>1. {r \in P : r <= q} = P
        BY <1>8
      <4> QED
        BY <4>1 DEF RankIn
    <3>5. RightWord(v, h, o, all[R(q)], own)
      BY <1>3, <3>1 DEF RightWords
    <3>6. all[R(q)] = old
      BY <1>11, <3>2, <3>4
    <3>7. Within(own, h)
      BY SpellsKept DEF Within
    <3>8. RightWord(v, more, o, new, own \cup {n + 1})
      <4>1. RightWord(v, h, o, old, own)
        BY <3>5, <3>6
      <4> HIDE DEF own
      <4> QED
        BY <1>1, <1>5, <2>2, <3>1, <3>7, <4>1, WordGrows
    <3>9. \A p \in P \ {q} : R(p) < R(q) /\ R(p) \in 1 .. Cardinality(P)
      BY <1>8, <1>11, <3>1
    <3>10. RightWord(v, more, o, new, sets(q))
      BY <1>7, <3>8
    <3> HIDE DEF all, sets, new, line, P, Q, R, own, old, q, n
    <3>11. \A p \in P \ {q} : R(p) \in 1 .. Len(ws)
      <4>1. Cardinality(P) = Len(ws) + 1
        BY <1>11, <3>2
      <4> SUFFICES ASSUME NEW p \in P \ {q} PROVE R(p) \in 1 .. Len(ws)
        OBVIOUS
      <4>2. R(p) < Cardinality(P) /\ R(p) \in 1 .. Cardinality(P)
        BY <3>4, <3>9
      <4> QED
        BY <1>a, <4>1, <4>2
    <3> QED
      BY <1>11, <1>a, <3>2, <3>3, <3>10, <3>11
  <2> QED
    BY <2>1, <2>2
<1> HIDE DEF d, c, own, n, P, Q, R, S, line, new, all, sets, q
<1>15. RightWords(v, more, o, line)
  <2>1. ASSUME NEW p \in Q PROVE RightWord(v, more, o, line[S(p)], sets(p))
    <3>1. CASE p = q
      <4>1. line[S(p)] = new
        BY <1>a, <1>c, <1>e, <3>1
      <4> QED
        BY <1>e, <3>1, <4>1
    <3>2. CASE p # q
      <4>1. p \in P \ {q}
        BY <1>d, <2>1, <3>2
      <4>2. line[S(p)] = all[R(p)]
        BY <1>b, <1>e, <4>1
      <4>3. RightWord(v, more, o, all[R(p)], sets(p))
        BY <1>14, <4>1 DEF R, sets
      <4> QED
        BY <4>2, <4>3
    <3> QED
      BY <3>1, <3>2
  <2> QED
    BY <1>e, <2>1 DEF RightWords, Q, S, sets
<1> QED
  <2>1. sets(q) # {}
    BY <1>7 DEF sets
  <2>2. WordState(v, more, o, d, ws, q)
    BY <1>1, <1>6, <1>12, <1>13, <1>15, <2>1 DEF WordState, line, sets
  <2> QED
    BY <2>2 DEF d, c, q

\* A marker closes the word under way.
Closes(v, x, w) == Opens(token_text(v, x.id)) /\ w.text # <<>>
Base(v, x, w) == IF Closes(v, x, w) THEN NoWord ELSE w
Behind(v, x, w, ws, o) == IF Closes(v, x, w) THEN Append(ws, EmitAt(w, o)) ELSE ws

\* Before the token spells, its place is at hand.
LEMMA BaseIsRight ==
  ASSUME NEW v, NEW h, NEW x, NEW more, NEW o, NEW w, NEW ws,
         Grows(v, h, x, more), WordState(v, h, o, w, ws, Here(v, h))
  PROVE  WordState(v, h, o, Base(v, x, w), Behind(v, x, w, ws, o), Here(v, more))
<1> DEFINE q == Here(v, more)
           opens == Opens(token_text(v, x.id))
<1>1. /\ o \in Nat /\ w \in Word(v) /\ ws \in Seq(Word(v))
      /\ SpelledIn(v, h, {}) = <<>>
      /\ RightWords(v, h, o, AllWords(w, ws, o))
  BY DEF WordState
<1>2. /\ w.text = <<>> => w = NoWord
      /\ w.text # <<>> => w.start # -1
      /\ w.text = <<>> <=> SpellsIn(v, h, Here(v, h)) = {}
  BY DEF WordState
<1>3. q = Here(v, h) + (IF opens THEN 1 ELSE 0)
  BY OpenedKept
<1>4. Here(v, h) \in Nat
  BY HereIs
<1>5. CASE ~opens
  <2>1. q = Here(v, h)
    BY <1>3, <1>4, <1>5
  <2>2. Base(v, x, w) = w /\ Behind(v, x, w, ws, o) = ws
    BY <1>5 DEF Base, Behind, Closes
  <2> QED
    BY <2>1, <2>2
<1>6. CASE opens
  <2>1. q = Here(v, h) + 1
    BY <1>3, <1>6
  <2>2. SpellsIn(v, h, q) = {}
    <3>1. SpellsIn(v, h, q) # {} => q \in Nat /\ q <= Here(v, h)
      BY SpellsKept
    <3> QED
      BY <1>4, <2>1, <3>1
  <2>3. NoWord \in Word(v) /\ NoWord.text = <<>>
    <3>1. <<>> \in Seq(Alphabet(v)) /\ <<>> \in Seq(Nat)
      OBVIOUS
    <3> QED
      BY <3>1 DEF NoWord, Word
  <2>4. CASE w.text = <<>>
    <3>1. Base(v, x, w) = w /\ Behind(v, x, w, ws, o) = ws
      BY <2>4 DEF Base, Behind, Closes
    <3> QED
      BY <1>1, <1>2, <2>2, <2>4, <3>1 DEF WordState
  <2>5. CASE w.text # <<>>
    <3> DEFINE line == Append(ws, EmitAt(w, o))
    <3>1. Base(v, x, w) = NoWord /\ Behind(v, x, w, ws, o) = line
      BY <1>6, <2>5 DEF Base, Behind, Closes
    <3>2. AllWords(w, ws, o) = line /\ AllWords(NoWord, line, o) = line
      BY <2>3, <2>5 DEF AllWords
    <3>3. line \in Seq(Word(v))
      <4>1. EmitAt(w, o) \in Word(v)
        BY <1>1 DEF EmitAt, Word
      <4> QED
        BY <1>1, <4>1
    <3> HIDE DEF line
    <3>4. WordState(v, h, o, NoWord, line, q)
      BY <1>1, <2>2, <2>3, <3>2, <3>3 DEF WordState
    <3> QED
      BY <3>1, <3>4
  <2> QED
    BY <2>4, <2>5
<1> QED
  BY <1>5, <1>6

\* Every token leaves the words right.
LEMMA TokenStep ==
  ASSUME NEW v, NEW h, NEW x, NEW more, NEW o, NEW w, NEW ws,
         Grows(v, h, x, more), WordState(v, h, o, w, ws, Here(v, h))
  PROVE  WordState(v, more, o, Spell(Base(v, x, w), Clean(token_text(v, x.id)), x.frame),
                   Behind(v, x, w, ws, o), Here(v, more))
<1> DEFINE b == Base(v, x, w)
           c == Clean(token_text(v, x.id))
           u == Behind(v, x, w, ws, o)
<1>1. WordState(v, h, o, b, u, Here(v, more))
  BY BaseIsRight
<1>2. CASE c # <<>>
  <2> HIDE DEF b, u
  <2>1. WordState(v, more, o, Spell(b, Clean(token_text(v, x.id)), x.frame), u, Here(v, more))
    BY <1>1, <1>2, LetterStep
  <2> QED
    BY <2>1 DEF b, u
<1>3. CASE c = <<>>
  <2>1. Spell(b, c, x.frame) = b
    BY <1>3 DEF Spell
  <2> HIDE DEF b, u
  <2>2. WordState(v, more, o, b, u, Here(v, more))
    BY <1>1, <1>3, SilentStep
  <2> QED
    BY <2>1, <2>2 DEF b, u
<1> QED
  BY <1>2, <1>3

-----------------------------------------------------------------------------
(* The states of the formatter.                                            *)

LetterTyped ==
  /\ script \in Scripts /\ frame_offset \in Nat /\ heard \in Seq(Heard) /\ done \in BOOLEAN
LettersInv ==
  /\ LetterTyped
  /\ ~done => WordState(script.vocab, heard, frame_offset, current, words,
                        Here(script.vocab, heard))
  /\ done => RightWords(script.vocab, heard, frame_offset, words)

\* Both heads do the same with a token: a CTC marker is a token of its own.
Hears(x) ==
  /\ ~done /\ done' = FALSE /\ UNCHANGED <<script, frame_offset>>
  /\ x \in Heard /\ heard' = Append(heard, x)
  /\ current' = Spell(Base(script.vocab, x, current), Clean(token_text(script.vocab, x.id)), x.frame)
  /\ words' = Behind(script.vocab, x, current, words, frame_offset)

\* Frames are numbers.
LEMMA FramesAre ==
  ASSUME LetterTyped, NEW frame \in NextFrames
  PROVE  frame \in Nat
<1> DEFINE last == IF heard = <<>> THEN 0 ELSE Last(heard).frame
<1>1. last \in Nat
  <2>1. heard # <<>> => Last(heard) \in Heard
    BY DEF LetterTyped, Last
  <2> QED
    BY <2>1 DEF Heard
<1> HIDE DEF last
<1>2. frame \in last .. last + MaxGap
  BY DEF NextFrames, last
<1> QED
  BY <1>1, <1>2, ScriptsAssumption

\* The vocabulary is one of tokens.
LEMMA VocabIs ==
  ASSUME LetterTyped
  PROVE  Vocab(script.vocab) /\ Len(script.vocab) \in Nat
  BY ScriptsAssumption DEF LetterTyped, Vocab

\* A step hears a token or ends the text.
LEMMA StepHears ==
  ASSUME LettersInv, FormatNext
  PROVE  (\E x : Hears(x)) \/ LastWord
<1>1. LetterTyped
  BY DEF LettersInv
<1> SUFFICES ASSUME NEW id \in 0 .. Len(script.vocab), NEW frame \in NextFrames,
                    tokens_to_words(id, frame) \/ ctc_tokens_to_words(id, frame)
             PROVE  \E x : Hears(x)
  BY DEF FormatNext
<1> DEFINE x == [id |-> id, frame |-> frame]
           v == script.vocab
           text == token_text(v, id)
<1>2. x \in Heard /\ x.id = id /\ x.frame = frame
  <2>1. id \in Nat
    BY <1>1, VocabIs
  <2>2. frame \in Nat
    BY <1>1, FramesAre
  <2> QED
    BY <2>1, <2>2 DEF Heard
<1>3. ~done /\ done' = FALSE /\ UNCHANGED <<script, frame_offset>> /\ heard' = Append(heard, x)
  BY DEF tokens_to_words, ctc_tokens_to_words, More
<1>4. Emit(current) = EmitAt(current, frame_offset)
  BY DEF Emit, EmitAt
<1> HIDE DEF x
<1>5. CASE tokens_to_words(id, frame)
  <2>1. /\ current' = Spell(Base(v, x, current), Clean(text), frame)
        /\ words' = Behind(v, x, current, words, frame_offset)
    BY <1>2, <1>4, <1>5 DEF tokens_to_words, Base, Behind, Closes
  <2> QED
    BY <1>2, <1>3, <2>1 DEF Hears
<1>6. CASE ctc_tokens_to_words(id, frame)
  <2>1. Opens(text) => Clean(text) = <<>>
    <3> SUFFICES ASSUME Opens(text) PROVE Clean(text) = <<>>
      OBVIOUS
    <3>1. text # <<>> /\ text[1] = Marker
      BY DEF Opens
    <3>2. text = v[id] /\ id \in DOMAIN v
      BY <3>1 DEF token_text
    <3>3. text \in Range(v) \ {<<>>}
      BY <3>1, <3>2 DEF Range
    <3>4. script \in Scripts /\ script.kind = "ctc"
      BY <1>1, <1>6 DEF LetterTyped, ctc_tokens_to_words
    <3>5. text = WORD_BOUNDARY
      BY <3>1, <3>3, <3>4, ScriptsAssumption
    <3> HIDE DEF text
    <3>6. Clean(text) = Tail(WORD_BOUNDARY)
      BY <3>5 DEF Clean
    <3> QED
      BY <3>6 DEF WORD_BOUNDARY
  <2>2. /\ current' = Spell(Base(v, x, current), Clean(text), frame)
        /\ words' = Behind(v, x, current, words, frame_offset)
    <3>1. CASE Opens(text)
      <4>1. Clean(text) = <<>>
        BY <2>1, <3>1
      <4>2. \A b : Spell(b, Clean(text), frame) = b
        BY <4>1 DEF Spell
      <4>3. /\ current' = (IF current.text = <<>> THEN current ELSE NoWord)
            /\ words' = (IF current.text = <<>> THEN words ELSE Append(words, Emit(current)))
        BY <1>6, <3>1 DEF ctc_tokens_to_words
      <4> QED
        BY <1>2, <1>4, <3>1, <4>2, <4>3 DEF Base, Behind, Closes
    <3>2. CASE ~Opens(text)
      <4>1. Clean(text) = text
        BY <3>2 DEF Clean
      <4>2. current' = Spell(current, text, frame) /\ words' = words
        BY <1>6, <3>2 DEF ctc_tokens_to_words
      <4> QED
        BY <1>2, <3>2, <4>1, <4>2 DEF Base, Behind, Closes
    <3> QED
      BY <3>1, <3>2
  <2> QED
    BY <1>2, <1>3, <2>2 DEF Hears
<1> QED
  BY <1>5, <1>6

\* Nothing heard is spelled right.
LEMMA LettersStart ==
  ASSUME FormatInit
  PROVE  LettersInv
<1> DEFINE v == script.vocab
<1>1. LetterTyped
  <2>1. Offsets \subseteq Nat
    BY ScriptsAssumption
  <2>2. heard \in Seq(Heard)
    BY DEF FormatInit
  <2> QED
    BY <2>1, <2>2 DEF FormatInit, LetterTyped
<1>2. heard = <<>> /\ current = NoWord /\ words = <<>> /\ ~done /\ frame_offset \in Nat
  BY <1>1 DEF FormatInit, LetterTyped
<1>3. \A own : SpelledIn(v, <<>>, own) = <<>>
  <2> TAKE own
  <2>1. [k \in DOMAIN <<>> |-> Piece(v, <<>>, own, k)] = <<>>
    OBVIOUS
  <2>2. FlattenSeq(<<>>) = <<>>
    BY DEF FlattenSeq
  <2> QED
    BY <2>1, <2>2 DEF SpelledIn
<1>4. \A p : SpellsIn(v, <<>>, p) = {}
  BY DEF SpellsIn
<1>5. PlacesIn(v, <<>>) = {}
  BY <1>4 DEF PlacesIn
<1>6. RightWords(v, <<>>, frame_offset, <<>>)
  BY <1>5, FS_EmptySet DEF RightWords
<1>7. NoWord \in Word(v) /\ NoWord.text = <<>>
  <2>1. <<>> \in Seq(Alphabet(v)) /\ <<>> \in Seq(Nat)
    OBVIOUS
  <2> QED
    BY <2>1 DEF NoWord, Word
<1>8. <<>> \in Seq(Word(v))
  OBVIOUS
<1>9. AllWords(NoWord, <<>>, frame_offset) = <<>>
  BY <1>7 DEF AllWords
<1>10. WordState(v, <<>>, frame_offset, NoWord, <<>>, Here(v, <<>>))
  BY <1>2, <1>3, <1>4, <1>6, <1>7, <1>8, <1>9 DEF WordState
<1> QED
  BY <1>1, <1>2, <1>10 DEF LettersInv

\* Every step leaves the words right.
LEMMA LettersKeep ==
  ASSUME LettersInv, [FormatNext]_wordVars
  PROVE  LettersInv'
<1>1. CASE UNCHANGED wordVars
  BY <1>1 DEF wordVars, LettersInv, LetterTyped, WordState, RightWords, RightWord
<1>2. CASE LastWord
  <2>1. /\ ~done /\ done' = TRUE /\ UNCHANGED <<script, frame_offset, heard>>
        /\ words' = AllWords(current, words, frame_offset)
    BY <1>2 DEF LastWord, AllWords, Emit, EmitAt
  <2>2. RightWords(script.vocab, heard, frame_offset, AllWords(current, words, frame_offset))
    BY <2>1 DEF LettersInv, WordState
  <2>3. LetterTyped'
    BY <2>1 DEF LettersInv, LetterTyped
  <2> QED
    BY <2>1, <2>2, <2>3 DEF LettersInv
<1>3. CASE \E x : Hears(x)
  <2>1. PICK x : Hears(x)
    BY <1>3
  <2> DEFINE v == script.vocab
  <2>2. LetterTyped /\ ~done /\ done' = FALSE /\ UNCHANGED <<script, frame_offset>> /\ x \in Heard
    BY <2>1 DEF Hears, LettersInv
  <2>3. PICK more : more = heard'
    OBVIOUS
  <2>4. PICK w : w = current'
    OBVIOUS
  <2>5. PICK ws : ws = words'
    OBVIOUS
  <2>6. Grows(v, heard, x, more)
    BY <2>1, <2>2, <2>3, VocabIs DEF Grows, Hears, LetterTyped
  <2>7. WordState(v, heard, frame_offset, current, words, Here(v, heard))
    BY <2>2 DEF LettersInv
  <2>8. WordState(v, more, frame_offset,
                  Spell(Base(v, x, current), Clean(token_text(v, x.id)), x.frame),
                  Behind(v, x, current, words, frame_offset), Here(v, more))
    BY <2>6, <2>7, TokenStep
  <2>9. WordState(v, more, frame_offset, w, ws, Here(v, more))
    BY <2>1, <2>4, <2>5, <2>8 DEF Hears
  <2>10. LetterTyped'
    <3>1. heard' \in Seq(Heard)
      BY <2>1, <2>2 DEF Hears, LetterTyped
    <3> QED
      BY <2>2, <3>1 DEF LetterTyped
  <2>11. (WordState(script.vocab, heard, frame_offset, current, words, Here(script.vocab, heard)))'
    BY <2>2, <2>3, <2>4, <2>5, <2>9
  <2> QED
    BY <2>2, <2>10, <2>11 DEF LettersInv
<1> QED
  BY <1>1, <1>2, <1>3, StepHears

-----------------------------------------------------------------------------
(* Where the words of a phrase are among its characters.                   *)

Phrase(p) == p \in Seq(Seq(Alphabet(p)) \ {<<>>}) /\ Marker \notin Alphabet(p)

\* Word k ends at ends[k], and has its marker before it.
Laid(p, ends, chars) ==
  /\ ends \in [0 .. Len(p) -> Nat] /\ ends[0] = 0 /\ Len(chars) = ends[Len(p)]
  /\ \A k \in 1 .. Len(p) : ends[k] = ends[k - 1] + 1 + Len(p[k])
  /\ \A k \in 1 .. Len(p) : chars[ends[k - 1] + 1] = Marker
  /\ \A k \in 1 .. Len(p) : \A m \in 1 .. Len(p[k]) : chars[ends[k - 1] + 1 + m] = p[k][m]
Ordered(p, ends) == \A a, b \in 0 .. Len(p) : a <= b => ends[a] <= ends[b]

\* The ends of the words are in their order.
LEMMA EndsOrdered ==
  ASSUME NEW p, NEW ends, Len(p) \in Nat, ends \in [0 .. Len(p) -> Nat],
         \A k \in 1 .. Len(p) : ends[k - 1] <= ends[k]
  PROVE  Ordered(p, ends)
<1> SUFFICES ASSUME NEW a \in 0 .. Len(p) PROVE \A b \in 0 .. Len(p) : a <= b => ends[a] <= ends[b]
  BY DEF Ordered
<1> DEFINE G == {b \in Nat : b \in a .. Len(p) => ends[a] <= ends[b]}
<1>1. 0 \in G
  OBVIOUS
<1>2. ASSUME NEW b \in Nat, b \in G PROVE b + 1 \in G
  <2> SUFFICES ASSUME b + 1 \in a .. Len(p) PROVE ends[a] <= ends[b + 1]
    OBVIOUS
  <2>1. CASE a = b + 1
    BY <2>1
  <2>2. CASE a # b + 1
    <3>1. b \in a .. Len(p) /\ b + 1 \in 1 .. Len(p) /\ b \in 0 .. Len(p) /\ (b + 1) - 1 = b
      BY <2>2
    <3>2. ends[a] <= ends[b] /\ ends[b] <= ends[b + 1]
      BY <1>2, <3>1
    <3>3. ends[a] \in Nat /\ ends[b] \in Nat /\ ends[b + 1] \in Nat
      BY <3>1
    <3> QED
      BY <3>2, <3>3
  <2> QED
    BY <2>1, <2>2
<1>3. Nat \subseteq G
  <2> HIDE DEF G
  <2> QED
    BY <1>1, <1>2, Inductive
<1> QED
  BY <1>3

\* A word joined to a text is at its end.
MarkedAfter(s, word, t) ==
  /\ Len(t) = Len(s) + 1 + Len(word)
  /\ \A j \in 1 .. Len(s) : t[j] = s[j]
  /\ t[Len(s) + 1] = Marker
  /\ \A m \in 1 .. Len(word) : t[Len(s) + 1 + m] = word[m]

\* A word behind its marker, joined to characters.
LEMMA WordJoined ==
  ASSUME NEW S, NEW s \in Seq(S), NEW c \in Seq(S), NEW word \in Seq(S), NEW t,
         c = WORD_BOUNDARY \o word, t = s \o c
  PROVE  MarkedAfter(s, word, t)
<1>1. Len(WORD_BOUNDARY) = 1 /\ WORD_BOUNDARY[1] = Marker
  BY DEF WORD_BOUNDARY
<1>2. Len(c) = 1 + Len(word) /\ c[1] = Marker /\ \A m \in 1 .. Len(word) : c[1 + m] = word[m]
  BY <1>1 DEF WORD_BOUNDARY
<1>3. t \in Seq(S) /\ Len(t) = Len(s) + Len(c)
  OBVIOUS
<1>4. \A j \in 1 .. Len(s) : t[j] = s[j]
  OBVIOUS
<1>5. \A j \in 1 .. Len(c) : t[Len(s) + j] = c[j]
  OBVIOUS
<1>6. t[Len(s) + 1] = Marker
  <2>1. 1 \in 1 .. Len(c)
    BY <1>2
  <2> QED
    BY <1>2, <1>5, <2>1
<1>7. ASSUME NEW m \in 1 .. Len(word) PROVE t[Len(s) + 1 + m] = word[m]
  <2>1. 1 + m \in 1 .. Len(c) /\ Len(s) + 1 + m = Len(s) + (1 + m)
    BY <1>2
  <2>2. t[Len(s) + (1 + m)] = c[1 + m]
    BY <1>5, <2>1
  <2> QED
    BY <1>2, <2>1, <2>2
<1> QED
  BY <1>2, <1>3, <1>4, <1>6, <1>7 DEF MarkedAfter

\* The characters of a phrase are its words, each behind its marker.
LEMMA PhraseLaid ==
  ASSUME NEW p, Phrase(p)
  PROVE  \E ends : /\ Laid(p, ends, Marked(p)) /\ Ordered(p, ends)
                   /\ Marked(p) \in Seq(Alphabet(p) \cup {Marker})
<1> DEFINE A == Alphabet(p)
           S == A \cup {Marker}
           e == [k \in DOMAIN p |-> WORD_BOUNDARY \o p[k]]
           n == Len(p)
<1>1. /\ n \in Nat /\ DOMAIN p = 1 .. n
      /\ \A k \in 1 .. n : p[k] \in Seq(A) /\ p[k] # <<>> /\ Len(p[k]) \in Nat
  BY DEF Phrase
<1>2. \A k \in 1 .. n : p[k] \in Seq(S)
  BY <1>1
<1>3. WORD_BOUNDARY \in Seq(S)
  BY DEF WORD_BOUNDARY
<1> HIDE DEF n, S, A
<1>4. /\ e \in Seq(Seq(S)) /\ Len(e) = n
      /\ \A k \in 1 .. n : e[k] = WORD_BOUNDARY \o p[k] /\ e[k] \in Seq(S)
  <2>1. \A k \in 1 .. n : WORD_BOUNDARY \o p[k] \in Seq(S)
    BY <1>2, <1>3
  <2> QED
    BY <1>1, <2>1
<1>5. Marked(p) = FlattenSeq(e)
  BY DEF Marked
<1> HIDE DEF e
<1>6. CASE n = 0
  <2> DEFINE D == [k \in 0 .. 0 |-> 0]
  <2>1. FlattenSeq(e) = <<>>
    <3>1. e = <<>>
      BY <1>4, <1>6
    <3> QED
      BY <3>1 DEF FlattenSeq
  <2>2. Laid(p, D, Marked(p)) /\ Ordered(p, D)
    BY <1>5, <1>6, <2>1 DEF Laid, Ordered, n
  <2>3. Marked(p) \in Seq(S)
    BY <1>5, <2>1
  <2> QED
    BY <2>2, <2>3 DEF S, A
<1>7. CASE n # 0
  <2>1. PICK f : Joins(f, e) /\ FlattenSeq(e) = f[n]
    <3>1. Len(e) \in Nat \ {0}
      BY <1>1, <1>4, <1>7
    <3> QED
      BY <3>1, <1>4, JoinedIs
  <2>2. \A k \in 1 .. n : f[k] \in Seq(S)
    BY <1>4, <2>1, FlattenTyped
  <2> DEFINE D == [k \in 0 .. n |-> IF k = 0 THEN 0 ELSE Len(f[k])]
             prior(k) == IF k = 1 THEN <<>> ELSE f[k - 1]
  <2>3. /\ D \in [0 .. n -> Nat] /\ D[0] = 0 /\ \A k \in 1 .. n : D[k] = Len(f[k])
    BY <1>1, <2>2
  <2>4. ASSUME NEW k \in 1 .. n
        PROVE  /\ D[k] = D[k - 1] + 1 + Len(p[k])
               /\ f[k][D[k - 1] + 1] = Marker
               /\ \A m \in 1 .. Len(p[k]) : f[k][D[k - 1] + 1 + m] = p[k][m]
               /\ k # 1 => \A j \in 1 .. D[k - 1] : f[k][j] = f[k - 1][j]
    <3>1. f[k] = IF k = 1 THEN e[k] ELSE f[k - 1] \o e[k]
      BY <1>4, <2>1, JoinsStep
    <3>2. e[k] \in Seq(S) /\ e[k] = WORD_BOUNDARY \o p[k] /\ p[k] \in Seq(S)
      BY <1>2, <1>4
    <3>3. prior(k) \in Seq(S) /\ Len(prior(k)) = D[k - 1]
      <4>1. CASE k = 1
        BY <2>3, <4>1
      <4>2. CASE k # 1
        <5>1. k - 1 \in 1 .. n
          BY <1>1, <4>2
        <5> QED
          BY <2>2, <2>3, <4>2, <5>1
      <4> QED
        BY <4>1, <4>2
    <3>4. f[k] = prior(k) \o e[k]
      <4>1. CASE k = 1
        <5>1. <<>> \o e[k] = e[k]
          BY <3>2
        <5> QED
          BY <3>1, <4>1, <5>1
      <4>2. CASE k # 1
        BY <3>1, <4>2
      <4> QED
        BY <4>1, <4>2
    <3>5. k # 1 => prior(k) = f[k - 1]
      OBVIOUS
    <3> HIDE DEF D, prior
    <3>6. /\ Len(f[k]) = D[k - 1] + 1 + Len(p[k])
          /\ \A j \in 1 .. D[k - 1] : f[k][j] = prior(k)[j]
          /\ f[k][D[k - 1] + 1] = Marker
          /\ \A m \in 1 .. Len(p[k]) : f[k][D[k - 1] + 1 + m] = p[k][m]
      <4> DEFINE s == prior(k)
                 c == e[k]
                 word == p[k]
                 w == f[k]
      <4>1. s \in Seq(S) /\ c \in Seq(S) /\ word \in Seq(S) /\ c = WORD_BOUNDARY \o word /\ w = s \o c
        BY <3>2, <3>3, <3>4
      <4>2. Len(s) = D[k - 1]
        BY <3>3
      <4> HIDE DEF s, c, word, w
      <4>3. MarkedAfter(s, word, w)
        BY <4>1, WordJoined
      <4> QED
        BY <4>2, <4>3 DEF s, word, w, MarkedAfter
    <3> QED
      BY <2>3, <3>5, <3>6
  <2> HIDE DEF D, prior
  <2>5. Ordered(p, D)
    <3>1. \A k \in 1 .. Len(p) : D[k - 1] <= D[k]
      <4> SUFFICES ASSUME NEW k \in 1 .. n PROVE D[k - 1] <= D[k]
        BY DEF n
      <4>1. D[k] = D[k - 1] + 1 + Len(p[k]) /\ Len(p[k]) \in Nat
        BY <1>1, <2>4
      <4>2. k - 1 \in 0 .. n
        BY <1>1
      <4>3. D[k - 1] \in Nat
        BY <2>3, <4>2
      <4> QED
        BY <4>1, <4>3
    <3> QED
      BY <1>1, <2>3, <3>1, EndsOrdered DEF n
  <2>6. \A b \in 1 .. n : \A k \in 1 .. b : \A j \in 1 .. D[k] : f[b][j] = f[k][j]
    <3> DEFINE H(b) == \A k \in 1 .. b : \A j \in 1 .. D[k] : f[b][j] = f[k][j]
               G == {b \in Nat : b \in 1 .. n => H(b)}
    <3>1. 0 \in G
      OBVIOUS
    <3>2. ASSUME NEW b \in Nat, b \in G PROVE b + 1 \in G
      <4> SUFFICES ASSUME b + 1 \in 1 .. n, NEW k \in 1 .. b + 1, NEW j \in 1 .. D[k]
                   PROVE  f[b + 1][j] = f[k][j]
        OBVIOUS
      <4>1. CASE k = b + 1
        BY <4>1
      <4>2. CASE k # b + 1
        <5>1. k \in 1 .. b /\ b \in 1 .. n /\ b # 0 /\ b + 1 # 1 /\ (b + 1) - 1 = b
          BY <1>1, <4>2
        <5>2. f[b][j] = f[k][j]
          BY <3>2, <5>1
        <5>3. j \in 1 .. D[b]
          <6>1. D[k] <= D[b]
            BY <1>1, <2>5, <5>1 DEF Ordered, n
          <6>2. D[k] \in Nat /\ D[b] \in Nat
            BY <1>1, <2>3, <5>1
          <6> QED
            BY <6>1, <6>2
        <5>4. \A i \in 1 .. D[b] : f[b + 1][i] = f[b][i]
          BY <2>4, <5>1
        <5> QED
          BY <5>2, <5>3, <5>4
      <4> QED
        BY <4>1, <4>2
    <3>3. Nat \subseteq G
      <4> HIDE DEF G
      <4> QED
        BY <3>1, <3>2, Inductive
    <3> QED
      BY <1>1, <3>3
  <2>7. n \in 1 .. n /\ Len(Marked(p)) = D[n] /\ Marked(p) = f[n]
    BY <1>1, <1>5, <1>7, <2>1, <2>3
  <2>8. ASSUME NEW k \in 1 .. n
        PROVE  /\ f[n][D[k - 1] + 1] = Marker
               /\ \A m \in 1 .. Len(p[k]) : f[n][D[k - 1] + 1 + m] = p[k][m]
    <3>1. /\ D[k] = D[k - 1] + 1 + Len(p[k]) /\ Len(p[k]) \in Nat /\ D[k - 1] \in Nat
      <4>1. k - 1 \in 0 .. n
        BY <1>1
      <4> QED
        BY <1>1, <2>3, <2>4, <4>1
    <3>2. \A j \in 1 .. D[k] : f[n][j] = f[k][j]
      BY <2>6, <2>7
    <3>3. D[k - 1] + 1 \in 1 .. D[k]
      BY <3>1
    <3>4. f[n][D[k - 1] + 1] = Marker
      BY <2>4, <3>2, <3>3
    <3>5. ASSUME NEW m \in 1 .. Len(p[k]) PROVE f[n][D[k - 1] + 1 + m] = p[k][m]
      <4>1. D[k - 1] + 1 + m \in 1 .. D[k]
        BY <3>1
      <4> QED
        BY <2>4, <3>2, <4>1
    <3> QED
      BY <3>4, <3>5
  <2>9. Laid(p, D, Marked(p))
    BY <2>3, <2>4, <2>7, <2>8 DEF Laid, n
  <2>10. Marked(p) \in Seq(S)
    BY <2>2, <2>7
  <2> QED
    BY <2>5, <2>9, <2>10 DEF S, A
<1> QED
  BY <1>6, <1>7

-----------------------------------------------------------------------------
(* What encode_phrase recurses to.                                         *)

Coded(v, chars, f, i) ==
  IF i > Len(chars) THEN <<>>
  ELSE LET ids == Fitting(v, chars, i)
           id == Longest(v, ids)
       IN CASE ids # {} -> <<id>> \o f[i + Len(v[id])]
            [] ids = {} /\ chars[i] = Marker -> f[i + 1]
            [] OTHER -> << 0 >>
Codes(v, chars, f) == f = [i \in 1 .. Len(chars) + 1 |-> Coded(v, chars, f, i)]

\* encode_phrase is what the chosen function finds from the first character on.
LEMMA EncodeIs ==
  ASSUME NEW v, NEW p
  PROVE  encode_phrase(v, p) = (CHOOSE f : Codes(v, Marked(p), f))[1]
  BY DEF encode_phrase, Codes, Coded

\* A token that fits is spelled where it fits.
LEMMA FittingIs ==
  ASSUME NEW v, Vocab(v), NEW S, NEW chars \in Seq(S), NEW i \in 1 .. Len(chars),
         NEW id \in Fitting(v, chars, i)
  PROVE  /\ id \in DOMAIN v /\ id \in Nat /\ v[id] # <<>> /\ v[id] \notin Special
         /\ Len(v[id]) \in Nat /\ Len(v[id]) >= 1 /\ i + Len(v[id]) <= Len(chars) + 1
         /\ \A j \in 1 .. Len(v[id]) : v[id][j] = chars[i + j - 1]
<1> DEFINE t == v[id]
           n == Len(chars)
           rest == SubSeq(chars, i, n)
<1>1. id \in DOMAIN v /\ t # <<>> /\ t \notin Special /\ IsPrefix(t, rest)
  BY DEF Fitting
<1>2. v \in Seq(Seq(Alphabet(v)))
  BY DEF Vocab
<1>3. id \in Nat /\ t \in Seq(Alphabet(v))
  BY <1>1, <1>2
<1>4. n \in Nat /\ i \in Nat /\ i >= 1 /\ i <= n
  OBVIOUS
<1>5. /\ rest \in Seq(S) /\ Len(rest) = n - i + 1
      /\ \A j \in 1 .. n - i + 1 : rest[j] = chars[i + j - 1]
  BY <1>4
<1> HIDE DEF t, n, rest
<1>6. Len(t) \in Nat /\ Len(t) >= 1
  BY <1>1, <1>3
<1>7. Len(t) <= Len(rest) /\ SubSeq(t, 1, Len(t)) = SubSeq(rest, 1, Len(t))
  BY <1>1 DEF IsPrefix
<1>8. \A j \in 1 .. Len(t) : t[j] = rest[j]
  <2> SUFFICES ASSUME NEW j \in 1 .. Len(t) PROVE t[j] = rest[j]
    OBVIOUS
  <2>1. SubSeq(t, 1, Len(t))[j] = t[j]
    BY <1>3, <1>6
  <2>2. SubSeq(rest, 1, Len(t))[j] = rest[j]
    BY <1>5, <1>6, <1>7
  <2> QED
    BY <1>7, <2>1, <2>2
<1>9. i + Len(t) <= n + 1
  BY <1>4, <1>5, <1>6, <1>7
<1>10. \A j \in 1 .. Len(t) : t[j] = chars[i + j - 1]
  <2> SUFFICES ASSUME NEW j \in 1 .. Len(t) PROVE t[j] = chars[i + j - 1]
    OBVIOUS
  <2>1. j \in 1 .. n - i + 1
    BY <1>4, <1>6, <1>9
  <2> QED
    BY <1>5, <1>8, <2>1
<1> QED
  BY <1>1, <1>3, <1>6, <1>9, <1>10 DEF t, n

\* Of the tokens that fit, one is the longest, and the first of its length.
LEMMA LongestIs ==
  ASSUME NEW v, NEW ids, NEW n \in Nat, ids # {}, ids \subseteq Nat,
         \A id \in ids : Len(v[id]) \in Nat /\ Len(v[id]) <= n
  PROVE  Longest(v, ids) \in ids
<1> DEFINE T == {n - Len(v[id]) : id \in ids}
<1>1. T \in SUBSET Nat /\ T # {}
  <2>1. \A id \in ids : n - Len(v[id]) \in Nat
    OBVIOUS
  <2>2. \E id \in ids : TRUE
    OBVIOUS
  <2>3. T # {}
    BY <2>2
  <2> QED
    BY <2>1, <2>3
<1>2. PICK t \in T : \A u \in T : t <= u
  BY <1>1, LeastExists
<1>3. PICK m \in ids : t = n - Len(v[m])
  BY <1>2
<1>4. \A id \in ids : Len(v[id]) <= Len(v[m])
  <2> SUFFICES ASSUME NEW id \in ids PROVE Len(v[id]) <= Len(v[m])
    OBVIOUS
  <2>1. t <= n - Len(v[id])
    BY <1>2
  <2>2. Len(v[id]) \in Nat /\ Len(v[m]) \in Nat
    OBVIOUS
  <2> QED
    BY <1>3, <2>1, <2>2
<1> DEFINE U == {id \in ids : Len(v[id]) = Len(v[m])}
<1>5. U \in SUBSET Nat /\ U # {}
  OBVIOUS
<1>6. PICK a \in U : \A u \in U : a <= u
  BY <1>5, LeastExists
<1>7. /\ a \in ids
      /\ \A other \in ids : \/ Len(v[other]) < Len(v[a])
                            \/ Len(v[other]) = Len(v[a]) /\ a <= other
  <2>1. a \in ids /\ Len(v[a]) = Len(v[m])
    BY <1>6
  <2> SUFFICES ASSUME NEW other \in ids
               PROVE  \/ Len(v[other]) < Len(v[a])
                      \/ Len(v[other]) = Len(v[a]) /\ a <= other
    BY <2>1
  <2>2. Len(v[other]) \in Nat /\ Len(v[a]) \in Nat /\ Len(v[other]) <= Len(v[a])
    BY <1>4, <2>1
  <2>3. Len(v[other]) = Len(v[a]) => a <= other
    BY <1>6, <2>1
  <2> QED
    BY <2>2, <2>3
<1> QED
  BY <1>7 DEF Longest

\* A token that fits is found where one is.
LEMMA FoundIs ==
  ASSUME NEW v, Vocab(v), NEW S, NEW chars \in Seq(S), NEW i \in 1 .. Len(chars),
         Fitting(v, chars, i) # {}
  PROVE  Longest(v, Fitting(v, chars, i)) \in Fitting(v, chars, i)
<1> DEFINE ids == Fitting(v, chars, i)
<1>1. \A id \in ids : id \in Nat /\ Len(v[id]) \in Nat /\ Len(v[id]) <= Len(chars)
  <2> SUFFICES ASSUME NEW id \in ids PROVE id \in Nat /\ Len(v[id]) \in Nat /\ Len(v[id]) <= Len(chars)
    OBVIOUS
  <2>1. id \in Nat /\ Len(v[id]) \in Nat /\ i + Len(v[id]) <= Len(chars) + 1
    BY FittingIs
  <2>2. Len(chars) \in Nat
    OBVIOUS
  <2> QED
    BY <2>1, <2>2
<1>2. Len(chars) \in Nat /\ ids # {}
  OBVIOUS
<1> HIDE DEF ids
<1>3. ids \subseteq Nat
  BY <1>1
<1> QED
  BY <1>1, <1>2, <1>3, LongestIs DEF ids

\* Where the recursion goes is behind the place it comes from.
LEMMA CodedIs ==
  ASSUME NEW v, Vocab(v), NEW S, NEW chars \in Seq(S), NEW i \in 1 .. Len(chars) + 1, NEW f
  PROVE  \/ i = Len(chars) + 1 /\ Coded(v, chars, f, i) = <<>>
         \/ i <= Len(chars) /\ Fitting(v, chars, i) = {} /\ chars[i] # Marker
            /\ Coded(v, chars, f, i) = << 0 >>
         \/ i <= Len(chars) /\ Fitting(v, chars, i) = {} /\ chars[i] = Marker
            /\ Coded(v, chars, f, i) = f[i + 1]
         \/ /\ i <= Len(chars) /\ Fitting(v, chars, i) # {}
            /\ Coded(v, chars, f, i) = <<Longest(v, Fitting(v, chars, i))>>
                                         \o f[i + Len(v[Longest(v, Fitting(v, chars, i))])]
<1> DEFINE ids == Fitting(v, chars, i)
           id == Longest(v, ids)
<1>1. Len(chars) \in Nat /\ i \in Nat /\ i <= Len(chars) + 1
  OBVIOUS
<1>2. CASE i > Len(chars)
  <2>1. i = Len(chars) + 1
    BY <1>1, <1>2
  <2> QED
    BY <1>2, <2>1 DEF Coded
<1>3. CASE ~(i > Len(chars)) /\ ids # {}
  <2>1. Coded(v, chars, f, i) = <<id>> \o f[i + Len(v[id])]
    BY <1>3 DEF Coded
  <2>2. i <= Len(chars)
    BY <1>1, <1>3
  <2> QED
    BY <1>3, <2>1, <2>2
<1>4. CASE ~(i > Len(chars)) /\ ids = {} /\ chars[i] = Marker
  <2>1. Coded(v, chars, f, i) = f[i + 1]
    BY <1>4 DEF Coded
  <2>2. i <= Len(chars)
    BY <1>1, <1>4
  <2> QED
    BY <1>4, <2>1, <2>2
<1>5. CASE ~(i > Len(chars)) /\ ids = {} /\ chars[i] # Marker
  <2>1. Coded(v, chars, f, i) = << 0 >>
    BY <1>5 DEF Coded
  <2>2. i <= Len(chars)
    BY <1>1, <1>5
  <2> QED
    BY <1>5, <2>1, <2>2
<1> QED
  BY <1>2, <1>3, <1>4, <1>5

\* What is coded depends on the places behind alone.
LEMMA CodedAgrees ==
  ASSUME NEW v, Vocab(v), NEW S, NEW chars \in Seq(S), NEW i \in 1 .. Len(chars) + 1,
         NEW f, NEW g, \A k \in i + 1 .. Len(chars) + 1 : f[k] = g[k]
  PROVE  Coded(v, chars, f, i) = Coded(v, chars, g, i)
<1> DEFINE ids == Fitting(v, chars, i)
           id == Longest(v, ids)
<1>1. Len(chars) \in Nat /\ i \in Nat /\ i >= 1
  OBVIOUS
<1>2. CASE i > Len(chars)
  BY <1>2 DEF Coded
<1>3. CASE ~(i > Len(chars))
  <2>1. i \in 1 .. Len(chars)
    BY <1>1, <1>3
  <2>2. f[i + 1] = g[i + 1]
    BY <1>1, <2>1
  <2>3. ids # {} => f[i + Len(v[id])] = g[i + Len(v[id])]
    <3> SUFFICES ASSUME ids # {} PROVE f[i + Len(v[id])] = g[i + Len(v[id])]
      OBVIOUS
    <3>1. id \in ids
      BY <2>1, FoundIs
    <3> HIDE DEF id
    <3>2. Len(v[id]) \in Nat /\ Len(v[id]) >= 1 /\ i + Len(v[id]) <= Len(chars) + 1
      BY <2>1, <3>1, FittingIs
    <3> DEFINE j == i + Len(v[id])
    <3>3. j \in i + 1 .. Len(chars) + 1
      BY <1>1, <3>2
    <3> HIDE DEF j
    <3>4. f[j] = g[j]
      BY <3>3
    <3> QED
      BY <3>4 DEF j
  <2> QED
    BY <2>2, <2>3 DEF Coded
<1> QED
  BY <1>2, <1>3

\* There is such a function, so CHOOSE finds it.
LEMMA CodesExist ==
  ASSUME NEW v, Vocab(v), NEW S, NEW chars \in Seq(S)
  PROVE  \E f : Codes(v, chars, f)
<1> DEFINE n == Len(chars)
           From(k) == (n + 1) - k .. n + 1
           Upto(f, k) == f = [i \in From(k) |-> Coded(v, chars, f, i)]
           Has(k) == \E f : Upto(f, k)
           G == {k \in Nat : k <= n => Has(k)}
<1>0. n \in Nat
  OBVIOUS
<1> HIDE DEF n
<1>1. 0 \in G
  <2> DEFINE e == [i \in From(0) |-> Coded(v, chars, [x \in {} |-> 0], i)]
  <2>1. \A i \in From(0) : Coded(v, chars, [x \in {} |-> 0], i) = Coded(v, chars, e, i)
    <3> SUFFICES ASSUME NEW i \in From(0)
                 PROVE  Coded(v, chars, [x \in {} |-> 0], i) = Coded(v, chars, e, i)
      OBVIOUS
    <3>1. i = n + 1
      BY <1>0
    <3>2. i > Len(chars)
      BY <1>0, <3>1 DEF n
    <3> QED
      BY <3>2 DEF Coded
  <2>2. Upto(e, 0)
    BY <2>1
  <2> HIDE DEF Upto
  <2>3. Has(0)
    BY <2>2
  <2> HIDE DEF Has
  <2> QED
    BY <2>3
<1>2. ASSUME NEW k \in Nat, k \in G PROVE k + 1 \in G
  <2> SUFFICES ASSUME k + 1 <= n PROVE Has(k + 1)
    OBVIOUS
  <2>1. PICK f : Upto(f, k)
    BY <1>0, <1>2
  <2> DEFINE a == (n + 1) - (k + 1)
             b == Coded(v, chars, f, a)
             g == [i \in From(k + 1) |-> IF i = a THEN b ELSE f[i]]
  <2>2. a \in 1 .. n /\ a \in Nat /\ From(k) = a + 1 .. n + 1 /\ From(k + 1) = a .. n + 1
    BY <1>0
  <2>3. \A i \in a + 1 .. n + 1 : f[i] = Coded(v, chars, f, i)
    BY <2>1, <2>2
  <2> HIDE DEF b, a
  <2>4. g[a] = b /\ \A i \in a + 1 .. n + 1 : g[i] = f[i]
    BY <1>0, <2>2
  <2> HIDE DEF g, From
  <2>5. ASSUME NEW i \in a .. n + 1 PROVE Coded(v, chars, g, i) = Coded(v, chars, f, i)
    <3>1. i \in 1 .. Len(chars) + 1
      BY <1>0, <2>2 DEF n
    <3>2. \A j \in i + 1 .. Len(chars) + 1 : g[j] = f[j]
      BY <1>0, <2>2, <2>4 DEF n
    <3> QED
      BY <3>1, <3>2, CodedAgrees
  <2>6. ASSUME NEW i \in a .. n + 1
        PROVE  Coded(v, chars, g, i) = IF i = a THEN b ELSE f[i]
    <3>1. CASE i = a
      BY <2>5, <3>1 DEF b
    <3>2. CASE i # a
      <4>1. i \in a + 1 .. n + 1
        BY <1>0, <2>2, <3>2
      <4> QED
        BY <2>3, <2>5, <3>2, <4>1
    <3> QED
      BY <3>1, <3>2
  <2>7. Upto(g, k + 1)
    BY <2>2, <2>6 DEF g
  <2> HIDE DEF Upto
  <2> QED
    BY <2>7
<1>3. Nat \subseteq G
  <2> HIDE DEF G
  <2> QED
    BY <1>1, <1>2, Inductive
<1>4. PICK f : Upto(f, n)
  BY <1>0, <1>3
<1>5. From(n) = 1 .. n + 1
  BY <1>0
<1> QED
  BY <1>4, <1>5 DEF Codes, n

\* The chosen function obeys the recursion.
LEMMA CodeAt ==
  ASSUME NEW v, NEW chars, NEW f, Codes(v, chars, f), NEW i \in 1 .. Len(chars) + 1
  PROVE  f[i] = Coded(v, chars, f, i)
<1> DEFINE e == [k \in 1 .. Len(chars) + 1 |-> Coded(v, chars, f, k)]
<1>1. f = e
  BY DEF Codes
<1>2. e[i] = Coded(v, chars, f, i)
  OBVIOUS
<1> HIDE DEF e
<1> QED
  BY <1>1, <1>2

\* A phrase is coded in ids.
LEMMA CodesTyped ==
  ASSUME NEW v, Vocab(v), NEW S, NEW chars \in Seq(S), NEW f, Codes(v, chars, f)
  PROVE  \A i \in 1 .. Len(chars) + 1 : f[i] \in Seq(Nat)
<1> DEFINE n == Len(chars)
           H(k) == \A i \in (n + 1) - k .. n + 1 : f[i] \in Seq(Nat)
           G == {k \in Nat : k <= n => H(k)}
<1>0. n \in Nat
  OBVIOUS
<1>a. ASSUME NEW i \in 1 .. n + 1, \A j \in i + 1 .. n + 1 : f[j] \in Seq(Nat)
      PROVE  f[i] \in Seq(Nat)
  <2>1. f[i] = Coded(v, chars, f, i)
    BY CodeAt
  <2> DEFINE id == Longest(v, Fitting(v, chars, i))
  <2>2. \/ i = n + 1 /\ Coded(v, chars, f, i) = <<>>
        \/ i <= n /\ Coded(v, chars, f, i) = << 0 >>
        \/ i <= n /\ Coded(v, chars, f, i) = f[i + 1]
        \/ i <= n /\ Fitting(v, chars, i) # {} /\ Coded(v, chars, f, i) = <<id>> \o f[i + Len(v[id])]
    BY CodedIs
  <2>3. CASE f[i] = <<>> \/ f[i] = << 0 >>
    <3>1. <<>> \in Seq(Nat) /\ << 0 >> \in Seq(Nat)
      OBVIOUS
    <3> QED
      BY <2>3, <3>1
  <2>4. CASE i <= n /\ f[i] = f[i + 1]
    <3>1. i + 1 \in i + 1 .. n + 1
      BY <1>0, <2>4
    <3> QED
      BY <1>a, <2>4, <3>1
  <2>5. CASE i <= n /\ Fitting(v, chars, i) # {} /\ f[i] = <<id>> \o f[i + Len(v[id])]
    <3>1. i \in 1 .. n
      BY <1>0, <2>5
    <3>2. id \in Fitting(v, chars, i)
      BY <2>5, <3>1, FoundIs
    <3> HIDE DEF id
    <3>3. id \in Nat /\ Len(v[id]) \in Nat /\ Len(v[id]) >= 1 /\ i + Len(v[id]) <= n + 1
      BY <3>1, <3>2, FittingIs
    <3> DEFINE j == i + Len(v[id])
    <3>4. j \in i + 1 .. n + 1
      BY <1>0, <3>1, <3>3
    <3> HIDE DEF j
    <3>5. f[j] \in Seq(Nat)
      BY <1>a, <3>4
    <3>6. f[i] = <<id>> \o f[j]
      BY <2>5 DEF j
    <3> QED
      BY <3>3, <3>5, <3>6
  <2> QED
    BY <2>1, <2>2, <2>3, <2>4, <2>5
<1> HIDE DEF n
<1>1. 0 \in G
  <2>1. ASSUME NEW i \in (n + 1) - 0 .. n + 1 PROVE f[i] \in Seq(Nat)
    <3>1. i \in 1 .. n + 1 /\ \A j \in i + 1 .. n + 1 : FALSE
      BY <1>0
    <3> QED
      BY <1>a, <3>1
  <2> QED
    BY <2>1
<1>2. ASSUME NEW k \in Nat, k \in G PROVE k + 1 \in G
  <2> SUFFICES ASSUME k + 1 <= n, NEW i \in (n + 1) - (k + 1) .. n + 1 PROVE f[i] \in Seq(Nat)
    OBVIOUS
  <2>1. H(k)
    BY <1>0, <1>2
  <2>2. i \in 1 .. n + 1 /\ \A j \in i + 1 .. n + 1 : j \in (n + 1) - k .. n + 1
    BY <1>0
  <2> QED
    BY <1>a, <2>1, <2>2
<1>3. Nat \subseteq G
  <2> HIDE DEF G
  <2> QED
    BY <1>1, <1>2, Inductive
<1>4. H(n)
  BY <1>0, <1>3
<1>5. (n + 1) - n = 1
  BY <1>0
<1> QED
  BY <1>4, <1>5 DEF n

\* At place i a token begins, or nothing does.
NextFits(v, chars, f, i, rest) ==
  i <= Len(chars) /\ \E id \in Fitting(v, chars, i) : rest = <<id>> \o f[i + Len(v[id])]
CodedAs(v, chars, f, i) ==
  \/ i = Len(chars) + 1 /\ f[i] = <<>>
  \/ i <= Len(chars) /\ f[i] = << 0 >>
  \/ NextFits(v, chars, f, i, f[i])

\* Where the marker has a token, none is skipped.
LEMMA CodeStep ==
  ASSUME NEW v, Vocab(v), NEW S, NEW chars \in Seq(S), NEW f, Codes(v, chars, f),
         WORD_BOUNDARY \in Range(v), NEW i \in 1 .. Len(chars) + 1
  PROVE  CodedAs(v, chars, f, i)
<1> DEFINE n == Len(chars)
           ids == Fitting(v, chars, i)
<1>0. n \in Nat /\ i \in Nat
  OBVIOUS
<1>1. f[i] = Coded(v, chars, f, i)
  BY CodeAt
<1>2. i <= n /\ chars[i] = Marker => ids # {}
  <2> SUFFICES ASSUME i <= n, chars[i] = Marker PROVE ids # {}
    OBVIOUS
  <2>1. PICK b \in DOMAIN v : v[b] = WORD_BOUNDARY
    BY DEF Range
  <2>2. WORD_BOUNDARY \notin Special \cup {<<>>} /\ Len(WORD_BOUNDARY) = 1 /\ WORD_BOUNDARY[1] = Marker
    BY DEF WORD_BOUNDARY, Special, Marker
  <2> DEFINE rest == SubSeq(chars, i, n)
             m == WORD_BOUNDARY
  <2>3. rest \in Seq(S) /\ Len(rest) = n - i + 1 /\ rest[1] = Marker
    BY <1>0
  <2>a. m \in Seq({Marker})
    BY DEF WORD_BOUNDARY
  <2> HIDE DEF rest, n, m
  <2>4. SubSeq(m, 1, Len(m)) = SubSeq(rest, 1, Len(m)) /\ Len(m) <= Len(rest)
    <3>1. Len(m) = 1 /\ m[1] = Marker
      BY <2>2 DEF m
    <3>2. Len(rest) \in Nat /\ Len(rest) >= 1
      BY <1>0, <2>3
    <3>3. /\ SubSeq(m, 1, 1) \in Seq({Marker}) /\ Len(SubSeq(m, 1, 1)) = 1
          /\ SubSeq(m, 1, 1)[1] = Marker
      BY <2>a, <3>1
    <3>4. SubSeq(rest, 1, 1) \in Seq(S) /\ Len(SubSeq(rest, 1, 1)) = 1 /\ SubSeq(rest, 1, 1)[1] = Marker
      BY <2>3, <3>2
    <3> DEFINE x == SubSeq(m, 1, 1)
               y == SubSeq(rest, 1, 1)
    <3> HIDE DEF x, y
    <3>5. x = y
      <4>1. /\ x \in Seq({Marker} \cup S) /\ y \in Seq({Marker} \cup S) /\ Len(x) = 1 /\ Len(y) = 1
            /\ x[1] = y[1]
        BY <3>3, <3>4 DEF x, y
      <4> QED
        BY <4>1
    <3> QED
      BY <3>1, <3>2, <3>5 DEF x, y
  <2>5. IsPrefix(v[b], rest)
    BY <2>1, <2>4 DEF IsPrefix, m
  <2>6. b \in ids
    BY <2>1, <2>2, <2>5 DEF Fitting, rest, n
  <2> QED
    BY <2>6
<1> DEFINE id == Longest(v, ids)
<1>3. \/ i = n + 1 /\ f[i] = <<>>
      \/ i <= n /\ f[i] = << 0 >>
      \/ i <= n /\ ids = {} /\ chars[i] = Marker
      \/ i <= n /\ ids # {} /\ f[i] = <<id>> \o f[i + Len(v[id])]
  <2> DEFINE c == Coded(v, chars, f, i)
             r == <<id>> \o f[i + Len(v[id])]
  <2>1. \/ i = n + 1 /\ c = <<>>
        \/ i <= n /\ ids = {} /\ chars[i] # Marker /\ c = << 0 >>
        \/ i <= n /\ ids = {} /\ chars[i] = Marker /\ c = f[i + 1]
        \/ i <= n /\ ids # {} /\ c = r
    BY CodedIs
  <2>2. f[i] = c
    BY <1>1
  <2> HIDE DEF c, r, ids
  <2> QED
    BY <2>1, <2>2 DEF r
<1>4. CASE i <= n /\ ids # {} /\ f[i] = <<id>> \o f[i + Len(v[id])]
  <2>1. i \in 1 .. Len(chars)
    BY <1>0, <1>4
  <2>2. id \in ids
    BY <1>4, <2>1, FoundIs
  <2>3. NextFits(v, chars, f, i, f[i])
    BY <1>4, <2>2 DEF NextFits
  <2> QED
    BY <2>3 DEF CodedAs
<1> QED
  BY <1>2, <1>3, <1>4 DEF CodedAs

-----------------------------------------------------------------------------
(* A phrase read back.                                                     *)

\* The words are those of the phrase up to a letter of word n.
InWord(p, ends, i, w, ws, n, m) ==
  /\ i = ends[n - 1] + 2 + m
  /\ Len(ws) = n - 1 /\ \A k \in 1 .. n - 1 : ws[k].text = p[k]
  /\ w.text = SubSeq(p[n], 1, m)
ReadTo(p, ends, i, w, ws) ==
  \/ i = 1 /\ ws = <<>> /\ w.text = <<>>
  \/ \E n \in 1 .. Len(p) : \E m \in 0 .. Len(p[n]) : InWord(p, ends, i, w, ws, n, m)

\* A token that is spelled at place i, with a marker at most at its head.
Speaks(chars, i, t) ==
  /\ Len(t) \in Nat /\ Len(t) >= 1 /\ i + Len(t) <= Len(chars) + 1
  /\ \A j \in 1 .. Len(t) : t[j] = chars[i + j - 1]
  /\ \A j \in 2 .. Len(t) : t[j] # Marker

PhraseAt(p, ends, chars) == Phrase(p) /\ Laid(p, ends, chars) /\ Ordered(p, ends)

\* The bounds of the words of a phrase.
LEMMA PhraseIs ==
  ASSUME NEW p, NEW ends, NEW chars, PhraseAt(p, ends, chars)
  PROVE  /\ Len(p) \in Nat /\ Len(chars) = ends[Len(p)] /\ ends[0] = 0
         /\ \A k \in 0 .. Len(p) : ends[k] \in Nat
         /\ \A k \in 1 .. Len(p) : /\ p[k] \in Seq(Alphabet(p)) /\ Len(p[k]) \in Nat /\ Len(p[k]) >= 1
                                   /\ p[k] # <<>>
                                   /\ ends[k] = ends[k - 1] + 1 + Len(p[k])
                                   /\ ends[k - 1] \in Nat /\ ends[k] \in Nat
                                   /\ ends[k] <= ends[Len(p)]
                                   /\ chars[ends[k - 1] + 1] = Marker
         /\ Len(chars) \in Nat
<1>1. p \in Seq(Seq(Alphabet(p)) \ {<<>>})
  BY DEF PhraseAt, Phrase
<1>2. Len(p) \in Nat /\ \A k \in 1 .. Len(p) : p[k] \in Seq(Alphabet(p)) /\ p[k] # <<>>
  BY <1>1
<1>3. \A k \in 1 .. Len(p) : Len(p[k]) \in Nat /\ Len(p[k]) >= 1
  BY <1>2
<1>4. \A k \in 0 .. Len(p) : ends[k] \in Nat
  BY DEF PhraseAt, Laid
<1>5. \A k \in 1 .. Len(p) : k - 1 \in 0 .. Len(p) /\ k \in 0 .. Len(p) /\ Len(p) \in 0 .. Len(p)
  BY <1>2
<1>6. \A k \in 1 .. Len(p) : k <= Len(p) /\ ends[k] <= ends[Len(p)]
  BY <1>5 DEF PhraseAt, Ordered
<1>7. \A k \in 1 .. Len(p) : /\ ends[k] = ends[k - 1] + 1 + Len(p[k])
                             /\ chars[ends[k - 1] + 1] = Marker
  BY DEF PhraseAt, Laid
<1>8. Len(chars) = ends[Len(p)] /\ ends[0] = 0
  BY DEF PhraseAt, Laid
<1>9. Len(chars) \in Nat
  BY <1>2, <1>4, <1>8
<1> QED
  BY <1>2, <1>3, <1>4, <1>5, <1>6, <1>7, <1>8, <1>9

\* A letter of a word among the characters, and it is no marker.
LEMMA LettersOf ==
  ASSUME NEW p, NEW ends, NEW chars, PhraseAt(p, ends, chars),
         NEW n \in 1 .. Len(p), NEW m \in 1 .. Len(p[n])
  PROVE  chars[ends[n - 1] + 1 + m] = p[n][m] /\ p[n][m] # Marker
<1>1. chars[ends[n - 1] + 1 + m] = p[n][m]
  BY DEF PhraseAt, Laid
<1>2. p[n] \in Seq(Alphabet(p)) /\ Marker \notin Alphabet(p)
  BY PhraseIs DEF PhraseAt, Phrase
<1>3. p[n][m] \in Alphabet(p)
  BY <1>2
<1> QED
  BY <1>1, <1>2, <1>3

\* Behind letter m of word n, at place s, come r characters without a marker.
PlacedAt(p, ends, n, m, s) == m \in 0 .. Len(p[n]) /\ s = ends[n - 1] + 1 + m
Plain(chars, s, r) == \A j \in 1 .. r : chars[s + j] # Marker
LiesIn(p, chars, n, m, s, r) ==
  m + r <= Len(p[n]) /\ \A j \in 1 .. r : chars[s + j] = p[n][m + j]

\* Without a marker, a text stays in its word.
LEMMA StaysInWord ==
  ASSUME NEW p, NEW ends, NEW chars, NEW n \in 1 .. Len(p), NEW m, NEW r \in Nat, NEW s \in Nat,
         PhraseAt(p, ends, chars), PlacedAt(p, ends, n, m, s), Plain(chars, s, r),
         s + r <= Len(chars)
  PROVE  LiesIn(p, chars, n, m, s, r)
<1> DEFINE L == Len(p[n])
           a == ends[n - 1]
           z == ends[n]
           e == Len(chars)
           w == Len(p)
<1>1. /\ w \in Nat /\ e \in Nat /\ L \in Nat /\ a \in Nat /\ z \in Nat
      /\ z = a + 1 + L /\ z <= e /\ e = ends[w]
  BY PhraseIs
<1>2. /\ n \in 1 .. w /\ m \in 0 .. L /\ s = a + 1 + m /\ s + r <= e
      /\ \A j \in 1 .. r : chars[s + j] # Marker
  BY DEF PlacedAt, Plain
<1>a. ASSUME NEW k \in 1 .. L PROVE chars[a + 1 + k] = p[n][k]
  BY LettersOf
<1>b. n # w => chars[z + 1] = Marker
  <2> SUFFICES ASSUME n # w PROVE chars[z + 1] = Marker
    OBVIOUS
  <2> DEFINE k == n + 1
  <2>1. k \in 1 .. w /\ k - 1 = n
    BY <1>1, <1>2
  <2> HIDE DEF k
  <2>2. chars[ends[k - 1] + 1] = Marker
    BY <2>1 DEF PhraseAt, Laid
  <2> QED
    BY <2>1, <2>2
<1>c. n = w => z = e
  BY <1>1
<1> HIDE DEF L, a, z, e, w
<1>3. m + r <= L
  <2> SUFFICES ASSUME m + r > L PROVE FALSE
    BY <1>1, <1>2
  <2> DEFINE j == L - m + 1
  <2>1. j \in 1 .. r /\ s + j = z + 1 /\ z + 1 <= e
    BY <1>1, <1>2
  <2>2. chars[z + 1] = Marker
    BY <1>1, <1>b, <1>c, <2>1
  <2> QED
    BY <1>2, <2>1, <2>2
<1>4. ASSUME NEW j \in 1 .. r PROVE chars[s + j] = p[n][m + j]
  <2> DEFINE k == m + j
  <2>1. k \in 1 .. L /\ s + j = a + 1 + k
    BY <1>1, <1>2, <1>3
  <2> HIDE DEF k
  <2>2. chars[a + 1 + k] = p[n][k]
    BY <1>a, <2>1
  <2> QED
    BY <2>1, <2>2 DEF k
<1> QED
  BY <1>3, <1>4 DEF L, LiesIn

\* A text and what follows it.
LEMMA LongerText ==
  ASSUME NEW S, NEW word \in Seq(S), NEW m \in 0 .. Len(word), NEW T, NEW c \in Seq(T),
         m + Len(c) <= Len(word), \A j \in 1 .. Len(c) : c[j] = word[m + j],
         NEW text, text = SubSeq(word, 1, m)
  PROVE  text \o c = SubSeq(word, 1, m + Len(c))
<1>1. /\ text \in Seq(S) /\ Len(text) = m /\ \A j \in 1 .. m : text[j] = word[j]
  OBVIOUS
<1> DEFINE a == text \o c
           b == SubSeq(word, 1, m + Len(c))
           U == S \cup T
           n == m + Len(c)
<1>2. n \in Nat /\ n <= Len(word) /\ Len(c) \in Nat /\ m \in Nat
  OBVIOUS
<1>3. text \in Seq(U) /\ c \in Seq(U) /\ word \in Seq(U)
  BY <1>1
<1> HIDE DEF U
<1>4. a \in Seq(U) /\ Len(a) = n /\ \A j \in 1 .. n : a[j] = word[j]
  <2>1. a \in Seq(U) /\ Len(a) = n
    BY <1>1, <1>3
  <2>2. ASSUME NEW j \in 1 .. n PROVE a[j] = word[j]
    <3>1. CASE j <= m
      <4>1. a[j] = text[j]
        BY <1>1, <1>3, <3>1
      <4> QED
        BY <1>1, <1>2, <3>1, <4>1
    <3>2. CASE ~(j <= m)
      <4>1. j - m \in 1 .. Len(c) /\ m + (j - m) = j
        BY <1>2, <3>2
      <4>2. a[j] = c[j - m]
        BY <1>1, <1>3, <3>2
      <4> QED
        BY <4>1, <4>2
    <3> QED
      BY <3>1, <3>2
  <2> QED
    BY <2>1, <2>2
<1>5. b \in Seq(U) /\ Len(b) = n /\ \A j \in 1 .. n : b[j] = word[j]
  BY <1>2, <1>3
<1> HIDE DEF a, b, n
<1>6. a = b
  BY <1>2, <1>4, <1>5
<1> QED
  BY <1>6 DEF a, b

\* A token adds its letters to the text.
LEMMA SpellText ==
  ASSUME NEW v, NEW w \in Word(v), NEW c \in Seq(Alphabet(v)), NEW f
  PROVE  Spell(w, c, f).text = w.text \o c
<1>1. w.text \in Seq(Alphabet(v))
  BY DEF Word
<1>2. CASE c = <<>>
  <2>1. w.text \o c = w.text
    BY <1>1, <1>2
  <2> QED
    BY <1>2, <2>1 DEF Spell
<1>3. CASE c # <<>>
  BY <1>3 DEF Spell
<1> QED
  BY <1>2, <1>3

\* What a token's text is.
LEMMA TokenIs ==
  ASSUME NEW v, Vocab(v), NEW id, NEW t, t = token_text(v, id), NEW chars, NEW i \in Nat,
         Speaks(chars, i, t)
  PROVE  /\ t \in Seq(Alphabet(v)) /\ t # <<>> /\ Clean(t) \in Seq(Alphabet(v))
         /\ Opens(t) <=> chars[i] = Marker
         /\ Opens(t) => /\ Len(Clean(t)) = Len(t) - 1
                        /\ \A j \in 1 .. Len(t) - 1 : Clean(t)[j] = chars[i + j]
         /\ ~Opens(t) => Clean(t) = t
<1>1. t \in Seq(Alphabet(v))
  BY DEF token_text, Vocab
<1>2. t # <<>> /\ Len(t) \in Nat /\ Len(t) >= 1
  BY <1>1 DEF Speaks
<1>3. t[1] = chars[i]
  <2>1. 1 \in 1 .. Len(t) /\ i + 1 - 1 = i
    BY <1>2
  <2>2. t[1] = chars[i + 1 - 1]
    BY <2>1 DEF Speaks
  <2> QED
    BY <2>1, <2>2
<1>4. Opens(t) <=> chars[i] = Marker
  BY <1>2, <1>3 DEF Opens
<1>5. ASSUME Opens(t)
      PROVE  /\ Clean(t) \in Seq(Alphabet(v)) /\ Len(Clean(t)) = Len(t) - 1
             /\ \A j \in 1 .. Len(t) - 1 : Clean(t)[j] = chars[i + j]
  <2>1. Clean(t) = Tail(t)
    BY <1>5 DEF Clean
  <2>2. /\ Tail(t) \in Seq(Alphabet(v)) /\ Len(Tail(t)) = Len(t) - 1
        /\ \A j \in 1 .. Len(t) - 1 : Tail(t)[j] = t[j + 1]
    BY <1>1, <1>2
  <2>3. ASSUME NEW j \in 1 .. Len(t) - 1 PROVE t[j + 1] = chars[i + j]
    <3>1. j + 1 \in 1 .. Len(t) /\ i + (j + 1) - 1 = i + j
      BY <1>2
    <3>2. t[j + 1] = chars[i + (j + 1) - 1]
      BY <3>1 DEF Speaks
    <3> QED
      BY <3>1, <3>2
  <2> QED
    BY <2>1, <2>2, <2>3
<1>6. ~Opens(t) => Clean(t) = t
  BY DEF Clean
<1> QED
  BY <1>1, <1>2, <1>4, <1>5, <1>6

\* A token that opens word n.
LEMMA OpensWord ==
  ASSUME NEW v, Vocab(v), NEW p, NEW ends, NEW chars, PhraseAt(p, ends, chars),
         NEW id, NEW f, NEW t, t = token_text(v, id), NEW i \in Nat, Speaks(chars, i, t),
         NEW n \in 1 .. Len(p), i = ends[n - 1] + 1,
         NEW b \in Word(v), b.text = <<>>, NEW u,
         Len(u) = n - 1, \A k \in 1 .. n - 1 : u[k].text = p[k]
  PROVE  ReadTo(p, ends, i + Len(t), Spell(b, Clean(t), f), u)
<1> DEFINE c == Clean(t)
           d == Spell(b, c, f)
           l == Len(t)
           a == ends[n - 1]
           m == Len(t) - 1
           e == Len(chars)
<1>1. /\ Len(p) \in Nat /\ e \in Nat /\ a \in Nat /\ chars[a + 1] = Marker
      /\ p[n] \in Seq(Alphabet(p)) /\ Len(p[n]) \in Nat
  BY PhraseIs
<1>2. l \in Nat /\ l >= 1 /\ i + l <= e + 1
  BY DEF Speaks
<1>3. c \in Seq(Alphabet(v)) /\ (Opens(t) <=> chars[i] = Marker)
  BY TokenIs
<1>4. Opens(t)
  BY <1>1, <1>3
<1>5. Len(c) = m /\ \A j \in 1 .. m : c[j] = chars[i + j]
  BY <1>4, TokenIs
<1>6. ASSUME NEW j \in 1 .. m PROVE chars[i + j] # Marker
  <2>1. j + 1 \in 2 .. l /\ j + 1 \in 1 .. l /\ i + (j + 1) - 1 = i + j
    BY <1>2
  <2>2. t[j + 1] # Marker /\ t[j + 1] = chars[i + (j + 1) - 1]
    BY <2>1 DEF Speaks
  <2> QED
    BY <2>1, <2>2
<1>7. m \in Nat /\ i + m <= e /\ m + 1 = l /\ i = a + 1 + 0 /\ 0 \in 0 .. Len(p[n])
  BY SMTT(30), <1>1, <1>2
<1> HIDE DEF c, d, l, m
<1>8. 0 + m <= Len(p[n]) /\ \A j \in 1 .. m : chars[i + j] = p[n][0 + j]
  <2>1. PlacedAt(p, ends, n, 0, i) /\ Plain(chars, i, m) /\ i + m <= Len(chars)
    BY <1>6, <1>7 DEF PlacedAt, Plain
  <2>2. LiesIn(p, chars, n, 0, i, m)
    BY <1>7, <2>1, StaysInWord
  <2> QED
    BY <2>2 DEF LiesIn
<1> HIDE DEF a, e
<1>9. d.text = b.text \o c
  BY <1>3, SpellText DEF d, c
<1>10. d.text = SubSeq(p[n], 1, m)
  <2>1. \A j \in 1 .. Len(c) : c[j] = p[n][0 + j]
    BY <1>5, <1>8
  <2>2. 0 + Len(c) <= Len(p[n])
    BY <1>5, <1>8
  <2>3. b.text = SubSeq(p[n], 1, 0)
    BY <1>1
  <2>4. b.text \o c = SubSeq(p[n], 1, 0 + Len(c))
    BY <1>1, <1>3, <1>7, <2>1, <2>2, <2>3, LongerText DEF c
  <2>5. 0 + Len(c) = m
    BY <1>5, <1>7
  <2> QED
    BY <1>9, <2>4, <2>5
<1>11. m \in 0 .. Len(p[n]) /\ i + l = a + 2 + m
  <2> DEFINE L == Len(p[n])
  <2>1. L \in Nat /\ m <= L
    BY <1>1, <1>7, <1>8
  <2> HIDE DEF L
  <2>2. m \in 0 .. L
    BY <1>7, <2>1
  <2>3. i + l = a + 2 + m
    BY <1>1, <1>2, <1>7
  <2> QED
    BY <2>2, <2>3 DEF L
<1>12. InWord(p, ends, i + l, d, u, n, m)
  BY <1>10, <1>11 DEF InWord, a
<1> HIDE DEF InWord
<1>13. ReadTo(p, ends, i + l, d, u)
  BY <1>11, <1>12 DEF ReadTo
<1> QED
  BY <1>13 DEF d, c, l

\* A token that goes on with word n.
LEMMA GoesOnWithWord ==
  ASSUME NEW v, Vocab(v), NEW p, NEW ends, NEW chars, PhraseAt(p, ends, chars),
         NEW id, NEW f, NEW t, t = token_text(v, id), NEW i \in Nat, Speaks(chars, i, t),
         NEW n \in 1 .. Len(p), NEW m \in Nat, m < Len(p[n]),
         NEW w \in Word(v), NEW u, InWord(p, ends, i, w, u, n, m)
  PROVE  ~Opens(t) /\ ReadTo(p, ends, i + Len(t), Spell(w, Clean(t), f), u)
<1> DEFINE c == Clean(t)
           d == Spell(w, c, f)
           l == Len(t)
           a == ends[n - 1]
           e == Len(chars)
           s == a + 1 + m
           L == Len(p[n])
<1>1. /\ Len(p) \in Nat /\ e \in Nat /\ a \in Nat
      /\ p[n] \in Seq(Alphabet(p)) /\ L \in Nat
  BY PhraseIs
<1>2. l \in Nat /\ l >= 1 /\ i + l <= e + 1
  BY DEF Speaks
<1>3. c \in Seq(Alphabet(v)) /\ (Opens(t) <=> chars[i] = Marker)
  BY TokenIs
<1>4. i = a + 2 + m /\ w.text = SubSeq(p[n], 1, m)
  BY DEF InWord
<1>b. m < L
  OBVIOUS
<1> HIDE DEF L, a, e
<1>5. ~Opens(t)
  <2> DEFINE k == m + 1
  <2>1. k \in 1 .. L /\ i = a + 1 + k
    BY <1>1, <1>4, <1>b
  <2> HIDE DEF k
  <2>2. chars[a + 1 + k] = p[n][k] /\ p[n][k] # Marker
    BY <2>1, LettersOf DEF a, L
  <2> QED
    BY <1>3, <2>1, <2>2
<1>6. c = t
  BY <1>5, TokenIs
<1>a. t[1] # Marker
  <2>1. t # <<>>
    BY TokenIs
  <2> QED
    BY <1>5, <2>1 DEF Opens
<1>7. ASSUME NEW j \in 1 .. l PROVE t[j] = chars[s + j] /\ chars[s + j] # Marker
  <2>1. i + j - 1 = s + j
    BY <1>1, <1>4
  <2>2. t[j] = chars[i + j - 1]
    BY DEF Speaks
  <2>3. j = 1 \/ j \in 2 .. l
    BY <1>2
  <2>4. t[j] # Marker
    BY <1>a, <2>3 DEF Speaks
  <2> QED
    BY <2>1, <2>2, <2>4
<1>8. s \in Nat /\ s + l <= e
  BY <1>1, <1>2, <1>4
<1> HIDE DEF c, d, l
<1>9. m + l <= L /\ \A j \in 1 .. l : chars[s + j] = p[n][m + j]
  <2>1. Plain(chars, s, l) /\ s + l <= Len(chars)
    BY <1>7, <1>8 DEF Plain, e
  <2>2. PlacedAt(p, ends, n, m, s)
    <3>1. m \in 0 .. L
      BY <1>1, <1>b
    <3> QED
      BY <3>1 DEF PlacedAt, a, L
  <2> HIDE DEF s
  <2>3. LiesIn(p, chars, n, m, s, l)
    BY <1>2, <1>8, <2>1, <2>2, StaysInWord
  <2> QED
    BY <2>3 DEF LiesIn, L
<1>10. d.text = w.text \o c
  BY <1>3, SpellText DEF d, c
<1>11. d.text = SubSeq(p[n], 1, m + l)
  <2>1. Len(c) = l
    BY <1>6 DEF l
  <2>2. \A j \in 1 .. Len(c) : c[j] = p[n][m + j]
    BY <1>6, <1>7, <1>9, <2>1
  <2>3. m + Len(c) <= Len(p[n])
    BY <1>9, <2>1 DEF L
  <2>a. m \in 0 .. L
    BY <1>1, <1>b
  <2> DEFINE text == w.text
             word == p[n]
  <2>4. /\ word \in Seq(Alphabet(p)) /\ m \in 0 .. Len(word) /\ m + Len(c) <= Len(word)
        /\ \A j \in 1 .. Len(c) : c[j] = word[m + j]
        /\ text = SubSeq(word, 1, m)
    BY <1>1, <1>4, <2>2, <2>3, <2>a DEF L
  <2> HIDE DEF text, word
  <2>5. text \o c = SubSeq(word, 1, m + Len(c))
    BY <1>3, <2>4, LongerText
  <2> QED
    BY <1>10, <2>1, <2>5 DEF text, word
<1>12. m + l \in 0 .. L /\ i + l = a + 2 + (m + l)
  BY <1>1, <1>2, <1>4, <1>9
<1>13. InWord(p, ends, i + l, d, u, n, m + l)
  BY <1>11, <1>12 DEF InWord, a
<1> HIDE DEF InWord
<1>14. ReadTo(p, ends, i + l, d, u)
  BY <1>12, <1>13 DEF ReadTo, L
<1> QED
  BY <1>5, <1>14 DEF d, c, l

\* No word is a word without text.
LEMMA NoWordIs ==
  ASSUME NEW v
  PROVE  NoWord \in Word(v) /\ NoWord.text = <<>>
<1>1. <<>> \in Seq(Alphabet(v)) /\ <<>> \in Seq(Nat)
  OBVIOUS
<1> QED
  BY <1>1 DEF NoWord, Word

\* What is read up to a token is read on with it.
LEMMA ReadStep ==
  ASSUME NEW v, Vocab(v), NEW p, NEW ends, NEW chars, PhraseAt(p, ends, chars),
         NEW x, NEW t, t = token_text(v, x.id), NEW i \in Nat, Speaks(chars, i, t),
         NEW w \in Word(v), NEW ws \in Seq(Word(v)), NEW o, ReadTo(p, ends, i, w, ws)
  PROVE  ReadTo(p, ends, i + Len(t), Spell(Base(v, x, w), Clean(t), x.frame),
                Behind(v, x, w, ws, o))
<1> DEFINE b == Base(v, x, w)
           u == Behind(v, x, w, ws, o)
<1>1. Len(p) \in Nat /\ Len(chars) = ends[Len(p)] /\ ends[0] = 0 /\ Len(chars) \in Nat
  BY PhraseIs
<1>2. Len(t) \in Nat /\ Len(t) >= 1 /\ i + Len(t) <= Len(chars) + 1
  BY DEF Speaks
<1>3. Opens(t) <=> chars[i] = Marker
  BY TokenIs
<1>4. CASE i = 1 /\ ws = <<>> /\ w.text = <<>>
  <2>1. b = w /\ u = ws
    BY <1>4 DEF Base, Behind, Closes
  <2>2. 1 \in 1 .. Len(p) /\ 1 - 1 = 0 /\ i = ends[1 - 1] + 1
    <3>1. Len(p) # 0
      BY <1>1, <1>2, <1>4
    <3> QED
      BY <1>1, <1>4, <3>1
  <2>3. Len(u) = 1 - 1 /\ \A k \in 1 .. 1 - 1 : u[k].text = p[k]
    BY <1>4, <2>1
  <2>4. b \in Word(v) /\ b.text = <<>>
    BY <1>4, <2>1
  <2> HIDE DEF b, u
  <2> DEFINE n == 1
  <2>5. n \in 1 .. Len(p) /\ i = ends[n - 1] + 1 /\ Len(u) = n - 1 /\ \A k \in 1 .. n - 1 : u[k].text = p[k]
    BY <2>2, <2>3
  <2> HIDE DEF n
  <2>6. ReadTo(p, ends, i + Len(t), Spell(b, Clean(t), x.frame), u)
    BY <2>4, <2>5, OpensWord
  <2> QED
    BY <2>6 DEF b, u
<1>5. CASE \E n \in 1 .. Len(p) : \E m \in 0 .. Len(p[n]) : InWord(p, ends, i, w, ws, n, m)
  <2>1. PICK n \in 1 .. Len(p) : \E m \in 0 .. Len(p[n]) : InWord(p, ends, i, w, ws, n, m)
    BY <1>5
  <2>2. PICK m \in 0 .. Len(p[n]) : InWord(p, ends, i, w, ws, n, m)
    BY <2>1
  <2> DEFINE L == Len(p[n])
             a == ends[n - 1]
             z == ends[n]
             e == Len(chars)
  <2>3. /\ L \in Nat /\ a \in Nat /\ z \in Nat /\ z = a + 1 + L
        /\ p[n] \in Seq(Alphabet(p)) /\ p[n] # <<>>
    BY PhraseIs
  <2>a. m \in 0 .. L
    OBVIOUS
  <2>4. CASE m < L
    <3>1. m \in Nat /\ m < Len(p[n])
      BY <2>3, <2>4, <2>a
    <3>2. ~Opens(t) /\ ReadTo(p, ends, i + Len(t), Spell(w, Clean(t), x.frame), ws)
      BY <2>2, <3>1, GoesOnWithWord
    <3>3. b = w /\ u = ws
      BY <3>2 DEF Base, Behind, Closes
    <3> QED
      BY <3>2, <3>3
  <2>5. CASE ~(m < L)
    <3> HIDE DEF L, a, z, e
    <3>1. m = L
      BY <2>3, <2>5, <2>a
    <3>2. i = a + 2 + m /\ Len(ws) = n - 1 /\ w.text = SubSeq(p[n], 1, m)
      BY <2>2 DEF InWord, a
    <3>a. \A k \in 1 .. n - 1 : ws[k].text = p[k]
      BY <2>2 DEF InWord
    <3>3. i = z + 1
      BY <2>3, <3>1, <3>2
    <3>4. i <= e
      BY <1>1, <1>2 DEF e
    <3> DEFINE q == n + 1
    <3>5. n # Len(p)
      BY <1>1, <2>3, <3>3, <3>4 DEF z, e
    <3>6. q \in 1 .. Len(p) /\ q - 1 = n
      BY <1>1, <3>5
    <3> HIDE DEF q
    <3>7. i = ends[q - 1] + 1
      BY <3>3, <3>6 DEF z
    <3>8. chars[i] = Marker
      BY <3>6, <3>7 DEF PhraseAt, Laid
    <3>9. w.text = p[n]
      BY <2>3, <3>1, <3>2 DEF L
    <3>10. Closes(v, x, w)
      BY <1>3, <2>3, <3>8, <3>9 DEF Closes
    <3>11. b = NoWord /\ u = Append(ws, EmitAt(w, o))
      BY <3>10 DEF Base, Behind
    <3>12. Len(u) = q - 1 /\ \A k \in 1 .. q - 1 : u[k].text = p[k]
      <4> DEFINE y == EmitAt(w, o)
      <4>1. y.text = p[n]
        BY <3>9 DEF EmitAt
      <4> HIDE DEF y
      <4>2. /\ Len(u) = Len(ws) + 1 /\ u[Len(ws) + 1] = y
            /\ \A k \in 1 .. Len(ws) : u[k] = ws[k]
        BY <3>11 DEF y
      <4> HIDE DEF u
      <4>3. Len(ws) + 1 = n /\ n \in Nat
        BY <1>1, <3>2
      <4>4. ASSUME NEW k \in 1 .. n PROVE u[k].text = p[k]
        <5>1. CASE k = n
          BY <4>1, <4>2, <4>3, <5>1
        <5>2. CASE k # n
          <6>1. k \in 1 .. n - 1 /\ k \in 1 .. Len(ws)
            BY <3>2, <4>3, <5>2
          <6> QED
            BY <3>a, <4>2, <6>1
        <5> QED
          BY <5>1, <5>2
      <4> QED
        BY <3>6, <4>2, <4>3, <4>4
    <3> HIDE DEF b, u
    <3>13. b \in Word(v) /\ b.text = <<>>
      BY <3>11, NoWordIs
    <3>14. ReadTo(p, ends, i + Len(t), Spell(b, Clean(t), x.frame), u)
      BY <3>6, <3>7, <3>12, <3>13, OpensWord
    <3> QED
      BY <3>14 DEF b, u
  <2> QED
    BY <2>4, <2>5
<1> QED
  BY <1>4, <1>5 DEF ReadTo

\* Read to the end, it is all there.
LEMMA ReadAll ==
  ASSUME NEW v, NEW p, NEW ends, NEW chars, PhraseAt(p, ends, chars), chars # <<>>,
         NEW S, chars \in Seq(S), NEW w \in Word(v), NEW ws \in Seq(Word(v)), NEW o,
         ReadTo(p, ends, Len(chars) + 1, w, ws)
  PROVE  /\ Len(AllWords(w, ws, o)) = Len(p)
         /\ \A k \in 1 .. Len(p) : AllWords(w, ws, o)[k].text = p[k]
<1> DEFINE e == Len(chars)
           i == e + 1
<1>1. Len(p) \in Nat /\ e = ends[Len(p)] /\ ends[0] = 0 /\ e \in Nat /\ e # 0
  BY PhraseIs
<1>2. PICK n \in 1 .. Len(p) : \E m \in 0 .. Len(p[n]) : InWord(p, ends, i, w, ws, n, m)
  BY <1>1 DEF ReadTo
<1>3. PICK m \in 0 .. Len(p[n]) : InWord(p, ends, i, w, ws, n, m)
  BY <1>2
<1> DEFINE L == Len(p[n])
           a == ends[n - 1]
           z == ends[n]
<1>4. /\ L \in Nat /\ a \in Nat /\ z \in Nat /\ z = a + 1 + L /\ z <= e
      /\ p[n] \in Seq(Alphabet(p)) /\ p[n] # <<>>
  BY <1>1, PhraseIs
<1>5. i = a + 2 + m /\ Len(ws) = n - 1 /\ w.text = SubSeq(p[n], 1, m)
  BY <1>3 DEF InWord
<1>6. \A k \in 1 .. n - 1 : ws[k].text = p[k]
  BY <1>3 DEF InWord
<1>7. m \in 0 .. L
  OBVIOUS
<1>8. n # Len(p) => z < e
  <2> SUFFICES ASSUME n # Len(p) PROVE z < e
    OBVIOUS
  <2> DEFINE q == n + 1
  <2>1. q \in 1 .. Len(p) /\ q - 1 = n
    BY <1>1
  <2> HIDE DEF q
  <2>2. /\ Len(p[q]) \in Nat /\ Len(p[q]) >= 1 /\ ends[q] = ends[q - 1] + 1 + Len(p[q])
        /\ ends[q] <= ends[Len(p)] /\ ends[q] \in Nat
    BY <2>1, PhraseIs
  <2> DEFINE l == Len(p[q])
             y == ends[q]
  <2>3. /\ l \in Nat /\ l >= 1 /\ y = z + 1 + l /\ y <= e /\ y \in Nat
        /\ z \in Nat /\ e \in Nat
    BY <1>1, <1>4, <2>1, <2>2
  <2> HIDE DEF z, e, l, y
  <2> QED
    BY <2>3
<1> HIDE DEF L, a, z, e
<1>9. m = L /\ z = e
  <2>1. /\ L \in Nat /\ a \in Nat /\ z \in Nat /\ e \in Nat /\ z = a + 1 + L /\ z <= e
        /\ e + 1 = a + 2 + m /\ m \in 0 .. L
    BY <1>1, <1>4, <1>5, <1>7
  <2>2. m \in Nat /\ m <= L
    BY <2>1
  <2>3. L <= m
    BY <2>1, <2>2
  <2> QED
    BY <2>1, <2>2, <2>3
<1>10. n = Len(p)
  BY <1>4, <1>8, <1>9
<1>11. w.text = p[n]
  BY <1>4, <1>5, <1>9 DEF L
<1> DEFINE y == EmitAt(w, o)
           u == AllWords(w, ws, o)
<1>12. u = Append(ws, y) /\ y.text = p[n]
  BY <1>4, <1>11 DEF AllWords, EmitAt
<1> HIDE DEF y, u
<1>13. /\ Len(u) = Len(ws) + 1 /\ u[Len(ws) + 1] = y
       /\ \A k \in 1 .. Len(ws) : u[k] = ws[k]
  BY <1>12
<1>14. Len(ws) + 1 = n /\ n \in Nat
  BY <1>1, <1>5
<1>15. ASSUME NEW k \in 1 .. n PROVE u[k].text = p[k]
  <2>1. CASE k = n
    BY <1>12, <1>13, <1>14, <2>1
  <2>2. CASE k # n
    <3>1. k \in 1 .. n - 1 /\ k \in 1 .. Len(ws)
      BY <1>5, <1>14, <2>2
    <3> QED
      BY <1>6, <1>13, <3>1
  <2> QED
    BY <2>1, <2>2
<1> QED
  BY <1>10, <1>13, <1>14, <1>15 DEF u

CodeOf(v, p) == CHOOSE f : Codes(v, Marked(p), f)
EndsOf(p) == CHOOSE ends : Laid(p, ends, Marked(p)) /\ Ordered(p, ends)

\* The chosen code and ends of a phrase are what they are chosen for.
LEMMA ChosenAre ==
  ASSUME NEW v, Vocab(v), NEW p, Phrase(p)
  PROVE  /\ Marked(p) \in Seq(Alphabet(p) \cup {Marker})
         /\ Codes(v, Marked(p), CodeOf(v, p)) /\ PhraseAt(p, EndsOf(p), Marked(p))
         /\ encode_phrase(v, p) = CodeOf(v, p)[1]
<1> DEFINE chars == Marked(p)
           S == Alphabet(p) \cup {Marker}
<1>1. PICK ends : Laid(p, ends, chars) /\ Ordered(p, ends) /\ chars \in Seq(S)
  BY PhraseLaid
<1>2. Laid(p, EndsOf(p), chars) /\ Ordered(p, EndsOf(p))
  BY <1>1 DEF EndsOf
<1>3. \E f : Codes(v, chars, f)
  <2> HIDE DEF chars, S
  <2> QED
    BY <1>1, CodesExist
<1>4. Codes(v, chars, CodeOf(v, p))
  BY <1>3 DEF CodeOf
<1> QED
  BY <1>1, <1>2, <1>4, EncodeIs DEF CodeOf, PhraseAt

HeadsOnly(v) == \A t \in Range(v) : \A i \in 2 .. Len(t) : t[i] # Marker
Spelled(v, p) ==
  Vocab(v) /\ HeadsOnly(v) /\ Phrase(p) /\ WORD_BOUNDARY \in Range(v) /\ Encodes(encode_phrase(v, p))

\* The tokens are those of the phrase so far, and these are left.
Matches(h, code) == Len(h) <= Len(code) /\ \A k \in 1 .. Len(h) : h[k].id = code[k]
Rests(h, code, rest) ==
  Len(code) = Len(h) + Len(rest) /\ \A k \in 1 .. Len(rest) : code[Len(h) + k] = rest[k]
ReadUpTo(v, p, h, w, ws, i) ==
  /\ i \in 1 .. Len(Marked(p)) + 1
  /\ Rests(h, encode_phrase(v, p), CodeOf(v, p)[i]) /\ ReadTo(p, EndsOf(p), i, w, ws)
ReadState(v, p, h, w, ws) == \E i : ReadUpTo(v, p, h, w, ws, i)

\* A token of the phrase is one that its text has at this place.
LEMMA NextToken ==
  ASSUME NEW v, NEW p, Spelled(v, p), NEW h \in Seq(Heard), NEW i \in 1 .. Len(Marked(p)) + 1,
         NEW rest, rest = CodeOf(v, p)[i], Rests(h, encode_phrase(v, p), rest), Len(rest) # 0
  PROVE  NextFits(v, Marked(p), CodeOf(v, p), i, rest)
<1> DEFINE chars == Marked(p)
           f == CodeOf(v, p)
           S == Alphabet(p) \cup {Marker}
           code == encode_phrase(v, p)
<1>1. chars \in Seq(S) /\ Codes(v, chars, f) /\ code = f[1]
  BY ChosenAre DEF Spelled
<1>2. Vocab(v) /\ WORD_BOUNDARY \in Range(v) /\ Encodes(code)
  BY DEF Spelled
<1> HIDE DEF chars, f, S, code
<1>3. \A k \in 1 .. Len(chars) + 1 : f[k] \in Seq(Nat)
  BY <1>1, <1>2, CodesTyped
<1>4. i \in 1 .. Len(chars) + 1 /\ rest = f[i]
  BY DEF chars, f
<1>5. rest \in Seq(Nat) /\ code \in Seq(Nat)
  <2>1. 1 \in 1 .. Len(chars) + 1
    BY <1>1
  <2> QED
    BY <1>1, <1>3, <1>4, <2>1
<1>6. rest # << 0 >>
  <2> SUFFICES ASSUME rest = << 0 >> PROVE FALSE
    OBVIOUS
  <2>1. Len(rest) = 1 /\ rest[1] = 0
    OBVIOUS
  <2>2. Len(code) = Len(h) + 1 /\ code[Len(h) + 1] = 0
    BY <2>1 DEF Rests, code
  <2>3. Len(h) \in Nat
    OBVIOUS
  <2>4. Len(h) + 1 \in DOMAIN code
    BY <1>5, <2>2, <2>3
  <2>5. 0 \in Range(code)
    BY <2>2, <2>4 DEF Range
  <2> QED
    BY <1>2, <2>5 DEF Encodes
<1>7. rest # <<>>
  OBVIOUS
<1>8. CodedAs(v, chars, f, i)
  BY <1>1, <1>2, <1>4, CodeStep
<1> QED
  BY <1>4, <1>6, <1>7, <1>8 DEF CodedAs, chars, f

\* A phrase heard so far is read on with the token that goes on with it.
LEMMA ReadOn ==
  ASSUME NEW v, NEW p, Spelled(v, p), NEW h, NEW x, NEW more, Grows(v, h, x, more),
         NEW w \in Word(v), NEW ws \in Seq(Word(v)), NEW o,
         ReadState(v, p, h, w, ws), Matches(more, encode_phrase(v, p))
  PROVE  ReadState(v, p, more, Spell(Base(v, x, w), Clean(token_text(v, x.id)), x.frame),
                   Behind(v, x, w, ws, o))
<1> DEFINE chars == Marked(p)
           f == CodeOf(v, p)
           S == Alphabet(p) \cup {Marker}
           code == encode_phrase(v, p)
           ends == EndsOf(p)
           n == Len(h)
           t == token_text(v, x.id)
           b == Spell(Base(v, x, w), Clean(t), x.frame)
           u == Behind(v, x, w, ws, o)
<1>1. chars \in Seq(S) /\ Codes(v, chars, f) /\ code = f[1] /\ PhraseAt(p, ends, chars)
  BY ChosenAre DEF Spelled
<1>2. Vocab(v) /\ HeadsOnly(v)
  BY DEF Spelled
<1>3. h \in Seq(Heard) /\ n \in Nat /\ Len(more) = n + 1 /\ more[n + 1] = x
  BY TextsKept DEF Grows
<1>4. PICK i : ReadUpTo(v, p, h, w, ws, i)
  BY DEF ReadState
<1> DEFINE rest == f[i]
<1>5. /\ i \in 1 .. Len(chars) + 1 /\ Rests(h, code, rest) /\ ReadTo(p, ends, i, w, ws)
  BY <1>4 DEF ReadUpTo
<1>6. Len(code) = n + Len(rest) /\ n + 1 <= Len(code) /\ code[n + 1] = x.id
  <2>1. Len(code) = n + Len(rest)
    BY <1>5 DEF Rests
  <2>2. Len(more) <= Len(code) /\ \A k \in 1 .. Len(more) : more[k].id = code[k]
    BY DEF Matches
  <2>3. n + 1 \in 1 .. Len(more)
    BY <1>3
  <2> QED
    BY <1>3, <2>1, <2>2, <2>3
<1>a. \A k \in 1 .. Len(chars) + 1 : f[k] \in Seq(Nat)
  <2> HIDE DEF chars, f, S
  <2> QED
    BY <1>1, <1>2, CodesTyped
<1>7. rest \in Seq(Nat) /\ Len(rest) # 0 /\ rest[1] = x.id
  <2>1. rest \in Seq(Nat)
    BY <1>5, <1>a
  <2> HIDE DEF rest, code, n
  <2>2. Len(rest) \in Nat /\ Len(rest) # 0
    BY <1>3, <1>6, <2>1
  <2>3. 1 \in 1 .. Len(rest)
    BY <2>2
  <2>4. code[n + 1] = rest[1]
    BY <1>5, <2>3 DEF Rests, n
  <2> QED
    BY <1>6, <2>1, <2>2, <2>4
<1>8. i <= Len(chars) /\ \E id \in Fitting(v, chars, i) : rest = <<id>> \o f[i + Len(v[id])]
  <2> DEFINE r == rest
  <2>1. r = CodeOf(v, p)[i] /\ Rests(h, encode_phrase(v, p), r) /\ Len(r) # 0
    BY <1>5, <1>7
  <2>2. i \in 1 .. Len(Marked(p)) + 1
    BY <1>5
  <2> HIDE DEF r
  <2>3. NextFits(v, Marked(p), CodeOf(v, p), i, r)
    BY <1>3, <2>1, <2>2, NextToken
  <2> QED
    BY <2>3 DEF NextFits, r
<1> HIDE DEF chars, f, S, code, ends, n, b, u
<1>9. PICK id \in Fitting(v, chars, i) : rest = <<id>> \o f[i + Len(v[id])]
  BY <1>8
<1>10. i \in 1 .. Len(chars) /\ Len(chars) \in Nat
  BY <1>1, <1>5, <1>8
<1>11. /\ id \in DOMAIN v /\ v[id] \notin Special
       /\ Len(v[id]) \in Nat /\ Len(v[id]) >= 1 /\ i + Len(v[id]) <= Len(chars) + 1
       /\ \A j \in 1 .. Len(v[id]) : v[id][j] = chars[i + j - 1]
  BY <1>1, <1>2, <1>10, FittingIs
<1> DEFINE j == i + Len(v[id])
           next == f[j]
<1>12. j \in 1 .. Len(chars) + 1 /\ j \in Nat /\ i \in Nat
  BY <1>10, <1>11
<1>13. next \in Seq(Nat)
  BY <1>a, <1>12
<1>14. id \in Nat /\ id = x.id /\ Len(rest) = 1 + Len(next) /\ \A k \in 1 .. Len(next) : rest[k + 1] = next[k]
  <2>1. id \in Nat
    BY <1>2, <1>11 DEF Vocab
  <2>2. rest = <<id>> \o next
    BY <1>9
  <2> HIDE DEF next, rest
  <2>3. rest[1] = id
    BY <1>13, <2>1, <2>2
  <2> QED
    BY <1>7, <1>13, <2>1, <2>2, <2>3
<1>15. t = v[id]
  BY <1>11, <1>14 DEF token_text
<1>16. Speaks(chars, i, t)
  <2>1. v[id] \in Range(v)
    BY <1>11 DEF Range
  <2>2. \A k \in 2 .. Len(v[id]) : v[id][k] # Marker
    BY <1>2, <2>1 DEF HeadsOnly
  <2> HIDE DEF t
  <2> QED
    BY <1>11, <1>15, <2>2 DEF Speaks
<1>17. ReadTo(p, ends, i + Len(t), b, u)
  <2> DEFINE tt == t
  <2>1. tt = token_text(v, x.id) /\ Speaks(chars, i, tt)
    BY <1>16
  <2> HIDE DEF tt
  <2>2. ReadTo(p, ends, i + Len(tt), Spell(Base(v, x, w), Clean(tt), x.frame), Behind(v, x, w, ws, o))
    BY <1>1, <1>2, <1>5, <1>12, <2>1, ReadStep
  <2> QED
    BY <2>2 DEF tt, b, u
<1>18. Rests(more, code, next)
  <2> HIDE DEF rest, next, j
  <2>1. Len(code) = n + Len(rest) /\ \A k \in 1 .. Len(rest) : code[n + k] = rest[k]
    BY <1>5 DEF Rests, n
  <2>2. Len(next) \in Nat
    BY <1>13
  <2>3. Len(code) = Len(more) + Len(next)
    BY <1>3, <1>14, <2>1, <2>2
  <2>4. ASSUME NEW k \in 1 .. Len(next) PROVE code[Len(more) + k] = next[k]
    <3> DEFINE q == k + 1
    <3>1. q \in 1 .. Len(rest) /\ Len(more) + k = n + q
      BY <1>3, <1>14, <2>2
    <3>2. rest[q] = next[k]
      BY <1>14
    <3> HIDE DEF q
    <3> QED
      BY <2>1, <3>1, <3>2
  <2> QED
    BY <2>3, <2>4 DEF Rests
<1>19. ReadTo(p, ends, j, b, u)
  BY <1>15, <1>17
<1> HIDE DEF j, next
<1>20. ReadUpTo(v, p, more, b, u, j)
  BY <1>12, <1>18, <1>19 DEF ReadUpTo, chars, f, code, ends, next
<1>21. ReadState(v, p, more, b, u)
  BY <1>20 DEF ReadState
<1> QED
  BY <1>21 DEF b, u

\* When the tokens are those of the phrase, it has been read to its end.
LEMMA ReadWhole ==
  ASSUME NEW v, NEW p, Spelled(v, p), NEW h \in Seq(Heard), NEW w \in Word(v),
         NEW ws \in Seq(Word(v)), NEW o, ReadState(v, p, h, w, ws),
         Len(encode_phrase(v, p)) = Len(h)
  PROVE  /\ Len(AllWords(w, ws, o)) = Len(p)
         /\ \A k \in 1 .. Len(p) : AllWords(w, ws, o)[k].text = p[k]
<1> DEFINE chars == Marked(p)
           f == CodeOf(v, p)
           S == Alphabet(p) \cup {Marker}
           code == encode_phrase(v, p)
           ends == EndsOf(p)
<1>1. chars \in Seq(S) /\ Codes(v, chars, f) /\ code = f[1] /\ PhraseAt(p, ends, chars)
  BY ChosenAre DEF Spelled
<1>2. Vocab(v) /\ WORD_BOUNDARY \in Range(v) /\ code # <<>>
  BY DEF Spelled, Encodes
<1>3. PICK i : ReadUpTo(v, p, h, w, ws, i)
  BY DEF ReadState
<1>a. PICK rest : rest = f[i]
  OBVIOUS
<1>4. i \in 1 .. Len(chars) + 1 /\ Rests(h, code, rest) /\ ReadTo(p, ends, i, w, ws)
  BY <1>3, <1>a DEF ReadUpTo
<1>5. Len(code) = Len(h) /\ Len(h) \in Nat
  OBVIOUS
<1> HIDE DEF chars, f, S, code, ends
<1>6. \A k \in 1 .. Len(chars) + 1 : f[k] \in Seq(Nat)
  BY <1>1, <1>2, CodesTyped
<1>7. rest \in Seq(Nat) /\ Len(rest) = 0
  <2>1. rest \in Seq(Nat)
    BY <1>4, <1>6, <1>a
  <2>2. Len(code) = Len(h) + Len(rest)
    BY <1>4 DEF Rests
  <2> QED
    BY <1>5, <2>1, <2>2
<1>8. CodedAs(v, chars, f, i)
  BY <1>1, <1>2, <1>4, CodeStep
<1>9. ~NextFits(v, chars, f, i, rest)
  <2> SUFFICES ASSUME NextFits(v, chars, f, i, rest) PROVE FALSE
    OBVIOUS
  <2>1. i <= Len(chars)
    BY DEF NextFits
  <2>2. PICK id \in Fitting(v, chars, i) : rest = <<id>> \o f[i + Len(v[id])]
    BY DEF NextFits
  <2>3. Len(chars) \in Nat /\ i \in 1 .. Len(chars)
    BY <1>1, <1>4, <2>1
  <2>4. id \in Nat /\ Len(v[id]) \in Nat /\ Len(v[id]) >= 1 /\ i + Len(v[id]) <= Len(chars) + 1
    BY <1>1, <1>2, <2>3, FittingIs
  <2> DEFINE j == i + Len(v[id])
             next == f[j]
  <2>5. j \in 1 .. Len(chars) + 1
    BY <2>3, <2>4
  <2>6. next \in Seq(Nat)
    BY <1>6, <2>5
  <2>7. rest = <<id>> \o next
    BY <2>2
  <2> HIDE DEF next, j
  <2>8. Len(rest) = 1 + Len(next) /\ Len(next) \in Nat
    BY <2>4, <2>6, <2>7
  <2>9. Len(rest) # 0
    <3> DEFINE m == Len(next)
    <3>1. m \in Nat /\ Len(rest) = 1 + m
      BY <2>8
    <3> HIDE DEF m
    <3> QED
      BY <3>1
  <2> QED
    BY <1>7, <2>9
<1>10. i = Len(chars) + 1
  <2>1. f[i] # << 0 >>
    <3>1. Len(<< 0 >>) = 1
      OBVIOUS
    <3> QED
      BY SMTT(30), <1>7, <1>a, <3>1
  <2> QED
    BY <1>8, <1>9, <1>a, <2>1 DEF CodedAs
<1>11. chars # <<>>
  <2> SUFFICES ASSUME chars = <<>> PROVE FALSE
    OBVIOUS
  <2>1. i = 1
    BY <1>10
  <2>2. Len(code) = 0 /\ code \in Seq(Nat)
    BY <1>1, <1>7, <1>a, <2>1
  <2> QED
    BY <1>2, <2>2
<1>12. ReadTo(p, ends, Len(chars) + 1, w, ws)
  BY <1>4, <1>10
<1> QED
  BY <1>1, <1>11, <1>12, ReadAll

\* As far as it has been heard, each phrase is read as it was asked for.
PhrasesInv ==
  /\ ~done => \A p \in script.asked :
       Spelled(script.vocab, p) /\ Matches(heard, encode_phrase(script.vocab, p))
         => ReadState(script.vocab, p, heard, current, words)
  /\ done => PhrasesReadAsAsked

\* What a script asks for is a phrase its vocabulary can be held to.
LEMMA PhrasesAre ==
  ASSUME LetterTyped, WORD_BOUNDARY \in Range(script.vocab), NEW p \in script.asked,
         Encodes(encode_phrase(script.vocab, p))
  PROVE  Spelled(script.vocab, p)
<1>1. script \in Scripts
  BY DEF LetterTyped
<1>2. HeadsOnly(script.vocab)
  BY <1>1, ScriptsAssumption DEF HeadsOnly
<1>3. Phrase(p)
  BY <1>1, ScriptsAssumption DEF Phrase
<1> QED
  BY <1>2, <1>3, VocabIs DEF Spelled

\* Before the first token every phrase is at its start.
LEMMA PhrasesStart ==
  ASSUME FormatInit, LettersInv
  PROVE  PhrasesInv
<1> DEFINE v == script.vocab
<1>1. heard = <<>> /\ words = <<>> /\ current.text = <<>> /\ ~done
  BY NoWordIs DEF FormatInit
<1>2. ASSUME NEW p, Spelled(v, p) PROVE ReadState(v, p, heard, current, words)
  <2>1. Marked(p) \in Seq(Alphabet(p) \cup {Marker}) /\ encode_phrase(v, p) = CodeOf(v, p)[1]
        /\ Codes(v, Marked(p), CodeOf(v, p))
    BY <1>2, ChosenAre DEF Spelled
  <2> DEFINE n == Len(Marked(p))
             code == encode_phrase(v, p)
  <2>2. n \in Nat
    BY <2>1
  <2>3. 1 \in 1 .. n + 1
    BY <2>2
  <2>a. code \in Seq(Nat)
    <3>1. \A i \in 1 .. n + 1 : CodeOf(v, p)[i] \in Seq(Nat)
      BY <1>2, <2>1, CodesTyped DEF Spelled
    <3> QED
      BY <2>1, <2>3, <3>1
  <2> HIDE DEF code
  <2>4. Rests(heard, code, code)
    BY <1>1, <2>a DEF Rests
  <2>5. ReadTo(p, EndsOf(p), 1, current, words)
    BY <1>1 DEF ReadTo
  <2> DEFINE i == 1
  <2>6. i \in 1 .. n + 1 /\ Rests(heard, code, CodeOf(v, p)[i]) /\ ReadTo(p, EndsOf(p), i, current, words)
    BY <2>1, <2>3, <2>4, <2>5 DEF code
  <2> HIDE DEF i
  <2>7. ReadUpTo(v, p, heard, current, words, i)
    BY <2>6 DEF ReadUpTo, code
  <2> QED
    BY <2>7 DEF ReadState
<1> QED
  BY <1>1, <1>2 DEF PhrasesInv

\* Every token leaves the phrases read as far as they go.
LEMMA PhrasesHear ==
  ASSUME LettersInv, PhrasesInv, NEW x, Hears(x)
  PROVE  PhrasesInv'
<1> DEFINE v == script.vocab
<1>1. /\ LetterTyped /\ ~done /\ done' = FALSE /\ script' = script /\ x \in Heard
      /\ heard' = Append(heard, x)
  BY DEF Hears, LettersInv
<1>2. PICK more : more = heard'
  OBVIOUS
<1>3. PICK w : w = current'
  OBVIOUS
<1>4. PICK ws : ws = words'
  OBVIOUS
<1>5. Grows(v, heard, x, more)
  BY <1>1, <1>2, VocabIs DEF Grows, LetterTyped
<1>6. current \in Word(v) /\ words \in Seq(Word(v))
  BY <1>1 DEF LettersInv, WordState
<1>7. /\ w = Spell(Base(v, x, current), Clean(token_text(v, x.id)), x.frame)
      /\ ws = Behind(v, x, current, words, frame_offset)
  BY <1>3, <1>4 DEF Hears
<1>8. ASSUME NEW p \in script.asked, Spelled(v, p), Matches(more, encode_phrase(v, p))
      PROVE  ReadState(v, p, more, w, ws)
  <2> DEFINE code == encode_phrase(v, p)
  <2>1. Matches(heard, code)
    <3>1. Len(heard) \in Nat /\ Len(more) = Len(heard) + 1 /\ \A k \in 1 .. Len(heard) : more[k] = heard[k]
      BY <1>5, TextsKept
    <3>2. Len(more) <= Len(code) /\ \A k \in 1 .. Len(more) : more[k].id = code[k]
      BY <1>8 DEF Matches
    <3>3. Len(code) \in Nat
      <4>1. Codes(v, Marked(p), CodeOf(v, p)) /\ code = CodeOf(v, p)[1]
            /\ Marked(p) \in Seq(Alphabet(p) \cup {Marker}) /\ Vocab(v)
        BY <1>8, ChosenAre DEF Spelled
      <4>2. \A i \in 1 .. Len(Marked(p)) + 1 : CodeOf(v, p)[i] \in Seq(Nat)
        BY <4>1, CodesTyped
      <4>3. 1 \in 1 .. Len(Marked(p)) + 1
        BY <4>1
      <4> QED
        BY <4>1, <4>2, <4>3
    <3> HIDE DEF code
    <3>4. Len(heard) <= Len(code) /\ \A k \in 1 .. Len(heard) : k \in 1 .. Len(more)
      BY <3>1, <3>2, <3>3
    <3> QED
      BY <3>1, <3>2, <3>4 DEF Matches
  <2>2. ReadState(v, p, heard, current, words)
    BY <1>1, <1>8, <2>1 DEF PhrasesInv
  <2>3. ReadState(v, p, more, Spell(Base(v, x, current), Clean(token_text(v, x.id)), x.frame),
                  Behind(v, x, current, words, frame_offset))
    BY <1>5, <1>6, <1>8, <2>2, ReadOn
  <2> QED
    BY <1>7, <2>3
<1> QED
  BY <1>1, <1>2, <1>3, <1>4, <1>8 DEF PhrasesInv

\* At the end each phrase that was heard whole is the words it was asked as.
LEMMA PhrasesEnd ==
  ASSUME LettersInv, PhrasesInv, LastWord
  PROVE  PhrasesReadAsAsked'
<1> DEFINE v == script.vocab
           all == AllWords(current, words, frame_offset)
<1>1. /\ LetterTyped /\ ~done /\ done' = TRUE /\ UNCHANGED <<script, frame_offset, heard>>
      /\ words' = all
  BY DEF LastWord, AllWords, Emit, EmitAt, LettersInv
<1>2. /\ current \in Word(v) /\ words \in Seq(Word(v)) /\ heard \in Seq(Heard)
      /\ frame_offset \in Nat
  BY <1>1 DEF LettersInv, WordState, LetterTyped
<1>3. all \in Seq(Word(v))
  <2>1. EmitAt(current, frame_offset) \in Word(v)
    BY <1>2 DEF EmitAt, Word
  <2> DEFINE y == EmitAt(current, frame_offset)
             W == Word(v)
  <2>2. y \in W /\ words \in Seq(W)
    BY <1>2, <2>1
  <2> HIDE DEF y, W
  <2>3. Append(words, y) \in Seq(W)
    BY <2>2
  <2> QED
    BY <2>2, <2>3 DEF AllWords, y, W
<1> HIDE DEF all
<1>4. ASSUME WORD_BOUNDARY \in Range(v), NEW p \in script.asked,
             Encodes(encode_phrase(v, p)),
             encode_phrase(v, p) = [k \in DOMAIN heard |-> heard[k].id]
      PROVE  [k \in DOMAIN all |-> all[k].text] = p
  <2> DEFINE code == encode_phrase(v, p)
  <2>1. Spelled(v, p)
    BY <1>1, <1>4, PhrasesAre
  <2>2. Len(code) = Len(heard) /\ \A k \in 1 .. Len(heard) : heard[k].id = code[k]
    BY <1>2, <1>4
  <2>3. Matches(heard, code)
    BY <1>2, <2>2 DEF Matches
  <2>4. ReadState(v, p, heard, current, words)
    BY <1>1, <2>1, <2>3 DEF PhrasesInv
  <2>5. Len(all) = Len(p) /\ \A k \in 1 .. Len(p) : all[k].text = p[k]
    BY <1>2, <2>1, <2>2, <2>4, ReadWhole DEF all
  <2>6. p \in Seq(Seq(Alphabet(p)) \ {<<>>})
    BY <2>1 DEF Spelled, Phrase
  <2>7. DOMAIN all = 1 .. Len(p)
    BY <1>3, <2>5
  <2>8. p = [k \in 1 .. Len(p) |-> p[k]]
    BY <2>6
  <2> QED
    BY <2>5, <2>7, <2>8
<1> QED
  BY <1>1, <1>4 DEF PhrasesReadAsAsked

\* What holds at every token: the letters so far are words, the phrases so far are theirs.
FormatInv == LettersInv /\ PhrasesInv

\* tokens_to_words and ctc_tokens_to_words make each word of the letters of its tokens, with the
\* frames of the first and the last, and what was heard for a phrase the encoder made is the
\* phrase: for any vocabulary, any hotwords and any length of text.
THEOREM WordsHold == FormatSpec => []WordsReadAsSpoken
<1>1. FormatInit => FormatInv
  BY LettersStart, PhrasesStart DEF FormatInv
<1>2. ASSUME FormatInv, [FormatNext]_wordVars PROVE FormatInv'
  <2>1. LettersInv /\ PhrasesInv
    BY <1>2 DEF FormatInv
  <2>2. LettersInv'
    BY <1>2, <2>1, LettersKeep
  <2>3. PhrasesInv'
    <3>1. CASE UNCHANGED wordVars
      BY <2>1, <3>1 DEF wordVars, PhrasesInv, PhrasesReadAsAsked
    <3>2. CASE LastWord
      <4>1. PhrasesReadAsAsked' /\ done' = TRUE
        BY <2>1, <3>2, PhrasesEnd DEF LastWord
      <4> QED
        BY <4>1 DEF PhrasesInv
    <3>3. CASE \E x : Hears(x)
      BY <2>1, <3>3, PhrasesHear
    <3> QED
      BY <1>2, <2>1, <3>1, <3>2, <3>3, StepHears
  <2> QED
    BY <2>2, <2>3 DEF FormatInv
<1>3. FormatInv => WordsReadAsSpoken
  BY LettersAre DEF FormatInv, LettersInv, PhrasesInv, WordsReadAsSpoken, PhrasesReadAsAsked
<1> QED
  BY <1>1, <1>2, <1>3, PTL DEF FormatSpec
=============================================================================
