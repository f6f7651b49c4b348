------------------------------ MODULE MCEngine -------------------------------
(***************************************************************************)
(* The parts of the engine side by side for TLC: a live stream, the decode *)
(* of a long file with the windows it comes in, the loops that find tokens *)
(* for the transducer and the CTC heads, the words made of the tokens, and *)
(* what becomes of their text.  They share no state: `part` says which of  *)
(* them moves, the others stay in one initial state.                       *)
(***************************************************************************)
EXTENDS StreamDecode, LongForm, GreedyDecode, CtcDecode, WordFormat, TextPass, LiveText,
        FileRequest, TLC

CONSTANTS f1, f2

VARIABLE part

longVars == <<sourceVars, decodeVars>>
parts == <<streamVars, longVars, greedyVars, beamVars, wordVars, textVars, liveVars, fileVars>>

\* A stream: a pause and a run of words, words that touch, a word longer than
\* the left context.
Said(from, to) == [from |-> from, to |-> to]
MCRecordings == {<<Said(0, 1), Said(1, 3), Said(4, 6)>>, <<Said(0, 1), Said(3, 8)>>}

\* A file: lengths and windows; every pattern of voice, under three policies.
Spec(single, window, overlap) == [single |-> single, window |-> window, overlap |-> overlap]
Policy(silence, speech, pad) == [silence |-> silence, speech |-> speech, pad |-> pad]
Clip(len, voice, spec, cfg, ws, all) ==
  [len |-> len, voice |-> voice, vad |-> voice # <<>>, spec |-> spec, cfg |-> cfg,
   words |-> ws, all |-> all]
Spoke(from, to, word) == [from |-> from, to |-> to, text |-> word]
Plain(len, spec, ws) == Clip(len, <<>>, spec, Policy(1, 1, 1), ws, ws)
AnyVoice ==
  {Clip(n, v, Spec(8, 6, 2), c, <<>>, <<>>) :
     n \in {13}, v \in [0 .. 4 -> BOOLEAN],
     c \in {Policy(2, 1, 1), Policy(5, 7, 1)}}
AnyLength ==
  {Plain(n, s, <<>>) : n \in {0, 1, 6, 8, 9, 10, 13, 16}, s \in {Spec(8, 6, 2), Spec(6, 6, 2), Spec(9, 7, 3)}}

\* Words at every place of the seams, one of them perhaps said twice.
Voiced30 == [k \in 0 .. 9 |-> k \notin {3, 7}]
Paused30 == [k \in 0 .. 9 |-> k \notin {4, 5}]
Texts4 == {<<"a", "b", "c", "d">>, <<"a", "a", "c", "d">>, <<"a", "b", "b", "d">>}
AnyWords ==
  {Plain(n, Spec(13, 12, 4),
         <<Spoke(a, a + 2, x[1]), Spoke(a + g, a + g + 2, x[2]),
           Spoke(a + g + 3, a + g + 5, x[3]), Spoke(a + g + 6, a + g + 8, x[4])>>) :
     n \in {21}, a \in 4 .. 9, g \in {3, 4}, x \in Texts4}
Long ==
  {Clip(30, Voiced30, Spec(13, 12, 4), Policy(2, 2, 1),
        <<Spoke(1, 3, "a"), Spoke(9, 11, "b"), Spoke(12, 14, "b"), Spoke(17, 19, "c"),
          Spoke(20, 22, "d")>>,
        <<Spoke(1, 3, "a"), Spoke(12, 14, "b"), Spoke(15, 17, "b"), Spoke(26, 28, "d")>>),
   Clip(30, Paused30, Spec(12, 12, 4), Policy(2, 2, 1),
        <<Spoke(1, 3, "a"), Spoke(10, 12, "b"), Spoke(16, 18, "c")>>, <<>>),
   Plain(38, Spec(13, 12, 4),
         <<Spoke(1, 3, "a"), Spoke(9, 11, "b"), Spoke(17, 19, "c"), Spoke(19, 21, "a"),
           Spoke(25, 27, "d")>>)}

\* Words in a row: more than are aligned, or fewer, in the wide overlap of a last
\* window that is anchored; equal ones in quick succession, within and across an
\* overlap.
Row(n, from, gap, texts) ==
  Plain(n, Spec(13, 12, 4),
        [k \in DOMAIN texts |-> Spoke(from + gap * (k - 1), from + gap * (k - 1) + 1, texts[k])])
Rows ==
  {Row(14, a, 2, <<"a", "b", "c", "d", "e">>) : a \in {1, 2}}
    \cup {Row(14, 2, 3, <<"a", "b", "c">>)}
    \cup {Row(21, a, 1, <<"b", "b", "b">>) : a \in {7, 8, 9}}
MCClips == AnyVoice \cup AnyLength \cup AnyWords \cup Long \cup Rows

\* Letters, one with an upper case, one no vocabulary has.
MCLower == "a" :> "a" @@ "b" :> "b" @@ "B" :> "b" @@ "c" :> "c"

\* Phrases of two words, with a repeated one, in upper case, without a weight.
Asked(ws, weight) == [words |-> ws, weight |-> weight]
Letters == <<WORD_BOUNDARY, <<"a">>, <<"b">>>>
Unbiased == [vocab |-> Letters, boost |-> 6, asked |-> {}]
MCHeads ==
  {Unbiased,
   [vocab |-> Letters, boost |-> 6,
    asked |-> {Asked(<<<<"a", "b">>>>, 1), Asked(<<<<"a">>, <<"a">>>>, 1), Asked(<<<<"B">>>>, 1),
               Asked(<<<<"c">>>>, 1), Asked(<<<<"a", "a">>>>, 0)}]}

\* Frames that leave every class open, or all but one.
Scores(blank, one, two) == 0 :> blank @@ 1 :> one @@ 2 :> two
OneFrame == <<Scores(1, 1, 1)>>
MCLattices ==
  [1 .. 3 -> {Scores(1, 1, 1), Scores(2, 3, 0), Scores(1, 0, 2), Scores(0, 2, 1)}] \cup {OneFrame}
Glossary(ids) == [phrases |-> ids, boost |-> 2]
MCGlossaries == {Glossary({}), Glossary({<<1, 2>>}), Glossary({<<1, 2, 2>>}),
                 Glossary({<<2, 1, 1>>, <<2, 1, 2>>})}
Wide == [hypotheses |-> 99, classes |-> 3]
MCWidths == {Wide, [hypotheses |-> 2, classes |-> 2]}

\* A BPE vocabulary with an unknown token, one without a marker, one of letters.
Phrases == {<<<<"a", "b">>>>, <<<<"a">>, <<"b">>>>, <<<<"a", "a">>>>}
LetterScript == [kind |-> "ctc", asked |-> Phrases, vocab |-> Letters]
MCScripts ==
  {[kind |-> "rnnt", asked |-> Phrases,
    vocab |-> <<WORD_BOUNDARY, <<"_", "a">>, <<"a">>, <<"b">>, <<"<unk>">>>>],
   [kind |-> "rnnt", asked |-> Phrases, vocab |-> <<<<"a">>, <<"b">>>>],
   LetterScript}

\* Numbers as they are spelled: under a thousand, thousands, millions.
NumberOf(value, scale) == [value |-> value, scale |-> scale]
MCNumberWords ==
  "zero" :> NumberOf(0, 1) @@ "five" :> NumberOf(5, 1) @@ "eleven" :> NumberOf(11, 10)
    @@ "sixty" :> NumberOf(60, 10) @@ "hundred" :> NumberOf(100, 100)
    @@ "thousand" :> NumberOf(1000, 1000) @@ "million" :> NumberOf(1000000, 1000000)
Number(value, names) == [value |-> value, words |-> [k \in DOMAIN names |-> <<names[k]>>]]
Nothing == Number(0, <<>>)
Sum3(a, b, c) == [value |-> a.value + b.value + c.value, words |-> a.words \o b.words \o c.words]
Times(n, name, scale) ==
  [value |-> (IF n.value = 0 THEN 1 ELSE n.value) * scale, words |-> Append(n.words, <<name>>)]
Below ==
  LET hundreds == {Nothing, Number(100, <<"hundred">>)}
  IN {Sum3(h, x, u) : h \in hundreds, x \in {Nothing, Number(60, <<"sixty">>)},
                      u \in {Nothing, Number(5, <<"five">>)}}
       \cup {Sum3(h, Nothing, Number(11, <<"eleven">>)) : h \in hundreds}
Spellings ==
  (Below \ {Nothing}) \cup {Number(0, <<"zero">>)}
    \cup {Sum3(Times(a, "thousand", 1000), b, Nothing) : a, b \in Below}
    \cup {Sum3(Times(a, "million", 1000000), Times(b, "thousand", 1000), c) :
            a \in {Nothing, Number(5, <<"five">>)}, b \in Below,
            c \in {Nothing, Number(11, <<"eleven">>)}}

\* Texts with numbers alone, between words and side by side; and of every
\* length up to three windows, with a word of many pieces, of too many, or one
\* the pre-tokenizer splits at every place.
Plainly(name) == [name |-> name]
MCTranscripts ==
  {<<n>> : n \in Spellings}
    \cup {<<Plainly("a"), n, Plainly("b"), m>> : n, m \in Below \ {Nothing}}
    \cup {<<Plainly("a"), n, m, Plainly("b")>> : n \in Spellings, m \in {x \in Below : Len(x.words) = 1}}
    \cup {[k \in 1 .. n |-> Plainly("a")] : n \in 0 .. 16}
    \cup {[k \in 1 .. 9 |-> Plainly(IF k = j THEN w ELSE "a")] :
            j \in 1 .. 9, w \in {"b", "c", "d"}}
MCPieces == "a" :> 1 @@ "b" :> 3 @@ "c" :> 12 @@ "d" :> 2
MCParts == "d" :> 2

\* An engine without text passes that commits stable prefixes, one with all
\* there is; and what a client may ask of them.
PlainBoot == [itn |-> FALSE, punctuator |-> FALSE, stable |-> TRUE, vad |-> FALSE,
              speakers |-> TRUE, mode |-> "auto", silence |-> 600]
MCBoots ==
  {PlainBoot,
   [itn |-> TRUE, punctuator |-> TRUE, stable |-> FALSE, vad |-> TRUE, speakers |-> TRUE,
    mode |-> "manual", silence |-> 40]}
MCConfigures ==
  {[version |-> "0.9"],
   [commit_policy |-> "stable_prefix", itn |-> "on", punctuation |-> "off"],
   [commit_policy |-> "on_finalize", endpoint_mode |-> "assistant", min_silence |-> "asked"],
   [endpoint_mode |-> "off", endpoint_silence |-> 2000, diarization |-> TRUE],
   [endpoint_silence |-> 2001, itn |-> "on"]}

\* Two words of one channel, three of another that overlap them; a split recording
\* with a silent channel, and what is over its budget.
File(n, ws) == [samples |-> n, words |-> ws]
Timed(name, a, b) == [name |-> name, start |-> a, end |-> b, speaker |-> NoSpeaker]
One == File(4, <<Timed("a", 0, 1), Timed("b", 1, 3)>>)
Two == File(3, <<Timed("c", 0, 2), Timed("d", 1, 1), Timed("e", 4, 5)>>)
Backwards == File(4, <<Timed("f", 2, 4), Timed("g", 0, 1), Timed("h", 0, 4)>>)
Request(source, diarize, budget, files, turns) ==
  [source |-> source, diarization |-> diarize, budget |-> budget, audio |-> files,
   turns |-> turns]
Turn(a, b, speaker) == [start |-> a, end |-> b, speaker |-> speaker]
NoAudio == Request("Channels", FALSE, 0, <<>>, <<>>)
Mixed == Request("Samples", TRUE, 0, <<One>>, <<Turn(0, 1, 1), Turn(1, 2, 0)>>)

\* Two turns, one after the other, overlapping, or the wrong way round.
AnyTurns ==
  {Request("Samples", TRUE, 0, <<f>>, <<Turn(a, b, 1), Turn(c, d, 0)>>) :
     a, c \in 0 .. 2, b, d \in 1 .. 3, f \in {One, File(4, Two.words), Backwards}}
MCRequests ==
  {NoAudio, Mixed} \cup AnyTurns
    \cup {Request("Bytes", TRUE, 4, <<Two>>, <<Turn(0, 1, 1)>>),
          Request("Bytes", TRUE, 3, <<One>>, <<>>), Request("Bytes", FALSE, 3, <<One>>, <<>>),
          Request("Bytes", FALSE, 0, <<Two>>, <<>>),
          Request("Channels", TRUE, 4, <<One, Two>>, <<>>),
          Request("Channels", FALSE, 3, <<Two, One>>, <<>>),
          Request("ChannelStreams", FALSE, 4, <<Two, One>>, <<>>),
          Request("ChannelStreams", FALSE, 3, <<Two, One>>, <<>>),
          Request("ChannelStreams", TRUE, 4, <<One, File(0, <<>>), Two>>, <<>>)}

\* A part that does not move has one initial state.
StreamStill ==
  /\ spoken = <<Said(0, 1), Said(3, 8)>> /\ policy = [stable |-> TRUE, mode |-> "auto", vad |-> FALSE]
  /\ StreamInit
DecodeStill == clip = Plain(0, Spec(8, 6, 2), <<>>) /\ plan = "serial" /\ DecodeInit
GreedyStill == head = Unbiased /\ GreedyInit
BeamStill == frames = OneFrame /\ glossary = Glossary({}) /\ width = Wide /\ BeamInit
WordsStill == script = LetterScript /\ frame_offset = 7 /\ FormatInit
LiveStill == boot = PlainBoot /\ LiveInit
TextStill == meant = <<>> /\ options = [itn |-> FALSE, punctuation |-> FALSE] /\ TextInit

FileStill == model = "absent" /\ ask = [c \in Callers |-> NoAudio] /\ FileInit

\* The second caller asks for the speakers of a mixed recording, or for nothing.
FileMoves ==
  /\ FileInit
  /\ ask[f2] \in {NoAudio, Mixed}
  /\ ask[f1] \in AnyTurns => ask[f2] = NoAudio /\ model = "good"

\* The two decoding loops find what the search they stand for would.
DecodersAreExact == GreedyIsExact /\ CtcIsExact

MCInit ==
  /\ part \in {"stream", "decode", "greedy", "beam", "words", "text", "live", "file"}
  /\ IF part = "stream" THEN StreamInit ELSE StreamStill
  /\ IF part = "decode" THEN DecodeInit ELSE DecodeStill
  /\ IF part = "greedy" THEN GreedyInit ELSE GreedyStill
  /\ IF part = "beam" THEN BeamInit ELSE BeamStill
  /\ IF part = "words" THEN FormatInit ELSE WordsStill
  /\ IF part = "text" THEN TextInit ELSE TextStill
  /\ IF part = "live" THEN LiveInit ELSE LiveStill
  /\ IF part = "file" THEN FileMoves ELSE FileStill

MCNext ==
  /\ UNCHANGED part
  /\ part # "stream" => UNCHANGED streamVars
  /\ part # "decode" => UNCHANGED longVars
  /\ part # "greedy" => UNCHANGED greedyVars
  /\ part # "beam" => UNCHANGED beamVars
  /\ part # "words" => UNCHANGED wordVars
  /\ part # "text" => UNCHANGED textVars
  /\ part # "live" => UNCHANGED liveVars
  /\ part # "file" => UNCHANGED fileVars
  /\ \/ part = "stream" /\ StreamNext
     \/ part = "decode" /\ DecodeNext
     \/ part = "greedy" /\ GreedyNext
     \/ part = "beam" /\ BeamNext
     \/ part = "words" /\ FormatNext
     \/ part = "text" /\ TextNext
     \/ part = "live" /\ LiveNext
     \/ part = "file" /\ FileNext

MCSpec == MCInit /\ [][MCNext]_<<part, parts>>
=============================================================================
