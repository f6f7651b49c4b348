-------------------------------- MODULE MCLocal -------------------------------
(***************************************************************************)
(* What happens beside a server, on the disk and in other programs, for    *)
(* TLC: the model files, the loading of an engine, the cache of compiled   *)
(* models, the choice of a device, the boot, the batch commands, the       *)
(* bindings, the reading of an audio file and of one packet, the captions  *)
(* of a transcript.  They share no state: `part` says which of them moves, *)
(* the others stay in one initial state.                                   *)
(***************************************************************************)
EXTENDS ModelFiles, Caches, Service, Batch, Bindings, AudioSource,
        OpusPacket, Captions, TLC

CONSTANTS p1, p2, e1, e2, f1, f2

VARIABLE part

parts ==
  <<filesVars, loadVars, compiledVars, providerVars, bootVars, watchVars, handleVars, audioVars,
    packetVars, captionVars>>

\* Two heads of two files.
MCHeads == <<"rnnt", "ctc">>
MCFilesOf == [rnnt |-> <<"re", "rd">>, ctc |-> <<"ce", "cv">>]
Swap == Permutations({p1, p2})

\* What somebody placed by hand: an encoder, an encoder and a joiner, a package.
Placed ==
  /\ disk["speaker"] = "absent" /\ \A n \in {"ce", "cv", "rd"} : disk[n] # "good"
  /\ Cardinality(placed) <= 2
  /\ disk["package"] = "absent" \/ \A n \in Files : disk[n] = "absent"

\* Engines: of three triplets where two fit, one that may not fall back to the
\* CPU, and two that are loaded at once.
Wants(n, min, fit, accel, auto) ==
  [pool |-> n, min |-> min, slots |-> fit, accel |-> accel, auto |-> auto]
MCAsks == {e1 :> Wants(3, 1, 2, TRUE, TRUE), e1 :> Wants(2, 1, 3, FALSE, TRUE),
           e1 :> Wants(0, 0, 0, TRUE, FALSE),
           e1 :> Wants(1, 1, 1, FALSE, TRUE) @@ e2 :> Wants(1, 1, 1, FALSE, TRUE)}

MCInbox == <<f1, f2>>
MCVersions == f1 :> 3 @@ f2 :> 1

\* Files of up to three packets that fit a chunk or not: of two channels and of
\* a number that changes, at 16 kHz and not, ending well or not.
Lists(set, n) == UNION {[1 .. k -> set] : k \in 0 .. n}
Pack(n, ch, state, same) == [n |-> n, ch |-> ch, state |-> state, same |-> same]
Heard1(n, ch, same) == Pack(n, ch, "ok", same)
Elsewhere == Pack(2, 2, "other", TRUE)
Damaged == Pack(1, 2, "bad", TRUE)
AudioFile(kinds, natives, chs, packets, n, ends) ==
  [kind : kinds, native : natives, channels : chs, packets : Lists(packets, n), ends : ends]
StereoFiles ==
  AudioFile({"pcm"}, BOOLEAN, {2}, {Heard1(1, 2, TRUE), Heard1(3, 2, FALSE), Elsewhere, Damaged},
            3, {"clean", "cut", "broken"})
ChangingFiles ==
  AudioFile({"pcm"}, {FALSE}, {2},
            {Heard1(3, 1, TRUE), Heard1(2, 2, TRUE), Heard1(1, 3, FALSE)}, 3, {"clean"})
MixedFiles ==
  AudioFile({"pcm"}, {FALSE}, {1, 3}, {Heard1(3, 1, TRUE), Heard1(2, 2, TRUE)}, 2, {"clean"})
WaveFiles(natives, c, n) ==
  AudioFile({"wave"}, natives, {c},
            {Heard1(3, c, TRUE), Heard1(2, c, FALSE), Pack(1, c, "bad", TRUE),
             Pack(1, c, "panic", TRUE)},
            n, {"clean", "broken"})
OpusFiles(c) ==
  AudioFile({"opus"}, {FALSE}, {c}, {Heard1(1, c, TRUE), Heard1(3, c, TRUE), Heard1(3, c, FALSE)},
            3, {"clean", "cut"})
MCWaves == WaveFiles(BOOLEAN, 1, 2) \cup (WaveFiles({TRUE}, 2, 2) \cup WaveFiles({FALSE}, 2, 3))
MCAudio ==
  StereoFiles \cup (ChangingFiles \cup (MixedFiles
    \cup (MCWaves \cup (OpusFiles(1) \cup OpusFiles(2)))))

\* Packets of bytes below, at and above the bounds of the two codings.
Wire(code, unit, payload) == [code |-> code, samples_per_frame |-> unit, payload |-> payload]
Bytes == {0, 1, 3, 6}
CountBytes == [count : 0 .. 4, vbr : BOOLEAN, padded : BOOLEAN]
PlainWires == {Wire(c, 1, s) : c \in 0 .. 2, s \in Lists(Bytes, 4)}
CountedWires == {Wire(3, 1, <<b>> \o s) : b \in CountBytes, s \in Lists(Bytes, 4)}
DoubleWires == {Wire(3, 2, <<b>> \o s) : b \in CountBytes, s \in Lists(Bytes, 3)}
LongWires ==
  {Wire(3, 1, <<b>> \o s) : b \in {c \in CountBytes : c.count = 2}, s \in [1 .. 5 -> Bytes]}
MCWires ==
  PlainWires \cup (CountedWires \cup (DoubleWires \cup (LongWires \cup {Wire(3, 1, <<>>)})))

\* A part that does not move has one initial state.
FilesStill == placed = {} /\ FilesInit
LoadStill ==
  /\ ask = e1 :> Wants(1, 1, 1, FALSE, TRUE) @@ e2 :> Wants(1, 1, 1, FALSE, TRUE)
  /\ LoadInit /\ entry[1] = 0
CompiledStill == CompiledInit /\ final = 0 /\ meta = 0
BatchStill == command = "batch" /\ source = "keep" /\ WatchInit /\ todo = <<>>
BindingsStill == api = "c" /\ BindingsInit
AudioStill ==
  /\ audio = [kind |-> "wave", native |-> TRUE, channels |-> 2, packets |-> <<>>, ends |-> "broken"]
  /\ channel = Mono /\ limit = 99
  /\ AudioInit
OpusStill == wire = Wire(3, 1, <<>>) /\ PacketInit

\* Words of two speakers or of none, short and long, at every limit of a line.
Uttered(word, from, to, len, speaker, ends) ==
  [name |-> word, start |-> from, end |-> to, len |-> len, speaker |-> speaker, stop |-> ends]
Export(words, format, sections, chars, count) ==
  [words |-> words, format |-> format, segments |-> sections, chars |-> chars, count |-> count]
LineWords == UNION {[1 .. n -> {3, 8} \X {Unlabelled, 0, 1}] : n \in 1 .. 4}
Lined ==
  {Export([k \in DOMAIN ws |-> Uttered(k, 500 * k, 500 * k + 400, ws[k][1], ws[k][2], FALSE)],
          "srt", FALSE, most[1], most[2]) :
     ws \in LineWords, most \in {<<0, 0>>, <<20, 0>>, <<24, 2>>, <<0, 3>>}}

\* Pauses and durations at the thresholds and over them, ends of sentences.
SpokenWords == [1 .. 3 -> {900, 901} \X {14550, 14551} \X {0, 1} \X BOOLEAN]
Spoken ==
  {LET At(k) == IF k = 1 THEN 0
                ELSE ws[1][2] + ws[2][1] + (IF k = 2 THEN 0 ELSE ws[2][2] + ws[3][1])
   IN Export([k \in 1 .. 3 |-> Uttered(k, At(k), At(k) + ws[k][2], 3, ws[k][3], ws[k][4])],
             "json", TRUE, 80, 14) : ws \in SpokenWords}

\* Every format, with times before the recording and around an hour.
Late == <<Uttered("a", -20, 300, 3, Unlabelled, FALSE),
          Uttered("b", 3599000, 3599400, 3, Unlabelled, TRUE),
          Uttered("c", 3599499, 3600000, 3, 1, FALSE),
          Uttered("d", 3599500, 3600000, 3, 2, FALSE)>>
Documents ==
  {Export(ws, f, g, 80, 14) : ws \in {<<>>, Late}, g \in BOOLEAN,
                              f \in {"json", "txt", "srt", "vtt", "md", "pdf"}}
MCExports == Lined \cup (Spoken \cup Documents)
CaptionStill == export = Export(<<>>, "json", FALSE, 80, 14) /\ CaptionInit

\* What was asked for, what is built in and what works, in all combinations; machines
\* around the sizes at which a pool of three or four fits.
Deployment(choice, build, variant, accelerator, processor) ==
  [choice |-> choice, build |-> build, head |-> variant, accelerator |-> accelerator,
   processor |-> processor, encoder |-> 10, host |-> 200, v2 |-> -1, v1 |-> -1, cpus |-> 4,
   pool |-> 3, min |-> 2, batch |-> 1, threads |-> 2]
Devices ==
  {Deployment(c, b, h, a, p) :
     c \in {"auto", "cpu", "coreml", "cuda"}, b \in {"default", "coreml", "cuda", "candle", "ane"},
     h \in {"rnnt", "e2e_rnnt"}, a \in {"works", "absent", "faulty"}, p \in {"works", "faulty"}}
Somewhere == Deployment("auto", "default", "rnnt", "absent", "works")
Machines ==
  {[Somewhere EXCEPT !.encoder = m[1], !.host = m[2], !.v2 = m[3], !.v1 = m[4], !.cpus = m[5],
                     !.pool = m[6], !.min = m[7], !.batch = m[8], !.threads = m[9]] :
     m \in {0, 10} \X {0, 79, 80, 200} \X {-1, 0, 40, 120, 1000} \X {-1, 80, 1000} \X {1, 3}
            \X {0, 1, 4} \X {0, 2} \X {0, 4} \X {0, 3}}
MCDeployments == Devices \cup Machines

\* Model directories: of one head, of two, of half a head, of a pack; with the models
\* of the passes beside them or not.
Manifest(state, architecture) == [state |-> state, architecture |-> architecture]
NoManifest == Manifest("none", "rnnt")
Dir(manifest, rnnt, e2e, ctc, sides) ==
  [manifest |-> manifest, heads |-> [rnnt |-> rnnt, e2e_rnnt |-> e2e, ml_ctc |-> ctc],
   punct |-> sides, vad |-> sides, words |-> sides]
Plainly == Dir(NoManifest, "set", "none", "none", TRUE)
MCPlaces ==
  {Plainly, Dir(NoManifest, "none", "none", "none", FALSE),
   Dir(NoManifest, "none", "set", "none", FALSE), Dir(NoManifest, "encoder", "set", "none", TRUE),
   Dir(NoManifest, "set", "set", "set", FALSE), Dir(NoManifest, "none", "none", "set", TRUE)}
    \cup {Dir(Manifest(s, a), "none", "none", "none", TRUE) :
            s \in {"whole", "partial", "invalid"}, a \in {"e2e_rnnt", "ml_ctc"}}
    \cup {Dir(Manifest("whole", a), "set", "set", "none", FALSE) : a \in {"rnnt", "e2e_rnnt"}}

\* Commands: every head and mode; the profile against what is set; the limits of the
\* file against those of the flags.
Command(what, online, variant, vad, punctuation) ==
  [command |-> what, online |-> online, variant |-> variant, profile |-> "default",
   pool |-> IF what = "serve" THEN 0 ELSE 1, vad |-> vad, punctuation |-> punctuation,
   itn |-> punctuation, words |-> vad, lexicon |-> FALSE, config |-> FALSE, rpm |-> 99,
   burst |-> 99]
Stock == Command("serve", TRUE, "none", FALSE, "auto")
Limited == {[Stock EXCEPT !.config = c, !.rpm = r, !.burst = b] :
              c \in BOOLEAN, r \in {0, 60, 99}, b \in {0, 5, 99}}
MCSetups ==
  {Command(c, o, v, d, p) : c \in {"serve", "offline"}, o \in BOOLEAN, d \in BOOLEAN,
                            v \in {"none", "rnnt", "e2e_rnnt", "ml_ctc"}, p \in {"off", "auto"}}
    \cup {[Stock EXCEPT !.profile = p, !.pool = n, !.vad = d, !.lexicon = d, !.punctuation = "on"] :
            p \in {"default", "edge"}, n \in {0, 1, 3}, d \in BOOLEAN}
    \cup Limited
FileOf(valid, rpm, burst) == [valid |-> valid, rpm |-> rpm, burst |-> burst]
MCConfigs == {FileOf(TRUE, 0, 10), FileOf(TRUE, 30, 10), FileOf(FALSE, 30, 10), FileOf(TRUE, 30, 0)}
Over(p, i, v, w) == [punctuation |-> p, itn |-> i, vad |-> v, words |-> w]
MCAsked == {Over(a, b, b, a) : a \in {"unset", "on"}, b \in {"unset", "off"}}

\* Limits and models are looked at apart.
Configured ==
  /\ setup \in Limited => place = Plainly
  /\ ~setup.config => config = FileOf(TRUE, 0, 10)

ProvidersStill == deploy = Somewhere /\ ProvidersInit
BootStill == setup = Stock /\ place = Plainly /\ BootInit /\ Configured

\* All parts but one.
Still(moves) ==
  /\ moves = "files" \/ FilesStill
  /\ moves = "load" \/ LoadStill
  /\ moves = "compiled" \/ CompiledStill
  /\ moves = "providers" \/ ProvidersStill
  /\ moves = "boot" \/ BootStill
  /\ moves = "batch" \/ BatchStill
  /\ moves = "bindings" \/ BindingsStill
  /\ moves = "audio" \/ AudioStill
  /\ moves = "opus" \/ OpusStill
  /\ moves = "captions" \/ CaptionStill

\* A file in its container and a packet in its framing come out whole.  (fill_streaming,
\* split_opus_packet)
SoundIsWhole == AudioIsWhole /\ FramesAreOfThePacket

MCInit ==
  /\ part \in {"files", "load", "compiled", "providers", "boot", "batch", "bindings", "audio",
               "opus", "captions"}
  /\ Still(part)
  /\ \/ part = "files" /\ FilesInit /\ Placed
     \/ part = "load" /\ LoadInit
     \/ part = "compiled" /\ CompiledInit
     \/ part = "providers" /\ ProvidersInit
     \/ part = "boot" /\ BootInit /\ Configured
     \/ part = "batch" /\ WatchInit
     \/ part = "bindings" /\ BindingsInit
     \/ part = "audio" /\ AudioInit
     \/ part = "opus" /\ PacketInit
     \/ part = "captions" /\ CaptionInit

MCNext ==
  /\ UNCHANGED part
  /\ part # "files" => UNCHANGED filesVars
  /\ part # "load" => UNCHANGED loadVars
  /\ part # "compiled" => UNCHANGED compiledVars
  /\ part # "providers" => UNCHANGED providerVars
  /\ part # "boot" => UNCHANGED bootVars
  /\ part # "batch" => UNCHANGED watchVars
  /\ part # "bindings" => UNCHANGED handleVars
  /\ part # "audio" => UNCHANGED audioVars
  /\ part # "opus" => UNCHANGED packetVars
  /\ part # "captions" => UNCHANGED captionVars
  /\ \/ part = "files" /\ FilesNext
     \/ part = "load" /\ LoadNext
     \/ part = "compiled" /\ CompiledNext
     \/ part = "providers" /\ ProvidersNext
     \/ part = "boot" /\ BootNext
     \/ part = "batch" /\ WatchNext
     \/ part = "bindings" /\ BindingsNext
     \/ part = "audio" /\ AudioNext
     \/ part = "opus" /\ PacketNext
     \/ part = "captions" /\ CaptionNext

MCSpec == MCInit /\ [][MCNext]_<<part, parts>>

\* A watch, and nothing else.
Watching == part = "batch" /\ command = "watch" /\ MCInit /\ [][MCNext]_<<part, parts>>
=============================================================================
