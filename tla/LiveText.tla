------------------------------ MODULE LiveText -------------------------------
(***************************************************************************)
(* What a WebSocket client reads of a live stream: the assembler           *)
(* (core/inference/state.rs) holds words the window has left behind and    *)
(* words the next decode may still change, the commit policy of the        *)
(* session says how much of that is shown as immutable, and at the end of  *)
(* an utterance the rest goes through the text passes                      *)
(* (core/inference/engine/stream.rs).  The handler (server/ws/frames.rs)   *)
(* waits for the blocking run that owns the state and, when it will not    *)
(* wait any longer, tells what the shared snapshot holds.                   *)
(*                                                                         *)
(* What the decoder hears is free here: StreamDecode is about that.  A     *)
(* client that has gone reads nothing, so no step is about one.            *)
(***************************************************************************)
EXTENDS Naturals, Sequences, SequencesExt

CONSTANTS
  Boots,       \* engines: [itn, punctuator, stable, vad, speakers, mode, silence]
  Configures,  \* messages: the fields a client sends
  Vocabulary,      \* words
  MaxWords    \* bound on the words of an utterance

ASSUME LiveAssumption == MaxWords \in Nat

VARIABLES
  boot,        \* the engine
  settings,    \* what the StreamingState says of this session
  asked,       \* history: what the client's accepted messages say
  audio_received,
  run,         \* the blocking run: where it is
  stopping,    \* the run is the last one, of a Stop
  answer,      \* what the run has come to
  kept,        \* committed_words of the assembler
  tail,        \* its live words
  published,    \* TranscriptSnapshot, shared with the run: a segment, if any
  out,         \* segments the handler has yet to send
  over,        \* the session takes no more messages
  latest,      \* the last segment told
  earlier,     \* history: what was immutable of this utterance before it
  frozen,      \* history: kept when the run began
  panicked,    \* history: the state was reset
  rebuilt,     \* history: the state was made anew after min_silence_ms
  lost         \* history: a run was given up when it held a Final

configVars == <<boot, settings, asked, audio_received, panicked, rebuilt>>
assembler  == <<kept, tail>>
toldVars   == <<out, over, latest, earlier, lost>>
liveVars   == <<configVars, assembler, run, stopping, answer, published, toldVars, frozen>>

NoSnapshot == <<>>

\* Engine::create_state
create_state(diarization) ==
  [punctuation |-> "boot", itn |-> "boot", commit_policy |-> "auto",
   endpoint_mode |-> boot.mode, endpoint_silence |-> boot.silence, min_silence |-> "boot",
   diarization |-> diarization /\ boot.speakers]

-----------------------------------------------------------------------------
(* Segments.  A word of a text carries the passes it went through.         *)

Raw(words) == [k \in DOMAIN words |-> [word |-> words[k], passes |-> {}]]
Unpassed(text) == [k \in DOMAIN text |-> text[k].word]

Segment(words, committed, rest, final) ==
  [words |-> words, text |-> committed \o rest, committed |-> committed, tentative |-> rest,
   final |-> final, truncated |-> FALSE]

empty_final == Segment(<<>>, <<>>, <<>>, TRUE)
empty_truncated_final == [empty_final EXCEPT !.truncated = TRUE]

\* apply_text_postprocess, by the session's choice or the engine's.
ItnOn == settings.itn = "on" \/ (settings.itn = "boot" /\ boot.itn)
PunctuationOn == settings.punctuation # "off" /\ boot.punctuator
Passes == (IF ItnOn THEN {"itn"} ELSE {}) \cup (IF PunctuationOn THEN {"punctuation"} ELSE {})
apply_text_postprocess(text) == [k \in DOMAIN text |-> [text[k] EXCEPT !.passes = @ \cup Passes]]

\* The policies and modes a token may name, the durations that make sense.
CommitPolicy == {"auto", "on_finalize", "stable_prefix"}
EndpointMode == {"auto", "assistant", "manual"}
EndpointSilence == 40 .. 2000

stable_prefix_enabled == boot.stable \/ settings.commit_policy = "stable_prefix"

resolved_commit_policy ==
  IF settings.commit_policy # "auto" THEN settings.commit_policy
  ELSE IF Passes # {} THEN "on_finalize" ELSE "stable_prefix"

stream_partial(words, live) ==
  IF resolved_commit_policy = "on_finalize"
  THEN Segment(words \o live, <<>>, Raw(words \o live), FALSE)
  ELSE Segment(words \o live, Raw(words), Raw(live), FALSE)

\* The passes are run over the whole utterance.
finalize_rewriting_all(words, live) ==
  Segment(words \o live, apply_text_postprocess(stream_partial(words, live).text), <<>>, TRUE)

\* Only what was tentative goes through the passes.
finalize_stream_segment(words, live) ==
  LET partial == stream_partial(words, live)
  IN  Segment(words \o live, partial.committed \o apply_text_postprocess(partial.tentative),
              <<>>, TRUE)

into_truncated_final(segment) ==
  [segment EXCEPT !.committed = segment.text, !.tentative = <<>>, !.final = TRUE,
                  !.truncated = TRUE]

-----------------------------------------------------------------------------
(* The assembler and the snapshot.                                         *)

set_words(live) == tail' = live /\ UNCHANGED kept

\* Words that leave the window must not be heard again: they are kept.
commit_prefix(n) == /\ kept' = kept \o SubSeq(tail, 1, n)
                    /\ tail' = SubSeq(tail, n + 1, Len(tail))
commit_live == commit_prefix(Len(tail))

\* TranscriptSnapshot::store, clear
publish_stream_partial(words, live) == published' = <<stream_partial(words, live)>>
clear == published' = NoSnapshot

-----------------------------------------------------------------------------
LiveInit ==
  /\ boot \in Boots
  /\ settings = create_state(FALSE) /\ asked = create_state(FALSE)
  /\ audio_received = FALSE /\ panicked = FALSE /\ rebuilt = FALSE
  /\ run = "none" /\ stopping = FALSE /\ answer = <<>>
  /\ kept = <<>> /\ tail = <<>> /\ published = NoSnapshot
  /\ out = <<>> /\ over = FALSE /\ latest = empty_final /\ earlier = <<>>
  /\ frozen = <<>> /\ lost = FALSE

\* The handler is at the top of its loop.
Ready == ~over /\ out = <<>> /\ run = "none"

\* It sends its segments one by one.
Send ==
  /\ out # <<>>
  /\ latest' = Head(out) /\ out' = Tail(out)
  /\ earlier' = IF latest.final THEN <<>> ELSE latest.committed
  /\ UNCHANGED <<configVars, assembler, run, stopping, answer, published, over, frozen, lost>>

\* send_abort
Goodbye(reason) ==
  /\ over' = TRUE
  /\ out' = published \o
       (IF reason \notin {"shutdown", "limit"} THEN <<>>
        ELSE IF published = NoSnapshot THEN <<empty_truncated_final>>
        ELSE <<into_truncated_final(published[1])>>)
  /\ UNCHANGED <<latest, earlier, published>>

-----------------------------------------------------------------------------
(* Configure: until the first audio frame, each message over the last one. *)

Bad(m, field, values) == field \in DOMAIN m /\ m[field] \notin values

\* Nothing is changed before these are known to be right.
Refused(m) == \/ Bad(m, "endpoint_silence", EndpointSilence)
              \/ Bad(m, "commit_policy", CommitPolicy)

\* One field is forgotten.
CarriedOver4 == {"punctuation", "itn", "endpoint_mode", "endpoint_silence"}

CarriedOver == {"punctuation", "itn", "endpoint_mode", "endpoint_silence", "commit_policy"}

\* A diarization field makes a new state.
Recreated(m) ==
  IF "diarization" \notin DOMAIN m THEN settings
  ELSE [f \in DOMAIN settings |->
          IF f \in CarriedOver THEN settings[f] ELSE create_state(m.diarization)[f]]

\* A bad endpoint_mode is found last: what comes after it is not reached.
Taken(m) ==
  ({"commit_policy", "punctuation", "itn", "endpoint_silence"}
     \cup (IF Bad(m, "endpoint_mode", EndpointMode) THEN {}
           ELSE {"endpoint_mode"} \cup (IF boot.vad THEN {"min_silence"} ELSE {})))
    \cap DOMAIN m

Over(base, m, fields) == [f \in DOMAIN base |-> IF f \in fields THEN m[f] ELSE base[f]]

Unsupported(m) == Bad(m, "version", {"1.0", "1.1", "1.2", "1.3"})

BadVersion(m) ==
  /\ Ready /\ ~audio_received /\ Unsupported(m)
  /\ over' = TRUE
  /\ UNCHANGED <<configVars, assembler, run, stopping, answer, published, out, latest, earlier,
                 frozen, lost>>

Configure(m) ==
  /\ Ready /\ ~audio_received /\ ~Unsupported(m) /\ ~Refused(m)
  /\ settings' = Over(Recreated(m), m, Taken(m))
  /\ asked' = Over(asked, m, Taken(m) \cup ({"diarization"} \cap DOMAIN m))
  /\ rebuilt' = IF "min_silence" \in Taken(m) THEN FALSE ELSE rebuilt \/ "diarization" \in DOMAIN m
  /\ UNCHANGED <<boot, audio_received, panicked, assembler, run, stopping, answer, published,
                 toldVars, frozen>>

\* The speaker model is loaded for the new state, and takes too long.
ConfigureAbandoned(m, reason) ==
  /\ Ready /\ ~audio_received /\ ~Unsupported(m) /\ ~Refused(m)
  /\ "diarization" \in DOMAIN m
  /\ Goodbye(reason)
  /\ UNCHANGED <<configVars, assembler, run, stopping, answer, frozen, lost>>

-----------------------------------------------------------------------------
(* The run.                                                                *)

StartRun(stop) ==
  /\ Ready
  /\ run' = "decoding" /\ stopping' = stop /\ answer' = <<>>
  /\ audio_received' = (audio_received \/ ~stop) /\ frozen' = kept
  /\ UNCHANGED <<boot, settings, asked, panicked, rebuilt, assembler, published, toldVars>>

RunMoves == ~over /\ UNCHANGED <<configVars, stopping, toldVars, frozen>>

\* Not enough audio for another decode.
RunWaits ==
  /\ run = "decoding" /\ ~stopping /\ RunMoves
  /\ run' = "back"
  /\ UNCHANGED <<assembler, answer, published>>

\* decode_window replaces the live words.  A chunk's are published at once.
RunHears ==
  /\ run = "decoding" /\ RunMoves
  /\ \E n \in 0 .. (MaxWords - Len(kept)) : \E live \in [1 .. n -> Vocabulary] :
       /\ set_words(live)
       /\ IF stopping THEN UNCHANGED published ELSE publish_stream_partial(kept, live)
  /\ run' = "decoded"
  /\ UNCHANGED answer

\* The end of the stream finds everything decoded.
NothingToDecode ==
  /\ run = "decoding" /\ stopping /\ RunMoves
  /\ run' = "decoded"
  /\ UNCHANGED <<assembler, answer, published>>

RunFails ==
  /\ run = "decoding" /\ RunMoves
  /\ run' = "failed"
  /\ publish_stream_partial(kept, tail)
  /\ UNCHANGED <<assembler, answer>>

\* A panic in a decode of a chunk: what is published is what was.
RunPanics ==
  /\ run \in {"decoding", "decoded"} /\ RunMoves
  /\ run' = "panicked"
  /\ IF stopping THEN publish_stream_partial(kept, tail) ELSE UNCHANGED published
  /\ UNCHANGED <<assembler, answer>>

\* speech_endpoint
MayEnd == \/ settings.endpoint_mode = "auto"
          \/ settings.endpoint_mode = "assistant" /\ boot.vad

\* finalize_stream_segment: the assembler and the snapshot are emptied before
\* anybody has the Final.
RunEndsUtterance ==
  /\ run = "decoded" /\ RunMoves
  /\ IF stopping THEN kept \o tail # <<>> ELSE MayEnd
  /\ run' = "cleared"
  /\ answer' = IF kept \o tail = <<>> THEN <<>> ELSE <<finalize_stream_segment(kept, tail)>>
  /\ kept' = <<>> /\ tail' = <<>> /\ clear

RunReturns ==
  /\ run = "cleared" /\ RunMoves
  /\ run' = "back"
  /\ UNCHANGED <<assembler, answer, published>>

NothingToFlush ==
  /\ run = "decoded" /\ stopping /\ kept \o tail = <<>> /\ RunMoves
  /\ run' = "back"
  /\ UNCHANGED <<assembler, answer, published>>

Partial(words, live) == IF words \o live = <<>> THEN <<>> ELSE <<stream_partial(words, live)>>

RunShowsPartial ==
  /\ run = "decoded" /\ ~stopping /\ RunMoves
  /\ run' = "back" /\ answer' = Partial(kept, tail)
  /\ UNCHANGED <<assembler, published>>

\* The window is full: what is stable is committed, or everything.
RunCommits ==
  /\ run = "decoded" /\ ~stopping /\ RunMoves
  /\ IF stable_prefix_enabled THEN \E n \in 0 .. Len(tail) : commit_prefix(n) ELSE commit_live
  /\ publish_stream_partial(kept', tail')
  /\ run' = "back" /\ answer' = Partial(kept', tail')

-----------------------------------------------------------------------------
(* The handler and the run.                                                *)

Returned == {"back", "failed", "panicked"}

\* An error is told, and the session goes on.
Deliver ==
  /\ run \in {"back", "failed"} /\ ~over /\ ~stopping
  /\ run' = "none" /\ answer' = <<>>
  /\ out' = answer
  /\ UNCHANGED <<configVars, assembler, stopping, published, over, latest, earlier, lost, frozen>>

\* The state may be half changed: a new one takes over what the client asked
\* for, as far as it is copied.
Reset ==
  /\ run = "panicked" /\ ~over /\ ~stopping
  /\ run' = "none" /\ answer' = <<>>
  /\ settings' = [create_state(FALSE) EXCEPT !.punctuation = settings.punctuation,
                    !.itn = settings.itn, !.commit_policy = settings.commit_policy]
  /\ panicked' = TRUE
  /\ kept' = <<>> /\ tail' = <<>>
  /\ latest' = empty_final /\ earlier' = <<>> /\ frozen' = <<>>
  /\ UNCHANGED <<boot, asked, audio_received, rebuilt, stopping, published, out, over, lost>>

\* Stop: a Final in any case, or the readable text and an error.
Stopped ==
  /\ run \in Returned /\ ~over /\ stopping
  /\ run' = "none" /\ over' = TRUE /\ answer' = <<>>
  /\ out' = IF run # "back" THEN (IF published # NoSnapshot /\ published[1].text = <<>>
                                   THEN <<>> ELSE published)
            ELSE IF answer = <<>> THEN <<empty_final>>
            ELSE answer
  /\ UNCHANGED <<configVars, assembler, stopping, published, latest, earlier, lost, frozen>>

\* await_decode: shutdown, disconnection and the session limit are looked at
\* before the run, the timeout after it.
Abandon(reason) ==
  /\ run # "none" /\ ~over
  /\ reason = "timeout" => run \notin Returned
  /\ Goodbye(reason)
  /\ lost' = \E k \in DOMAIN answer : answer[k].final
  /\ run' = "none" /\ answer' = <<>>
  /\ UNCHANGED <<configVars, assembler, stopping, frozen>>

\* flush_and_final: a shutdown or the session limit between two frames.
CutBetween ==
  /\ Ready
  /\ over' = TRUE /\ frozen' = kept
  /\ out' = IF kept \o tail = <<>> THEN <<empty_truncated_final>>
            ELSE <<into_truncated_final(finalize_stream_segment(kept, tail))>>
  /\ kept' = <<>> /\ tail' = <<>>
  /\ IF kept \o tail = <<>> THEN UNCHANGED published ELSE clear
  /\ UNCHANGED <<configVars, run, stopping, answer, latest, earlier, lost>>

Reasons == {"shutdown", "limit", "timeout"}

LiveNext ==
  \/ \E m \in Configures :
       \/ BadVersion(m) \/ Configure(m)
       \/ \E reason \in Reasons : ConfigureAbandoned(m, reason)
  \/ \E stop \in BOOLEAN : StartRun(stop)
  \/ RunWaits \/ RunHears \/ NothingToDecode \/ RunFails \/ RunPanics
  \/ RunEndsUtterance \/ RunReturns \/ NothingToFlush \/ RunShowsPartial \/ RunCommits
  \/ Deliver \/ Reset \/ Stopped \/ CutBetween
  \/ \E reason \in Reasons : Abandon(reason)
  \/ Send

LiveSpec == LiveInit /\ [][LiveNext]_liveVars

-----------------------------------------------------------------------------
(* Properties.                                                             *)

\* What a client was once told is immutable stays so until the utterance's Final,
\* the Final included, whatever the passes make of the rest; text is committed and
\* tentative together; a Final leaves nothing tentative and says every word that
\* the window has left behind, also if the policy never showed it as immutable, and
\* also if the session was cut short.  Excused is a Final in the hands of a run
\* that was given up.  (finalize_stream_segment, into_truncated_final, send_abort)
TextOnlyGrows ==
  ~lost =>
    /\ IsPrefix(earlier, latest.committed)
    /\ latest.text = latest.committed \o latest.tentative
    /\ Unpassed(latest.text) = latest.words
    /\ latest.final /\ (latest.words # <<>> \/ over) =>
         latest.tentative = <<>> /\ (out = <<>> => IsPrefix(frozen, latest.words))

\* What a client asked for holds for the whole session: several messages add up,
\* and a state made anew, for diarization or after a panic, keeps it.  Not kept
\* are endpoint_mode, endpoint_silence_ms and diarization over a panic, and
\* min_silence_ms when the speaker model is asked for after it, although
\* docs/api.md:199 says "an absent field leaves the previous value".
\* (handle_configure_message, handle_binary_frame)
ChoicesHold ==
  /\ \A f \in {"punctuation", "itn", "commit_policy"} : settings[f] = asked[f]
  /\ ~panicked =>
       /\ \A f \in {"endpoint_mode", "endpoint_silence"} : settings[f] = asked[f]
       /\ settings.diarization = (asked.diarization /\ boot.speakers)
       /\ ~rebuilt => settings.min_silence = asked.min_silence

\* "A final with truncated: true is sent first and keeps the committed text"
\* (docs/api.md, max_session_duration_exceeded): what was immutable before the
\* session was cut short is in that Final.
CapKeepsText == latest.truncated => IsPrefix(earlier, latest.committed)

=============================================================================
