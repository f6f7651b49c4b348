----------------------------- MODULE FileStream ------------------------------
(***************************************************************************)
(* A file answered as a stream of events (POST /v1/transcribe/stream, and  *)
(* the OpenAI alias with stream=true): a blocking producer decodes chunk   *)
(* by chunk and puts events on a bounded channel, the response takes them  *)
(* off as fast as the client reads, and a watchdog task arbitrates between *)
(* the end of the file and the inference timeout (server/http/stream.rs,   *)
(* stream_watchdog.rs, openai_api.rs).                                     *)
(*                                                                         *)
(* The headers have been sent: checkout and probe are over.  An event is   *)
(* what it means for the end of the stream: "seg" (a segment or a delta),  *)
(* "last" (what ends a native stream), "done" and "mark" (transcript.done  *)
(* and [DONE] of the alias), "error".  A tick is a poll of the watchdog.   *)
(***************************************************************************)
EXTENDS Integers, Sequences, SequencesExt

CONSTANTS
  Places,     \* of the channel: 16, of the alias 32
  StallLimit, \* inference_timeout_secs; 0 switches the watchdog off
  SendLimit   \* STREAM_SEND_TIMEOUT

VARIABLES
  api,       \* native, openai
  producer,  \* top (of the loop), decode, emit, wait (for a place), over
  todo,      \* events it still has to send
  then,      \* where it goes after them: top, over
  stage,     \* Phase of the StreamWatchdog
  before,    \* the stage a send goes back to
  since,     \* polls since the stage was stamped
  waited,    \* polls spent in this send
  queue,     \* the channel
  told,      \* what the response yielded, from its first ending event on
  tail,      \* what it yields after the timeout
  response,  \* live, tail, closed; gone: the client left
  stop,      \* cancel: this request's child of the shutdown token
  leave,     \* abort: the flag the decode polls
  timedOut,  \* the watchdog's token
  dropped    \* history: an event other than the mark was not delivered

streamVars == <<api, producer, todo, then, stage, before, since, waited, queue, told, tail,
                response, stop, leave, timedOut, dropped>>

Endings == {"last", "done", "mark", "error"}

StreamTypeOK ==
  /\ api \in {"native", "openai"}
  /\ producer \in {"top", "decode", "emit", "wait", "over"} /\ then \in {"top", "over"}
  /\ stage \in {"Processing", "Sending", "Finishing", "Finished", "TimedOut"}
  /\ before \in {"Processing", "Finishing"}
  /\ since \in 0..StallLimit /\ waited \in 0..SendLimit
  /\ \A s \in {todo, queue, told, tail} : s \in Seq(Endings \cup {"seg"})
  /\ Len(queue) <= Places
  /\ response \in {"live", "tail", "closed", "gone"}
  /\ stop \in BOOLEAN /\ leave \in BOOLEAN /\ timedOut \in BOOLEAN /\ dropped \in BOOLEAN

StreamInit ==
  /\ api \in {"native", "openai"}
  /\ producer = "top" /\ todo = <<>> /\ then = "top"
  /\ stage = "Processing" /\ before = "Processing" /\ since = 0 /\ waited = 0
  /\ queue = <<>> /\ told = <<>> /\ tail = <<>> /\ response = "live"
  /\ stop = FALSE /\ leave = FALSE /\ timedOut = FALSE /\ dropped = FALSE

Listening == response = "live"   \* the receiver is open

----------------------------------------------------------------------------
\* The producer.  Completion and the sender are dropped as it ends.
ProducerEnds == /\ producer' = "over" /\ todo' = <<>>
        /\ stage' = IF stage = "TimedOut" THEN stage ELSE "Finished"

\* claim_finish, for the events of the end of the stream.
FinishWith(events) ==
  IF stage \in {"Processing", "Finishing"} /\ events # <<>>
  THEN stage' = "Finishing" /\ producer' = "emit" /\ todo' = events /\ then' = "over"
  ELSE ProducerEnds /\ UNCHANGED then

\* A partial not yet sent may precede an error.
ErrorEvents == {<<"error">>, <<"seg", "error">>}

LoopTop ==
  /\ producer = "top"
  /\ IF ~stop THEN producer' = "decode" /\ UNCHANGED <<todo, then, stage>>
     ELSE IF api = "native" THEN FinishWith(<<"last">>)
     ELSE ProducerEnds /\ UNCHANGED then
  /\ UNCHANGED <<api, before, since, waited, queue, told, tail, response, stop, leave,
                 timedOut, dropped>>

\* A chunk was decoded: progress(), then its segments.
ChunkDecoded ==
  /\ producer = "decode" /\ ~leave
  /\ since' = IF stage = "Processing" THEN 0 ELSE since
  /\ \/ producer' = "top" /\ UNCHANGED <<todo, then>>
     \/ producer' = "emit" /\ todo' = <<"seg">> /\ then' = "top"
  /\ UNCHANGED <<api, stage, before, waited, queue, told, tail, response, stop, leave,
                 timedOut, dropped>>

\* The file is decoded to its end, with a last segment or without.
FileEnds ==
  /\ producer = "decode" /\ ~leave
  /\ \/ api = "native" /\ (FinishWith(<<"last">>) \/ FinishWith(<<>>))
     \/ api = "openai" /\ (FinishWith(<<"seg", "done", "mark">>) \/ FinishWith(<<"done", "mark">>))
  /\ UNCHANGED <<api, before, since, waited, queue, told, tail, response, stop, leave,
                 timedOut, dropped>>

\* A decode error, a panic, or the abort flag seen in a decode.
DecodeFails ==
  /\ producer = "decode"
  /\ \E events \in ErrorEvents : FinishWith(events)
  /\ UNCHANGED <<api, before, since, waited, queue, told, tail, response, stop, leave,
                 timedOut, dropped>>

\* StreamWatchdog::send and send_stream_item.
Sent(back) ==
  /\ queue' = Append(queue, Head(todo)) /\ todo' = Tail(todo)
  /\ producer' = IF Len(todo) > 1 THEN "emit" ELSE then
  /\ stage' = IF Len(todo) = 1 /\ then = "over" THEN "Finished" ELSE back
  /\ since' = 0
  /\ UNCHANGED <<stop, leave, dropped>>

\* Mutant: the result of a send is ignored.
NotSentGoesOn ==
  /\ stop' = TRUE /\ leave' = TRUE
  /\ dropped' = (dropped \/ Head(todo) # "mark")
  /\ todo' = Tail(todo) /\ producer' = (IF Len(todo) > 1 THEN "emit" ELSE then)
  /\ stage' = "Processing"
  /\ UNCHANGED <<queue, since>>

NotSent ==
  /\ stop' = TRUE /\ leave' = TRUE
  /\ dropped' = (dropped \/ Head(todo) # "mark")
  /\ producer' = "over" /\ todo' = <<>> /\ stage' = "Finished"
  /\ UNCHANGED <<queue, since>>

SendEvent ==
  /\ producer = "emit" /\ stage \in {"Processing", "Finishing"}
  /\ before' = stage
  /\ IF ~Listening THEN NotSent /\ UNCHANGED waited
     ELSE IF Len(queue) < Places THEN Sent(stage) /\ UNCHANGED waited
     ELSE /\ producer' = "wait" /\ stage' = "Sending" /\ waited' = 0
          /\ UNCHANGED <<todo, queue, since, stop, leave, dropped>>
  /\ UNCHANGED <<api, then, told, tail, response, timedOut>>

SendTooLate ==
  /\ producer = "emit" /\ stage = "TimedOut" /\ ProducerEnds
  /\ dropped' = TRUE
  /\ UNCHANGED <<api, then, before, since, waited, queue, told, tail, response, stop, leave,
                 timedOut>>

\* Mutant: the send waits for the reader only.
SendWakesPatient ==
  /\ producer = "wait"
  /\ \/ ~Listening /\ NotSent
     \/ Listening /\ Len(queue) < Places /\ Sent(before)
  /\ UNCHANGED <<api, then, before, waited, told, tail, response, timedOut>>

SendWakes ==
  /\ producer = "wait"
  /\ \/ /\ stop \/ ~Listening \/ waited = SendLimit
        /\ NotSent
     \/ /\ ~stop /\ Listening /\ Len(queue) < Places
        /\ Sent(before)
  /\ UNCHANGED <<api, then, before, waited, told, tail, response, timedOut>>

----------------------------------------------------------------------------
\* The watchdog, the link from the receiver to the abort flag, the server.
StreamExpires ==
  /\ StallLimit # 0 /\ producer # "over" /\ ~stop
  /\ stage = "Processing" /\ since = StallLimit
  /\ stage' = "TimedOut" /\ leave' = TRUE /\ timedOut' = TRUE /\ stop' = TRUE
  /\ UNCHANGED <<api, producer, todo, then, before, since, waited, queue, told, tail,
                 response, dropped>>

LinkAbort ==
  /\ producer # "over" /\ ~leave /\ (stop \/ ~Listening)
  /\ leave' = TRUE
  /\ UNCHANGED <<api, producer, todo, then, stage, before, since, waited, queue, told, tail,
                 response, stop, timedOut, dropped>>

StreamShutdown ==
  /\ ~stop /\ stop' = TRUE
  /\ UNCHANGED <<api, producer, todo, then, stage, before, since, waited, queue, told, tail,
                 response, leave, timedOut, dropped>>

StreamPoll ==
  /\ \/ stage = "Processing" /\ since < StallLimit
     \/ producer = "wait" /\ waited < SendLimit
  /\ since' = IF stage = "Processing" /\ since < StallLimit THEN since + 1 ELSE since
  /\ waited' = IF producer = "wait" /\ waited < SendLimit THEN waited + 1 ELSE waited
  /\ UNCHANGED <<api, producer, todo, then, stage, before, queue, told, tail, response, stop,
                 leave, timedOut, dropped>>

----------------------------------------------------------------------------
\* The response body, polled while the client takes what it gets.
Yield(e) == told' = IF e \in Endings \/ told # <<>> THEN Append(told, e) ELSE told

Recv ==
  /\ response = "live" /\ ~timedOut /\ queue # <<>>
  /\ Yield(Head(queue)) /\ queue' = Tail(queue)
  /\ UNCHANGED <<api, producer, todo, then, stage, before, since, waited, tail, response,
                 stop, leave, timedOut, dropped>>

StreamCloses ==
  /\ response = "live" /\ ~timedOut /\ queue = <<>> /\ producer = "over"
  /\ response' = "closed"
  /\ UNCHANGED <<api, producer, todo, then, stage, before, since, waited, queue, told, tail,
                 stop, leave, timedOut, dropped>>

\* The timeout goes before what is queued, which is dropped.
TimeoutSeen ==
  /\ response = "live" /\ timedOut
  /\ response' = "tail" /\ queue' = <<>>
  /\ dropped' = (dropped \/ queue # <<>>)
  /\ tail' \in ErrorEvents
  /\ UNCHANGED <<api, producer, todo, then, stage, before, since, waited, told, stop, leave,
                 timedOut>>

YieldTail ==
  /\ response = "tail"
  /\ IF tail = <<>> THEN response' = "closed" /\ UNCHANGED <<told, tail>>
     ELSE Yield(Head(tail)) /\ tail' = Tail(tail) /\ UNCHANGED response
  /\ UNCHANGED <<api, producer, todo, then, stage, before, since, waited, queue, stop, leave,
                 timedOut, dropped>>

ClientLeaves ==
  /\ response \in {"live", "tail"}
  /\ response' = "gone" /\ queue' = <<>>
  /\ UNCHANGED <<api, producer, todo, then, stage, before, since, waited, told, tail, stop,
                 leave, timedOut, dropped>>

----------------------------------------------------------------------------
Sends == SendEvent \/ SendTooLate \/ SendWakes
Decodes == ChunkDecoded \/ FileEnds \/ DecodeFails
Responds == Recv \/ StreamCloses \/ TimeoutSeen \/ YieldTail

StreamNext == LoopTop \/ Decodes \/ Sends \/ StreamExpires \/ LinkAbort \/ StreamShutdown \/ StreamPoll
              \/ Responds \/ ClientLeaves

\* The producer runs but for its native calls, tasks are polled, time passes.
StreamFairness == /\ WF_streamVars(LoopTop \/ Sends) /\ WF_streamVars(StreamExpires)
                  /\ WF_streamVars(LinkAbort) /\ WF_streamVars(StreamPoll)

StreamSpec == StreamInit /\ [][StreamNext]_streamVars
StreamFairSpec == StreamSpec /\ StreamFairness

----------------------------------------------------------------------------
\* A stream has one end and nothing after it: an error, or the last segment,
\* or transcript.done with [DONE] behind it; whatever timeout, shutdown and
\* the end of the file do to each other (claim_finish and the biased select of
\* StreamWatchdog).
StreamEndsOnce == told \in {<<>>, <<"error">>, <<"last">>, <<"done">>, <<"done", "mark">>}

\* A client that reads to a regular end has every event before it: none was
\* refused by a full channel, dropped by a timeout, or late (send_stream_item
\* and the callers that return when it fails).
DoneMeansWhole == told # <<>> /\ told[1] # "error" => ~dropped

\* A producer whose request is over (client gone, reader stalled, timeout,
\* shutdown) ends, and its session and upload with it, if native calls return;
\* and no reader holds it in a send (STREAM_SEND_TIMEOUT).
StreamReturnsSlot ==
  WF_streamVars(Decodes) => /\ (stop \/ response = "gone") ~> (producer = "over")
                            /\ []<>(producer # "wait")

\* A client that reads does not wait for a native call that hangs: the timeout
\* "closes the response, independently of the blocking worker"
\* (docs/runbook.md).
Reads == WF_streamVars(Responds)
HungStreamCloses ==
  Reads => (response = "live" /\ producer = "decode") ~> (response # "live" \/ producer # "decode")

\* How a stream ends and what its end says, together.
StreamEndsTruly == StreamEndsOnce /\ DoneMeansWhole
=============================================================================
