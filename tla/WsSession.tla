----------------------------- MODULE WsSession -----------------------------
(***************************************************************************)
(* One live session of GET /v1/ws (server/ws/mod.rs, frames.rs,            *)
(* incoming.rs): the session task with its biased select loop, the reader  *)
(* task that keeps reading the socket while a decode owns the session, the *)
(* detached blocking decode, and the client.                               *)
(*                                                                         *)
(* The session's streaming state and its pool reservation travel together: *)
(* `slot` says where they are.  Of a message only what the session does    *)
(* with it is kept; "end" is whatever ends the stream of messages: a Close *)
(* frame, a read error or EOF; "other" is a Configure, an unknown text     *)
(* message or a Pong.                                                      *)
(*                                                                         *)
(* Time moves in ticks, and never past something the server has to do: a   *)
(* timer that is due or a frame that has arrived is served before the next *)
(* tick.  Only a client that does not read and a native call take time.    *)
(***************************************************************************)
EXTENDS Integers, Sequences, FiniteSets

CONSTANTS
  Limits,       \* the settings a session may start with: [idle, cap, timeout]
  Ping,         \* WS_PING_INTERVAL_SECS
  MaxMissed,    \* WS_MAX_MISSED_PONGS
  MaxEmpty,     \* MAX_EMPTY_FRAMES_PER_SESSION
  BacklogMax,   \* bound: frames the client is ahead of the session task
  QuietMax      \* bound of the history counter `quiet`

VARIABLES
  limits,      \* the limits this session loaded
  pc,          \* session task: checkout, loop, decode, send, closed
  out, after,  \* messages it is sending, and where it goes then
  told,        \* history: what it sent on its way out
  unanswered, emptyFrames,
  slot,        \* the triplet and the state: free, session, run
  run, job,    \* blocking decode: none, native, or its result; chunk or stop
  abort, disc, \* the abort flag, and Incoming's `closed` token
  reader,      \* reader task: read, mark, done
  hand, inq,   \* the message it is handing over, and the channel of one
  wire, peer, reads,  \* the client's messages, has it ended, does it read
  shutdown,
  toPing, idleLeft, age, runAge,
  silent,  \* history: a tick has passed since the client's last frame
  quiet    \* history: ticks in the loop since its last frame but for pongs

client == <<wire, peer, reads>>
reading == <<reader, hand, disc>>
history == <<silent, quiet>>
clocks == <<toPing, idleLeft, age, runAge>>
vars == <<limits, pc, out, after, told, unanswered, emptyFrames, slot, run, job,
          abort, reading, inq, client, shutdown, clocks, history>>

NoMsg == "none"
Frames == {"audio", "empty", "stop", "other", "end"}
Results == {"ok", "failed", "panic", "cancelled"}

TypeOK ==
  /\ limits \in Limits
  /\ pc \in {"checkout", "loop", "decode", "send", "closed"}
  /\ after \in {"loop", "closed"}
  /\ unanswered \in 0 .. MaxMissed /\ emptyFrames \in 0 .. MaxEmpty
  /\ slot \in {"free", "session", "run"}
  /\ run \in {"none", "native"} \cup Results /\ job \in {"chunk", "stop"}
  /\ {abort, disc, reads, shutdown, silent} \subseteq BOOLEAN
  /\ reader \in {"read", "mark", "done"}
  /\ {hand, inq} \subseteq Frames \cup {NoMsg}
  /\ wire \in Seq(Frames) /\ Len(wire) <= BacklogMax + 1
  /\ peer \in {"up", "ended"}
  /\ toPing \in 0 .. Ping /\ idleLeft \in 0 .. limits.idle
  /\ age \in 0 .. limits.cap + 1 /\ runAge \in 0 .. limits.timeout
  /\ quiet \in 0 .. QuietMax

Init ==
  /\ limits \in Limits
  /\ pc = "checkout" /\ out = <<>> /\ after = "loop" /\ told = <<>>
  /\ unanswered = 0 /\ emptyFrames = 0
  /\ slot = "free" /\ run = "none" /\ job = "chunk"
  /\ abort = FALSE /\ disc = FALSE
  /\ reader = "read" /\ hand = NoMsg /\ inq = NoMsg
  /\ wire = <<>> /\ peer = "up" /\ reads = TRUE
  /\ shutdown = FALSE
  /\ toPing = Ping /\ idleLeft = limits.idle /\ age = 0 /\ runAge = 0
  /\ silent = FALSE /\ quiet = 0

Finished == run \in Results
CapDue == limits.cap # 0 /\ age >= limits.cap
TimeoutDue == limits.timeout # 0 /\ runAge >= limits.timeout

----------------------------------------------------------------------------
\* Sending.  A handler queues its messages and says where the task goes once
\* the socket has taken them.

\* Back to the top of the select loop, which arms a new idle timer.
Continue(msgs) ==
  /\ out' = msgs /\ after' = "loop"
  /\ IF msgs = <<>> THEN pc' = "loop" /\ idleLeft' = limits.idle
                    ELSE pc' = "send" /\ UNCHANGED idleLeft
  /\ UNCHANGED <<age, runAge>>

\* On its way out the session no longer looks at its timers.
DropTimers == toPing' = Ping /\ idleLeft' = 0 /\ age' = 0 /\ runAge' = 0

Finish(msgs) == /\ out' = msgs /\ after' = "closed" /\ pc' = "send"
                /\ DropTimers

\* Mutant: the reservation outlives the task.
EndForgetful == /\ pc' = "closed" /\ out' = <<>> /\ after' = "closed"
                /\ abort' = TRUE /\ UNCHANGED slot
                /\ reader' = "done" /\ hand' = NoMsg /\ inq' = NoMsg
                /\ DropTimers

\* The task ends: the reservation and the guard that raises `abort` are
\* dropped, the reader is aborted and the socket goes with it.
End == /\ pc' = "closed" /\ out' = <<>> /\ after' = "closed"
       /\ slot' = IF slot = "session" THEN "free" ELSE slot
       /\ abort' = TRUE
       /\ reader' = "done" /\ hand' = NoMsg /\ inq' = NoMsg
       /\ DropTimers

\* sink.send: the next message is taken by a socket whose peer reads.
Send ==
  /\ pc = "send" /\ reads
  /\ told' = IF after = "closed" THEN Append(told, Head(out)) ELSE told
  /\ \/ /\ Len(out) > 1 /\ out' = Tail(out)
        /\ UNCHANGED <<pc, after, slot, abort, reader, hand, inq, clocks>>
     \/ /\ Len(out) = 1 /\ after = "loop" /\ Continue(<<>>)
        /\ UNCHANGED <<slot, abort, reader, hand, inq, toPing>>
     \/ Len(out) = 1 /\ after = "closed" /\ End
  /\ UNCHANGED <<limits, unanswered, emptyFrames, run, job, disc, client,
                 shutdown, history>>

\* A send on a socket whose peer is gone fails; so would the ones after it.
SendFails ==
  /\ pc = "send" /\ peer = "ended" /\ End
  /\ UNCHANGED <<limits, told, unanswered, emptyFrames, run, job, disc, client,
                 shutdown, history>>

----------------------------------------------------------------------------
\* handle_ws: the checkout races the shutdown token.

checkoutFrame == <<limits, told, unanswered, emptyFrames, run, job, abort, reading,
                   inq, client, shutdown, history>>

CheckoutShutdown == /\ pc = "checkout" /\ shutdown /\ Finish(<<"close">>)
                    /\ UNCHANGED <<slot, checkoutFrame>>

CheckoutTimesOut == /\ pc = "checkout" /\ ~shutdown /\ Finish(<<"timeout">>)
                    /\ UNCHANGED <<slot, checkoutFrame>>

Checkout == /\ pc = "checkout" /\ ~shutdown
            /\ slot' = "session" /\ Continue(<<"ready">>)
            /\ UNCHANGED <<toPing, checkoutFrame>>

----------------------------------------------------------------------------
\* The select loop.  Its branches are polled in this order.

ShutdownEnds ==
  /\ pc = "loop" /\ shutdown /\ Finish(<<"final", "close">>)
  /\ UNCHANGED <<limits, told, unanswered, emptyFrames, slot, run, job, abort,
                 reading, inq, client, shutdown, history>>

CapEnds ==
  /\ pc = "loop" /\ ~shutdown /\ CapDue
  /\ Finish(<<"final", "max_session", "close">>)
  /\ UNCHANGED <<limits, told, unanswered, emptyFrames, slot, run, job, abort,
                 reading, inq, client, shutdown, history>>

PingTick == pc = "loop" /\ ~shutdown /\ ~CapDue /\ toPing = 0

\* Mutant: a ping the socket took counts as answered.
PingForgiving ==
  /\ PingTick /\ unanswered < MaxMissed
  /\ unanswered' = 0 /\ toPing' = Ping
  /\ Continue(<<"ping">>)
  /\ UNCHANGED <<limits, told, emptyFrames, slot, run, job, abort, reading, inq,
                 client, shutdown, history>>

\* MissedTickBehavior::Delay: the next tick is one period after this one.
PingPeer ==
  /\ PingTick /\ unanswered < MaxMissed
  /\ unanswered' = unanswered + 1 /\ toPing' = Ping
  /\ Continue(<<"ping">>)
  /\ UNCHANGED <<limits, told, emptyFrames, slot, run, job, abort, reading, inq,
                 client, shutdown, history>>

PingTimesOut ==
  /\ PingTick /\ unanswered >= MaxMissed
  /\ Finish(<<"close">>)
  /\ UNCHANGED <<limits, told, unanswered, emptyFrames, slot, run, job, abort,
                 reading, inq, client, shutdown, history>>

Receiving == pc = "loop" /\ ~shutdown /\ ~CapDue /\ toPing > 0

\* A frame, whichever it is, counts as a sign of life.
Take(frame) == /\ Receiving /\ inq = frame /\ inq' = NoMsg
               /\ unanswered' = 0

IdleEnds ==
  /\ Receiving /\ inq = NoMsg /\ idleLeft = 0
  /\ Finish(<<"idle_timeout", "close">>)
  /\ UNCHANGED <<limits, told, unanswered, emptyFrames, slot, run, job, abort,
                 reading, inq, client, shutdown, history>>

takeFrame == <<limits, told, run, job, client, shutdown, history>>

\* A Configure may be answered with a refusal; a Pong is ignored.
TakeOther == /\ Take("other")
             /\ Continue(<<>>) \/ Continue(<<"refused">>)
             /\ UNCHANGED <<takeFrame, toPing, emptyFrames, slot, abort, reading>>

TakeEmpty ==
  /\ Take("empty")
  /\ IF emptyFrames < MaxEmpty
     THEN emptyFrames' = emptyFrames + 1 /\ Continue(<<>>) /\ UNCHANGED toPing
     ELSE UNCHANGED emptyFrames /\ Finish(<<"policy_violation", "close">>)
  /\ UNCHANGED <<takeFrame, slot, abort, reading>>

TakeEnd == /\ Receiving /\ inq = "end" /\ End
           /\ unanswered' = 0
           /\ UNCHANGED <<takeFrame, emptyFrames, disc>>

\* State and reservation move into the blocking task.
Decode(frame, j) ==
  /\ Take(frame) /\ slot = "session"
  /\ slot' = "run" /\ run' = "native" /\ job' = j /\ runAge' = 0
  /\ pc' = "decode"
  /\ UNCHANGED <<limits, out, after, told, idleLeft, emptyFrames, abort, reading,
                 client, shutdown, toPing, age, history>>

TakeAudio == Decode("audio", "chunk")
TakeStop == Decode("stop", "stop")

----------------------------------------------------------------------------
\* await_decode: shutdown, disconnect, the session deadline, the result and
\* the inference timeout, in this order.

\* Mutant: the session deadline is left to the select loop.
ReasonNoDeadline ==
  CASE shutdown -> "shutdown"
    [] ~shutdown /\ disc -> "cancelled"
    [] ~shutdown /\ ~disc /\ ~Finished /\ TimeoutDue -> "inference_timeout"
    [] OTHER -> "none"

\* The reason to stop waiting, "none" while there is none.
Reason ==
  CASE shutdown -> "shutdown"
    [] ~shutdown /\ disc -> "cancelled"
    [] ~shutdown /\ ~disc /\ CapDue -> "max_session"
    [] ~shutdown /\ ~disc /\ ~CapDue /\ ~Finished /\ TimeoutDue -> "inference_timeout"
    [] OTHER -> "none"

\* Mutant: the error first.
GoodbyeErrorFirst(reason) ==
  LET error == IF reason = "shutdown" THEN "cancelled" ELSE reason
  IN IF reason \in {"shutdown", "max_session"}
     THEN {<<error, "final", "close">>, <<"partial", error, "final", "close">>}
     ELSE {<<error, "close">>, <<"partial", error, "close">>}

\* Mutant: whatever is not the session limit is a cancellation.
GoodbyeCancelled(reason) ==
  LET error == IF reason = "max_session" THEN reason ELSE "cancelled"
  IN IF reason \in {"shutdown", "max_session"}
     THEN {<<"final", error, "close">>, <<"partial", "final", error, "close">>}
     ELSE {<<error, "close">>, <<"partial", error, "close">>}

\* send_abort: the last hypothesis if there is one, a truncated final where the
\* text is to be kept, and only then the error and the Close.
Goodbye(reason) ==
  LET error == IF reason = "shutdown" THEN "cancelled" ELSE reason
  IN IF reason \in {"shutdown", "max_session"}
     THEN {<<"final", error, "close">>, <<"partial", "final", error, "close">>}
     ELSE {<<error, "close">>, <<"partial", error, "close">>}

decodeFrame == <<limits, told, unanswered, emptyFrames, job, reading, inq,
                 client, shutdown, history>>

\* The run is told, and left to itself.  A result that is already there is
\* dropped with its handle, and the reservation in it.
AbandonDecode ==
  /\ pc = "decode" /\ Reason # "none"
  /\ abort' = TRUE
  /\ slot' = IF Finished THEN "free" ELSE slot
  /\ run' = IF Finished THEN "none" ELSE run
  /\ \E msgs \in Goodbye(Reason) : Finish(msgs)
  /\ UNCHANGED decodeFrame

Join(r, j) == /\ pc = "decode" /\ Reason = "none" /\ run = r /\ job = j
              /\ run' = "none"

\* handle_binary_frame: state and reservation come home whatever the result.
ChunkDecoded == /\ Join("ok", "chunk") /\ slot' = "session"
                /\ Continue(<<>>) \/ Continue(<<"segment">>)
                /\ UNCHANGED <<decodeFrame, toPing, abort>>

\* Mutant: the reservation of a failed decode is dropped, the session goes on.
ChunkFailsBare == /\ Join("failed", "chunk") /\ slot' = "free"
                  /\ Continue(<<"inference_error">>)
                  /\ UNCHANGED <<decodeFrame, toPing, abort>>

ChunkFails == /\ Join("failed", "chunk") /\ slot' = "session"
              /\ Continue(<<"inference_error">>)
              /\ UNCHANGED <<decodeFrame, toPing, abort>>

\* A panic may have torn the state: a fresh one takes its place.
ChunkPanics == /\ Join("panic", "chunk") /\ slot' = "session"
               /\ Continue(<<"inference_panic">>)
               /\ UNCHANGED <<decodeFrame, toPing, abort>>

ChunkCancelled == /\ Join("cancelled", "chunk") /\ slot' = "session"
                  /\ \E msgs \in Goodbye("cancelled") : Finish(msgs)
                  /\ UNCHANGED <<decodeFrame, abort>>

\* handle_stop_message drops the reservation before it answers.  The text of a
\* finish that an abort overtook is not offered as a final.
StopDecoded ==
  /\ Join("ok", "stop") /\ slot' = "free"
  /\ IF abort THEN \E msgs \in Goodbye("cancelled") : Finish(msgs)
              ELSE Finish(<<"final">>)
  /\ UNCHANGED <<decodeFrame, abort>>

StopFails ==
  /\ \E r \in Results \ {"ok"} :
       /\ Join(r, "stop")
       /\ LET error == IF r = "panic" THEN "inference_panic" ELSE r
          IN Finish(<<error, "close">>) \/ Finish(<<"partial", error, "close">>)
  /\ slot' = "free"
  /\ UNCHANGED <<decodeFrame, abort>>

\* The native call comes back; it says "cancelled" only if it saw the flag.
\* The result of a run nobody awaits is dropped.
RunReturns(r) ==
  /\ run = "native" /\ (r = "cancelled" => abort)
  /\ IF pc = "decode" THEN run' = r /\ UNCHANGED slot
                      ELSE run' = "none" /\ slot' = "free"
  /\ UNCHANGED <<pc, out, after, clocks, abort, decodeFrame>>

----------------------------------------------------------------------------
\* The reader task: one message in hand, one in the channel.  It raises the
\* abort flag before it cancels the token, and before it hands the end over.

readerFrame == <<limits, pc, out, after, told, unanswered, emptyFrames, slot, run,
                 job, peer, reads, shutdown, clocks, history>>

ReadFrame ==
  /\ reader = "read" /\ pc # "checkout" /\ hand = NoMsg /\ wire # <<>>
  /\ hand' = Head(wire) /\ wire' = Tail(wire)
  /\ IF hand' = "end" THEN abort' = TRUE /\ reader' = "mark"
                      ELSE UNCHANGED <<abort, reader>>
  /\ UNCHANGED <<readerFrame, disc, inq>>

MarkEnd == /\ reader = "mark" /\ disc' = TRUE /\ reader' = "read"
           /\ UNCHANGED <<readerFrame, abort, hand, inq, wire>>

HandOver ==
  /\ reader = "read" /\ hand # NoMsg /\ inq = NoMsg
  /\ inq' = hand /\ hand' = NoMsg
  /\ reader' = IF hand = "end" THEN "done" ELSE reader
  /\ UNCHANGED <<readerFrame, abort, disc, wire>>

----------------------------------------------------------------------------
\* The client, the server and the clock.

clientFrame == <<limits, pc, out, after, told, unanswered, emptyFrames, slot, run,
                 job, abort, reading, inq, clocks>>

Least(a, b) == IF a < b THEN a ELSE b

Backlog == LET Held(m) == IF m = NoMsg THEN 0 ELSE 1
           IN Len(wire) + Held(hand) + Held(inq)

ClientSends(frame) ==
  /\ peer = "up" /\ pc # "closed" /\ Backlog < BacklogMax
  /\ wire' = Append(wire, frame)
  /\ silent' = FALSE
  /\ quiet' \in {0, IF frame = "other" THEN quiet ELSE 0}   \* a Pong is no data
  /\ UNCHANGED <<clientFrame, peer, reads, shutdown>>

ClientEnds == /\ peer = "up" /\ pc # "closed"
              /\ peer' = "ended" /\ wire' = Append(wire, "end")
              /\ silent' = FALSE /\ quiet' = 0
              /\ UNCHANGED <<clientFrame, reads, shutdown>>

\* The client stops taking messages out of the socket, or takes them again.
ClientStalls == /\ reads /\ pc # "closed" /\ reads' = FALSE
                /\ UNCHANGED <<clientFrame, wire, peer, shutdown, history>>

ClientResumes == /\ ~reads /\ pc # "closed" /\ reads' = TRUE
                 /\ UNCHANGED <<clientFrame, wire, peer, shutdown, history>>

Shutdown == /\ ~shutdown /\ shutdown' = TRUE
            /\ UNCHANGED <<clientFrame, client, history>>

\* Something the server does now rather than a tick later.
Due ==
  \/ /\ pc = "loop"
     /\ shutdown \/ CapDue \/ toPing = 0 \/ inq # NoMsg \/ idleLeft = 0
  \/ pc = "decode" /\ (Reason # "none" \/ Finished)
  \/ pc = "send" /\ reads
  \/ reader = "mark"
  \/ reader = "read" /\ IF hand = NoMsg THEN wire # <<>> ELSE inq = NoMsg

\* The timers of a session start when `ready` is out, and no longer matter once
\* it is on its way out.
Started == \/ pc \in {"loop", "decode"}
           \/ pc = "send" /\ after = "loop" /\ out # <<"ready">>

Tick ==
  /\ Started /\ ~Due
  /\ toPing' = IF toPing = 0 THEN 0 ELSE toPing - 1
  /\ idleLeft' = IF pc = "loop" THEN idleLeft - 1 ELSE idleLeft
  /\ age' = IF limits.cap = 0 THEN 0 ELSE Least(age + 1, limits.cap + 1)
  /\ runAge' = IF pc = "decode" THEN Least(runAge + 1, limits.timeout) ELSE runAge
  /\ silent' = TRUE
  /\ quiet' = IF pc = "loop" THEN Least(quiet + 1, QuietMax) ELSE quiet
  /\ UNCHANGED <<limits, pc, out, after, told, unanswered, emptyFrames, slot, run,
                 job, abort, reading, inq, client, shutdown>>

----------------------------------------------------------------------------
Session ==
  \/ CheckoutShutdown \/ CheckoutTimesOut \/ Checkout
  \/ ShutdownEnds \/ CapEnds \/ PingPeer \/ PingTimesOut \/ IdleEnds
  \/ TakeOther \/ TakeEmpty \/ TakeEnd \/ TakeAudio \/ TakeStop
  \/ AbandonDecode \/ ChunkDecoded \/ ChunkFails \/ ChunkPanics \/ ChunkCancelled
  \/ StopDecoded \/ StopFails

Reader == ReadFrame \/ MarkEnd \/ HandOver

Client == \/ \E frame \in Frames \ {"end"} : ClientSends(frame)
          \/ ClientEnds \/ ClientStalls \/ ClientResumes

Next == \/ Session \/ Send \/ SendFails \/ Reader \/ Client \/ Shutdown \/ Tick
        \/ \E r \in Results : RunReturns(r)

Spec == Init /\ [][Next]_vars

\* The runtime polls the session and its reader, and time passes.  Nothing is
\* assumed of the client or of native calls, except that sends to a client that
\* is gone do not hang for ever.
FairSpec ==
  /\ Spec /\ WF_vars(Session) /\ WF_vars(Reader) /\ WF_vars(Send)
  /\ WF_vars(SendFails) /\ WF_vars(Tick)

----------------------------------------------------------------------------
\* Properties.

Sent(msg) == \E i \in DOMAIN told : told[i] = msg
Errors == {"cancelled", "failed", "inference_panic", "inference_timeout", "max_session",
           "idle_timeout", "policy_violation", "timeout"}

\* The session parts with its triplet and its state only into a decode, and has
\* both again whenever it waits for the next frame: no result of a decode, be it
\* an error or a panic, leaves a session that can only answer "state lost", and
\* no triplet goes back to the pool, or to another session, under a native call.
WholeOrDecoding ==
  /\ pc = "loop" => slot = "session" /\ run = "none"
  /\ run = "native" => slot = "run"
  /\ slot = "run" => run # "none"

\* A run nobody awaits has been told to stop, even while the session is stuck
\* telling a client that does not read (await_decode raises the flag first).
DetachedRunIsTold == run = "native" /\ pc # "decode" => abort

\* The session says goodbye once: one Close and nothing after it, one error and
\* no final after that, one final, so that a client which stops reading at the
\* error has its text, and a failed finish never passes for a success.
EndsOnce ==
  \A i, j \in DOMAIN told : i < j =>
    /\ told[i] # "close"
    /\ told[i] \in Errors => told[j] = "close"
    /\ told[i] = "final" => told[j] # "final"

\* "cancelled" is only told on a shutdown or to a client that has ended: no
\* error of the engine and no timer of the session is reported as the client's
\* own doing (docs/api.md, error table).
CancelledIsTrue == Sent("cancelled") => shutdown \/ peer = "ended"

\* A client that reads is let go on shutdown and at its session limit, even in
\* the middle of a native call that never returns.
DeadlineEndsSession ==
  <>[]reads => (shutdown \/ CapDue ~> pc = "closed")

\* With an inference timeout the session does not wait for a hung native call.
HungDecodeIsLeft == limits.timeout # 0 /\ pc = "decode" ~> pc # "decode"

\* Neither a hung native call nor a limit that has run out keeps a session.
SessionIsLeft == DeadlineEndsSession /\ HungDecodeIsLeft

RunsReturn == WF_vars(\E r \in Results : RunReturns(r))

\* If native calls return, a session whose client has ended or gone silent for
\* good does not stay, and its triplet is back in the pool.
SlotComesBack ==
  /\ RunsReturn => (peer = "ended" ~> pc = "closed" /\ slot = "free")
  /\ RunsReturn => (pc = "closed" ~> slot = "free")
SilentClientIsDropped ==
  RunsReturn /\ <>[]reads => ~<>[](silent /\ pc # "closed")

\* docs/troubleshooting.md: a pause in speech ends the session when it lasts for
\* idle_timeout_secs and the client sends nothing but pongs meanwhile.
IdleSessionCloses == pc = "loop" => quiet <= limits.idle
=============================================================================
