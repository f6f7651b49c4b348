# A verification development for gigastt

gigastt is a speech-to-text engine in Rust with a server, a command line and
bindings. This directory holds TLA+ models of its concurrent core, of its live and
long-form decoding, of its model files and caches and of what uses them, TLC configurations that check them on
small instances, and theorems about them that TLAPS checks for every instance.
Paths below are relative to the repository; `core/` stands for
`crates/gigastt-core/src/` and `server/` for `crates/gigastt/src/server/`.

## 1. Inventory

| component | state it keeps | operations | what makes it correct | module |
|---|---|---|---|---|
| Session pool, `core/inference/pool.rs` | idle items, queued waiters, closed flag, items in guards and in waiters' channels | `checkout`, `checkout_blocking`, `try_checkout_n`, drop of a guard (`checkin`), `close` | a session has one owner and is never lost; a parked call is woken by an item or by `close` | `Pool`, `SlotPool` |
| Job store, `server/jobs/store.rs` | records (status, attempts, upload, abort handle, listeners), FIFO of ids | `create`, `next_queued`, `transition`, `update`, `subscribe`, `is_full`, eviction | outcomes are final, limits hold, a listener is told the outcome | `JobStore` |
| Workers and executor, `server/jobs/queue.rs`, `executor.rs`; API `server/http/jobs_api.rs` | each worker's job, its abort flag | claim, run, retry, settle; submit, cancel, listen; shutdown sweep | one worker per job, no job forgotten, cancel stops the run | `Jobs` |
| Server lifecycle, `server/listen.rs`, `bootstrap.rs`, `router.rs`; reload, `server/http/admin.rs` | boot phase, live engine, shutdown token, tracked tasks | boot, reload, signal, sweep, closing of pools, drain | a signal ends the process whatever is open, hung or being built | `Server` |
| File transcription, `server/file_transcribe.rs`, `server/http/transcribe.rs`; upload admission, `server/upload.rs` | abort flag, progress counter, reservation, upload permits | admit, reserve, run on a blocking thread, watchdog, disconnect | the slot comes back; a run that progresses is not timed out; memory is bounded | `FileRun` |
| Event streams, `server/http/stream.rs`, `stream_watchdog.rs`, `openai_api.rs` | bounded channel, finish claim, deadline | produce, send, time out, hand out, disconnect | one end, said truly; the slot comes back | `FileStream` |
| WebSocket sessions, `server/ws/` | streaming state (moved into a decode and back), timers | frames, stop, ping/pong, idle and session limits | one final result, state never lost, timers fire | `WsSession` |
| Rate limiter, `server/rate_limit.rs` | bucket per client | refill, take, evict, reload | no client exceeds its rate | `RateLimiter` |
| Live stream, `core/inference/engine/stream.rs`, `state.rs` | audio window, committed and live words, agreement, counters | append, decode, suppress, commit, slide, finalize, finish | every word once, in order, none frozen half heard | `StreamDecode` |
| Text of a session, `core/inference/state.rs`, `engine/stream.rs`, `server/ws/frames.rs` | assembler, settings, shared snapshot | partial, final, truncated final; configure; reset after a panic; stop, cut | what was shown as immutable stays; what was asked for holds | `LiveText` |
| Windows, VAD, `core/inference/audio/`, `core/vad/` | rolling buffer, cursor, segmenter | fill, score, release, trim, cut | a stream makes of a file what the whole file makes | `FileWindows` |
| Audio source, `core/inference/audio/stream/file.rs`, `wave.rs`, `opus.rs`, `resample.rs`, `decode/` | packets read, staged chunk, the WAVE thread and its channel | fill, flush, finish, abort, drop; all channels; scan | every sample once, the readings of a file agree, no thread is left waiting | `AudioSource`, `OpusPacket` |
| Long file, `core/inference/engine/words.rs`, `token_format/stitch.rs`, `state/snapshot.rs` | merged words, pending windows, publication cursor | serial and wave decode, stitch, publish, fall back, abort | words once and in order; the snapshot is the transcript | `LongForm` |
| Model files, `core/model/`, `core/inference/load_files.rs` | files, staging files, locks | detect, lock, fetch, verify, rename, unpack, load | what is installed is verified and whole, what is loaded stays | `ModelFiles` |
| Engine load, `core/inference/engine/load.rs`, `core/runtime/ort/session.rs`, `core/model/cache.rs` | triplets being loaded, provider bound, cache of optimized graphs | verify, load side by side, publish a graph, fall back, prune | a graph is of the encoder it is filed under; no older encoder is loaded | `EngineLoad` |
| Core ML cache, `core/runtime/coreml/bridge/cache.rs` | compiled model, its key, staging directories | look up, compile, populate, sweep | a hit was compiled from this package | `CompiledCache` |
| Batch and watch, `crates/gigastt/src/batch.rs` | known files, tasks, counts | scan, settle, run, retry, remove the source | what is done was transcribed; one task per file | `Batch` |
| Bindings, `crates/gigastt-ffi`, `-uniffi`, `-node` | ids, references, a triplet per stream, a mutex | new, free, file, chunk, flush | a triplet has one user and none is lost | `Bindings` |
| Token loops, `core/inference/decode/`, `ctc.rs`, `bias.rs`, `tokenizer.rs` | prediction state and cached output, blanks, hypotheses, trie of phrases | greedy transducer loop, CTC collapse, prefix beam, hotwords | no stale prediction, an endpoint is trailing silence, a hypothesis weighs what its alignments weigh | `Hotwords`, `GreedyDecode`, `CtcDecode` |
| Words and text, `core/inference/token_format.rs`, `itn.rs`, `punctuation/` | current word, number under way, labels of windows | tokens to words, numbers to digits, labels spliced from windows | no letter, word or number is lost, a label is of its word | `WordFormat`, `TextPass` |
| File request, `core/inference/engine/transcribe.rs`, `channels.rs`; speakers, `core/inference/diarization.rs` | words per channel, progress, snapshot, outcome of the speakers; the lazy encoder all requests share | decode a voice or channel after channel, load, embed, assign speakers, finish, abort | a request given up has no transcript; a word has its speaker; progress never falls | `FileRequest` |
| Device and sizes, `core/inference/engine/load.rs`, `sizing.rs`, `core/runtime/ort/factory.rs`, `selection.rs` | provider bound, pool size, threads, the two pools | cap for memory, resolve, load, fall back, split, probe, warm up | the engine runs on what was asked for and works; sizes fit the container | `Providers` |
| Boot, `crates/gigastt/src/serve.rs`, `boot.rs`, `boot/`, `core/model/manifest.rs` | recipe, limits, the head ensured, the engine built | read flags, profile and file, ensure head and sides, build, reload, SIGHUP, answer overrides | flags win at boot, the engine is of its files, a reload is a boot | `Boot` |
| Captions, `core/export/`, `server/http/export.rs` | cue and segment under way | cut words into lines, cues and segments; render | every word once, limits hold, a cue is of one speaker | `Captions` |
| Runtimes, clustering, quantizer | numeric | | not state machines | - |

How they interact. A request handler or a job worker takes the live engine, then
a slot from that engine's pool, then runs a blocking decode that owns the slot; a
shared abort flag is the only way back into it. The decode may take more slots of
the same pool without waiting. Jobs reach the same pool through their executor.
Shutdown cancels one token that every task watches, sweeps the job queue and
closes the pools of the engine that is live then. Reload replaces the engine
under all of them. An engine is built from the model files, which other processes
may be fetching at the same time, through two caches that they share. The bindings
and the batch commands use the same engine and pool from other programs.

What is hard here: the pool hands an item from one thread to another across two
locks and a channel; futures may be dropped at any await; the job record is
changed by its worker, by its client, by eviction and by shutdown; the blocking
decode outlives the future that started it; audio is decoded again and again and
its words must still come out once. The list with its lines is `hazards` in
`PROJECT.json`.

## 2. Modules and runs

Component modules declare their own `Init` and `Next`; where several are checked
by one run, an MC module takes their union with a variable `part` that says which
of them moves. They share no variable, so the run checks each by itself. `Caches` joins `EngineLoad` and
`CompiledCache`, which share nothing either, under one property; `Service` joins
`Providers` and `Boot` likewise.

| run | module | what moves | checks |
|---|---|---|---|
| `pool` | `MCPool` | `Pool`; deadlock checked | `ParkedCallIsReachable`, `OnlyAbandonedLose`, `CloseResolvesWaiters`, `ImplementsSlotPool` |
| `pool_disconnect_leak` | `MCPool` | `Pool` | `NoSlotLost` violated |
| `pool_lost_wakeup` | `MCPool` | `Pool` | `NoLostWakeup` violated |
| `jobs` | `MCJobs` | `Jobs` with `JobStore`, safety | `OneHolderPerJob`, `NoJobForgotten`, `ListenersSeeOutcome` |
| `server` | `MCServer` | `FileRun`, `FileStream`, `Server`, `RateLimiter` or `Jobs`; fairness | 10 properties, sections 4, 5, 6, 8, 9 |
| `stream_hang` | `MCServer` | the same | `HungStreamCloses` violated |
| `ws_session` | `MCWsSession` | `WsSession` | 6 properties, section 7 |
| `ws_idle` | `MCWsSession` | `WsSession` | `IdleSessionCloses` violated |
| `engine` | `MCEngine` | `StreamDecode`, `LongForm` with `FileWindows`, `GreedyDecode`, `CtcDecode`, `WordFormat`, `TextPass`, `LiveText` or `FileRequest` | 10 properties, sections 10, 11, 17, 19, 20 |
| `cap_text` | `MCEngine` | `LiveText` | `CapKeepsText` violated |
| `local` | `MCLocal` | `ModelFiles`, `EngineLoad`, `CompiledCache`, `Providers`, `Boot`, `Batch`, `Bindings`, `AudioSource`, `OpusPacket` or `Captions` | 7 properties, sections 12 to 16, 18, 21, 22 |
| `watch_change` | `MCLocal` | `Batch`, as a watch | `ChangeIsHeard` violated |

The run that checks deadlock is marked; the others model systems that may really
stop: after a shutdown, at the end of a file, when every request is answered.

## 3. The session pool

### Model

`Pool` models `Pool<T>` one critical section per action, because the hazards are
between them. `checkout` and `checkout_blocking` take the same steps on another
channel type: `CheckoutFast` (items lock), `CheckoutSlow` (waiters lock, items lock
inside), `Receive` (the channel is filled). Constants say which calls are async
(`Async`: they can time out) and which futures somebody may drop (`Droppable`: a
client disconnect drops the handler, the token of a WebSocket the wait). A time-out
is two steps: its timer is polled after the checkout and wins only on an empty
channel (`CheckoutTimeout`), and the receiver is dropped with the future a moment
later (`CheckoutElapsed`); a checkin may send in between. A drop from outside is one.
`checkin` is four actions: the read of `closed`, the pop of a waiter, the send, the
push. The item being returned has no lock and no owner there. `close` is two: the
store and the drain. `TryCheckoutN` gives a call that holds slots more of them.

| variable | code |
|---|---|
| `items`, `waiters`, `closed` | the fields of `PoolInner` |
| `call` | where a caller is in `checkout`; `expired` is one whose timer won and whose receiver still lives, `gone` is an abandoned future whose sender may still be queued |
| `held` | items in the caller's `PoolGuard`s and `OwnedReservation`s |
| `mailbox` | item in the caller's one-shot channel |
| `checkin`, `target` | where the return of an item is, and the waiter it popped |
| `lost`, `drained` | history: items destroyed, `close` finished |

`SlotPool` is the promise of the doc comments: exclusive owners, waiting callers
answered with a session or a refusal, no waiting by `try_checkout_n`, sessions
destroyed only by a closed pool or by a caller that gave up. `Pool` implements it
by the refinement mapping at its end: an item is free in the abstract while it
moves through locks and channels.

### Runs

| run | bounds | shows |
|---|---|---|
| `pool` | 2 sessions, 4 calls, 2 async, 1 droppable, 1 extra slot, weak fairness | `ParkedCallIsReachable`, `OnlyAbandonedLose`, `CloseResolvesWaiters`, refinement of `SlotPool`; deadlock checked |
| `pool_disconnect_leak` | 2 sessions, 3 calls, 1 droppable | `NoSlotLost` violated |
| `pool_lost_wakeup` | 2 sessions, 3 calls, none droppable | `NoLostWakeup` violated |

Four calls on two sessions let two checkins meet two queued waiters, one of them
abandoned, while a close is between its two steps; more of either only adds more of
the same pairs. `MaxExtra` bounds the argument of `try_checkout_n`.

Fairness: a thread inside a critical section leaves it and a task whose channel was
filled is polled, one whose timer won goes on. Nothing is asked of callers: they may
hold a slot for ever or never time out.

### Findings

`pool_lost_wakeup`: `checkin` decides that nobody waits, lets go of the waiters
lock and pushes afterwards. A call that parks in between is parked beside an idle
item until another guard is dropped; with one slot in use that is never. A later
caller overtakes it.

`pool_disconnect_leak`: the channel carries an item, not a guard. A checkout future
dropped after the send and before its poll takes the session with it: one that a
disconnect drops, and one whose timer won before the send and which is not dropped
yet. `pool.rs:239-243` names both, and its retry covers neither moment.
`OnlyAbandonedLose` says that this is all: no failed send loses a session, and no
timer one that was already in the channel.

### Proofs

`PoolProofs` proves for any finite set of items and any set of calls that
`TypeOK`, `SlotConservation`, `OneSenderPerCall` and `ParkedCallIsReachable` are
invariants (conservation is proved and no longer run), and that an open pool loses
a session only with the receiver of a call that was dropped from outside or whose
timer had won (`PoolOnlyAbandonedLose`): what `pool_disconnect_leak` shows is the
only leak.

The inductive invariant `IInv` is the four of them and `Bookkeeping`, which ties a
call's state to its channel and its guards and an item's checkin to its target.
None of the parts is inductive alone: that a send does not overwrite an item in a
channel (conservation) needs that a sender is unique and its channel empty; that
the drain leaves no one behind needs that whoever is parked is in the queue or in
the hand of a checkin. There is one lemma per action, and under it one step per
part the action can disturb. `QueueLemmas` has what is used about queues: what
`Head`, `Tail`, `Append` and a cut prefix do to the range and to injectivity.
Assumed of the constants: `PoolAssumption` in `Pool`.

`PoolImplementsSlotPool` proves the refinement, one lemma per action: most are steps
or stutters by their definitions, and the invariant is needed where the abstract step
must be that of one caller (an item in a channel is `Owners`' of exactly one call)
and where a drain refuses whoever is `Asking`.

## 4. The job queue

### Model

`JobStore` has an operator per critical section of `InMemoryJobStore`; `Jobs` has
the processes that call them: workers, handlers, the shutdown future. A worker
goes `idle`, `poll`, `popped`, `claimed`, `setup`, `running`, `ended`, `decided`,
one state per gap in which another task may run. Eviction is part of `create`,
`next_queued` and `is_full`, as in the code; which terminal records have outlived
their TTL is any subset. A removed queue entry leaves a hole that popping skips.
A run in flight may succeed, panic, fail, or end aborted once its flag is set;
the shutdown token sets the flag through the watchdog.

| variable | code |
|---|---|
| `status`, `attempts`, `body`, `abort`, `channels` | fields of `Job` |
| `queue` | `InMemoryJobStore::queue` |
| `flag` | the `Arc<AtomicBool>` of each run; one run per worker at a time |
| `listener`, `topic`, `inbox` | SSE clients: whether they read, which job, last event |
| `pc`, `run`, `verdict`, `next` | locals of `JobWorker::run` |
| `shutdown`, `sweeper`, `swept` | the token and `cancel_all_queued` |
| `late` | history: jobs put in the queue after `cancel_all_queued` was done |

Left out: payloads that follow the status, times, the half-second at which ticks
come, the per-worker semaphore (one permit per worker, so it never blocks), the
handlers that only read.

### Runs

| run | bounds | shows |
|---|---|---|
| `jobs` | 3 jobs and 2 workers without listeners, or 2 jobs, 1 worker and 2 SSE clients; after shutdown one job or client less (`MCSmall`); store of 2 records and 2 bytes, room for 1 listener, 1 retry, eviction | `OneHolderPerJob`, `NoJobForgotten`, `ListenersSeeOutcome` |
| `server` (the job queue as one of its parts, `JobQueue` in `MCServer`) | 2 jobs, 1 worker, 1 retry, no listeners, no eviction, fairness | `CancelStopsRun`, `WorkersDrain` |

Two workers and three jobs in a store of two let a record be evicted and another
admitted while a worker still has the first in hand; one retry reaches both sides
of the limit. The runs do not check for deadlock: after shutdown the server stops.
The jobs of `jobs` are interchangeable within a body length, and so are the
workers (`MCSymmetry`); no liveness is checked under symmetry.

Fairness: tasks are scheduled, and the engine polls its abort flag between windows
(`RunAborted`). Nobody is obliged to submit, cancel or shut down. The part of `server` has
`jobs_ttl_secs = 0`: an evicted record would satisfy them for a bad reason.
One worker is enough for `server`: no worker waits for another.

### Observations

Four disagreements with comments are visible in the model and have no run of
their own. A run that panics after the shutdown sweep is put back in a queue that
nobody need read any more (`server/jobs/queue.rs:147`), and an upload that the
server still accepts then joins it (`submit_job` never asks for the token). Both
stay `queued` to the end and their listeners hear nothing, against `queue.rs:68`
("Mark all queued jobs as cancelled") and `server/listen.rs:584`. `NoJobForgotten`
does not pass over them: it says that after the sweep nothing is left in the queue
but what `late` names, so the two are the whole of what can be stranded. A worker
looks at the token only at the top of its loop, so one that is past it starts a job
after the sweep, and runs in flight are not given the drain window, the watchdog
aborts them when the token fires (`RunAborted`; `server/listen.rs:584-586`).

### Proofs

`JobsProofs` proves for any sets of jobs, workers and listeners, any limits and any
number of retries that the state is well typed (`JobsTypes`), the three
properties of the run `jobs` (`OneHolder`, `NoneForgotten`, `OutcomeSeen`), that the
abort handle of a record is that of its run (`AbortHandle`), and that outcomes are
final (`OutcomeIsFinal`). The invariant `IInv` has, besides the types, a
part for each and what they need of each other:

- `Holding`: a job is in one queue entry, or with one worker, or with the sweep;
  an entry of the queue is there once, and the sweep's list has jobs once.
- `Cared`: a job that is Queued or Processing is with whoever must go on with it,
  and a worker between two of its steps has decided what its next one does
  (`CaredFor` says which statuses go with which place of the worker). It rests on
  `Holding`, since a worker may only act on the job it alone has.
- `SweepInOrder`: the sweep begins after the token is cancelled, and once it is done
  the queue holds only what is `late`.
- `Handles`: an abort handle in a record is the flag of the attempt in progress;
  it rests on `Holding`, as two runs of a job would mix their flags.
- `Heeded`: a listener that still reads is in the channel of its job or has read
  the outcome.

Each part has a lemma for the handlers, one for the workers and one for the sweep,
over lemmas on the store's operations. Popping up to the first live entry is a
choice of the least index, so `FirstOf` gets the least element of a set of numbers
from the well-foundedness of `<`; `CutIds`, `RetainIds` and `AppendIds` say what
popping, eviction and retry do to the ids in the queue.

## 5. One-shot file transcription

### Model

`FileRun` is the life of an upload to `/v1/transcribe`: admission, checkout, the
detached run on a blocking thread, the watchdog, the answer. The handler and the
run share two atomics. The handler may vanish at any await (`Disconnect`); the
run goes on until it looks at `abort`, between native calls.

| variable | code |
|---|---|
| `pc`, `answer` | the handler's future, what it returned |
| `run`, `outcome` | the closure given to `spawn_blocking`, what it returned |
| `slot` | `OwnedReservation`s inside the closures |
| `refs` | clones of `UploadPermit`: in the request, in the retained body |
| `abort`, `advanced` | the two atomics; the counter as "changed since last read" |
| `age`, `polled` | the watchdog's deadline and poll, in polls of 100 ms |
| `quiet` | history: polls since the last window was completed |
| `shutdown`, `poolOpen` | the token and the pool of this engine |

The pool is here its promise only (a free session goes to somebody who waits);
how it is kept, and where a time-out or a disconnect in the middle of a checkout breaks
it, is section 3: here a checkout that times out, and one whose handler is dropped, leaves
the session with the pool. Validation is one action (`Refuse`): it keeps nothing.
Audio is left out, so a run may have any number of windows, each of any length.

### Runs

In `server`: 2 uploads, 1 permit, 1 session, a timeout of 2 polls. Safety:
`StallSeenInTime`, `NoFalseTimeout`, `CancelledMeansShutdown`, `UploadsBounded`;
liveness: `AbandonedRunReturnsSlot`, half of
`SlotsComeBack`.

A timeout of two polls is the smallest at which a poll can fall between a window
and the deadline; the clocks of two uploads only meet in `Tick`, and the second
upload is there to wait for the session or the permit of the first. Clocks stop
growing by themselves, so no bound on time is needed. Fairness: the handler's task
is polled and time passes; the run owes nothing, nobody has to hang up or shut
down. `AbandonedRunReturnsSlot` has as its premise that threads run and native
calls return; nothing makes a file end. Deadlock is not checked: every request is
answered once.

### Proofs

`ServerProofs` proves the four safety properties for any finite set of uploads,
any capacity and any timeout. The invariant `IInv` has, besides the types, what
the watchdog may conclude from a counter without a clock (`Clock`: while it has
seen no progress its deadline lags the last window by at most one poll), who can
have cancelled a run whose client still waits (`Causes`), and which clone of the
permit is alive when (`Permits`). `Untouched` says that a handler that still waits
has none of this yet.

## 6. Event streams

### Model

`FileStream` is a file answered as events, by `/v1/transcribe/stream` or by the
OpenAI alias (`api`). The producer decodes and puts events on a bounded channel,
the response takes them off as fast as the client reads, the watchdog task
arbitrates between the end of the file and the inference timeout. It begins after
the headers: checkout and probe are those of section 5.

| variable | code |
|---|---|
| `producer`, `todo`, `then` | the blocking closure: where it is, what it still sends, what follows |
| `stage`, `before`, `since` | `Phase` of `StreamWatchdog`, what a send returns to, the age of the stamp |
| `waited` | polls spent in one send, against `STREAM_SEND_TIMEOUT` |
| `queue`, `told`, `tail`, `response` | channel, what the response yielded since its first ending event, what it yields after a timeout, whether it is open |
| `stop`, `leave`, `timedOut` | the request's token, the abort flag, the watchdog's token |
| `dropped` | history: an event other than the mark was not delivered |

An event is what it means for the end of the stream; segments are alike.

### Runs

In `server`, with a channel of 2 places and limits of 2 polls: `StreamEndsTruly` (one
ending event, and "done" only of a whole file), and `StreamReturnsSlot`, the other half of
`SlotsComeBack`, under fairness of the producer, the response of a client that reads, and
time. Two places are enough for a full
channel with an ending event behind a segment.

`stream_hang` (finding): the watchdog of a stream returns as soon as the request's
token is cancelled. After a SIGTERM a stream whose native call hangs is not timed
out any more, its response stays open and axum's graceful shutdown waits for it.

### Proofs

`ServerProofs` proves `StreamTruth`: `StreamEndsTruly` for any number of places and any
limits. An event travels from `todo` over `queue` to `told`, so the inductive
invariant `StreamInv` says what may stand where on that way: before the end of the
file is claimed no ending event is on it (`LoopHasNoEnd`); an ending event is the last
in the queue, but for "done" in front of its mark, and nothing is left to send behind
it (`EndIsLast`); and after an event that was not delivered no regular end is on the
way (`LossIsFatal`). The queue is of any length, so each step that moves an event
re-establishes this for every index.

## 7. Live sessions

### Model

`WsSession` is one session of `/v1/ws`: its task, the reader task that keeps
reading while a decode owns the session, the blocking decode, and the client.

| variable | code |
|---|---|
| `limits` | the `RuntimeLimits` the session loaded: idle, session and inference limit |
| `pc` | where the task is: checkout, select loop, `await_decode`, a send, over |
| `out`, `after`, `told` | what the handler has left to send, where it goes then; history of what it sent on its way out |
| `slot` | who has the reservation and the streaming state, which travel together: pool, session, decode |
| `run`, `job` | the closure given to `spawn_blocking` or its result; a chunk or the finish after Stop |
| `abort`, `disc` | the shared flag, the token `Incoming::closed` |
| `reader`, `hand`, `inq` | the reader task, the message it is handing over, the channel of one |
| `toPing`, `idleLeft`, `age`, `runAge` | the timers: ping interval, idle timer, session deadline, inference timeout |
| `unanswered`, `emptyFrames` | the counters of the same names |
| `wire`, `peer`, `reads` | the client: messages under way, has it ended, does it read |
| `silent`, `quiet` | history: how long the client has said nothing |

The branches of the select loop and of `await_decode` exclude each other in the
order `biased` gives them (`Receiving`, `Reason`). A send takes as long as the
client does not read, and only that and native calls take time: `Tick` waits for
whatever is due. A frame is what the session does with it. A Close frame, a
broken connection and an invalid frame all end the reader the same way and are
one message, "end". Left out: a result of `checkout` that the pool is closed (the
token is cancelled before the pools are, and its branch comes first), and a
blocking task that could not be joined (it takes a runtime that is shutting down,
where the token's branch comes first too); metrics. What Configure changes and what
the frames say is in `LiveText` (section 19).

### Runs

| run | bounds | shows |
|---|---|---|
| `ws_session` | two settings (idle below the ping period with a session limit; idle above it with an inference timeout), ping period 2, one unanswered ping, two frames under way | `WholeOrDecoding`, `EndsOnce`, `CancelledIsTrue`, `SessionIsLeft` (at the deadline, and when a decode hangs), `SlotComesBack`, `SilentClientIsDropped` |
| `ws_idle` | the order of the defaults: idle > ping timeout > ping | `IdleSessionCloses` is violated |

Two settings are needed because the idle timer can only fire below the ping
period, and because a session limit and an inference timeout hide each other's
absence. Two frames under way fill the reader's hand and the channel, so that the
client's end stays unread behind them. One unanswered ping instead of two, and no
empty frame allowed, shorten the run only; the safety properties were also
checked with two, one and three frames. Timers stop at zero and `age` at one past
the limit, so time needs no bound.

Fairness: the session and its reader are polled, a send to a client that reads
completes and one to a client that is gone fails, time passes. Nothing is assumed
of the client. Native calls return only where a property says so (`RunsReturn`);
`SessionIsLeft`, for the deadline, and `SilentClientIsDropped` have as a premise that the client
in the end reads; the first observation below is why. Sessions end, so the runs do not check
for deadlock.

### Findings

- `ws_idle`: every turn of the select loop makes a new idle timer, and each ping
  tick is a turn. With pings every 30 s the default idle timeout of 300 s never
  elapses: a silent client that answers pings stays, and one that does not ends in
  a ping timeout after 90 s.

Two observations have no run. Nothing but the socket is waited for during a send,
so a client that does not read keeps its session past `max_session_secs`, which
`docs/runbook.md:78` calls a wall-clock deadline (and past a shutdown, until the
process exits). After a send that blocked for a ping period
the overdue ping tick is served before the frames that arrived meanwhile, so a
client that was sending can be dropped as unresponsive.

### Proofs

`WsSessionProofs` proves `WholeOrDecoding`, `DetachedRunIsTold`, `EndsOnce` and
`CancelledIsTrue` for any limits, periods and bounds. `IInv` has three parts.
`Custody` fixes who has the triplet at each point of the session. `Signals` says
that in a session not on its way out the abort flag and the token are raised only
by the client's end; it follows the end from the wire through the reader. `Farewell`
keeps what was told and what is still to be sent together as one sequence, so that
a send moves the border between them and a failing socket cuts it; with the
properties of each goodbye (`GoodbyeProper`) order and truth of the whole follow.

## 8. The process

### Model

`Server` is the life of the process: boot behind the bootstrap responder, warm-up,
service, hot reload, the signal and what follows it. Uploads and sessions are what
the lifecycle sees of them: where their future is, which engine and triplet they
have, whether a native call is under way for them.

| variable | code |
|---|---|
| `phase`, `loader` | where `run_server` is, the blocking part of the boot |
| `signal`, `cancelled`, `shut`, `expired` | SIGTERM, `shutdown_root`, the steps of `shutdown_fut`, the drain window |
| `live`, `built`, `closed` | `engine_swap`, engines built, pools closed |
| `where`, `engineOf`, `owner`, `native` | where a client's future or its response is, the engine it loaded, triplets, blocking threads |
| `admin`, `thread`, `lock` | the reload handler, its blocking thread, `reload_lock` |

### Runs

In `server`: 2 uploads, one of them a stream, 1 session, 1 triplet per engine, 2
engines, 1 admin, native calls of all three may hang. `SignalEnds` says that a
signal ends the process whatever it finds, unless from some time on a named cause
holds it up for good. There are three. Axum's graceful shutdown waits until every
open exchange has its response written, and neither a body nor a response has a
time limit: a client that sends no more of its body, or does not read its answer,
holds the process before the drain window opens (`where` is `upload` or `answer`).
The exchange of a stream whose native call hangs does the same (section 6). After
the window a hung native call holds up the drop of the runtime. The runbook says
otherwise of both sides of the window: "terminal events are best effort and never
delay shutdown" (`docs/runbook.md:27`), "the process exits anyway" (`:29`). These two
disagreements have no run of their own. Two engines are needed for a client parked on
an engine that is no longer live when shutdown closes pools.

Fairness: the process runs, native calls that do not hang return, and the handler of
an upload gives up a run that makes no progress (`inference_timeout_secs` is not 0).
Nothing is assumed of a client. A reload's answer is a few bytes and is taken as
written with it. The metrics listener, which ends on the same token and is waited for
last, and the event streams of `/v1/jobs` (section 4) are exchanges too and are not in
this model.

## 9. The rate limiter

`RateLimiter` has the token buckets (`tokens`, `last_refill`, `last_seen_ms`), the
sweeper and the SIGHUP loop. A token is worth `Minute` units and a bucket gains
`rpm` units per tick, so the arithmetic is exact where the code uses floating
point. A check reads the time before it takes the lock: `Lag` lets it be overtaken.

`RateHolds` (run `server`): within any span a client is let through at most the
burst and what the span refills, across refills, overtaking checks, eviction of
idle buckets, buckets dropped to make room (which the code forgives, so the history
`grants` starts again) and reloads. Bounds: 2 addresses, room for one bucket, 4
configurations with the rate 0, below and above `MAX_RPM`, a clock up to 6.

`ServerProofs` proves it as `RateIsHeld` for any addresses, configurations, size of the
map, lag and clock. The inductive invariant `LimiterInv` is a potential: counted from any
grant of a client, what he was granted since and what is in his bucket never exceed a
full bucket and what the rate yields up to the bucket's last refill (`Covered`);
`RateHolds` is then `Apart`. A client who is not in the map counts as one with a full
bucket at the earliest time that a check on its way may have read (`Earliest`); it is
what the eviction of a stale bucket has to restore, and needs `Amnesty`: a bucket
fills up within `EvictAfter + 1 - 2 * Lag`. One lag is that of the last check, which
dates the bucket back; the other is that of the next one. With the code's 300 s and
its default burst of 10 this holds from 3 requests per minute on; below, an
evicted client gets a full bucket sooner than the rate grants it.

## 10. The live stream

### Model

`StreamDecode` is `StreamingState` and `process_chunk`: audio goes to a window, the
whole window is decoded every stride, repeated words are suppressed, words are
committed at the cap and the window slides. Each way through `process_chunk` is an
action. Stable-prefix and legacy commits, automatic and manual endpoints, with and
without VAD are initial choices (`policy`).

| variable | code |
|---|---|
| `edge`, `start`, `context`, `undecoded` | samples received, `window_start_samples`, `context_samples`, `pending_samples` |
| `committed`, `live`, `agreed`, `streak` | the assembler, `agreed_prefix`, `cap_streak` |
| `armed` | `Hangover` of the endpointer |
| `failed` | an aborted stream |
| `said`, `decoded`, `cut`, `spoken`, `policy` | histories: Finals, last decode, words a Final cut; the recording; the mode |

The decoder is external and may return any hypothesis of bounded doubt: a word that
is over is heard right after `Settle`, before that its text may be wrong, a word the
window cuts is garbled or missed, ends drift by `EndDrift`.

### Run and observations

`HeardOnce` (run `engine`): with stable commits every word that is over is in the
transcript once, in order and right; legacy commits never repeat or reorder. Two
recordings: touching words and a short pause; a word longer than the left context
after a pause; cap 5, left context 3, stride 2, horizon 2, streak 2, silence 1, chunks
of 1 and of 2, so one is longer than the silence and than the shorter pause.

Words a Final may cut are excused, by the history `cut`: those a stop falls into, and
those in progress at the end of a chunk in which the VAD fired. The VAD looks at the
chunk frame by frame, but whatever frame it fires in, the utterance ends at the end of
the chunk; a word that begins after that frame is garbled in the Final and heard again,
also garbled or right, after it. Long chunks make it likely (1 s event-stream chunks
against 500 ms of silence), chunks of one frame exclude it. This disagrees with "`final`
means the utterance is complete" (`docs/api.md:78`); without the excuse TLC refutes
`HeardOnce` in three chunks. Other limits of the code seen in the model, with no run: at
a seam a word that repeats the last committed one within 0.1 s is taken for its copy
(`stream.rs:455`); an endpoint is lost if its decode fails; `VadEndpointer::push` scores
frames again after an error.

## 11. Long files

### Model

`FileWindows` is where windows come from: packets of any size fill the resampler's
rolling buffer, `VadSegmenter` scores frames and releases what is speech as soon as
nothing can change that, `WindowCursor` cuts overlapping windows, the buffer forgets
what no window needs. Audio is the number of its sample, so a skipped, repeated or
forgotten sample shows. `LongForm` extends it with the decode: serial, or in waves
on extra sessions, `stitch_chunk_words` between neighbours, `WindowPublisher` and
`SnapshotPublisher`, the fallback without VAD, abort.

| variable | code |
|---|---|
| `clip` | the file: length, voice, spec, words |
| `read`, `raw`, `released`, `dropped`, `ended` | container position, buffer below the VAD, what it released, `buf_start_abs`, `eof` |
| `seg`, `cursor`, `vadFailed` | `VadSegmenter`, `WindowCursor`, a failed VAD |
| `plan`, `slots`, `pending` | the call: peeked, serial or wave; its sessions; windows pulled |
| `merged`, `prevEnd`, `mapped`, `snapshot`, `aborted` | transcript, end of the last window, `mapped_stable`, what readers have, the flag |
| `yielded`, `inFull`, `wholly` | histories: windows; the whole transcript on the clip when last published; words whole in a window |

### Run

`StreamEqualsBatch`: streaming makes of a file the windows and the released audio
that the whole file makes, for every voice pattern of five VAD frames under two
policies and for lengths below, at and above one and two windows. `SnapshotIsCurrent`: a reader has all
of the words decoded so far, each where the regions known at the last publication put
it, though only changes are sent, and the words that are not sent again stay at their
place however the regions grow. A word that ends with its window may be timed past it
(`Spill` 2, as in the test at `words.rs:650`) and then past what the VAD has released:
one clip has a pause there, so that its place is clamped, and moves when the regions go
on. Between two publications such a word is shown at the clamped place.

`WordsOnce`: a word that was whole in a window is in the transcript once and in order,
for words at every place of the seams, repeated words, drifting starts (`Drift` 1 under
`MaxDrift` 2), overlaps with more words than are aligned (`MaxOverlap` 3 for
`MAX_OVERLAP_WORDS`), the wide overlap of an anchored last window, waves of up to 3 and
aborts within a wave. Two kinds of words are excused, and TLC refutes the property
without either excuse. In an overlap with too many words the cut is at the midpoint, and
a word whose two copies fall on both sides of it is lost or heard twice; the anchored
last window overlaps its predecessor by up to the window's length, so dense speech gets
there. Of equal words in quick succession across an edge of the overlap one window hears
fewer than the other, and the alignment with the most pairs may pair the wrong ones: one
of them is lost or heard twice. `token_format/stitch.rs:38-41` says that the order of
preference "preserves rapid repetitions"; it does for those that lie in the overlap,
three in a row in the run. These disagreements have no run of their own. Words are at
most half the overlap long, as the overlap of 2 s is for; longer ones may be garbled. The
drift is half the overlap here and a fifth of it in the code, where more equal words are
needed to get from one edge to the other.

## 12. Model files

`ModelFiles` has processes of one user that look for a head (`detect_in_dir`), take
the lock, fetch file by file to staging names, verify, rename, unpack the ANE
archive, load, and may be killed between any two steps. `disk` and `staged` are the
directory, `lock` the two `flock`s, `step`, `task`, `head`, `rest` the call of each
process. Two processes or one that is started again, two heads of two files, a package, files placed
by hand in any state.

In the run `local`. `ModelsAreWhole`: what stands under a final name and was not
placed by hand is the verified file, whole; and a process that runs has every file of
its head, of the pinned content where the loader has a digest.

`LocalProofs` proves it as `ModelsHold`, for any processes and any heads. The inductive
invariant `FilesInv` adds what makes an install safe: an archive that is unpacked was
fetched and verified (`ArchiveIsVerified`), and what a process is about to rename is a
staging file of its own that it verified (`StagedIsVerified`). Assumed of the constants:
every head has files, and the speaker model, the package and its archive have names of
their own (`FilesAssumption`).

Observations with no run: an encoder left by a broken-off download of one head hides
the whole installation of another from a call that asks for none
(`core/model/variant.rs:310`, against the comment at `download.rs:188-190`); the loader has no digest for the INT8 encoder of the
RNN-T head (`Trusted`); nothing is synced before the rename, so a power cut is not
covered; a killed process leaves its `.partial*` and `.extract.*`; the comment at
`ane.rs:150-153` keeps the archive of a failed run, the error path removes it.

## 13. Loading an engine

### Model

`EngineLoad` has loads of one process or of several. Each takes the digest of its
encoder, spawns a thread per triplet (`Size`: as many as the memory carries), loads
encoder, decoder and joiner in each, and is ready if enough are there; otherwise, or
if the first inference on an accelerator fails, it starts again on the CPU. On the
CPU the encoder goes through the cache: look, open, or compile, hash the source once
more and rename the graph under its digest.

| variable | code |
|---|---|
| `encoder`, `digest` | content of the encoder file, what `verify_pinned_checksums` saw of it |
| `entry`, `keep` | the `.opt` files by digest; the digest `cache-gc` is about to keep |
| `phase`, `cpu` | where the load is, the provider it is on |
| `gate`, `thread` | `cache_load`, each triplet's thread |
| `session`, `staging` | content of each encoder session, of each `.partial` file |
| `usable` | whether the cache directory could be used |

Decoder and joiner are one step (`Parts`): no cache is involved in them. A content is
its own digest, and does not come back once replaced.

### Run

In `local`: 2 contents; a load of three triplets where two fit, one of two, one that
may not fall back, and two side by side. `CacheIsOfItsEncoder` (half of `CachesAreCurrent`): an entry is of the
digest it is filed under, and no session runs an encoder older than the one hashed.
Two contents are enough for a replacement at any step of a load, and a prune that
keeps the wrong one; a third only repeats it. That a load runs the encoder it hashed
is not true and not claimed: a replacement between hash and compile gives the newer.

### Proofs

`LocalProofs` proves the property for any loads, pools and contents (`LoadHolds`). Alone it is not
inductive: `LoadInv` adds what each step of a triplet says of its staging file, its
session and the digest (`Tidy`), above all that after the second hash the staging file
is of the content the load hashed first. One lemma says that a thread's step keeps all
triplets tidy if it leaves its own tidy (`ThreadStep`). `CachesHold` is this and the
next section's together; the property is defined in `Caches`.

## 14. The cache of compiled Core ML models

`CompiledCache` has processes that load one package: a hit if the key in the sidecar
is that of the package, else a compile into a temporary directory, a sweep of
everybody's staging directories, a copy, the old model aside, the rename, the
sidecar last. `package` and its key are one number, `final` and `meta` the model and
the sidecar, `draft` the staging directory of each process, `at`, `got`, `compiled`
its call; any of them may be killed anywhere.

`CompiledHitIsCurrent` (the other half; run `local`, 2 packages, 2 processes, 3 runs): a model that
loads under the key of the package was compiled from it. The key is computed after
the compile, so a package replaced meanwhile is recorded as if it had been compiled;
`crossed` remembers that and the property leaves it out. The sweep also takes what
another process is still filling, so a torn model may be moved into place; it does
not load and the next process compiles again.

`LocalProofs` proves it for any processes (`CompiledHolds`) from `CompiledFromPackage`: while nothing
was replaced under a compile, whoever is between compile and key compiled the present
package, and where the key is the package's, or about to be, the model is its own or torn.

## 15. Batch and watch

`Batch` has the scheduler of `transcribe-batch` and of `watch`, its tasks, and
somebody who writes and removes inputs. A version stands for the content and the
signature of a file.

| variable | code |
|---|---|
| `inputs`, `out` | versions in the input directory; what each output was made from |
| `known` | `WatchEntry`: `sig`, `stable_polls`, `status`, `dirty` |
| `tasks` | the `JoinSet`, each task in its attempt |
| `loop`, `todo`, `counts`, `stop` | where the scheduler is, `BatchSummary`, the token |
| `source` | `--move-to` or `--delete-source`, or neither |
| `heard`, `gone`, `written` | histories, and the bound on versions |

A poll is the listing, which forgets what is not there (`Scan`), and one step for each
file it found (`LookAt`), with the directory changing in between. `move_file` is one
step, although it is a copy and a removal when the rename cannot be used.

Run `local`: 2 files of up to 3 and 1 versions, 1 output, settled after 1 poll,
2 tasks, 1 retry. `WatchMissesNothing`: the watch does not call a file done whose
outputs are of other content than it has, nor run two tasks on one file, although it
may vanish and come back. A version before, during and after a task make three.
`watch_change` (finding): with `--move-to` or `--delete-source`, a file replaced while
its task runs is seen to have changed, and is nevertheless taken away by that task.

Proved for any directory, versions, outputs, concurrency, retries and polls to settle
(`WatchHolds`, `LocalProofs`). The invariant `WatchInv` adds to the property that a
watch has a file in flight exactly while a task is on it (`FlightHasTask`: a new task is
for a file that has none, also when the file was gone for a while); what a task
read and wrote while the entry is clean and as the file is (`WorkIsOfVersion`, from
which a finished entry has its outputs); and that what a batch has not begun
is nobody's (`BatchTakesEachOnce`). That no version is noticed after the file moved
past it (`known[f].sig <= written[f]`) makes a new version unlike any noticed one.

## 16. Bindings

`Bindings` has the threads of a host program that share engines and streams by id
(C) or by reference. `held` is the handle table, `call` what a thread is in and on
what, `owner`, `owns` a stream's engine and triplet, `idle` each engine's pool,
`locked`, `poisoned` the mutex of a stream. An object lives while the table or a call
has it (`LastReference`), and a stream gives its triplet back with the last of them.

`TripletHasOneUser` (run `local`; 2 threads, 3 ids, 2 triplets, three interfaces): a
triplet is idle, with one stream or with one call, and none is lost, though handles
are freed at any time. Three ids are an engine and a stream on each side of a free.
The pool is its promise here; section 3 has how it is kept. `checkout_blocking` waits
for ever on an open pool; the bindings' error `PoolExhausted` is that of a closed one.

Proved for any threads, ids and size of the pool (`HandlesHold`, `LocalProofs`), if
`Idle` is not a call. `HandlesInv` says where each triplet of an engine is, in the pool,
with a call or with a stream (`SomeUser`), and that it is in one of them only (`OneUser`);
a call that decodes on a stream uses the stream's triplet, and the mutex lets one in
(`OneInStream`); what a call is on is there, and its triplet is the one of its step
(`CallsAreProper`), so the last reference gives back what nobody uses.

## 17. From encoder output to text

### Models

Four modules follow the numbers an encoder returns until they are text. All of them
are in the run `engine`.

`Hotwords` has operators only: phrases become the ids a head would emit
(`encode_phrase`, greedy longest match, with the two fallbacks of spelling), the ids a
trie whose nodes are id sequences, and decoders ask it for boosts (`boost_logits`,
`advance`) or for the score of a path (`score_token`, with the refund of an abandoned
phrase). Weights other than "none" and "some" are left out: the code compiles all
phrases with one boost.

`GreedyDecode` is the transducer loop over the calls of one stream, with its abort
flag, its token cap, its endpoint and its cached prediction.

| variable | code |
|---|---|
| `at`, `t`, `encoded_len`, `step`, `overrides` | the place in `greedy_decode`, its loop counters |
| `fed`, `blanks` | `DecoderState`: `h`, `c` and `prev_token` as the number of tokens they were fed |
| `decoder_out`, `cache_valid`, `in_blank_run` | the prediction in hand, and whether it is used again |
| `active` | `BiasState`, the nodes phrases have reached |
| `tokens`, `endpoint`, `result` | what the call returns |

What the joiner prefers is any token; a boost may turn it into any token it favours.

`CtcDecode` is the prefix beam search with hotwords, and the greedy collapse. A
probability is a whole number, so sums of exponentials are sums and a boost of n
doubles n times; the numerical error of the logarithms is left out. `beams` are
`BeamHyp` records in their order, `width` the two cuts of the search.

`WordFormat` is the step `tokens_to_words` (transducers: a token may open a word and
spell its beginning) and `ctc_tokens_to_words` (a marker of its own) take per token,
`current` is their `current_word`, `word_start_frame`, `word_end_frame` and the
confidences. `TextPass` is `apply_itn` and the punctuation restorer: `text` the words
so far, `per_window` and `labels` what the windows and their splice gave. A label is
told by the word, the piece and the window it was computed for; the classifier itself
is external.

### Run

`DecodersAreExact` is these two together:

- `GreedyIsExact`: the joiner is always given the prediction for the tokens committed
  so far, though the network is not run during blanks; an endpoint is reported when,
  and only when, the tokens of the call are followed by enough blanks; the active
  nodes are those the latest tokens spell.
- `CtcIsExact`: while nothing has been pruned, a hypothesis weighs what all alignments
  of its labels weigh, with one boost per phrase spoken and nothing for an abandoned
  one; pruning only takes away; tokens are the labels, at growing frames; the greedy
  decode is the collapse of the heaviest alignment. For glossaries none of whose
  phrases begins inside another.
- `WordsReadAsSpoken`: the words are the letters cut at the markers, with their frames
  and confidences, and a phrase encoded for a glossary reads as it was asked for.
- `TextIsRestored`: a number between words is the digits of its value however it was
  spelled, other words stay in order, a word has the label of its own first piece, from
  a window that holds the words the overlap promises around it.

Bounds: two calls of up to two frames, two tokens per frame and one override, an
endpoint after two blanks, a glossary in which a phrase repeats a word; lattices of
three frames over two labels, beams of 2 or unlimited; four tokens with gaps of up to a
frame over three vocabularies; spelled numbers up to the millions, texts up to three
windows with words of many pieces. Three windows have a first, a middle and a last.

### Proofs

`TextProofs` proves `WordsReadAsSpoken` for any vocabulary, either kind of head, any
phrases, any number of tokens and any frames. `ScriptsAssumption` says what the
vocabularies of the heads are: a marker stands only at the head of a token, in a CTC
vocabulary it is a token of its own, and a word of a phrase has a letter and no marker
(`encode_phrase` cuts phrases at white space). Induction is done as in section 21.

`FormatInv` has two parts, one for each half of the property.

- `LettersInv`: the words behind are right for the letters heard, and the word under way
  is right for the letters since the last marker. What a token adds is shown for each of
  the operators of the property: letters of one place more (`SpellsKept`), a longer text
  (`SpelledMore`), an end that moves (`EndsAre`), a place that opens and moves no rank
  of those before it (`PlacesKept`). A step is then one of three: a letter of the word
  under way, a letter that opens a word, or a token that spells nothing.
- `PhrasesInv`: while what was heard is a beginning of the ids of a phrase, the words are
  the phrase up to the place where the next id is found. `CodedIs` and `CodesExist` show
  of `encode_phrase` that its recursion has one answer, in which each id is a token that is
  spelled at its place among the characters (`CodeStep`), and `PhraseLaid` where the words
  of the phrase lie among them. As no token has a marker behind its head, none spells over
  the end of a word (`StaysInWord`), so a token opens the next word (`OpensWord`) or goes on
  with this one (`GoesOnWithWord`). `ReadWhole`: with the last id the last word is complete.

### Limits seen in the models

Two limits of the code are seen in the models and have no run. With a BPE vocabulary
whose pieces begin with the marker, the first piece of a phrase is taken for the bare
marker and gets no boost, so a phrase of one piece is never favoured
(`core/inference/bias.rs:155-163`; `HotwordTokensAreFavoured` says what would be). And
the punctuation model labels the words of its pre-tokenizer, which splits at hyphens
and punctuation: the labels behind such a word belong to the word before
(`core/punctuation/windows.rs:18-43`; the premise `Unsplit`).

## 18. Reading audio

`AudioSource` is one source of a file's audio, `FileWindows` of `stream/file.rs` up to
the rolling buffer (what windows are cut from the buffer is the module `FileWindows`,
section 11), with the two other readings of the same file it has to agree with.

| Model | Code |
|---|---|
| `audio`, `next` | the container with its packets, and how far it is read: packets of other tracks, packets that do not decode, a number of channels per packet, an end that is clean, cut off or broken |
| `channel`, `limit`, `frames` | `ChannelSelect`, `max_samples`, `source_frames` or `decoded_48k` |
| `pending`, `acc`, `buf` | Opus' remainder below a chunk, `ResampleTo16k` (`stage`, `out`), what was handed out |
| `waveThread`, `hand`, `sent`, `rx`, `reader` | the thread `gigastt-wave`, what it sends, its channel of one block, and the source that is dropped |
| `FillPacket`, `FillEnds`, `FinishInto` | the loops of `fill_streaming` and `fill_opus`, the flush at the end |
| `ThreadDecodes`, `ThreadSends`, `RecvBlock`, `RecvEnds`, `DropSource`, `Join` | `spawn_decode`, `recv_block`, `Drop` |
| `decode_audio_inner_channels`, `scan_channels` | the decode of all channels, and the look before a split, as operators |

A sample is its packet, frame and channel. The resampler's output depends on the
sequence of chunks it is given (its filter carries over, its capacity is frozen by the
first), so a chunk stands for its output and two readings agree when their chunks do.
The correlation of two channels is whether all pairs that were pushed are alike; the
threshold is left out.

A WAVE file is read by two decoders: the source of one channel takes blocks from `ryf`
(`file.rs:284`), the scan and the decode of all channels take packets from symphonia
(`scan.rs:77`, `channels.rs:184`). `packets` are the blocks of the first; `InPackets` cuts
the same frames into packets of `WavePacket` frames for the second. That both decoders
give the same frames of a file that is whole is taken from the libraries.

`SoundIsWhole` (run `local`) is about both modules. `AudioIsWhole`, its first half
(three packets of one to three samples, chunks of two, budgets of 5 and of more): what is
read to an end is every sample once and at its time, of a file that decodes to an end one
may believe; one channel has the samples that the decode of all channels gives it, and to
the chunk but for WAVE; the scan says "split" for the files whose decoded channels differ,
WAVE included; and thread and reader never wait for each other. The last is broken when
the source is joined before its receiver is dropped, which is the mutant. One chunk more
or less than a packet, remainders and files shorter than a chunk all occur with these
sizes.

Three comments of the source say more than the code does. Each is an exception of the
property, named in its comment, and TLC finds the property violated without it:

- `file.rs:422`: a packet short of the channel contributes "nothing rather than shifting
  the timeline". As it adds no samples, the later ones of the channel come earlier by its
  length; the decode of all channels does the same, so that the two agree
  (`ReadingIsWhole` speaks of times only where no packet is short).
- `file.rs:275`: the samples of one channel are those of the whole-buffer decode, "same
  packet cadence, same resampler, same staging". Not for WAVE, where the blocks are
  `ryf`'s: away from 16 kHz the resampler is fed other chunks, and its output depends on
  them (`ChannelsAgree` asks for the same samples, not for the same chunks, of WAVE).
- `scan.rs:175`: a drop to mono makes the stream "not dual-mono". The loop breaks off and
  answers with the correlation of what came before, so that a file whose stereo part is
  alike is mixed down (`ScanTellsChannels` speaks of files whose packets all have the
  channels of the header).

`OpusPacket` is `split_opus_packet` and the loop that feeds its frames to the decoder. A
packet is its code, duration and payload; the bounds 252 and 255 are constants.
`FramesAreOfThePacket`, the other half, compares the parser with the other direction:
`Readings` are all frames whose encoding by RFC 6716 is this packet, whatever the bytes. The decoder gets
the one reading there is, whole and in order, and a packet is refused exactly when there
is none or it lasts too long. The run has all strings of up to five bytes below, at and
above the bounds 3 and 6 (a length of two bytes, a padding count of two), up to four
frames against a maximum of three.

## 19. The text of a session

### Model

`LiveText` is what a WebSocket client reads. `StreamDecode` says which words the
decoder hears and when they leave the window; here any words of the vocabulary may be
heard, and the state is what becomes of them: the assembler (`kept` is its
`committed_words`, `tail` its live words), the snapshot that a run shares with its
handler (`published`), the result of the run (`answer`), the frames still to be sent
(`out`) and the settings of the session. A segment has words, text, a committed and a
tentative part and the two flags; a word of a text carries the passes it went through,
because a pass may rewrite it. A run is taken step by step up to its return, since it
may be given up after each of them, and the handler reads the snapshot then. `asked`
is history: every field of every message that was accepted. Left out: bias phrases
and the sample rate of a Configure, the endpoint reason, times and confidences.

### Run

Two engines (without passes, committing stable prefixes; with passes, VAD and manual
endpoints), five messages of which one has a version nobody speaks, one a duration out
of range and one a mode that is found wrong after other fields were taken, in any
order; utterances of up to two words, every agreement of two decodes, failures, panics
and abandoned runs at every point, stops and cuts between frames.

- `TextOnlyGrows`: committed text is a prefix of the next committed text of its
  utterance, the Final included, under both policies and with passes that rewrite the
  tentative part only; a Final leaves nothing tentative and has every word that the
  window had left behind when the run began, also a truncated one.
- `ChoicesHold`: the settings are what the messages add up to, also when the state is
  made anew for diarization or after a panic, but for the fields named below.
- `CapKeepsText` (`cap_text`) is violated. `await_decode` looks at shutdown and the
  session deadline before it looks at the run, and the run empties the assembler and the
  snapshot before it returns its Final. A Final that is there and not yet polled is
  dropped, and the client gets an empty truncated final instead of the text it was told
  is committed. `TextOnlyGrows` excuses this one case (`lost`).

Three observations have no run. A Configure that asks for diarization makes a new
state and carries over five fields; `min_silence_ms` of an earlier message is not one
of them, although `docs/api.md:199` says that messages compose (`rebuilt`). A panic
resets the state with three fields carried over: endpoint mode and silence,
`min_silence_ms` and diarization go back to the boot values, and the client, which may
not configure after audio, cannot ask again (`panicked`). And the reset leaves the
snapshot as it was, so that a session cut short right after it tells the dropped
utterance once more.

### Proofs

`TranscriptProofs` proves both properties for any engines, any messages, any vocabulary and
utterances of any bounded length (`TextGrows`, `ChoicesAreKept`). `TextOnlyGrows` is
about what was told; it holds because four places agree, and `LiveInv` says how: what
the client has as immutable is a prefix of what is on its way to it (`ToldInOrder`), that
of what the run has come to, and that of what the policy shows of the words that are
kept (`AtWork`); the snapshot, which a client may be told at any moment, has at least
those (`SnapshotHasKept`); and while a Final is in the hands of the run the other places are
empty (`HoldsFinal`). `Phases` adds that nothing was told before the first audio,
which is why a Configure may change the policy. The lemmas before it are about what the
operators do: every segment spells its words, whatever passes it went through
(`PartialIs`, `FinalIs`, `TruncatedIs`), because the passes are a map over tokens
(`PassedIs`) and the words of two texts are the words of one after those of the other
(`UnpassedConcat`). `ChoicesInv` adds to `ChoicesHold` that settings always have all
their fields.

## 20. A file request

### Model

`FileRequest` is `Engine::transcribe_request` from the call to the result, for every
source: bytes (streamed, or whole when speakers are wanted), samples, channels in
memory or streamed one after the other. Requests run on triplets of their own and
share `LazySpeakerEncoder`, whose lock is held while the first of them loads the
model. `doing` says which stage a request is at, between any two of which it may be
given up; a channel is decoded in two windows, after each of which snapshot and
progress move. What a window decodes to is given, and the clustering (the crate
`polyvoice`) is external: it gives turns, refuses a recording that is too long, or
fails, also because the wrapped models were told of the abort. The merge of channels
and the assignment of speakers are the functions of the source, the second in both its
forms: the cursor for ordered input, the search for the rest.

### Run

Two callers, the second of which asks for the speakers of a mixed recording or for
nothing; twelve requests over every source, at, under and over the budget, with a silent
channel in the middle and words of two channels that start together; and 243 pairs of
turns and words (ordered, touching, overlapping, reversed, empty) for the assignment.
The model file is there, missing or corrupt.

`RequestsAreTrue`: a transcript is only given to a request that nobody gave up while a
check was ahead, with every word of every channel once, in the order of time, and with
the speaker of the first turn around its middle; a cancelled clustering is never told
as a failed one; the encoder is loaded once for all; progress never falls from channel
to channel and ends at the sum of them; what a time-out would show is a prefix of what
was heard.

### Proofs

`TranscriptProofs` also proves `RequestsAreTrue` (`RequestsHold`), for any number of
callers, any requests and any recordings. `FileAssumption` says what a request is:
samples, words and turns with times that are naturals, one recording at most when it is
mixed, and a decoder that gives the words of a channel in the order of time, without
which a stable sort by time could not keep each channel's order.

The property speaks of replies, so `FilesAre` follows each request to its reply:
`ProgressOf` ties the counter to the channels done and the half of the one being
decoded, `ShownOf` and `GatheredOf` say that the snapshot and the results are the words
of just these channels, `SpeakersOf` says what has come of the speakers at each stage,
`WithinOf` that whoever is past a check was not given up before it, and `RepliedOf` is
the property of a reply. `SlotIs` is about the one thing they share: whoever holds the
lock is the one that is loading, and the model has been loaded once or not at all.
Every action is shown to leave the other requests alone (`StepOfOne`). Two facts about
data carry the rest: putting the words in their places by time is a merge that keeps the
order of each channel (`ChronologicalMerges`, `ChannelsKeepOrder`), and the cursor over
ordered turns finds the turn that the search finds (`CursorFinds`).

## 21. Captions

`Captions` is what becomes of a transcript that is answered as a document:
`build_cues`, `build_segments`, the timestamps of the formats and
`render_export_response`. The two passes over the words are separate functions in the
code and see only the words behind them, so here one step takes a word for both. A
word is its times, its length in bytes, its speaker and whether it ends a sentence.

`CaptionsAreWhole` (run `local`): after every word, the cues and the segments so far
have the words taken, once and in order; each is of one speaker and spans its words; a
cue is within its limits unless it is a single word, and could not have taken the next
one; the same for pauses, ends of sentences and durations of segments; and a document
shows all words, at times that are times of day and those of its cues. The mutant goes
on counting words across a change of speaker.

Two observations, which the property states as they are. A label is written with its
space and counted with one more, so a word that would just fit behind its label, or
never fits, starts a line of its own: the label alone becomes a cue that has no words
and the end of the cue before it (`Segment`, `export/mod.rs:240`, describes its times
as those of its first and last word). And the limit of
"characters" (`server/http/export.rs:21`) counts bytes: half as many letters in Russian.

### Proofs

`TextProofs` also proves `CaptionsAreWhole` for any transcript, any labels, any limits and
thresholds (`CaptionsAssumption`: times are integers, a word has at least one byte). What
is to be shown is about folds and flattened sequences of any length, and the library's
theorems of induction cannot be instantiated here. `Inductive` (`QueueLemmas`) takes their place: it is
about a set, which if it lacks a natural lacks a least one. With it
`FlattenSeq` is shown to grow at its end as its argument does, and the sum of a line's
bytes with it, both from the recursive functions in the community modules.

`CaptionInv` has a part for each function. `CueInv`: the open cue counts its bytes and
words exactly, and of the cues behind it each is right for itself and could not have
taken the next word, where a cue that is only a label is skipped. `SegmentInv`: nothing
cuts within a segment and something does behind it. `BodyInv`: a document is made when all
words are taken. The property then needs of the clocks that hours, minutes, seconds
and milliseconds add up to the time they are made of (`ClockIs`), or to within half a
second where the format has whole seconds.

## 22. Devices, sizes and boot

### Models

`Providers` is `load_with_execution_provider`: which device an engine runs on and how
many triplets of how many threads it gets. `deploy` is what the operator asked for
(`choice`, pool, batch, threads), what the build contains, what the machine and its
container have, and whether the accelerator and the processor work. How the triplets
load side by side is `EngineLoad`; here any number of them loads.

| variable | code |
|---|---|
| `stage` | where the load is: resolve, first load, fallback, split, probe, warm-up |
| `size`, `threads` | `cap_pool_size_for_ram`, `clamp_encoder_intra_threads` |
| `name`, `eps` | `execution_provider` as reported, the providers a session is opened with |
| `loaded`, `fresh`, `pool`, `batch_pool` | triplets of the last load, the two pools of `SplitPool` |
| `warmed` | warm-up inferences that are left |

`Boot` is the way from the command line to that load: flags, profile and configuration
file (`WithProfile`, `WithFlags`), the head that is ensured, the models of the passes,
the engine that is built, a reload, a SIGHUP, and the overrides of a request. `place` is
the model directory with its manifest, `built` the engines with the directory they were
built from. The operator may change directory or file once.

### Run

In `local`, as `ServiceIsAsAsked`. `EngineIsAsAsked`: an engine that serves runs on the
device asked for, or, with `auto`, on one that works; what is left of a provider that
failed is not in its pools; sizes fit the container and the host; a load fails only for
a reason the operator can act on. `BootIsAsAsked`: the head is the one asked for, with
its own files; what was fetched is for the engine that is built; a reload of the same
files gives the same engine; flags win over profile and file until the file is read
again; a request gets what it asks for or is refused with a reason. Devices come in all
combinations of build, choice, head and defects; machines lie around the sizes at which
pools of one, three and four fit; directories hold one head, two, half a head, a pack, or
a pack beside the files of other heads.

Two promises of the documentation do not hold of the code. Each is an exception in the
property, named there, and TLC finds the property violated without it:

- *The manifest is not asked.* `docs/model-packs.md:82` calls a manifest authoritative and
  says that a conflicting variant is "a clear error". `ensure_model_variant` keeps that,
  so it holds of a command and of the first boot of a service with `--model-variant`. But
  the builder of a service (`crates/gigastt/src/boot.rs:205`, `resolve_variant_local`)
  looks at the flag and at the names of files, never at the manifest: without the flag, and
  at every reload even with it, the files of the pack run as another head
  (`ManifestUnasked`) or do not load. So `auto` punctuation and ITN are put over the text
  of an `e2e_rnnt` pack that has both built in, and the punctuation model is fetched for
  the manifest's head and looked for for another. What the property says of this case is
  only that the pack is whole and that no head of three networks runs on a pack of one.
- *The reported device.* `docs/api.md:310` says that `execution_provider` is the provider
  that actually loaded, `docs/cli.md:57` likewise. With `auto`, a CUDA build on a machine
  without a GPU runs on the CPU, which the runtime itself puts in CUDA's place, and
  reports "cuda" (`core/inference/engine/load.rs:367` only knows of Core ML's fallback).
  The exception is this one case; under an exact choice the device is the one chosen. That
  exact CUDA fails where there is no GPU is the runtime's part, as
  `runtime/ort/factory.rs:82` describes it.

And one observation: a SIGHUP stores the limits of the file alone
(`server/listen.rs:384`): flags that won at boot are dropped, and the check for a burst of
zero is not made again. `FlagsWinAtBoot` speaks of the time before it.

### Proofs

`ServiceHolds` proves `ServiceIsAsAsked`, with its two exceptions, for all deployments,
command lines, configuration files, model directories and overrides. The named assumptions say what
types they have (`ProvidersAssumption`, `BootAssumption`: numbers are numbers, a model
directory lists heads that exist, an override names the fields a request has).

`EngineIsAsAsked` speaks of an engine that is loaded, so `ProvidersInv` says stage by
stage what is known on the way: which provider was resolved and which one is left after
a failure, that the triplets at hand are those of the last load and of the provider that
is reported, how many of them the split gives to which pool. That sizes fit is arithmetic
on the divisions of `sizing.rs` (`CapIs`, `ShareFits`, `ThreadsFit`); that the split loses
no triplet and that warm-up reaches each is about queues (`FrontRuns`, `AllRan`,
`QueueIds`). `BootInv` follows the boot in the same way: what the recipe is from the
arguments on, what was resolved for the directory as it was then, what each engine was
built from, and that it is of its own pack unless the manifest was not asked (`OwnPack`).

## 23. What is checked and not proved, and what is not modelled

Proved beyond the runs: the theorems `PoolTypeOK`, `PoolOneSender`, `JobsTypes`,
`OutcomeIsFinal` and `SessionTellsRun` are about definitions that no run has as a
property; they are parts or consequences of invariants that the runs check.

Model-checked only: liveness; the windows of a live stream (`HeardOnce`; what its client is
told is proved, by `TextGrows` and `ChoicesAreKept`), long files
(`StreamEqualsBatch`, `SnapshotIsCurrent`, `WordsOnce`), the stages of a shutdown,
audio (`SoundIsWhole`), the decoders (`DecodersAreExact`), and numbers and
punctuation (`TextIsRestored`). Temporal properties under fairness and `ENABLED` are outside what the
prover can do. Induction over data is possible the way of section 21, one recursive function
at a time, as it is here for flattened sequences, sums of bytes and the encoder of
phrases; the folds over windows, packets and hypotheses nest several.

Not modelled: the clustering of speakers, the neural networks and their runtimes, and the quantizer.
They compute on floating-point data or text, or keep no state that several actors
share. The reasons are in `PROJECT.json` under `components`, with what is left out
of the modelled ones.

## 24. Running

In this directory: `tlc -workers 2 -config MCPool.cfg MCPool`, and likewise
for the other configurations (`MCWatch.cfg` is of `MCLocal`, `MCServerHang.cfg` of
`MCServer`); `tlapm PoolProofs.tla`, `tlapm QueueLemmas.tla`, `tlapm TextProofs.tla`,
`tlapm WsSessionProofs.tla`, `tlapm JobsProofs.tla`, `tlapm ServerProofs.tla`,
`tlapm LocalProofs.tla`, `tlapm TranscriptProofs.tla`.
