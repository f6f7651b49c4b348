------------------------------- MODULE Server --------------------------------
(***************************************************************************)
(* The life of the server process (server/listen.rs, bootstrap.rs): boot   *)
(* with the bootstrap responder, warm-up, hot reloads of the engine        *)
(* (server/http/admin.rs), uploads and live sessions that keep the engine  *)
(* they began with (server/http/state.rs), and the end: the signal, the    *)
(* token, the sweep, the closed pools, axum's graceful shutdown, the drain *)
(* window and the drop of the runtime.                                     *)
(*                                                                         *)
(* An upload and a session are here only what the lifecycle sees of them   *)
(* (FileRun and WsSession have the rest): where their future is, which     *)
(* engine and triplet they have, and whether a native call is under way    *)
(* for them on a blocking thread.  An engine has one pool.                 *)
(***************************************************************************)
EXTENDS Integers, FiniteSets

CONSTANTS
  Uploads, Sessions,  \* HTTP transcriptions, WebSocket clients
  Streams,            \* the uploads answered as a stream of events
  Admins,             \* callers of POST /v1/admin/reload
  Triplets,           \* of an engine's pool
  MaxEngines,         \* bound: engines built
  MayHang,            \* bound: tasks whose native call may never return
  Nobody

Peers == Uploads \cup Sessions
Engines == 1..MaxEngines

VARIABLES
  phase,     \* loading, warming, serving, draining, returned (main has), gone
  signal,    \* SIGTERM, or the caller's oneshot
  cancelled, \* shutdown_root, and the boot's shutdown_token
  shut,      \* shutdown_fut: listen, sweep, close, over
  expired,   \* the drain window ran out
  live,      \* engine_swap; 0 before the first engine
  built,     \* engines built so far
  closed,    \* engines whose pools are closed
  where,     \* of a client: away, upload, parked, held, answer (of an upload:
             \* the handler is done, the response not yet written), over
  engineOf,  \* the engine it loaded
  owner,     \* who has each triplet
  native,    \* blocking thread of a client: none, runs, hangs
  admin,     \* handler of a reload: away, build, settle, over
  thread,    \* its blocking thread: none, build, settle
  lock,      \* reload_lock
  loader     \* the blocking part of the boot: load, warm, none

life == <<phase, signal, cancelled, shut, expired>>
engines == <<live, built, closed>>
clients == <<where, engineOf, owner, native>>
reloads == <<admin, thread, lock>>
serverVars == <<life, engines, clients, reloads, loader>>

ServerTypeOK ==
  /\ phase \in {"loading", "warming", "serving", "draining", "returned", "gone"}
  /\ signal \in BOOLEAN /\ cancelled \in BOOLEAN /\ expired \in BOOLEAN
  /\ shut \in {"listen", "sweep", "close", "over"}
  /\ live \in 0..built /\ built \in 0..MaxEngines /\ closed \subseteq 1..built
  /\ where \in [Peers -> {"away", "upload", "parked", "held", "answer", "over"}]
  /\ engineOf \in [Peers -> 0..built]
  /\ owner \in [Engines \X Triplets -> Peers \cup {Nobody}]
  /\ native \in [Peers -> {"none", "runs", "hangs"}]
  /\ admin \in [Admins -> {"away", "build", "settle", "over"}]
  /\ thread \in [Admins -> {"none", "build", "settle"}]
  /\ lock \in Admins \cup {Nobody}
  /\ loader \in {"load", "warm", "none"}

ServerInit ==
  /\ phase = "loading" /\ signal = FALSE /\ cancelled = FALSE
  /\ shut = "listen" /\ expired = FALSE
  /\ live = 0 /\ built = 0 /\ closed = {}
  /\ where = [c \in Peers |-> "away"] /\ engineOf = [c \in Peers |-> 0]
  /\ owner = [s \in Engines \X Triplets |-> Nobody]
  /\ native = [c \in Peers |-> "none"]
  /\ admin = [a \in Admins |-> "away"] /\ thread = [a \in Admins |-> "none"]
  /\ lock = Nobody
  /\ loader = "load"

----------------------------------------------------------------------------
\* Boot.  Blocking work started before main returns goes on until it is done.
LoadEnds ==
  /\ loader = "load"
  /\ IF phase = "loading"
     THEN \/ /\ phase' = "warming" /\ loader' = "warm" /\ live' = 1 /\ built' = 1
          \/ /\ phase' = "returned" /\ loader' = "none" /\ UNCHANGED <<live, built>>
     ELSE loader' = "none" /\ UNCHANGED <<phase, live, built>>
  /\ UNCHANGED <<signal, cancelled, shut, expired, closed, clients, reloads>>

AbortBoot ==
  /\ phase = "loading" /\ signal
  /\ phase' = "returned" /\ cancelled' = TRUE
  /\ UNCHANGED <<signal, shut, expired, engines, clients, reloads, loader>>

WarmEnds ==
  /\ phase = "warming" /\ loader = "warm"
  /\ phase' = "serving" /\ loader' = "none"
  /\ UNCHANGED <<signal, cancelled, shut, expired, engines, clients, reloads>>

Signal == /\ ~signal /\ signal' = TRUE
          /\ UNCHANGED <<phase, cancelled, shut, expired, engines, clients, reloads, loader>>

----------------------------------------------------------------------------
\* shutdown_fut, which axum polls beside its accept loop; and what follows.
CancelRoot ==
  /\ phase = "serving" /\ shut = "listen" /\ signal
  /\ cancelled' = TRUE /\ shut' = "sweep"
  /\ UNCHANGED <<phase, signal, expired, engines, clients, reloads, loader>>

SweepJobs ==
  /\ phase = "serving" /\ shut = "sweep" /\ shut' = "close"
  /\ UNCHANGED <<phase, signal, cancelled, expired, engines, clients, reloads, loader>>

CloseServerPools ==
  /\ phase = "serving" /\ shut = "close" /\ shut' = "over"
  /\ closed' = closed \cup {live}
  /\ UNCHANGED <<phase, signal, cancelled, expired, live, built, clients, reloads, loader>>

\* axum::serve returns when shutdown_fut is over and no HTTP exchange is open,
\* which it is until its response is written; an upgraded connection is none.
\* The few bytes a reload answers are written at once.
Exchanges == {u \in Uploads : where[u] \in {"upload", "parked", "held", "answer"}}
             \cup {a \in Admins : admin[a] \in {"build", "settle"}}

ServeReturns ==
  /\ phase = "serving" /\ shut = "over" /\ Exchanges = {}
  /\ phase' = "draining"
  /\ UNCHANGED <<signal, cancelled, shut, expired, engines, clients, reloads, loader>>

\* The tracker has the session futures and the blocking runs of uploads.
Tracked == {s \in Sessions : where[s] \in {"parked", "held"}}
           \cup {u \in Uploads : native[u] # "none"}

Drained == /\ phase = "draining" /\ Tracked = {}
           /\ phase' = "returned"
           /\ UNCHANGED <<signal, cancelled, shut, expired, engines, clients, reloads, loader>>

\* Mutant: the drain waits for the tasks themselves.
DrainNeverExpires ==
  /\ phase = "draining" /\ Tracked # {} /\ \A c \in Peers : native[c] = "none"
  /\ phase' = "returned" /\ expired' = TRUE
  /\ UNCHANGED <<signal, cancelled, shut, engines, clients, reloads, loader>>

DrainExpires ==
  /\ phase = "draining" /\ Tracked # {}
  /\ phase' = "returned" /\ expired' = TRUE
  /\ UNCHANGED <<signal, cancelled, shut, engines, clients, reloads, loader>>

\* The runtime is dropped when main returns: futures are dropped where they
\* stand, threads inside spawn_blocking are waited for.
RuntimeDropped ==
  /\ phase = "returned" /\ loader = "none"
  /\ \A c \in Peers : native[c] = "none"
  /\ \A a \in Admins : thread[a] = "none"
  /\ phase' = "gone"
  /\ UNCHANGED <<signal, cancelled, shut, expired, engines, clients, reloads, loader>>

----------------------------------------------------------------------------
\* Clients.  Futures run while the runtime does.
Async == phase \in {"serving", "draining"}
Accepting == phase = "serving" /\ shut # "over"

Goes(c, p) == where' = [where EXCEPT ![c] = p]

\* The handler is done.  The answer to an upload, or the events of a stream, are
\* still to be written.
AnswerIsReady(c) == Goes(c, IF c \in Uploads THEN "answer" ELSE "over")

\* A triplet comes back when neither the future nor a native call has it.
Frees(c) == owner' = [s \in DOMAIN owner |-> IF owner[s] = c THEN Nobody ELSE owner[s]]

Connect(u) ==
  /\ Accepting /\ u \in Uploads /\ where[u] = "away" /\ Goes(u, "upload")
  /\ UNCHANGED <<life, engines, engineOf, owner, native, reloads, loader>>

\* The body is in: the handler loads the live engine and asks for a triplet.
BodyEnds(u) ==
  /\ Async /\ where[u] = "upload" /\ Goes(u, "parked")
  /\ engineOf' = [engineOf EXCEPT ![u] = live]
  /\ UNCHANGED <<life, engines, owner, native, reloads, loader>>

\* ws_handler refuses when the token is cancelled.
Upgrade(s) ==
  /\ Accepting /\ s \in Sessions /\ where[s] = "away"
  /\ IF cancelled THEN Goes(s, "over") /\ UNCHANGED engineOf
                  ELSE Goes(s, "parked") /\ engineOf' = [engineOf EXCEPT ![s] = live]
  /\ UNCHANGED <<life, engines, owner, native, reloads, loader>>

\* An upload starts its run at once, a session with the first audio.
Granted(c) ==
  /\ Async /\ where[c] = "parked" /\ engineOf[c] \notin closed /\ (c \in Sessions => ~cancelled)
  /\ \E s \in Triplets : /\ owner[engineOf[c], s] = Nobody
                      /\ owner' = [owner EXCEPT ![engineOf[c], s] = c]
  /\ Goes(c, "held")
  /\ native' = IF c \in Uploads THEN [native EXCEPT ![c] = "runs"] ELSE native
  /\ UNCHANGED <<life, engines, engineOf, reloads, loader>>

\* Its pool is closed, or the checkout times out.
Refused(c) == /\ Async /\ where[c] = "parked" /\ engineOf[c] \in closed /\ AnswerIsReady(c)
              /\ UNCHANGED <<life, engines, engineOf, owner, native, reloads, loader>>

TimedOut(c) == /\ Async /\ where[c] = "parked" /\ AnswerIsReady(c)
               /\ UNCHANGED <<life, engines, engineOf, owner, native, reloads, loader>>

Decode(s) ==
  /\ Async /\ s \in Sessions /\ where[s] = "held" /\ native[s] = "none" /\ ~cancelled
  /\ native' = [native EXCEPT ![s] = "runs"]
  /\ UNCHANGED <<life, engines, where, engineOf, owner, reloads, loader>>

Hang(c) ==
  /\ c \in MayHang /\ native[c] = "runs" /\ native' = [native EXCEPT ![c] = "hangs"]
  /\ UNCHANGED <<life, engines, where, engineOf, owner, reloads, loader>>

\* A run comes to its end, or sees its abort flag.
NativeEnds(c) ==
  /\ native[c] = "runs" /\ native' = [native EXCEPT ![c] = "none"]
  /\ IF c \in Uploads /\ where[c] = "held" THEN AnswerIsReady(c) ELSE UNCHANGED where
  /\ IF c \in Uploads \/ where[c] # "held" THEN Frees(c) ELSE UNCHANGED owner
  /\ UNCHANGED <<life, engines, engineOf, reloads, loader>>

\* The handler ends while a native call may be under way: the inference timeout
\* of an upload, the token or a limit of a session.
GivesUp(c) ==
  /\ Async /\ AnswerIsReady(c)
  /\ where[c] \in IF c \in Uploads THEN {"held"} ELSE {"parked", "held"}
  /\ IF native[c] = "none" THEN Frees(c) ELSE UNCHANGED owner
  /\ UNCHANGED <<life, engines, engineOf, native, reloads, loader>>

\* The client disconnects, at any point of its exchange or session.
Leaves(c) ==
  /\ Async /\ where[c] \in {"upload", "parked", "held", "answer"} /\ Goes(c, "over")
  /\ IF native[c] = "none" THEN Frees(c) ELSE UNCHANGED owner
  /\ UNCHANGED <<life, engines, engineOf, native, reloads, loader>>

\* The client has read the response.  Nothing makes it: there is no limit on a
\* write.
Written(u) ==
  /\ Async /\ where[u] = "answer" /\ Goes(u, "over")
  /\ UNCHANGED <<life, engines, engineOf, owner, native, reloads, loader>>

----------------------------------------------------------------------------
\* Reloads.
StartReload(a) ==
  /\ Accepting /\ admin[a] = "away" /\ built < MaxEngines
  /\ IF lock = Nobody
     THEN /\ lock' = a /\ admin' = [admin EXCEPT ![a] = "build"]
          /\ thread' = [thread EXCEPT ![a] = "build"]
     ELSE admin' = [admin EXCEPT ![a] = "over"] /\ UNCHANGED <<lock, thread>>
  /\ UNCHANGED <<life, engines, clients, loader>>

\* The builder is done.  If the handler is still there it swaps the engine in
\* and starts to settle: a soft reload waits up to 5 s for the holders of the
\* old engine, then the new one is warmed.
Swap(a) ==
  /\ Async /\ thread[a] = "build" /\ admin[a] = "build"
  /\ built' = built + 1 /\ live' = built' /\ UNCHANGED closed
  /\ admin' = [admin EXCEPT ![a] = "settle"] /\ thread' = [thread EXCEPT ![a] = "settle"]
  /\ UNCHANGED <<life, clients, lock, loader>>

HandlerEnds(a) == /\ admin' = [admin EXCEPT ![a] = "over"]
           /\ lock' = IF lock = a THEN Nobody ELSE lock

BuildFails(a) ==
  /\ thread[a] = "build" /\ thread' = [thread EXCEPT ![a] = "none"]
  /\ IF admin[a] = "build" THEN HandlerEnds(a) ELSE UNCHANGED <<admin, lock>>
  /\ UNCHANGED <<life, engines, clients, loader>>

Settled(a) ==
  /\ thread[a] = "settle" /\ thread' = [thread EXCEPT ![a] = "none"]
  /\ IF admin[a] = "settle" THEN HandlerEnds(a) ELSE UNCHANGED <<admin, lock>>
  /\ UNCHANGED <<life, engines, clients, loader>>

AdminLeaves(a) ==
  /\ Async /\ admin[a] \in {"build", "settle"} /\ HandlerEnds(a)
  /\ UNCHANGED <<life, engines, clients, thread, loader>>

----------------------------------------------------------------------------
Boot == LoadEnds \/ AbortBoot \/ WarmEnds
Shutdown == CancelRoot \/ SweepJobs \/ CloseServerPools \/ ServeReturns \/ Drained \/ DrainExpires
            \/ RuntimeDropped
ClientStep(c) == \/ Connect(c) \/ BodyEnds(c) \/ Upgrade(c) \/ Granted(c) \/ Refused(c)
                 \/ TimedOut(c) \/ Decode(c) \/ Hang(c) \/ NativeEnds(c) \/ GivesUp(c) \/ Leaves(c)
                 \/ Written(c)
AdminStep(a) == StartReload(a) \/ Swap(a) \/ BuildFails(a) \/ Settled(a) \/ AdminLeaves(a)

ServerNext == \/ Boot \/ Signal \/ Shutdown
              \/ \E c \in Peers : ClientStep(c)
              \/ \E a \in Admins : AdminStep(a)

\* The process runs, native calls that do not hang return, and the handler of an
\* upload that waits for one has a timeout; the token stops the watchdog of a
\* stream (FileStream), which then has none.  Nothing is assumed of a client: it
\* may never send the rest of its body, read its answer, or let a session end.
Watched(u) == where[u] = "held" /\ (u \in Streams => ~cancelled)

ServerFairness ==
  /\ WF_serverVars(Boot) /\ WF_serverVars(Shutdown)
  /\ \A c \in Peers : /\ WF_serverVars(Granted(c) \/ Refused(c) \/ TimedOut(c))
                        /\ WF_serverVars(NativeEnds(c))
  /\ \A u \in Uploads : WF_serverVars(Watched(u) /\ GivesUp(u))
  /\ \A a \in Admins : WF_serverVars(Swap(a) \/ BuildFails(a) \/ Settled(a))

ServerSpec == ServerInit /\ [][ServerNext]_serverVars
ServerFairSpec == ServerSpec /\ ServerFairness

----------------------------------------------------------------------------
Hung == {c \in Peers : native[c] = "hangs"}

\* What holds up the end.  In the graceful shutdown, before the drain window
\* opens, a client that has not sent its body or not read its answer, and the
\* stream of a native call that never returns; after it such a call.
Holds(u) == \/ where[u] \in {"upload", "answer"}
            \/ u \in Streams \cap Hung /\ where[u] = "held"

HeldUp == \/ phase = "serving" /\ \E u \in Uploads : Holds(u)
          \/ phase = "returned" /\ Hung # {}

\* A signal ends the process whatever it finds (shutdown_fut and what follows
\* it in run_server): in the boot, among uploads, parked checkouts, sessions on
\* this engine or an older one, reloads, and native calls that never return;
\* unless from some time on one of the clients or calls named holds it up for
\* good.  That is less than docs/runbook.md:27 and :29 say ("terminal events are
\* best effort and never delay shutdown", "the process exits anyway"): the drain
\* window bounds neither the exchanges axum waits for nor the blocking threads.
SignalEnds == []<>signal => <>(phase = "gone") \/ <>[]HeldUp
=============================================================================
