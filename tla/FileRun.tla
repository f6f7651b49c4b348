------------------------------ MODULE FileRun -------------------------------
(***************************************************************************)
(* One-shot file transcription (POST /v1/transcribe and its OpenAI alias): *)
(* an upload is admitted (server/upload.rs), the handler reserves a session*)
(* of the batch pool, hands it to a detached blocking run and awaits the   *)
(* run under a no-progress watchdog (server/http/transcribe.rs,            *)
(* server/file_transcribe.rs).  The run is the                             *)
(* engine's window loop (inference/engine/words.rs); it is tied to the     *)
(* handler by two atomics only, `abort` and `progress`.                    *)
(*                                                                         *)
(* Time advances in polls of the watchdog (100 ms).  Audio is left out: a  *)
(* run decodes as many windows as it pleases, each native call as long as  *)
(* it pleases.  Only whether `progress` advanced since the watchdog last   *)
(* read it matters, so the counter is kept as that bit.                    *)
(***************************************************************************)
EXTENDS Integers, FiniteSets

CONSTANTS
  Requests,  \* uploads
  Slots,     \* sessions of the batch pool
  Capacity,  \* permits of the upload admission
  Timeout,   \* inference_timeout_secs in polls; 0 switches the watchdog off
  NoReq

ASSUME FileRunAssumption ==
  /\ IsFiniteSet(Requests) /\ NoReq \notin Requests
  /\ Capacity \in Nat \ {0} /\ Timeout \in Nat

VARIABLES
  pc,        \* the handler: idle, upload, checkout, await, answered, gone
  answer,    \* what the client was told
  run,       \* the blocking run: none, between (windows), native, ended
  outcome,   \* what the run returned
  slot,      \* the request whose run holds each session
  refs,      \* who keeps each upload's permit: the handler, the retained body
  abort,     \* the run's abort flag
  advanced,  \* progress > last_progress
  age,       \* polls since the watchdog set its deadline
  polled,    \* the watchdog polled since the clock last moved
  quiet,     \* history: polls since the run last completed a window
  shutdown,  \* shutdown_root was cancelled
  poolOpen   \* FALSE once close_pools ran

vars == <<pc, answer, run, outcome, slot, refs, abort, advanced, age, polled, quiet,
          shutdown, poolOpen>>
clock == <<age, polled, quiet>>
server == <<shutdown, poolOpen>>

Answers == {"none", "upload_busy", "rejected", "ok", "timeout", "pool_closed",
            "inference_timeout", "cancelled", "failed"}

TypeOK ==
  /\ pc \in [Requests -> {"idle", "upload", "checkout", "await", "answered", "gone"}]
  /\ answer \in [Requests -> Answers]
  /\ run \in [Requests -> {"none", "between", "native", "ended"}]
  /\ outcome \in [Requests -> {"none", "ok", "cancelled", "failed"}]
  /\ slot \in [Slots -> Requests \cup {NoReq}]
  /\ refs \in [Requests -> SUBSET {"handler", "body"}]
  /\ abort \in [Requests -> BOOLEAN] /\ advanced \in [Requests -> BOOLEAN]
  /\ age \in [Requests -> Nat] /\ quiet \in [Requests -> Nat]
  /\ polled \in [Requests -> BOOLEAN]
  /\ shutdown \in BOOLEAN /\ poolOpen \in BOOLEAN

Init ==
  /\ pc = [r \in Requests |-> "idle"]
  /\ answer = [r \in Requests |-> "none"]
  /\ run = [r \in Requests |-> "none"]
  /\ outcome = [r \in Requests |-> "none"]
  /\ slot = [s \in Slots |-> NoReq]
  /\ refs = [r \in Requests |-> {}]
  /\ abort = [r \in Requests |-> FALSE]
  /\ advanced = [r \in Requests |-> FALSE]
  /\ age = [r \in Requests |-> 0]
  /\ polled = [r \in Requests |-> TRUE]
  /\ quiet = [r \in Requests |-> 0]
  /\ shutdown = FALSE /\ poolOpen = TRUE

----------------------------------------------------------------------------
\* The handler.

\* The handler's future ends, with the admission permit it carries; the body
\* is dropped with it unless it has moved into the run.
HandlerGone(r) ==
  refs' = [refs EXCEPT ![r] = IF run[r] = "none" THEN {} ELSE @ \ {"handler"}]

Say(r, a) == /\ pc' = [pc EXCEPT ![r] = "answered"]
             /\ answer' = [answer EXCEPT ![r] = a]
             /\ HandlerGone(r)

\* Before the body is read the upload takes a permit, or is turned away.
Admit(r) == /\ pc[r] = "idle"
            /\ Cardinality({q \in Requests : refs[q] # {}}) < Capacity
            /\ pc' = [pc EXCEPT ![r] = "upload"]
            /\ refs' = [refs EXCEPT ![r] = {"handler"}]
            /\ UNCHANGED <<answer, run, outcome, slot, abort, advanced, clock, server>>

TurnAway(r) == /\ pc[r] = "idle"
               /\ Cardinality({q \in Requests : refs[q] # {}}) >= Capacity
               /\ Say(r, "upload_busy")
               /\ UNCHANGED <<run, outcome, slot, abort, advanced, clock, server>>

\* The body is complete and keeps the permit too.  The handler refuses it, or
\* asks the batch pool for a session.
Refuse(r) == /\ pc[r] = "upload" /\ Say(r, "rejected")
             /\ UNCHANGED <<run, outcome, slot, abort, advanced, clock, server>>

Arrive(r) == /\ pc[r] = "upload"
             /\ pc' = [pc EXCEPT ![r] = "checkout"]
             /\ refs' = [refs EXCEPT ![r] = @ \cup {"body"}]
             /\ UNCHANGED <<answer, run, outcome, slot, abort, advanced, clock, server>>

\* Mutant: the run works on a copy of the body that holds no permit.
ReserveCopied(r, s) ==
  /\ pc[r] = "checkout" /\ poolOpen /\ slot[s] = NoReq
  /\ slot' = [slot EXCEPT ![s] = r]
  /\ pc' = [pc EXCEPT ![r] = "await"]
  /\ run' = [run EXCEPT ![r] = "between"]
  /\ refs' = [refs EXCEPT ![r] = {"handler"}]
  /\ UNCHANGED <<answer, outcome, abort, advanced, clock, server>>

\* The checkout is served, and the run is spawned with the reservation and
\* fresh flags before the handler awaits anything else.
Reserve(r, s) ==
  /\ pc[r] = "checkout" /\ poolOpen /\ slot[s] = NoReq
  /\ slot' = [slot EXCEPT ![s] = r]
  /\ pc' = [pc EXCEPT ![r] = "await"]
  /\ run' = [run EXCEPT ![r] = "between"]
  /\ UNCHANGED <<answer, outcome, refs, abort, advanced, clock, server>>

CheckoutTimesOut(r) ==
  /\ pc[r] = "checkout" /\ Say(r, "timeout")
  /\ UNCHANGED <<run, outcome, slot, abort, advanced, clock, server>>

CheckoutClosed(r) ==
  /\ pc[r] = "checkout" /\ ~poolOpen /\ Say(r, "pool_closed")
  /\ UNCHANGED <<run, outcome, slot, abort, advanced, clock, server>>

\* Mutant: the run is not told that its handler is gone.
DisconnectSilent(r) ==
  /\ pc[r] \in {"upload", "checkout", "await"}
  /\ pc' = [pc EXCEPT ![r] = "gone"]
  /\ HandlerGone(r)
  /\ UNCHANGED <<answer, run, outcome, slot, abort, advanced, clock, server>>

\* The client hangs up: the handler's future is dropped, and with it the
\* AbortOnDrop guard if the run was spawned.
Disconnect(r) ==
  /\ pc[r] \in {"upload", "checkout", "await"}
  /\ pc' = [pc EXCEPT ![r] = "gone"]
  /\ abort' = [abort EXCEPT ![r] = @ \/ pc[r] = "await"]
  /\ HandlerGone(r)
  /\ UNCHANGED <<answer, run, outcome, slot, advanced, clock, server>>

\* The run's result reaches the handler; the guard then sets a flag that
\* nobody reads any more.
Joined(r) ==
  /\ pc[r] = "await" /\ run[r] = "ended"
  /\ Say(r, outcome[r])
  /\ abort' = [abort EXCEPT ![r] = TRUE]
  /\ UNCHANGED <<run, outcome, slot, advanced, clock, server>>

\* The watchdog passes a shutdown on to the run; its deadline stands.
WatchdogSeesShutdown(r) ==
  /\ pc[r] = "await" /\ shutdown /\ ~abort[r]
  /\ abort' = [abort EXCEPT ![r] = TRUE]
  /\ UNCHANGED <<pc, answer, run, outcome, slot, refs, advanced, clock, server>>

\* Mutant: the progress is noted, the deadline stays where it was.
PollProgressKeeps(r) ==
  /\ pc[r] = "await" /\ Timeout > 0 /\ ~polled[r] /\ advanced[r]
  /\ polled' = [polled EXCEPT ![r] = TRUE]
  /\ advanced' = [advanced EXCEPT ![r] = FALSE]
  /\ UNCHANGED <<pc, answer, run, outcome, slot, refs, abort, age, quiet, server>>

\* A poll: progress since the last look buys a whole timeout, otherwise the
\* deadline decides.  (Whether the run has ended meanwhile does not matter:
\* the branches of the select are not ordered.)
PollProgress(r) ==
  /\ pc[r] = "await" /\ Timeout > 0 /\ ~polled[r] /\ advanced[r]
  /\ polled' = [polled EXCEPT ![r] = TRUE]
  /\ advanced' = [advanced EXCEPT ![r] = FALSE]
  /\ age' = [age EXCEPT ![r] = 0]
  /\ UNCHANGED <<pc, answer, run, outcome, slot, refs, abort, quiet, server>>

\* Mutant: the deadline itself is still in time.
PollStalledLate(r) ==
  /\ pc[r] = "await" /\ Timeout > 0 /\ ~polled[r] /\ ~advanced[r]
  /\ polled' = [polled EXCEPT ![r] = TRUE]
  /\ IF age[r] > Timeout
       THEN Say(r, "inference_timeout") /\ abort' = [abort EXCEPT ![r] = TRUE]
       ELSE UNCHANGED <<pc, answer, refs, abort>>
  /\ UNCHANGED <<run, outcome, slot, advanced, age, quiet, server>>

PollStalled(r) ==
  /\ pc[r] = "await" /\ Timeout > 0 /\ ~polled[r] /\ ~advanced[r]
  /\ polled' = [polled EXCEPT ![r] = TRUE]
  /\ IF age[r] >= Timeout
       THEN Say(r, "inference_timeout") /\ abort' = [abort EXCEPT ![r] = TRUE]
       ELSE UNCHANGED <<pc, answer, refs, abort>>
  /\ UNCHANGED <<run, outcome, slot, advanced, age, quiet, server>>

\* 100 ms pass, during which every watchdog has been scheduled.
Tick == /\ Timeout > 0 /\ \E r \in Requests : pc[r] = "await"
        /\ \A r \in Requests : pc[r] = "await" => polled[r]
        /\ LET after(f) == [r \in Requests |-> IF pc[r] = "await" THEN f[r] + 1 ELSE f[r]]
           IN age' = after(age) /\ quiet' = after(quiet)
        /\ polled' = [r \in Requests |-> pc[r] # "await"]
        /\ UNCHANGED <<pc, answer, run, outcome, slot, refs, abort, advanced, server>>

----------------------------------------------------------------------------
\* The run, on a blocking thread.

\* The closure returns: the reservation is dropped with it, before the join
\* handle resolves.
End(r, o) == /\ run' = [run EXCEPT ![r] = "ended"]
             /\ outcome' = [outcome EXCEPT ![r] = o]
             /\ slot' = [s \in Slots |-> IF slot[s] = r THEN NoReq ELSE slot[s]]
             /\ refs' = [refs EXCEPT ![r] = @ \ {"body"}]
             /\ UNCHANGED <<pc, answer, abort, advanced, clock, server>>

WindowStart(r) == /\ run[r] = "between" /\ ~abort[r]
                  /\ run' = [run EXCEPT ![r] = "native"]
                  /\ UNCHANGED <<pc, answer, outcome, slot, refs, abort, advanced, clock, server>>

\* The native call returns; an aborted window is not reported as progress.
WindowDone(r) == /\ run[r] = "native"
                 /\ run' = [run EXCEPT ![r] = "between"]
                 /\ IF abort[r] THEN UNCHANGED <<advanced, quiet>>
                                ELSE /\ advanced' = [advanced EXCEPT ![r] = TRUE]
                                     /\ quiet' = [quiet EXCEPT ![r] = 0]
                 /\ UNCHANGED <<pc, answer, outcome, slot, refs, abort, age, polled, server>>

\* Between windows: the file is exhausted; or the run was cancelled; or it
\* asks a closed pool for extra sessions, which cancels it too.
RunFinishes(r)  == run[r] = "between" /\ ~abort[r] /\ End(r, "ok")
RunCancelled(r) == run[r] = "between" /\ (abort[r] \/ ~poolOpen) /\ End(r, "cancelled")

\* A decode error, or a panic caught around the run.
RunFails(r) == run[r] \in {"between", "native"} /\ End(r, "failed")

----------------------------------------------------------------------------
\* Shutdown: first the token, then the pools.

ShutdownFires == /\ ~shutdown /\ shutdown' = TRUE
                 /\ UNCHANGED <<pc, answer, run, outcome, slot, refs, abort, advanced, clock, poolOpen>>

\* Mutant: the pools are closed without waiting for the token.
ClosePoolsFirst ==
  /\ poolOpen /\ poolOpen' = FALSE
  /\ UNCHANGED <<pc, answer, run, outcome, slot, refs, abort, advanced, clock, shutdown>>

\* Idle sessions stay in the closed channel; nobody can reach them any more.
ClosePools == /\ shutdown /\ poolOpen /\ poolOpen' = FALSE
              /\ UNCHANGED <<pc, answer, run, outcome, slot, refs, abort, advanced, clock, shutdown>>

Poll(r)    == PollProgress(r) \/ PollStalled(r)
Engine(r)  == \/ WindowStart(r) \/ WindowDone(r) \/ RunFinishes(r)
              \/ RunCancelled(r) \/ RunFails(r)

Next == \/ \E r \in Requests :
             \/ Admit(r) \/ TurnAway(r) \/ Refuse(r)
             \/ Arrive(r) \/ \E s \in Slots : Reserve(r, s)
             \/ CheckoutTimesOut(r) \/ CheckoutClosed(r) \/ Disconnect(r)
             \/ Joined(r) \/ WatchdogSeesShutdown(r) \/ Poll(r) \/ Engine(r)
        \/ Tick \/ ShutdownFires \/ ClosePools

Spec == Init /\ [][Next]_vars

\* The handler is scheduled, and its select picks at random among the branches
\* that are ready, so none of them is passed over for ever.
FairHandler == \A r \in Requests : /\ WF_vars(Joined(r)) /\ WF_vars(Poll(r))
                                   /\ WF_vars(WatchdogSeesShutdown(r))

\* A native call may hang for ever: the engine owes nothing, and nobody has to
\* arrive, hang up or shut down.
FairSpec == Spec /\ WF_vars(Tick) /\ FairHandler

----------------------------------------------------------------------------
\* A file that keeps completing windows is never failed for being slow: an
\* inference timeout is only answered when the run completed no window for a
\* whole timeout (await_transcription_watchdog, "a long file that keeps making
\* progress never trips").
NoFalseTimeout ==
  [][\A r \in Requests :
       answer[r] = "none" /\ answer'[r] = "inference_timeout" => quiet[r] >= Timeout]_vars

\* With prompt scheduling a stall is noticed between `timeout` and `timeout` +
\* 100 ms after the last window (the same doc comment), although the deadline
\* counts from when progress was seen and not from when it was made.
StallSeenInTime ==
  \A r \in Requests : Timeout > 0 /\ pc[r] = "await" => quiet[r] <= Timeout + 1

\* A client that is still there is told "Server is shutting down" only when it
\* is (the comment on the Cancelled arm of run_file_transcription), whoever
\* set the abort flag and whatever closed the pool.
CancelledMeansShutdown ==
  \A r \in Requests : answer[r] = "cancelled" => shutdown

\* The uploads in memory stay within the admission capacity, those included
\* that a run still reads after its client was answered or went away
\* (UploadPermit::retain, and _upload_lifetime in file_transcribe.rs).
UploadsBounded ==
  Cardinality({r \in Requests : \/ pc[r] \in {"upload", "checkout"}
                                \/ run[r] \in {"between", "native"}}) <= Capacity

\* If native calls return and threads are scheduled, a run whose client is gone
\* or was answered, or whose server shuts down, gives its session back at its
\* next window, however long the file still is.
AbandonedRunReturnsSlot ==
  (\A r \in Requests : WF_vars(Engine(r))) =>
    \A s \in Slots, r \in Requests :
      (slot[s] = r /\ (pc[r] \in {"gone", "answered"} \/ shutdown)) ~> slot[s] # r
=============================================================================
