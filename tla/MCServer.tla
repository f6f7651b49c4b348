------------------------------ MODULE MCServer -------------------------------
(***************************************************************************)
(* Five parts of the server side by side for TLC: the life of the process, *)
(* the one-shot file run, the event stream of a file, the rate limiter,    *)
(* and the job queue, under another name where its names are taken.  They  *)
(* share no state, so their product would show nothing: `part` says which  *)
(* of them moves, and the others rest where nothing is enabled.            *)
(***************************************************************************)
EXTENDS FileRun, Server, FileStream, RateLimiter, TLC

CONSTANTS
  r1, r2, t1, u1, u2, v1, a1, a2,
  j1, j2, w1, w2,
  Jobs, Runs, Listeners, BodyLen, MaxJobs, MaxBytes, MaxSubs, Ttl, NoJob, NoRun, MaxRetries

VARIABLES
  part,
  status, attempts, body, abortOf, jobQueue, flag, channels, listener, topic, inbox,
  workerAt, inHand, verdict, next, jobsShutdown, sweeper, swept, late

JobQueue == INSTANCE Jobs WITH abort <- abortOf, queue <- jobQueue, pc <- workerAt,
                               run <- inHand, shutdown <- jobsShutdown

queueVars == <<status, attempts, body, abortOf, jobQueue, flag, channels, listener, topic, inbox,
               workerAt, inHand, verdict, next, jobsShutdown, sweeper, swept, late>>
parts == <<vars, serverVars, streamVars, limiterVars, queueVars>>

\* The first upload is twice as long as the other.
MCBodyLen == [j \in Jobs |-> IF j = j1 THEN 2 ELSE 1]

MCConfigs == {[rpm |-> 0, burst |-> 2], [rpm |-> 1, burst |-> 2], [rpm |-> 1, burst |-> 1],
              [rpm |-> 3, burst |-> 2]}

\* Whoever takes a session gives it back, the run of a file and the stream of one.
\* (file_transcribe.rs, stream.rs)
SlotsComeBack == AbandonedRunReturnsSlot /\ StreamReturnsSlot

MCInit ==
  /\ Init
  /\ part \in {"process", "file", "stream", "limiter", "jobs"}
  /\ IF part = "process" THEN ServerInit
     ELSE /\ phase = "gone" /\ signal = TRUE /\ cancelled = TRUE /\ shut = "over"
          /\ expired = FALSE /\ live = 1 /\ built = 1 /\ closed = {1}
          /\ where = [c \in Peers |-> "away"] /\ engineOf = [c \in Peers |-> 0]
          /\ owner = [s \in Engines \X Triplets |-> Nobody]
          /\ native = [c \in Peers |-> "none"] /\ lock = Nobody /\ loader = "none"
          /\ admin = [a \in Admins |-> "over"] /\ thread = [a \in Admins |-> "none"]
  /\ IF part = "stream" THEN StreamInit
     ELSE /\ api = "native" /\ producer = "over" /\ todo = <<>> /\ then = "over"
          /\ stage = "Finished" /\ before = "Processing" /\ since = 0 /\ waited = 0
          /\ queue = <<>> /\ told = <<>> /\ tail = <<>> /\ response = "closed"
          /\ stop = TRUE /\ leave = TRUE /\ timedOut = FALSE /\ dropped = FALSE
  /\ IF part = "limiter" THEN LimiterInit
     ELSE /\ now = MaxTime /\ limits = [rpm |-> 0, burst |-> 2] /\ installed = FALSE
          /\ limiter = Effective(limits) /\ buckets = <<>>
          /\ grants = [ip \in Addresses |-> <<>>]
  /\ IF part = "jobs" THEN JobQueue!Init
     ELSE /\ JobQueue!StoreInit
          /\ workerAt = [w \in Runs |-> "stopped"] /\ inHand = [w \in Runs |-> NoJob]
          /\ verdict = [w \in Runs |-> "none"] /\ next = [w \in Runs |-> "none"]
          /\ jobsShutdown = TRUE /\ sweeper = "done" /\ swept = NoJob
          /\ late = {}

MCNext ==
  /\ UNCHANGED part
  /\ part # "file" => UNCHANGED vars
  /\ part # "process" => UNCHANGED serverVars
  /\ part # "stream" => UNCHANGED streamVars
  /\ part # "limiter" => UNCHANGED limiterVars
  /\ part # "jobs" => UNCHANGED queueVars
  /\ \/ part = "file" /\ Next
     \/ part = "process" /\ ServerNext
     \/ part = "stream" /\ StreamNext
     \/ part = "limiter" /\ LimiterNext
     \/ part = "jobs" /\ JobQueue!Next

\* Jobs!Fairness; it says nothing of the other parts, where no worker moves.
QueueFairness ==
  /\ \A w \in Runs : /\ WF_queueVars(part = "jobs" /\ JobQueue!WorkerStep(w))
                     /\ WF_queueVars(part = "jobs" /\ JobQueue!RunAborted(w))
  /\ WF_queueVars(part = "jobs" /\ JobQueue!SweepNext)
  /\ WF_queueVars(part = "jobs" /\ JobQueue!SweepCancel)

\* Each fairness condition is about the variables of its own part.
MCSpec == /\ MCInit /\ [][MCNext]_<<part, parts>>
          /\ WF_vars(Tick) /\ FairHandler /\ ServerFairness /\ StreamFairness
          /\ QueueFairness

\* DELETE frees the worker that runs the job, wherever in its setup it was.  The
\* workers are alike, so one of them is enough.  (Jobs!CancelStopsRun)
CancelStopsRun ==
  \A j \in Jobs :
    (JobQueue!HeldBy(w1, j) /\ status[j] = "cancelled") ~> ~JobQueue!HeldBy(w1, j)

\* After the shutdown token every worker leaves its loop.
WorkersDrain == JobQueue!WorkersDrain
=============================================================================
