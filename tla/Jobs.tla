-------------------------------- MODULE Jobs --------------------------------
(***************************************************************************)
(* The asynchronous job queue of the server: the workers of                *)
(* jobs/queue.rs, what the executor of jobs/executor.rs does to the store  *)
(* and to its abort flag, the handlers of http/jobs_api.rs, and the        *)
(* shutdown sequence of listen.rs as far as jobs see it.                   *)
(*                                                                         *)
(* Every action is one visit to the store or one check of the shutdown     *)
(* token; between two of them any other task may run.  A worker always     *)
(* finds a permit: the semaphore has one per worker.  What a run does      *)
(* between registering its abort flag and ending (pool checkout, decode,   *)
(* watchdog) is not looked into, only how it may end.                      *)
(***************************************************************************)
EXTENDS JobStore

CONSTANT MaxRetries  \* --jobs-retry

ASSUME JobsAssumption == MaxRetries \in Nat

Workers == Runs

VARIABLES
  pc,        \* where each worker is in its loop
  run,       \* the job each worker has in hand
  verdict,   \* how its last attempt failed
  next,      \* the transition it is about to ask for
  shutdown,  \* the server's cancellation token
  sweeper,   \* cancel_all_queued, run by the shutdown future
  swept,     \* the job cancel_all_queued has popped
  late       \* history: jobs put in the queue after cancel_all_queued was done

workerVars   == <<pc, run, verdict, next>>
shutdownVars == <<shutdown, sweeper, swept, late>>
jobsVars     == <<storeVars, workerVars, shutdownVars>>

\* A worker at these points has taken its job out of the queue.
Busy == {"popped", "claimed", "setup", "running", "ended", "decided"}

TypeOK ==
  /\ StoreTypeOK
  /\ pc       \in [Workers -> {"idle", "poll", "stopped"} \cup Busy]
  /\ run      \in [Workers -> Jobs \cup {NoJob}]
  /\ verdict  \in [Workers -> {"none", "panic", "error", "aborted"}]
  /\ next     \in [Workers -> {"none", "done", "failed", "queued"}]
  /\ shutdown \in BOOLEAN
  /\ sweeper  \in {"none", "pop", "cancel", "done"}
  /\ swept    \in Jobs \cup {NoJob}
  /\ late     \subseteq Jobs

Init ==
  /\ StoreInit
  /\ pc       = [w \in Workers |-> "idle"]
  /\ run      = [w \in Workers |-> NoJob]
  /\ verdict  = [w \in Workers |-> "none"]
  /\ next     = [w \in Workers |-> "none"]
  /\ shutdown = FALSE
  /\ sweeper  = "none"
  /\ swept    = NoJob
  /\ late     = {}

-----------------------------------------------------------------------------
(* The HTTP handlers.                                                      *)

Queued(j) == \E k \in DOMAIN queue : queue[k] = j

\* What this step puts in the queue is late when the sweep is over.
NoteLate ==
  late' = IF sweeper = "done" THEN late \cup {j \in Jobs : Queued(j)' /\ ~Queued(j)} ELSE late

\* The handler does not look at the token: uploads are accepted as long as the
\* server answers.
Submit(j) == /\ \E E \in SUBSET Evictable : Create(j, E)
             /\ NoteLate
             /\ UNCHANGED <<workerVars, shutdown, sweeper, swept>>

\* The is_full check that submit_job makes first.
SubmitAdvisory == /\ \E E \in SUBSET Evictable : IsFull(E)
                  /\ UNCHANGED <<workerVars, shutdownVars>>

CancelJob(j) == /\ Transition(j, "cancelled")
                /\ UNCHANGED <<workerVars, shutdownVars>>

Listen(c, j) == Subscribe(c, j) /\ UNCHANGED <<workerVars, shutdownVars>>

ListenerLeaves(c) == HangUp(c) /\ UNCHANGED <<workerVars, shutdownVars>>

-----------------------------------------------------------------------------
(* One worker.                                                             *)

\* Top of the loop: stop on shutdown, else take a permit.
WorkerCheck(w) ==
  /\ pc[w] = "idle"
  /\ pc' = [pc EXCEPT ![w] = IF shutdown THEN "stopped" ELSE "poll"]
  /\ UNCHANGED <<storeVars, run, verdict, next, shutdownVars>>

WorkerNext(w) ==
  /\ pc[w] = "poll"
  /\ \E E \in SUBSET Evictable :
       \/ \E j \in Jobs : /\ NextQueued(j, E)
                          /\ run' = [run EXCEPT ![w] = j]
                          /\ pc'  = [pc EXCEPT ![w] = "popped"]
       \/ /\ NextQueuedNone(E)
          /\ pc' = [pc EXCEPT ![w] = "idle"]
          /\ UNCHANGED run
  /\ UNCHANGED <<verdict, next, shutdownVars>>

\* The job goes out of the worker's hand.
LetGo(w) ==
  /\ pc'      = [pc EXCEPT ![w] = "idle"]
  /\ run'     = [run EXCEPT ![w] = NoJob]
  /\ verdict' = [verdict EXCEPT ![w] = "none"]
  /\ next'    = [next EXCEPT ![w] = "none"]

WorkerStart(w) ==
  /\ pc[w] = "popped"
  /\ \/ /\ Transition(run[w], "processing")
        /\ pc' = [pc EXCEPT ![w] = "claimed"]
        /\ UNCHANGED <<run, verdict, next>>
     \/ /\ ~Allowed(run[w], "processing") /\ UNCHANGED storeVars
        /\ LetGo(w)
  /\ UNCHANGED shutdownVars

\* store.get: the upload and the parameters, if still Processing.
WorkerFetch(w) ==
  /\ pc[w] = "claimed"
  /\ \/ /\ status[run[w]] = "processing"
        /\ pc' = [pc EXCEPT ![w] = "setup"]
        /\ UNCHANGED <<run, verdict, next>>
     \/ /\ status[run[w]] # "processing"
        /\ LetGo(w)
  /\ UNCHANGED <<storeVars, shutdownVars>>

\* The duration probe panics, or an override of the request is invalid.
SetupFails(w, how) ==
  /\ pc[w] = "setup" /\ how \in {"panic", "error"}
  /\ pc'      = [pc EXCEPT ![w] = "ended"]
  /\ verdict' = [verdict EXCEPT ![w] = how]
  /\ UNCHANGED <<storeVars, run, next, shutdownVars>>

\* Mutant: the flag is not seeded from a cancel that came first.
RegisterUnseeded(w) ==
  LET j == run[w] IN
  /\ pc[w] = "setup"
  /\ flag'  = [flag EXCEPT ![w] = FALSE]
  /\ abort' = [abort EXCEPT ![j] = IF status[j] = "processing" THEN w ELSE @]
  /\ pc'    = [pc EXCEPT ![w] = "running"]
  /\ UNCHANGED <<status, attempts, body, queue, channels, listener, topic, inbox,
                 run, verdict, next, shutdownVars>>

\* A fresh abort flag is registered on the job, or, when a cancel came first,
\* starts out set.
Register(w) ==
  LET j == run[w] IN
  /\ pc[w] = "setup"
  /\ flag'  = [flag EXCEPT ![w] = (status[j] = "cancelled")]
  /\ abort' = [abort EXCEPT ![j] = IF status[j] = "processing" THEN w ELSE @]
  /\ pc'    = [pc EXCEPT ![w] = "running"]
  /\ UNCHANGED <<status, attempts, body, queue, channels, listener, topic, inbox,
                 run, verdict, next, shutdownVars>>

\* The progress ticker, while the run lasts.
Tick(w) ==
  /\ pc[w] = "running"
  /\ BroadcastProgress(run[w])
  /\ UNCHANGED <<workerVars, shutdownVars>>

RunSucceeds(w) ==
  /\ pc[w] = "running"
  /\ pc'   = [pc EXCEPT ![w] = "decided"]
  /\ next' = [next EXCEPT ![w] = "done"]
  /\ UNCHANGED <<storeVars, run, verdict, shutdownVars>>

\* A panic caught in the inference thread; or any other error: the pool closed
\* or its checkout timed out, the audio did not decode, inference_timeout.
RunFails(w, how) ==
  /\ pc[w] = "running" /\ how \in {"panic", "error"}
  /\ pc'      = [pc EXCEPT ![w] = "ended"]
  /\ verdict' = [verdict EXCEPT ![w] = how]
  /\ UNCHANGED <<storeVars, run, next, shutdownVars>>

\* Mutant: the watchdog does not watch the shutdown token.
RunAbortedByFlag(w) ==
  /\ pc[w] = "running" /\ flag[w]
  /\ pc'      = [pc EXCEPT ![w] = "ended"]
  /\ verdict' = [verdict EXCEPT ![w] = "aborted"]
  /\ UNCHANGED <<storeVars, run, next, shutdownVars>>

\* The engine saw its abort flag, set by DELETE or, through the watchdog, by
\* the shutdown token.
RunAborted(w) ==
  /\ pc[w] = "running" /\ (flag[w] \/ shutdown)
  /\ flag'    = [flag EXCEPT ![w] = TRUE]
  /\ pc'      = [pc EXCEPT ![w] = "ended"]
  /\ verdict' = [verdict EXCEPT ![w] = "aborted"]
  /\ UNCHANGED <<status, attempts, body, abort, queue, channels, listener, topic,
                 inbox, run, next, shutdownVars>>

\* Only a panic is retried, while the attempts made do not exceed MaxRetries; a
\* job that is gone counts as having made none.
WorkerDecide(w) ==
  LET made == IF status[run[w]] \in Resident THEN attempts[run[w]] ELSE 0 IN
  /\ pc[w] = "ended"
  /\ pc'   = [pc EXCEPT ![w] = "decided"]
  /\ next' = [next EXCEPT ![w] = IF verdict[w] = "panic" /\ made <= MaxRetries
                                   THEN "queued" ELSE "failed"]
  /\ UNCHANGED <<storeVars, run, verdict, shutdownVars>>

WorkerSettle(w) ==
  /\ pc[w] = "decided"
  /\ TransitionOrNot(run[w], next[w])
  /\ NoteLate
  /\ LetGo(w)
  /\ UNCHANGED <<shutdown, sweeper, swept>>

-----------------------------------------------------------------------------
(* Shutdown: the token, then cancel_all_queued (the pools are closed after *)
(* it; a run waiting for a slot then fails).                               *)

ShutdownFires ==
  /\ ~shutdown
  /\ shutdown' = TRUE
  /\ sweeper'  = "pop"
  /\ UNCHANGED <<storeVars, workerVars, swept, late>>

SweepNext ==
  /\ sweeper = "pop"
  /\ \E E \in SUBSET Evictable :
       \/ \E j \in Jobs : /\ NextQueued(j, E)
                          /\ swept' = j /\ sweeper' = "cancel"
       \/ NextQueuedNone(E) /\ sweeper' = "done" /\ UNCHANGED swept
  /\ UNCHANGED <<workerVars, shutdown, late>>

\* Mutant: the sweep is one round, not a loop.
SweepCancelOnce ==
  /\ sweeper = "cancel"
  /\ TransitionOrNot(swept, "cancelled")
  /\ sweeper' = "done" /\ swept' = NoJob
  /\ UNCHANGED <<workerVars, shutdown, late>>

SweepCancel ==
  /\ sweeper = "cancel"
  /\ TransitionOrNot(swept, "cancelled")
  /\ sweeper' = "pop" /\ swept' = NoJob
  /\ UNCHANGED <<workerVars, shutdown, late>>

-----------------------------------------------------------------------------
WorkerStep(w) ==
  \/ WorkerCheck(w)
  \/ WorkerNext(w)
  \/ WorkerStart(w)
  \/ WorkerFetch(w)
  \/ Register(w)
  \/ \E how \in {"panic", "error"} : SetupFails(w, how)
  \/ WorkerDecide(w)
  \/ WorkerSettle(w)

RunEnds(w) ==
  RunSucceeds(w) \/ (\E how \in {"panic", "error"} : RunFails(w, how)) \/ RunAborted(w)

Next ==
  \/ \E j \in Jobs : Submit(j) \/ CancelJob(j)
  \/ SubmitAdvisory
  \/ \E c \in Listeners : \E j \in Jobs : Listen(c, j)
  \/ \E c \in Listeners : ListenerLeaves(c)
  \/ \E w \in Workers : WorkerStep(w) \/ Tick(w) \/ RunEnds(w)
  \/ ShutdownFires
  \/ SweepNext
  \/ SweepCancel

Spec == Init /\ [][Next]_jobsVars

\* Tasks are scheduled and the engine polls its abort flag; nothing obliges a
\* run that was not asked to stop to end, a client to call, or the server to
\* shut down.
Fairness ==
  /\ \A w \in Workers : WF_jobsVars(WorkerStep(w)) /\ WF_jobsVars(RunAborted(w))
  /\ WF_jobsVars(SweepNext)
  /\ WF_jobsVars(SweepCancel)

FairSpec == Spec /\ Fairness

-----------------------------------------------------------------------------
(* Safety.                                                                 *)

HeldBy(w, j) == pc[w] \in Busy /\ run[w] = j
HeldBySweeper(j) == sweeper = "cancel" /\ swept = j

\* A job id is in at most one hand: one queue entry, one worker, or the
\* shutdown sweep.  So no upload is ever transcribed by two workers at once,
\* through retries, cancels that leave stale ids in the queue, and the sweep.
OneHolderPerJob ==
  \A j \in Jobs :
    /\ \A k, m \in DOMAIN queue : queue[k] = j /\ queue[m] = j => k = m
    /\ \A w, v \in Workers : HeldBy(w, j) /\ HeldBy(v, j) => w = v
    /\ \A w \in Workers : ~(HeldBy(w, j) /\ (Queued(j) \/ HeldBySweeper(j)))
    /\ ~(HeldBySweeper(j) /\ Queued(j))

\* No job is forgotten that cancel_all_queued ("Mark all queued jobs as
\* cancelled") could see.  A Queued one is in a queue that a worker or the sweep
\* still empties, or in the hand of someone who will start or cancel it; a
\* Processing one is in the hand of a worker past its claim, who alone may end
\* it.  What comes after the sweep is named, and is the whole of what may wait for
\* ever: a run that panics is put back (queue.rs:147), an upload is accepted by a
\* handler that never asks for the token, and no worker need read the queue then.
\* Against them the comments at queue.rs:68 and listen.rs:584 do not hold.
NoJobForgotten ==
  \A j \in Jobs :
    /\ status[j] = "queued" =>
         \/ Queued(j) /\ (sweeper = "done" => j \in late)
         \/ HeldBySweeper(j)
         \/ \E w \in Workers : pc[w] = "popped" /\ run[w] = j
    /\ status[j] = "processing" =>
         \E w \in Workers : pc[w] \in Busy \ {"popped"} /\ run[w] = j

\* What a client was told is final: Done, Failed and Cancelled never change, so
\* a late completion does not overwrite a cancel, nor a cancel a result.
TerminalIsFinal ==
  [][\A j \in Jobs : status[j] \in Terminal => status'[j] \in {status[j], "evicted"}]_jobsVars

\* The abort handle of a job refers to the flag of the attempt in progress, so
\* DELETE stops this run and no other (Retry clears the handle).
AbortIsOfThisRun ==
  \A j \in Jobs : abort[j] # NoRun =>
    status[j] = "processing" /\ pc[abort[j]] \in Busy /\ run[abort[j]] = j

\* A listener that still reads and was not cut off is registered as long as its
\* job has not ended, and was sent exactly the outcome when it has: subscribing
\* at the moment of the transition loses nothing.
ListenersSeeOutcome ==
  \A c \in Listeners : listener[c] = "open" =>
    LET j == topic[c] IN
    \/ status[j] \in {"queued", "processing"} /\ c \in channels[j]
    \/ status[j] \in Terminal /\ inbox[c] = status[j]
    \/ status[j] = "evicted" /\ inbox[c] \in Terminal

-----------------------------------------------------------------------------
(* Liveness.                                                               *)

\* DELETE on a Processing job frees its worker, wherever in its setup the
\* worker was (the flag is seeded from the status when the cancel came first).
CancelStopsRun ==
  \A w \in Workers : \A j \in Jobs :
    (HeldBy(w, j) /\ status[j] = "cancelled") ~> ~HeldBy(w, j)

\* The drain ends: after the token every worker leaves its loop.
WorkersDrain == shutdown ~> \A w \in Workers : pc[w] = "stopped"
=============================================================================
