------------------------------ MODULE JobStore ------------------------------
(***************************************************************************)
(* The in-memory store of the asynchronous job API                         *)
(* (src/crates/gigastt/src/server/jobs/store.rs): job records, the FIFO of *)
(* queued ids, TTL eviction, and the SSE listeners of each job.            *)
(*                                                                         *)
(* Every operation of the store is one critical section under the jobs     *)
(* lock (the queue lock is only ever taken inside it), so each operator    *)
(* here describes one atomic change.  Module Jobs is made of them.         *)
(*                                                                         *)
(* Payloads follow the status and are left out: result, error, partial     *)
(* text, progress seconds, diarization outcome.  Ids are UUIDs, never      *)
(* reused.  Time is left out: any terminal job may have outlived its TTL.  *)
(***************************************************************************)
EXTENDS Integers, Sequences, FiniteSets, FiniteSetsExt

CONSTANTS
  Jobs,       \* ids of the jobs submitted
  Runs,       \* identities of attempts in flight; one per worker
  Listeners,  \* SSE clients of GET /v1/jobs/{id}/events
  BodyLen,    \* size of each job's upload
  MaxJobs,    \* jobs_max
  MaxBytes,   \* jobs_max_bytes
  MaxSubs,    \* MAX_JOB_EVENT_SUBSCRIBERS
  Ttl,        \* FALSE when jobs_ttl_secs = 0: nothing is ever evicted
  NoJob, NoRun

ASSUME JobStoreAssumption ==
  /\ IsFiniteSet(Jobs)
  /\ BodyLen \in [Jobs -> Nat \ {0}]
  /\ MaxJobs \in Nat /\ MaxBytes \in Nat /\ MaxSubs \in Nat \ {0}
  /\ Ttl \in BOOLEAN
  /\ NoJob \notin Jobs /\ NoRun \notin Runs

VARIABLES
  status,    \* Job.status; "absent" before create, "evicted" after removal
  attempts,  \* Job.attempts
  body,      \* Job.body.len()
  abort,     \* the run whose abort flag Job.abort refers to
  queue,     \* inner queue: ids, oldest first; NoJob where retain took one out
  flag,      \* the abort flag of each run
  channels,  \* Job.event_channels
  listener,  \* each SSE client: not subscribed, reading, hung up, cut off
  topic,     \* the job each SSE client subscribed to
  inbox      \* the last event each SSE client was sent

storeVars == <<status, attempts, body, abort, queue, flag, channels, listener,
               topic, inbox>>

Terminal  == {"done", "failed", "cancelled"}
Resident  == {"queued", "processing"} \cup Terminal
JobStatus == {"absent", "evicted"} \cup Resident
JobEvent  == {"none", "progress"} \cup Terminal

StoreTypeOK ==
  /\ status   \in [Jobs -> JobStatus]
  /\ attempts \in [Jobs -> Nat]
  /\ body     \in [Jobs -> Nat]
  /\ abort    \in [Jobs -> Runs \cup {NoRun}]
  /\ queue    \in Seq(Jobs \cup {NoJob})
  /\ flag     \in [Runs -> BOOLEAN]
  /\ channels \in [Jobs -> SUBSET Listeners]
  /\ listener \in [Listeners -> {"none", "open", "closed", "ousted"}]
  /\ topic    \in [Listeners -> Jobs \cup {NoJob}]
  /\ inbox    \in [Listeners -> JobEvent]

StoreInit ==
  /\ status   = [j \in Jobs |-> "absent"]
  /\ attempts = [j \in Jobs |-> 0]
  /\ body     = [j \in Jobs |-> 0]
  /\ abort    = [j \in Jobs |-> NoRun]
  /\ queue    = <<>>
  /\ flag     = [r \in Runs |-> FALSE]
  /\ channels = [j \in Jobs |-> {}]
  /\ listener = [c \in Listeners |-> "none"]
  /\ topic    = [c \in Listeners |-> NoJob]
  /\ inbox    = [c \in Listeners |-> "none"]

-----------------------------------------------------------------------------
(* Eviction, admission, queue.                                             *)

\* evict_expired_locked may remove any of these, once their TTL has passed.
Evictable == IF Ttl THEN {j \in Jobs : status[j] \in Terminal} ELSE {}

\* jobs.remove of the ids in E, and queue.retain: a hole keeps its position
\* and is skipped when the queue is popped, as a removed id would not be there.
StatusWithout(E) == [j \in Jobs |-> IF j \in E THEN "evicted" ELSE status[j]]
Retain(q, E)     == [k \in DOMAIN q |-> IF q[k] \in E THEN NoJob ELSE q[k]]

Kept(E) == {j \in Jobs : status[j] \in Resident} \ E

\* at_capacity, by count or by resident upload bytes, after E was evicted.
AtCapacity(E) == \/ Cardinality(Kept(E)) >= MaxJobs
                 \/ MapThenSumSet(LAMBDA j : body[j], Kept(E)) >= MaxBytes

\* create: evict, then admit and enqueue the job, or refuse it (JobStoreFull).
Create(j, E) ==
  /\ status[j] = "absent" /\ E \subseteq Evictable
  /\ \/ /\ AtCapacity(E)
        /\ status' = StatusWithout(E)
        /\ queue'  = Retain(queue, E)
        /\ UNCHANGED body
     \/ /\ ~AtCapacity(E)
        /\ status' = [StatusWithout(E) EXCEPT ![j] = "queued"]
        /\ queue'  = Append(Retain(queue, E), j)
        /\ body'   = [body EXCEPT ![j] = BodyLen[j]]
  /\ UNCHANGED <<attempts, abort, flag, channels, listener, topic, inbox>>

\* is_full changes the store only by evicting.
IsFull(E) ==
  /\ E \subseteq Evictable /\ E # {}
  /\ status' = StatusWithout(E)
  /\ queue'  = Retain(queue, E)
  /\ UNCHANGED <<attempts, body, abort, flag, channels, listener, topic, inbox>>

\* The entry next_queued returns: the oldest whose job is still Queued.
IsNext(k) ==
  /\ k \in DOMAIN queue /\ queue[k] # NoJob /\ status[queue[k]] = "queued"
  /\ \A m \in 1..(k - 1) : queue[m] # NoJob => status[queue[m]] # "queued"

\* Mutant: the entry returned stays in the queue.
NextQueuedPeek(j, E) ==
  /\ E \subseteq Evictable
  /\ status' = StatusWithout(E)
  /\ \E k \in DOMAIN queue :
       /\ IsNext(k) /\ queue[k] = j
       /\ queue' = Retain(SubSeq(queue, k, Len(queue)), E)
  /\ UNCHANGED <<attempts, body, abort, flag, channels, listener, topic, inbox>>

\* next_queued: evict, then drop entries up to and including the one returned.
NextQueued(j, E) ==
  /\ E \subseteq Evictable
  /\ status' = StatusWithout(E)
  /\ \E k \in DOMAIN queue :
       /\ IsNext(k) /\ queue[k] = j
       /\ queue' = Retain(SubSeq(queue, k + 1, Len(queue)), E)
  /\ UNCHANGED <<attempts, body, abort, flag, channels, listener, topic, inbox>>

\* next_queued on a queue with no Queued job: every entry is dropped.
NextQueuedNone(E) ==
  /\ E \subseteq Evictable
  /\ status' = StatusWithout(E)
  /\ \A k \in DOMAIN queue : ~IsNext(k)
  /\ queue' = <<>>
  /\ UNCHANGED <<attempts, body, abort, flag, channels, listener, topic, inbox>>

-----------------------------------------------------------------------------
(* Events.                                                                 *)

\* Mutant: at the end the channels are dropped before the event is sent.
PublishTooLate(j, event) ==
  LET reading == {c \in channels[j] : listener[c] = "open"} IN
  /\ inbox' = [c \in Listeners |-> IF c \in reading /\ event \notin Terminal
                                     THEN event ELSE inbox[c]]
  /\ channels' = [channels EXCEPT ![j] = IF event \in Terminal THEN {} ELSE reading]

\* Job::broadcast, when the event fits the status: every channel whose client
\* still reads gets the event; closed channels go, and all go at the end.
Publish(j, event) ==
  LET reading == {c \in channels[j] : listener[c] = "open"} IN
  /\ inbox' = [c \in Listeners |-> IF c \in reading THEN event ELSE inbox[c]]
  /\ channels' = [channels EXCEPT ![j] = IF event \in Terminal THEN {} ELSE reading]

\* broadcast_event of a progress event, through update: dropped when the job
\* has ended meanwhile, or is gone.
BroadcastProgress(j) ==
  /\ IF status[j] \in {"queued", "processing"}
       THEN Publish(j, "progress")
       ELSE UNCHANGED <<channels, inbox>>
  /\ UNCHANGED <<status, attempts, body, abort, queue, flag, listener, topic>>

\* Job::subscribe: a finished job answers at once; otherwise closed channels
\* are pruned and, at the cap, a listener (the oldest) is cut off.
Subscribe(c, j) ==
  LET reading == {d \in channels[j] : listener[d] = "open"} IN
  /\ listener[c] = "none" /\ status[j] \in Resident
  /\ topic' = [topic EXCEPT ![c] = j]
  /\ \/ /\ status[j] \in Terminal
        /\ inbox'    = [inbox EXCEPT ![c] = status[j]]
        /\ listener' = [listener EXCEPT ![c] = "open"]
        /\ UNCHANGED channels
     \/ /\ status[j] \notin Terminal /\ Cardinality(reading) < MaxSubs
        /\ channels' = [channels EXCEPT ![j] = reading \cup {c}]
        /\ listener' = [listener EXCEPT ![c] = "open"]
        /\ UNCHANGED inbox
     \/ /\ status[j] \notin Terminal /\ Cardinality(reading) >= MaxSubs
        /\ \E old \in reading :
             /\ channels' = [channels EXCEPT ![j] = (reading \ {old}) \cup {c}]
             /\ listener' = [listener EXCEPT ![c] = "open", ![old] = "ousted"]
        /\ UNCHANGED inbox
  /\ UNCHANGED <<status, attempts, body, abort, queue, flag>>

\* An SSE client hangs up; its sender stays in event_channels until pruned.
HangUp(c) ==
  /\ listener[c] = "open"
  /\ listener' = [listener EXCEPT ![c] = "closed"]
  /\ UNCHANGED <<status, attempts, body, abort, queue, flag, channels, topic, inbox>>

-----------------------------------------------------------------------------
(* Transitions, named by the status they lead to: Start -> processing,     *)
(* Complete -> done, Fail -> failed, Retry -> queued, Cancel -> cancelled.  *)

Allowed(j, to) ==
  CASE to = "processing" -> status[j] = "queued"
    [] to = "cancelled"  -> status[j] \in {"queued", "processing"}
    [] OTHER             -> status[j] = "processing"

\* JobStore::transition with Job::transition inside: status, attempt count,
\* upload, abort handle, event and, for Retry, the queue change together.
Transition(j, to) ==
  /\ Allowed(j, to)
  /\ status'   = [status EXCEPT ![j] = to]
  /\ attempts' = [attempts EXCEPT ![j] = IF to = "processing" THEN @ + 1 ELSE @]
  /\ body'     = [body EXCEPT ![j] = IF to \in Terminal THEN 0 ELSE @]
  /\ abort'    = [abort EXCEPT ![j] = IF to = "processing" THEN @ ELSE NoRun]
  /\ flag'     = [r \in Runs |-> flag[r] \/ (to = "cancelled" /\ abort[j] = r)]
  /\ queue'    = IF to = "queued" THEN Append(queue, j) ELSE queue
  /\ Publish(j, IF to \in Terminal THEN to ELSE "progress")
  /\ UNCHANGED <<listener, topic>>

\* The outcomes Rejected and Missing change nothing.
TransitionOrNot(j, to) ==
  Transition(j, to) \/ (~Allowed(j, to) /\ UNCHANGED storeVars)

=============================================================================
