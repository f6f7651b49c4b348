----------------------------- MODULE JobsProofs ------------------------------
(***************************************************************************)
(* Theorems about the job queue, for any sets of jobs, workers and         *)
(* listeners, any limits and any number of retries.                        *)
(***************************************************************************)
EXTENDS Jobs, SequenceTheorems, WellFoundedInduction, TLAPS

Entry == Jobs \cup {NoJob}

\* The jobs in a queue, and a queue that has each of them once.
Ids(q) == {q[k] : k \in DOMAIN q} \ {NoJob}
Once(q) == \A k, m \in DOMAIN q : q[k] = q[m] /\ q[k] # NoJob => k = m

-----------------------------------------------------------------------------
(* What the operations of the store do to the queue.                       *)

\* There is a first among positions.
LEMMA FirstOf ==
  ASSUME NEW T \in SUBSET Nat, T # {}
  PROVE  \E x \in T : \A y \in T : x <= y
<1>1. PICK x \in T : \A y \in T : <<y, x>> \notin OpToRel(<, Nat)
  BY WFMin, NatLessThanWellFounded
<1>2. \A y \in T : ~(y < x)
  BY <1>1 DEF OpToRel
<1> QED
  BY <1>2

\* retain: the removed ids are gone and nothing else (evict_expired_locked).
LEMMA RetainIds ==
  ASSUME NEW q \in Seq(Entry), NEW E \in SUBSET Jobs
  PROVE  /\ Retain(q, E) \in Seq(Entry)
         /\ Len(Retain(q, E)) = Len(q)
         /\ Ids(Retain(q, E)) = Ids(q) \ E
         /\ Once(q) => Once(Retain(q, E))
<1> DEFINE r == Retain(q, E)
<1>1. /\ Len(q) \in Nat /\ DOMAIN q = 1..Len(q)
      /\ \A k \in DOMAIN q : q[k] \in Entry
  OBVIOUS
<1>2. /\ r = [k \in 1..Len(q) |-> IF q[k] \in E THEN NoJob ELSE q[k]]
      /\ \A k \in 1..Len(q) : r[k] = IF q[k] \in E THEN NoJob ELSE q[k]
  BY <1>1 DEF Retain
<1>3. \A k \in 1..Len(q) : r[k] \in Entry
  BY <1>1, <1>2 DEF Entry
<1>4. r \in Seq(Entry) /\ Len(r) = Len(q) /\ DOMAIN r = 1..Len(q)
  BY <1>1, <1>2, <1>3
<1>5. NoJob \notin E
  BY JobStoreAssumption
<1>6. Ids(r) = Ids(q) \ E
  BY <1>1, <1>2, <1>4, <1>5 DEF Ids
<1>7. Once(q) => Once(r)
  BY <1>1, <1>2, <1>4 DEF Once
<1> QED
  BY <1>4, <1>6, <1>7

\* pop_front up to an entry: it and those before it are gone (next_queued).
LEMMA CutIds ==
  ASSUME NEW q \in Seq(Entry), NEW n \in DOMAIN q, Once(q), q[n] # NoJob
  PROVE  LET r == SubSeq(q, n + 1, Len(q)) IN
         /\ r \in Seq(Entry)
         /\ Ids(r) \subseteq Ids(q) \ {q[n]}
         /\ \A j \in Ids(q) \ Ids(r) : \E m \in 1..n : q[m] = j
         /\ Once(r)
<1> DEFINE r == SubSeq(q, n + 1, Len(q))
<1>1. /\ Len(q) \in Nat /\ DOMAIN q = 1..Len(q) /\ n \in 1..Len(q)
      /\ \A k \in DOMAIN q : q[k] \in Entry
  OBVIOUS
<1>2. /\ r \in Seq(Entry) /\ Len(r) = Len(q) - n /\ DOMAIN r = 1..(Len(q) - n)
      /\ \A k \in 1..(Len(q) - n) : r[k] = q[k + n]
  <2>1. n + 1 \in Int /\ Len(q) \in Int /\ \A k \in n + 1..Len(q) : q[k] \in Entry
    BY <1>1
  <2>2. /\ r \in Seq(Entry)
        /\ Len(r) = IF n + 1 <= Len(q) THEN Len(q) - (n + 1) + 1 ELSE 0
        /\ \A k \in 1..(Len(q) - (n + 1) + 1) : r[k] = q[(n + 1) + k - 1]
    BY <2>1, SubSeqProperties
  <2>3. Len(q) - (n + 1) + 1 = Len(q) - n /\ (~(n + 1 <= Len(q)) => Len(q) - n = 0)
    BY <1>1
  <2>4. \A k \in 1..(Len(q) - n) : (n + 1) + k - 1 = k + n
    BY <1>1
  <2>5. DOMAIN r = 1..Len(r)
    BY <2>2
  <2> HIDE DEF r
  <2> QED
    BY <2>2, <2>3, <2>4, <2>5
<1>3. \A k \in DOMAIN r : k + n \in DOMAIN q /\ k + n # n /\ r[k] = q[k + n]
  BY <1>1, <1>2
<1>4. Ids(r) \subseteq Ids(q) \ {q[n]}
  BY <1>1, <1>3 DEF Ids, Once
<1>5. ASSUME NEW j \in Ids(q) \ Ids(r)
      PROVE  \E m \in 1..n : q[m] = j
  <2>1. PICK m \in DOMAIN q : q[m] = j
    BY DEF Ids
  <2>2. CASE m > n
    <3>1. m \in Int /\ n \in Int /\ m - n \in 1..(Len(q) - n) /\ (m - n) + n = m
      BY <1>1, <2>1, <2>2
    <3>2. m - n \in DOMAIN r /\ r[m - n] = q[m]
      <4> HIDE DEF r
      <4> QED
        BY <1>2, <3>1
    <3> QED
      BY <2>1, <3>2, <1>5 DEF Ids
  <2>3. m \in Int /\ n \in Int /\ m >= 1
    BY <1>1, <2>1
  <2> QED
    BY <2>1, <2>2, <2>3
<1>6. Once(r)
  <2>1. \A k, m \in DOMAIN r : k + n = m + n => k = m
    BY <1>1, <1>2
  <2> HIDE DEF r
  <2> QED
    BY <1>3, <2>1 DEF Once
<1> QED
  BY <1>2, <1>4, <1>5, <1>6

\* push_back of a job that is not there (create, Retry).
LEMMA AppendIds ==
  ASSUME NEW q \in Seq(Entry), NEW j \in Jobs
  PROVE  /\ Append(q, j) \in Seq(Entry)
         /\ Ids(Append(q, j)) = Ids(q) \cup {j}
         /\ Once(q) /\ j \notin Ids(q) => Once(Append(q, j))
<1> DEFINE r == Append(q, j)
<1>1. /\ Len(q) \in Nat /\ DOMAIN q = 1..Len(q) /\ j # NoJob /\ j \in Entry
  BY JobStoreAssumption DEF Entry
<1>2. /\ r \in Seq(Entry) /\ Len(r) = Len(q) + 1 /\ DOMAIN r = 1..(Len(q) + 1)
      /\ \A k \in 1..Len(q) : r[k] = q[k]
      /\ r[Len(q) + 1] = j
  BY <1>1
<1>3. \A k \in DOMAIN r : k \in DOMAIN q \/ k = Len(q) + 1
  BY <1>1, <1>2
<1>4. Ids(r) \subseteq Ids(q) \cup {j}
  BY <1>1, <1>2, <1>3 DEF Ids
<1>5. Ids(q) \cup {j} \subseteq Ids(r)
  <2>1. j \in Ids(r)
    BY <1>1, <1>2 DEF Ids
  <2>2. \A k \in DOMAIN q : k \in DOMAIN r /\ r[k] = q[k]
    BY <1>1, <1>2
  <2> QED
    BY <2>1, <2>2 DEF Ids
<1>6. ASSUME Once(q), j \notin Ids(q)
      PROVE  Once(r)
  <2>1. \A k \in DOMAIN q : q[k] # j
    BY <1>1, <1>6 DEF Ids
  <2> QED
    BY <1>1, <1>2, <1>3, <1>6, <2>1 DEF Once
<1> QED
  BY <1>2, <1>4, <1>5, <1>6

-----------------------------------------------------------------------------
(* The inductive invariant.                                                *)

\* A worker's or the sweep's job, when it has one.
InHand == {run[w] : w \in {v \in Workers : pc[v] \in Busy}}
InSweep == IF sweeper = "cancel" THEN {swept} ELSE {}

\* Queue, workers and sweep share no job, nor have one twice, nor one that was
\* never submitted.
Holding ==
  /\ Once(queue)
  /\ \A w \in Workers : pc[w] \in Busy => run[w] \in Jobs
  /\ \A w, v \in Workers : pc[w] \in Busy /\ pc[v] \in Busy /\ run[w] = run[v] => w = v
  /\ InSweep \subseteq Jobs
  /\ InHand \cap Ids(queue) = {} /\ InHand \cap InSweep = {} /\ InSweep \cap Ids(queue) = {}
  /\ \A j \in Ids(queue) \cup InHand \cup InSweep : status[j] # "absent"
  /\ \A w \in Workers : pc[w] = "decided" => next[w] # "none"

\* A job that waits or runs is in the hand of who must go on with it.
CaredFor(j) ==
  /\ status[j] = "queued" =>
       \/ j \in Ids(queue) \/ j \in InSweep
       \/ \E w \in Workers : pc[w] = "popped" /\ run[w] = j
  /\ status[j] = "processing" => \E w \in Workers : pc[w] \in Busy \ {"popped"} /\ run[w] = j

\* An abort handle belongs to the run in progress, which has registered it.
HandleOf(j) ==
  abort[j] # NoRun =>
    /\ status[j] = "processing" /\ run[abort[j]] = j
    /\ pc[abort[j]] \in {"running", "ended", "decided"}

\* A channel is its client's.
Registered ==
  /\ \A j \in Jobs : \A c \in channels[j] : topic[c] = j /\ listener[c] # "none"
  /\ \A c \in Listeners : listener[c] = "open" => topic[c] \in Jobs

\* The sweep runs after the token, and what is queued after it is late.
SweepInOrder == /\ sweeper # "none" => shutdown
                /\ sweeper = "done" => Ids(queue) \subseteq late

Cared   == \A j \in Jobs : CaredFor(j)
Handles == \A j \in Jobs : HandleOf(j)
Heeded  == Registered /\ ListenersSeeOutcome

IInv == TypeOK /\ Holding /\ Cared /\ Handles /\ Heeded /\ SweepInOrder

-----------------------------------------------------------------------------
(* The steps, by what they do to the store.                                *)

LEMMA InitIInv == Init => IInv
<1> SUFFICES ASSUME Init PROVE IInv
  OBVIOUS
<1>1. TypeOK
  <2>1. queue \in Seq(Jobs \cup {NoJob})
    BY EmptySeq DEF Init, StoreInit
  <2>2. StoreTypeOK
    BY <2>1 DEF Init, StoreInit, StoreTypeOK, JobStatus, JobEvent
  <2>3. \A j \in Workers : pc[j] \in {"idle"} \cup Busy
    BY DEF Init
  <2> QED
    BY <2>2, <2>3 DEF Init, TypeOK, Workers
<1>2. Ids(queue) = {} /\ InHand = {} /\ InSweep = {}
  BY DEF Init, StoreInit, Ids, InHand, InSweep, Busy
<1>3. Holding
  BY <1>2 DEF Init, StoreInit, Holding, Once, Busy
<1>4. Cared /\ Handles
  BY DEF Init, StoreInit, Cared, CaredFor, Handles, HandleOf
<1>5. Heeded /\ SweepInOrder
  BY DEF Init, StoreInit, Heeded, Registered, ListenersSeeOutcome, SweepInOrder
<1> QED
  BY <1>1, <1>3, <1>4, <1>5 DEF IInv

\* Eviction removes finished jobs only.
LEMMA Evicted ==
  ASSUME TypeOK, NEW E \in SUBSET Evictable
  PROVE  /\ E \in SUBSET Jobs /\ \A j \in E : status[j] \in Terminal
         /\ StatusWithout(E) \in [Jobs -> JobStatus]
         /\ \A j \in Jobs : StatusWithout(E)[j] = IF j \in E THEN "evicted" ELSE status[j]
         /\ Retain(queue, E) \in Seq(Entry)
         /\ Ids(Retain(queue, E)) = Ids(queue) \ E
         /\ Once(queue) => Once(Retain(queue, E))
<1>1. E \in SUBSET Jobs /\ \A j \in E : status[j] \in Terminal
  BY DEF Evictable
<1>2. /\ StatusWithout(E) \in [Jobs -> JobStatus]
      /\ \A j \in Jobs : StatusWithout(E)[j] = IF j \in E THEN "evicted" ELSE status[j]
  BY DEF StatusWithout, TypeOK, StoreTypeOK, JobStatus
<1>3. queue \in Seq(Entry)
  BY DEF TypeOK, StoreTypeOK, Entry
<1> QED
  BY <1>1, <1>2, <1>3, RetainIds

\* next_queued takes a Queued job out of the queue and drops none but jobs that
\* are not Queued.
LEMMA Popped ==
  ASSUME TypeOK, Once(queue), NEW E \in SUBSET Evictable, NEW j \in Jobs, NextQueued(j, E)
  PROVE  /\ queue' \in Seq(Entry) /\ Once(queue')
         /\ j \in Ids(queue) /\ status[j] = "queued"
         /\ Ids(queue') \subseteq Ids(queue) \ {j}
         /\ \A i \in Ids(queue) \ Ids(queue') : i = j \/ status[i] # "queued"
<1>1. PICK n \in DOMAIN queue : /\ IsNext(n) /\ queue[n] = j
                                /\ queue' = Retain(SubSeq(queue, n + 1, Len(queue)), E)
  BY DEF NextQueued
<1> DEFINE r == SubSeq(queue, n + 1, Len(queue))
<1>2. /\ queue \in Seq(Entry) /\ Len(queue) \in Nat /\ DOMAIN queue = 1..Len(queue)
      /\ j # NoJob
  BY JobStoreAssumption DEF TypeOK, StoreTypeOK, Entry
<1>3. j \in Ids(queue) /\ status[j] = "queued"
  BY <1>1, <1>2 DEF Ids, IsNext
<1>4. /\ r \in Seq(Entry) /\ Ids(r) \subseteq Ids(queue) \ {j} /\ Once(r)
      /\ \A i \in Ids(queue) \ Ids(r) : \E m \in 1..n : queue[m] = i
  BY <1>1, <1>2, CutIds
<1>5. E \in SUBSET Jobs /\ \A i \in E : status[i] \in Terminal
  BY Evicted
<1>6. /\ queue' \in Seq(Entry) /\ Once(queue')
      /\ Ids(queue') = Ids(r) \ E
  BY <1>1, <1>4, <1>5, RetainIds
<1>7. ASSUME NEW i \in Ids(queue) \ Ids(queue')
      PROVE  i = j \/ status[i] # "queued"
  <2>1. CASE i \in E
    BY <1>5, <2>1 DEF Terminal
  <2>2. CASE i \in Ids(queue) \ Ids(r)
    <3>1. PICK m \in 1..n : queue[m] = i
      BY <1>4, <2>2
    <3>2. i # NoJob /\ (m = n \/ m \in 1..(n - 1))
      BY <1>2, <3>1 DEF Ids
    <3> QED
      BY <1>1, <3>1, <3>2 DEF IsNext
  <2> QED
    BY <1>6, <2>1, <2>2
<1> QED
  BY <1>3, <1>4, <1>6, <1>7

\* A pop that finds nothing leaves no live entry, and no job in the queue was
\* still Queued (next_queued).
LEMMA PoppedNone ==
  ASSUME TypeOK, NEW E \in SUBSET Evictable, NextQueuedNone(E)
  PROVE  /\ queue' \in Seq(Entry) /\ Once(queue') /\ Ids(queue') = {}
         /\ \A i \in Ids(queue) : status[i] # "queued"
<1>1. queue' \in Seq(Entry) /\ Once(queue') /\ Ids(queue') = {}
  BY DEF NextQueuedNone, Once, Ids
<1>2. ASSUME NEW i \in Ids(queue), status[i] = "queued"
      PROVE  FALSE
  <2> DEFINE waiting == {k \in DOMAIN queue : queue[k] # NoJob /\ status[queue[k]] = "queued"}
  <2>1. waiting \in SUBSET Nat /\ waiting # {}
    BY <1>2 DEF Ids, TypeOK, StoreTypeOK
  <2>2. PICK k \in waiting : \A m \in waiting : k <= m
    BY <2>1, FirstOf
  <2>3. \A m \in 1..(k - 1) : m \in DOMAIN queue /\ m \notin waiting
    BY <2>1, <2>2 DEF TypeOK, StoreTypeOK
  <2>4. IsNext(k)
    BY <2>2, <2>3 DEF IsNext
  <2> QED
    BY <2>2, <2>4 DEF NextQueuedNone
<1> QED
  BY <1>1, <1>2

-----------------------------------------------------------------------------
(* Types.                                                                  *)

LEMMA TransitionTypes ==
  ASSUME TypeOK, NEW j \in Jobs, NEW to \in {"processing", "done", "failed", "queued", "cancelled"},
         Transition(j, to)
  PROVE  StoreTypeOK'
<1>1. queue' \in Seq(Jobs \cup {NoJob})
  BY AppendIds DEF Transition, TypeOK, StoreTypeOK, Entry
<1>2. /\ status' \in [Jobs -> JobStatus] /\ attempts' \in [Jobs -> Nat]
      /\ body' \in [Jobs -> Nat] /\ abort' \in [Jobs -> Runs \cup {NoRun}]
  BY DEF Transition, TypeOK, StoreTypeOK, JobStatus, Resident, Terminal
<1>3. flag' \in [Runs -> BOOLEAN]
  BY DEF Transition
<1>4. channels' \in [Jobs -> SUBSET Listeners] /\ inbox' \in [Listeners -> JobEvent]
  BY DEF Transition, Publish, TypeOK, StoreTypeOK, JobEvent, Terminal
<1> QED
  BY <1>1, <1>2, <1>3, <1>4 DEF Transition, TypeOK, StoreTypeOK

\* What is not in the store.
LocalTypes ==
  /\ pc       \in [Workers -> {"idle", "poll", "stopped"} \cup Busy]
  /\ run      \in [Workers -> Jobs \cup {NoJob}]
  /\ verdict  \in [Workers -> {"none", "panic", "error", "aborted"}]
  /\ next     \in [Workers -> {"none", "done", "failed", "queued"}]
  /\ shutdown \in BOOLEAN
  /\ sweeper  \in {"none", "pop", "cancel", "done"}
  /\ swept    \in Jobs \cup {NoJob}
  /\ late     \subseteq Jobs

\* The handlers keep the types.
LEMMA HandlerTypes ==
  ASSUME TypeOK, Holding,
         \/ \E j \in Jobs : Submit(j) \/ CancelJob(j)
         \/ SubmitAdvisory
         \/ \E c \in Listeners : \E j \in Jobs : Listen(c, j)
         \/ \E c \in Listeners : ListenerLeaves(c)
  PROVE  TypeOK'
<1>1. StoreTypeOK /\ LocalTypes /\ queue \in Seq(Entry)
  BY DEF TypeOK, StoreTypeOK, LocalTypes, Entry
<1>2. LocalTypes'
  BY <1>1 DEF LocalTypes, Submit, CancelJob, SubmitAdvisory, Listen, ListenerLeaves, workerVars, shutdownVars,
                   NoteLate
<1>3. ASSUME NEW j \in Jobs, Submit(j)
      PROVE  StoreTypeOK'
  <2>1. PICK E \in SUBSET Evictable : Create(j, E)
    BY <1>3 DEF Submit
  <2>2. StatusWithout(E) \in [Jobs -> JobStatus] /\ Retain(queue, E) \in Seq(Entry)
    BY Evicted
  <2>3. /\ Append(Retain(queue, E), j) \in Seq(Entry)
        /\ [StatusWithout(E) EXCEPT ![j] = "queued"] \in [Jobs -> JobStatus]
    BY <2>2, AppendIds DEF JobStatus, Resident
  <2>4. [body EXCEPT ![j] = BodyLen[j]] \in [Jobs -> Nat]
    BY <1>1, JobStoreAssumption DEF StoreTypeOK
  <2>5. status' \in [Jobs -> JobStatus] /\ queue' \in Seq(Entry) /\ body' \in [Jobs -> Nat]
    BY <1>1, <2>1, <2>2, <2>3, <2>4 DEF Create, StoreTypeOK
  <2> QED
    BY <1>1, <2>1, <2>5 DEF Create, StoreTypeOK, Entry
<1>4. ASSUME NEW j \in Jobs, CancelJob(j)
      PROVE  StoreTypeOK'
  BY <1>4, TransitionTypes DEF CancelJob
<1>5. ASSUME SubmitAdvisory
      PROVE  StoreTypeOK'
  <2>1. PICK E \in SUBSET Evictable : IsFull(E)
    BY <1>5 DEF SubmitAdvisory
  <2>2. StatusWithout(E) \in [Jobs -> JobStatus] /\ Retain(queue, E) \in Seq(Entry)
    BY Evicted
  <2> QED
    BY <1>1, <2>1, <2>2 DEF IsFull, StoreTypeOK, Entry
<1>6. ASSUME NEW c \in Listeners, NEW j \in Jobs, Listen(c, j)
      PROVE  StoreTypeOK'
  <2>1. Subscribe(c, j)
    BY <1>6 DEF Listen
  <2> DEFINE reading == {d \in channels[j] : listener[d] = "open"}
  <2>2. reading \in SUBSET Listeners
    BY <1>1 DEF StoreTypeOK
  <2>3. /\ topic' = [topic EXCEPT ![c] = j]
        /\ \/ /\ inbox' = [inbox EXCEPT ![c] = status[j]] /\ status[j] \in Terminal
              /\ listener' = [listener EXCEPT ![c] = "open"] /\ channels' = channels
           \/ /\ channels' = [channels EXCEPT ![j] = reading \cup {c}]
              /\ listener' = [listener EXCEPT ![c] = "open"] /\ inbox' = inbox
           \/ \E old \in reading :
                /\ channels' = [channels EXCEPT ![j] = (reading \ {old}) \cup {c}]
                /\ listener' = [listener EXCEPT ![c] = "open", ![old] = "ousted"]
                /\ inbox' = inbox
    BY <2>1 DEF Subscribe
  <2> HIDE DEF reading
  <2>4. topic' \in [Listeners -> Jobs \cup {NoJob}]
    BY <1>1, <2>3 DEF StoreTypeOK
  <2>5. inbox' \in [Listeners -> JobEvent]
    BY <1>1, <2>3 DEF StoreTypeOK, JobEvent
  <2>6. channels' \in [Jobs -> SUBSET Listeners]
    BY <1>1, <2>2, <2>3 DEF StoreTypeOK
  <2>7. listener' \in [Listeners -> {"none", "open", "closed", "ousted"}]
    BY <1>1, <2>2, <2>3 DEF StoreTypeOK
  <2> QED
    BY <1>1, <2>1, <2>4, <2>5, <2>6, <2>7 DEF Subscribe, StoreTypeOK
<1>7. ASSUME NEW c \in Listeners, ListenerLeaves(c)
      PROVE  StoreTypeOK'
  BY <1>1, <1>7 DEF ListenerLeaves, HangUp, StoreTypeOK
<1>8. StoreTypeOK'
  BY <1>3, <1>4, <1>5, <1>6, <1>7
<1> QED
  BY <1>2, <1>8 DEF TypeOK, LocalTypes

\* The workers and their runs keep the types.
LEMMA WorkerTypes ==
  ASSUME TypeOK, Holding, NEW w \in Workers, WorkerStep(w) \/ Tick(w) \/ RunEnds(w)
  PROVE  TypeOK'
<1>1. StoreTypeOK /\ LocalTypes /\ w \in Runs /\ (pc[w] \in Busy => run[w] \in Jobs)
  BY DEF TypeOK, LocalTypes, Holding, Workers
<1>2. ASSUME UNCHANGED storeVars
      PROVE  StoreTypeOK'
  BY <1>1, <1>2 DEF StoreTypeOK, storeVars
<1>3. CASE WorkerCheck(w) \/ WorkerFetch(w) \/ RunSucceeds(w) \/ WorkerDecide(w)
           \/ (\E how \in {"panic", "error"} : SetupFails(w, how) \/ RunFails(w, how))
  <2>1. StoreTypeOK'
    BY <1>2, <1>3 DEF WorkerCheck, WorkerFetch, RunSucceeds, WorkerDecide, SetupFails, RunFails
  <2>2. LocalTypes'
    BY <1>1, <1>3 DEF LocalTypes, WorkerCheck, WorkerFetch, RunSucceeds, WorkerDecide, SetupFails,
                      RunFails, LetGo, Busy, shutdownVars
  <2> QED
    BY <2>1, <2>2 DEF TypeOK, LocalTypes
<1>4. CASE WorkerNext(w)
  <2>1. PICK E \in SUBSET Evictable :
          \/ \E j \in Jobs : /\ NextQueued(j, E)
                             /\ run' = [run EXCEPT ![w] = j] /\ pc' = [pc EXCEPT ![w] = "popped"]
          \/ /\ NextQueuedNone(E)
             /\ pc' = [pc EXCEPT ![w] = "idle"] /\ UNCHANGED run
    BY <1>4 DEF WorkerNext
  <2>2. queue' \in Seq(Entry)
    BY <2>1, Popped, PoppedNone DEF Holding
  <2>3. status' \in [Jobs -> JobStatus]
    BY <2>1, Evicted DEF NextQueued, NextQueuedNone
  <2>4. StoreTypeOK'
    BY <1>1, <2>1, <2>2, <2>3 DEF NextQueued, NextQueuedNone, StoreTypeOK, Entry
  <2>5. LocalTypes'
    BY <1>1, <1>4, <2>1 DEF LocalTypes, WorkerNext, Busy, shutdownVars
  <2> QED
    BY <2>4, <2>5 DEF TypeOK, LocalTypes
<1>5. CASE WorkerStart(w)
  <2>1. StoreTypeOK'
    BY <1>1, <1>2, <1>5, TransitionTypes DEF WorkerStart, Busy
  <2>2. LocalTypes'
    BY <1>1, <1>5 DEF LocalTypes, WorkerStart, LetGo, Busy, shutdownVars
  <2> QED
    BY <2>1, <2>2 DEF TypeOK, LocalTypes
<1>6. CASE WorkerSettle(w)
  <2>1. next[w] \in {"done", "failed", "queued"} /\ run[w] \in Jobs
    BY <1>1, <1>6 DEF WorkerSettle, Holding, LocalTypes, Busy
  <2>2. StoreTypeOK'
    BY <1>2, <1>6, <2>1, TransitionTypes DEF WorkerSettle, TransitionOrNot
  <2>3. LocalTypes'
    BY <1>1, <1>6 DEF LocalTypes, WorkerSettle, LetGo, Busy, NoteLate
  <2> QED
    BY <2>2, <2>3 DEF TypeOK, LocalTypes
<1>7. CASE Register(w)
  <2>1. /\ flag' \in [Runs -> BOOLEAN] /\ abort' \in [Jobs -> Runs \cup {NoRun}]
    BY <1>1, <1>7 DEF Register, StoreTypeOK, Busy
  <2>2. StoreTypeOK'
    BY <1>1, <1>7, <2>1 DEF Register, StoreTypeOK
  <2>3. LocalTypes'
    BY <1>1, <1>7 DEF LocalTypes, Register, Busy, shutdownVars
  <2> QED
    BY <2>2, <2>3 DEF TypeOK, LocalTypes
<1>8. CASE RunAborted(w)
  <2>1. StoreTypeOK'
    BY <1>1, <1>8 DEF RunAborted, StoreTypeOK
  <2>2. LocalTypes'
    BY <1>1, <1>8 DEF LocalTypes, RunAborted, Busy, shutdownVars
  <2> QED
    BY <2>1, <2>2 DEF TypeOK, LocalTypes
<1>9. CASE Tick(w)
  <2>1. channels' \in [Jobs -> SUBSET Listeners] /\ inbox' \in [Listeners -> JobEvent]
    <3> DEFINE reading == {c \in channels[run[w]] : listener[c] = "open"}
    <3>1. run[w] \in Jobs /\ (UNCHANGED <<channels, inbox>> \/ Publish(run[w], "progress"))
      BY <1>1, <1>9 DEF Tick, BroadcastProgress, Busy
    <3>2. "progress" \in JobEvent /\ reading \in SUBSET Listeners
      BY <1>1, <3>1 DEF JobEvent, StoreTypeOK
    <3>3. \/ UNCHANGED <<channels, inbox>>
          \/ /\ inbox' = [c \in Listeners |-> IF c \in reading THEN "progress" ELSE inbox[c]]
             /\ channels' = [channels EXCEPT ![run[w]] = IF "progress" \in Terminal THEN {} ELSE reading]
      BY <3>1 DEF Publish
    <3> HIDE DEF reading
    <3>4. channels \in [Jobs -> SUBSET Listeners] /\ inbox \in [Listeners -> JobEvent]
      BY <1>1 DEF StoreTypeOK
    <3>5. channels' \in [Jobs -> SUBSET Listeners]
      BY <3>1, <3>2, <3>3, <3>4
    <3>6. inbox' \in [Listeners -> JobEvent]
      BY <3>2, <3>3, <3>4
    <3> QED
      BY <3>5, <3>6
  <2>2. StoreTypeOK'
    BY <1>1, <1>9, <2>1 DEF Tick, BroadcastProgress, StoreTypeOK
  <2>3. LocalTypes'
    BY <1>1, <1>9 DEF LocalTypes, Tick, workerVars, shutdownVars
  <2> QED
    BY <2>2, <2>3 DEF TypeOK, LocalTypes
<1> QED
  BY <1>3, <1>4, <1>5, <1>6, <1>7, <1>8, <1>9 DEF WorkerStep, RunEnds

\* Shutdown and the sweep keep the types.
LEMMA SweepTypes ==
  ASSUME TypeOK, Holding, ShutdownFires \/ SweepNext \/ SweepCancel
  PROVE  TypeOK'
<1>1. StoreTypeOK /\ LocalTypes
  BY DEF TypeOK, LocalTypes
<1>2. CASE ShutdownFires
  <2>1. StoreTypeOK'
    BY <1>1, <1>2 DEF ShutdownFires, StoreTypeOK, storeVars
  <2>2. LocalTypes'
    BY <1>1, <1>2 DEF ShutdownFires, LocalTypes, workerVars
  <2> QED
    BY <2>1, <2>2 DEF TypeOK, LocalTypes
<1>3. CASE SweepNext
  <2>1. PICK E \in SUBSET Evictable :
          \/ \E j \in Jobs : /\ NextQueued(j, E)
                             /\ swept' = j /\ sweeper' = "cancel"
          \/ NextQueuedNone(E) /\ sweeper' = "done" /\ UNCHANGED swept
    BY <1>3 DEF SweepNext
  <2>2. queue' \in Seq(Entry)
    BY <2>1, Popped, PoppedNone DEF Holding
  <2>3. status' \in [Jobs -> JobStatus]
    BY <2>1, Evicted DEF NextQueued, NextQueuedNone
  <2>4. StoreTypeOK'
    BY <1>1, <2>1, <2>2, <2>3 DEF NextQueued, NextQueuedNone, StoreTypeOK, Entry
  <2>5. LocalTypes'
    BY <1>1, <1>3, <2>1 DEF LocalTypes, SweepNext, workerVars
  <2> QED
    BY <2>4, <2>5 DEF TypeOK, LocalTypes
<1>4. CASE SweepCancel
  <2>1. swept \in Jobs
    BY <1>4 DEF SweepCancel, Holding, InSweep
  <2>2. StoreTypeOK'
    <3>1. CASE UNCHANGED storeVars
      BY <1>1, <3>1 DEF StoreTypeOK, storeVars
    <3>2. CASE Transition(swept, "cancelled")
      BY <2>1, <3>2, TransitionTypes
    <3> QED
      BY <1>4, <3>1, <3>2 DEF SweepCancel, TransitionOrNot
  <2>3. LocalTypes'
    BY <1>1, <1>4 DEF LocalTypes, SweepCancel, workerVars
  <2> QED
    BY <2>2, <2>3 DEF TypeOK, LocalTypes
<1> QED
  BY <1>2, <1>3, <1>4

\* Every step keeps the types.
LEMMA TypesStep ==
  ASSUME TypeOK, Holding, [Next]_jobsVars
  PROVE  TypeOK'
<1>1. CASE Next
  BY <1>1, HandlerTypes, WorkerTypes, SweepTypes DEF Next
<1>2. CASE UNCHANGED jobsVars
  BY <1>2 DEF jobsVars, storeVars, workerVars, shutdownVars, TypeOK, StoreTypeOK
<1> QED
  BY <1>1, <1>2

-----------------------------------------------------------------------------
(* Who holds a job.                                                        *)

\* A queue holds jobs.
LEMMA IdsAreJobs == ASSUME TypeOK PROVE Ids(queue) \subseteq Jobs
  BY DEF TypeOK, StoreTypeOK, Ids

\* Nothing is taken up: what was let go or dropped leaves the rest apart.
LEMMA HoldingFrame ==
  ASSUME TypeOK, Holding, Once(queue'), Ids(queue') \subseteq Ids(queue), InSweep' \subseteq InSweep,
         \A w \in Workers : pc'[w] \in Busy => pc[w] \in Busy /\ run'[w] = run[w],
         \A w \in Workers : pc'[w] = "decided" => next'[w] # "none",
         \A j \in Jobs : status[j] # "absent" => status'[j] # "absent"
  PROVE  Holding'
<1>1. InHand' \subseteq InHand /\ InHand \subseteq Jobs /\ Ids(queue) \subseteq Jobs
  BY IdsAreJobs DEF Holding, InHand
<1>2. \A w \in Workers : pc'[w] \in Busy => run'[w] \in Jobs
  BY DEF Holding
<1>3. \A w, v \in Workers : pc'[w] \in Busy /\ pc'[v] \in Busy /\ run'[w] = run'[v] => w = v
  BY DEF Holding
<1>4. /\ InSweep' \subseteq Jobs
      /\ InHand' \cap Ids(queue') = {} /\ InHand' \cap InSweep' = {} /\ InSweep' \cap Ids(queue') = {}
  BY <1>1 DEF Holding
<1>5. \A j \in Ids(queue') \cup InHand' \cup InSweep' : status'[j] # "absent"
  BY <1>1 DEF Holding
<1> QED
  BY <1>2, <1>3, <1>4, <1>5 DEF Holding

\* A worker takes a job that no one has.
LEMMA HoldingTaken ==
  ASSUME TypeOK, Holding, NEW w \in Workers, NEW j \in Jobs, pc[w] \notin Busy,
         Once(queue'), Ids(queue') \subseteq Ids(queue) \ {j}, UNCHANGED <<sweeper, swept, next>>,
         j \in Ids(queue),
         run' = [run EXCEPT ![w] = j], pc' = [pc EXCEPT ![w] = "popped"],
         \A i \in Jobs : status[i] # "absent" => status'[i] # "absent"
  PROVE  Holding'
<1>1. /\ run'[w] = j /\ pc'[w] = "popped"
      /\ \A v \in Workers \ {w} : run'[v] = run[v] /\ pc'[v] = pc[v]
  BY DEF TypeOK
<1>2. InHand' \subseteq InHand \cup {j} /\ InHand \subseteq Jobs /\ InSweep' = InSweep /\ Ids(queue) \subseteq Jobs
  BY <1>1, IdsAreJobs DEF InHand, InSweep, Holding
<1>3. \A v \in Workers : pc[v] \in Busy => run[v] # j
  BY DEF Holding, InHand
<1>4. \A v \in Workers : pc'[v] \in Busy => run'[v] \in Jobs
  BY <1>1 DEF Holding
<1>5. \A u, v \in Workers : pc'[u] \in Busy /\ pc'[v] \in Busy /\ run'[u] = run'[v] => u = v
  BY <1>1, <1>3 DEF Holding
<1>6. /\ InSweep' \subseteq Jobs
      /\ InHand' \cap Ids(queue') = {} /\ InHand' \cap InSweep' = {} /\ InSweep' \cap Ids(queue') = {}
  BY <1>2 DEF Holding
<1>7. \A i \in Ids(queue') \cup InHand' \cup InSweep' : status'[i] # "absent"
  BY <1>2 DEF Holding
<1>8. \A v \in Workers : pc'[v] = "decided" => next'[v] # "none"
  BY <1>1 DEF Holding
<1> QED
  BY <1>4, <1>5, <1>6, <1>7, <1>8 DEF Holding

\* The handlers put only new jobs in the queue.
LEMMA HandlerHolding ==
  ASSUME TypeOK, Holding,
         \/ \E j \in Jobs : Submit(j) \/ CancelJob(j)
         \/ SubmitAdvisory
         \/ \E c \in Listeners : \E j \in Jobs : Listen(c, j)
         \/ \E c \in Listeners : ListenerLeaves(c)
  PROVE  Holding'
<1>1. UNCHANGED <<pc, run, next, sweeper, swept>>
  BY DEF Submit, CancelJob, SubmitAdvisory, Listen, ListenerLeaves, workerVars, shutdownVars
<1>2. InHand' = InHand /\ InSweep' = InSweep /\ \A w \in Workers : pc[w] = "decided" => next[w] # "none"
  BY <1>1 DEF InHand, InSweep, Holding
<1>3. ASSUME Once(queue'), Ids(queue') \subseteq Ids(queue),
             \A j \in Jobs : status[j] # "absent" => status'[j] # "absent"
      PROVE  Holding'
  BY <1>1, <1>2, <1>3, HoldingFrame
<1>4. ASSUME NEW j \in Jobs, Submit(j)
      PROVE  Holding'
  <2>1. PICK E \in SUBSET Evictable : Create(j, E)
    BY <1>4 DEF Submit
  <2>2. /\ Once(Retain(queue, E)) /\ Ids(Retain(queue, E)) = Ids(queue) \ E
        /\ Retain(queue, E) \in Seq(Entry) /\ E \in SUBSET Jobs
        /\ \A i \in Jobs : StatusWithout(E)[i] = IF i \in E THEN "evicted" ELSE status[i]
        /\ StatusWithout(E) \in [Jobs -> JobStatus]
    BY Evicted DEF Holding
  <2>3. CASE status' = StatusWithout(E) /\ queue' = Retain(queue, E)
    BY <1>3, <2>2, <2>3
  <2>4. CASE /\ status' = [StatusWithout(E) EXCEPT ![j] = "queued"]
             /\ queue' = Append(Retain(queue, E), j)
    <3>1. status[j] = "absent" /\ j \notin Ids(queue) \cup InHand \cup InSweep
      BY <2>1 DEF Create, Holding
    <3>2. Once(queue') /\ Ids(queue') = (Ids(queue) \ E) \cup {j}
      BY <2>2, <2>4, <3>1, AppendIds
    <3>3. /\ InHand \subseteq Jobs /\ Ids(queue) \subseteq Jobs /\ InSweep \subseteq Jobs
      BY IdsAreJobs DEF InHand, Holding
    <3>4. \A i \in Jobs : status[i] # "absent" => status'[i] # "absent"
      BY <2>2, <2>4
    <3>5. status'[j] # "absent"
      BY <2>2, <2>4
    <3>6. \A i \in Ids(queue') \cup InHand' \cup InSweep' : status'[i] # "absent"
      BY <1>2, <3>2, <3>3, <3>4, <3>5 DEF Holding
    <3>7. InHand' \cap Ids(queue') = {} /\ InHand' \cap InSweep' = {} /\ InSweep' \cap Ids(queue') = {}
      BY <1>2, <3>1, <3>2 DEF Holding
    <3> QED
      BY <1>1, <1>2, <3>2, <3>6, <3>7 DEF Holding
  <2> QED
    BY <2>1, <2>3, <2>4 DEF Create
<1>5. ASSUME NEW j \in Jobs, CancelJob(j)
      PROVE  Holding'
  <2>1. queue' = queue /\ status' = [status EXCEPT ![j] = "cancelled"]
    BY <1>5 DEF CancelJob, Transition
  <2>2. \A i \in Jobs : status[i] # "absent" => status'[i] # "absent"
    BY <2>1 DEF TypeOK, StoreTypeOK
  <2>3. Once(queue') /\ Ids(queue') = Ids(queue)
    BY <2>1 DEF Holding
  <2> QED
    BY <1>3, <2>2, <2>3
<1>6. ASSUME SubmitAdvisory
      PROVE  Holding'
  <2>1. PICK E \in SUBSET Evictable : IsFull(E)
    BY <1>6 DEF SubmitAdvisory
  <2>2. /\ Once(Retain(queue, E)) /\ Ids(Retain(queue, E)) = Ids(queue) \ E
        /\ \A i \in Jobs : StatusWithout(E)[i] = IF i \in E THEN "evicted" ELSE status[i]
    BY Evicted DEF Holding
  <2>3. status' = StatusWithout(E) /\ queue' = Retain(queue, E)
    BY <2>1 DEF IsFull
  <2> QED
    BY <1>3, <2>2, <2>3
<1>7. ASSUME UNCHANGED <<status, queue>>
      PROVE  Holding'
  <2>1. Once(queue') /\ Ids(queue') = Ids(queue)
    BY <1>7 DEF Holding
  <2> QED
    BY <1>3, <1>7, <2>1
<1>8. ASSUME NEW c \in Listeners, (\E j \in Jobs : Listen(c, j)) \/ ListenerLeaves(c)
      PROVE  UNCHANGED <<status, queue>>
  BY <1>8 DEF Listen, Subscribe, ListenerLeaves, HangUp
<1> QED
  BY <1>4, <1>5, <1>6, <1>7, <1>8

\* A worker lets its job go, or passes it back to the queue (Retry).
LEMMA WorkerHolding ==
  ASSUME TypeOK, Holding, NEW w \in Workers, WorkerStep(w) \/ Tick(w) \/ RunEnds(w)
  PROVE  Holding'
<1>1. /\ pc \in [Workers -> {"idle", "poll", "stopped"} \cup Busy]
      /\ run \in [Workers -> Jobs \cup {NoJob}]
      /\ next \in [Workers -> {"none", "done", "failed", "queued"}]
      /\ status \in [Jobs -> JobStatus] /\ queue \in Seq(Entry)
      /\ (pc[w] \in Busy => run[w] \in Jobs)
      /\ Once(queue) /\ \A v \in Workers : pc[v] = "decided" => next[v] # "none"
  BY DEF TypeOK, StoreTypeOK, Holding, Entry
<1>2. ASSUME UNCHANGED <<sweeper, swept>>, Once(queue'), Ids(queue') \subseteq Ids(queue),
             \A v \in Workers \ {w} : pc'[v] = pc[v] /\ run'[v] = run[v] /\ next'[v] = next[v],
             pc'[w] \in Busy => pc[w] \in Busy /\ run'[w] = run[w],
             pc'[w] = "decided" => next'[w] # "none",
             \A j \in Jobs : status[j] # "absent" => status'[j] # "absent"
      PROVE  Holding'
  <2>1. InSweep' \subseteq InSweep
    BY <1>2 DEF InSweep
  <2>2. \A v \in Workers : pc'[v] \in Busy => pc[v] \in Busy /\ run'[v] = run[v]
    BY <1>2
  <2>3. \A v \in Workers : pc'[v] = "decided" => next'[v] # "none"
    BY <1>1, <1>2
  <2> QED
    BY <1>2, <2>1, <2>2, <2>3, HoldingFrame
<1>3. ASSUME queue' = queue
      PROVE  Once(queue') /\ Ids(queue') \subseteq Ids(queue)
  BY <1>1, <1>3
<1>4. CASE WorkerCheck(w) \/ WorkerFetch(w) \/ RunSucceeds(w) \/ WorkerDecide(w)
           \/ (\E how \in {"panic", "error"} : SetupFails(w, how) \/ RunFails(w, how))
           \/ Register(w) \/ RunAborted(w) \/ Tick(w)
  <2>1. status' = status /\ queue' = queue /\ UNCHANGED <<sweeper, swept>>
    BY <1>4 DEF WorkerCheck, WorkerFetch, RunSucceeds, WorkerDecide, SetupFails, RunFails, Register,
                RunAborted, Tick, BroadcastProgress, storeVars, shutdownVars
  <2>2. \A v \in Workers \ {w} : pc'[v] = pc[v] /\ run'[v] = run[v] /\ next'[v] = next[v]
    BY <1>1, <1>4 DEF WorkerCheck, WorkerFetch, RunSucceeds, WorkerDecide, SetupFails, RunFails, Register,
                RunAborted, Tick, LetGo, workerVars
  <2>3. pc'[w] \in Busy => pc[w] \in Busy /\ run'[w] = run[w]
    BY <1>1, <1>4 DEF WorkerCheck, WorkerFetch, RunSucceeds, WorkerDecide, SetupFails, RunFails, Register,
                RunAborted, Tick, LetGo, workerVars, Busy
  <2>4. pc'[w] = "decided" => next'[w] # "none"
    BY <1>1, <1>4 DEF WorkerCheck, WorkerFetch, RunSucceeds, WorkerDecide, SetupFails, RunFails, Register,
                RunAborted, Tick, LetGo, workerVars
  <2> QED
    BY <1>2, <1>3, <2>1, <2>2, <2>3, <2>4
<1>5. CASE WorkerNext(w)
  <2>1. PICK E \in SUBSET Evictable :
          \/ \E j \in Jobs : /\ NextQueued(j, E)
                             /\ run' = [run EXCEPT ![w] = j] /\ pc' = [pc EXCEPT ![w] = "popped"]
          \/ /\ NextQueuedNone(E)
             /\ pc' = [pc EXCEPT ![w] = "idle"] /\ UNCHANGED run
    BY <1>5 DEF WorkerNext
  <2>2. UNCHANGED <<next, sweeper, swept>> /\ pc[w] \notin Busy
    BY <1>5 DEF WorkerNext, shutdownVars, Busy
  <2>3. \A j \in Jobs : status[j] # "absent" => status'[j] # "absent"
    BY <2>1, Evicted DEF NextQueued, NextQueuedNone
  <2>4. CASE NextQueuedNone(E) /\ pc' = [pc EXCEPT ![w] = "idle"] /\ UNCHANGED run
    <3>1. Once(queue') /\ Ids(queue') = {}
      BY <2>4, PoppedNone
    <3>2. pc'[w] = "idle" /\ \A v \in Workers \ {w} : pc'[v] = pc[v]
      BY <1>1, <2>4
    <3>3. "idle" \notin Busy
      BY DEF Busy
    <3> QED
      BY <1>2, <2>2, <2>3, <2>4, <3>1, <3>2, <3>3
  <2>5. CASE \E j \in Jobs : /\ NextQueued(j, E)
                             /\ run' = [run EXCEPT ![w] = j] /\ pc' = [pc EXCEPT ![w] = "popped"]
    <3>1. PICK j \in Jobs : /\ NextQueued(j, E)
                            /\ run' = [run EXCEPT ![w] = j] /\ pc' = [pc EXCEPT ![w] = "popped"]
      BY <2>5
    <3>2. Once(queue') /\ j \in Ids(queue) /\ Ids(queue') \subseteq Ids(queue) \ {j}
      BY <1>1, <3>1, Popped
    <3> QED
      BY <2>2, <2>3, <3>1, <3>2, HoldingTaken
  <2> QED
    BY <2>1, <2>4, <2>5
<1>6. ASSUME LetGo(w)
      PROVE  /\ \A v \in Workers \ {w} : pc'[v] = pc[v] /\ run'[v] = run[v] /\ next'[v] = next[v]
             /\ pc'[w] = "idle" /\ pc'[w] \notin Busy
  BY <1>1, <1>6 DEF LetGo, Busy
<1>7. CASE WorkerStart(w)
  <2>1. run[w] \in Jobs /\ UNCHANGED <<sweeper, swept>> /\ pc[w] \in Busy
    BY <1>1, <1>7 DEF WorkerStart, Busy, shutdownVars
  <2>2. CASE /\ Transition(run[w], "processing")
             /\ pc' = [pc EXCEPT ![w] = "claimed"] /\ UNCHANGED <<run, verdict, next>>
    <3>1. status' = [status EXCEPT ![run[w]] = "processing"] /\ queue' = queue
      BY <2>2 DEF Transition
    <3>2. \A j \in Jobs : status[j] # "absent" => status'[j] # "absent"
      BY <1>1, <3>1
    <3>3. /\ pc'[w] = "claimed" /\ run'[w] = run[w]
          /\ \A v \in Workers \ {w} : pc'[v] = pc[v] /\ run'[v] = run[v] /\ next'[v] = next[v]
      BY <1>1, <2>2
    <3> QED
      BY <1>2, <1>3, <2>1, <3>1, <3>2, <3>3
  <2>3. CASE UNCHANGED storeVars /\ LetGo(w)
    <3>1. status' = status /\ queue' = queue
      BY <2>3 DEF storeVars
    <3> QED
      BY <1>2, <1>3, <1>6, <2>1, <2>3, <3>1
  <2> QED
    BY <1>7, <2>2, <2>3 DEF WorkerStart
<1>8. CASE WorkerSettle(w)
  <2>1. run[w] \in Jobs /\ UNCHANGED <<sweeper, swept>> /\ pc[w] \in Busy /\ LetGo(w)
    BY <1>1, <1>8 DEF WorkerSettle, Busy, shutdownVars
  <2>2. CASE UNCHANGED storeVars
    <3>1. status' = status /\ queue' = queue
      BY <2>2 DEF storeVars
    <3> QED
      BY <1>2, <1>3, <1>6, <2>1, <3>1
  <2>3. CASE Transition(run[w], next[w])
    <3>1. /\ status' = [status EXCEPT ![run[w]] = next[w]] /\ next[w] \in {"done", "failed", "queued"}
          /\ queue' = IF next[w] = "queued" THEN Append(queue, run[w]) ELSE queue
      BY <1>1, <1>8, <2>3 DEF Transition, WorkerSettle
    <3>2. \A j \in Jobs : status[j] # "absent" => status'[j] # "absent"
      BY <1>1, <3>1
    <3>3. CASE queue' = queue
      BY <1>2, <1>3, <1>6, <2>1, <3>2, <3>3
    <3>4. CASE queue' = Append(queue, run[w])
      <4>1. run[w] \in InHand /\ run[w] \notin Ids(queue) /\ run[w] \notin InSweep
        BY <2>1 DEF InHand, Holding
      <4>2. Once(queue') /\ Ids(queue') = Ids(queue) \cup {run[w]}
        BY <1>1, <2>1, <3>4, <4>1, AppendIds
      <4>3. InHand' \subseteq InHand \ {run[w]} /\ InSweep' = InSweep
        BY <1>6, <2>1 DEF InHand, InSweep, Holding
      <4>4. InHand \subseteq Jobs /\ Ids(queue) \subseteq Jobs
        BY IdsAreJobs DEF InHand, Holding
      <4>5. \A i \in Ids(queue') \cup InHand' \cup InSweep' : status'[i] # "absent"
        BY <2>1, <3>2, <4>1, <4>2, <4>3, <4>4 DEF Holding
      <4>6. InHand' \cap Ids(queue') = {} /\ InHand' \cap InSweep' = {} /\ InSweep' \cap Ids(queue') = {}
        BY <4>1, <4>2, <4>3 DEF Holding
      <4>7. /\ \A v \in Workers : pc'[v] \in Busy => run'[v] \in Jobs
            /\ \A u, v \in Workers : pc'[u] \in Busy /\ pc'[v] \in Busy /\ run'[u] = run'[v] => u = v
            /\ \A v \in Workers : pc'[v] = "decided" => next'[v] # "none"
        BY <1>6, <2>1 DEF Holding
      <4>8. InSweep' \subseteq Jobs
        BY <4>3 DEF Holding
      <4> QED
        BY <4>2, <4>5, <4>6, <4>7, <4>8 DEF Holding
    <3> QED
      BY <3>1, <3>3, <3>4
  <2> QED
    BY <1>8, <2>2, <2>3 DEF WorkerSettle, TransitionOrNot
<1> QED
  BY <1>4, <1>5, <1>7, <1>8 DEF WorkerStep, RunEnds

\* The sweep takes one job at a time.
LEMMA SweepHolding ==
  ASSUME TypeOK, Holding, ShutdownFires \/ SweepNext \/ SweepCancel
  PROVE  Holding'
<1>1. UNCHANGED <<pc, run, next>> /\ status \in [Jobs -> JobStatus]
  BY DEF ShutdownFires, SweepNext, SweepCancel, workerVars, TypeOK, StoreTypeOK
<1>2. InHand' = InHand /\ \A w \in Workers : pc[w] = "decided" => next[w] # "none"
  BY <1>1 DEF InHand, Holding
<1>3. ASSUME Once(queue'), Ids(queue') \subseteq Ids(queue), InSweep' \subseteq InSweep,
             \A j \in Jobs : status[j] # "absent" => status'[j] # "absent"
      PROVE  Holding'
  BY <1>1, <1>2, <1>3, HoldingFrame
<1>4. Once(queue)
  BY DEF Holding
<1>5. CASE ShutdownFires
  <2>1. InSweep' = {} /\ queue' = queue /\ status' = status
    BY <1>5 DEF ShutdownFires, InSweep, storeVars
  <2> QED
    BY <1>3, <1>4, <2>1
<1>6. CASE SweepCancel
  <2>1. InSweep' = {} /\ swept \in Jobs
    BY <1>6 DEF SweepCancel, InSweep, Holding
  <2>2. CASE UNCHANGED storeVars
    BY <1>3, <1>4, <2>1, <2>2 DEF storeVars
  <2>3. CASE Transition(swept, "cancelled")
    <3>1. queue' = queue /\ status' = [status EXCEPT ![swept] = "cancelled"]
      BY <2>3 DEF Transition
    <3> QED
      BY <1>1, <1>3, <1>4, <2>1, <3>1
  <2> QED
    BY <1>6, <2>2, <2>3 DEF SweepCancel, TransitionOrNot
<1>7. CASE SweepNext
  <2>1. PICK E \in SUBSET Evictable :
          \/ \E j \in Jobs : /\ NextQueued(j, E)
                             /\ swept' = j /\ sweeper' = "cancel"
          \/ NextQueuedNone(E) /\ sweeper' = "done" /\ UNCHANGED swept
    BY <1>7 DEF SweepNext
  <2>2. \A j \in Jobs : status[j] # "absent" => status'[j] # "absent"
    BY <2>1, Evicted DEF NextQueued, NextQueuedNone
  <2>3. CASE NextQueuedNone(E) /\ sweeper' = "done"
    <3>1. Once(queue') /\ Ids(queue') = {} /\ InSweep' = {}
      BY <2>3, PoppedNone DEF InSweep
    <3> QED
      BY <1>3, <2>2, <3>1
  <2>4. ASSUME NEW j \in Jobs, NextQueued(j, E), swept' = j, sweeper' = "cancel"
        PROVE  Holding'
    <3>1. Once(queue') /\ j \in Ids(queue) /\ Ids(queue') \subseteq Ids(queue) \ {j}
      BY <1>4, <2>4, Popped
    <3>2. InSweep' = {j} /\ InHand \subseteq Jobs /\ Ids(queue) \subseteq Jobs
      BY <2>4, IdsAreJobs DEF InSweep, InHand, Holding
    <3>3. InHand' \cap Ids(queue') = {} /\ InHand' \cap InSweep' = {} /\ InSweep' \cap Ids(queue') = {}
      BY <1>2, <3>1, <3>2 DEF Holding
    <3>4. \A i \in Ids(queue') \cup InHand' \cup InSweep' : status'[i] # "absent"
      BY <1>2, <2>2, <3>1, <3>2 DEF Holding
    <3> QED
      BY <1>1, <1>2, <3>1, <3>2, <3>3, <3>4 DEF Holding
  <2> QED
    BY <2>1, <2>3, <2>4
<1> QED
  BY <1>5, <1>6, <1>7

\* Every step keeps each job in one hand.
LEMMA HoldingStep ==
  ASSUME TypeOK, Holding, [Next]_jobsVars
  PROVE  Holding'
<1>1. CASE Next
  BY <1>1, HandlerHolding, WorkerHolding, SweepHolding DEF Next
<1>2. CASE UNCHANGED jobsVars
  <2>1. UNCHANGED <<queue, status, pc, run, next, sweeper, swept>>
    BY <1>2 DEF jobsVars, storeVars, workerVars, shutdownVars
  <2> QED
    BY <2>1 DEF Holding, InHand, InSweep
<1> QED
  BY <1>1, <1>2

-----------------------------------------------------------------------------
(* Nobody drops a job that waits or runs.                                  *)

\* It stays where it was, and so does its status, or it has ended.
LEMMA CaredFrame ==
  ASSUME NEW j \in Jobs, CaredFor(j),
         status'[j] \in {"queued", "processing"} => status'[j] = status[j],
         status[j] = "queued" /\ j \in Ids(queue) => j \in Ids(queue'),
         status'[j] = "queued" /\ j \in InSweep => j \in InSweep',
         \A w \in Workers : pc[w] \in Busy /\ run[w] = j /\ (pc[w] = "popped" <=> status'[j] = "queued") =>
                              pc'[w] \in Busy /\ run'[w] = j /\ (pc'[w] = "popped" <=> pc[w] = "popped")
  PROVE  CaredFor(j)'
<1>1. CASE status'[j] = "queued"
  BY <1>1 DEF CaredFor, Busy
<1>2. CASE status'[j] = "processing"
  <2>1. PICK w \in Workers : pc[w] \in Busy \ {"popped"} /\ run[w] = j
    BY <1>2 DEF CaredFor
  <2>2. pc'[w] \in Busy \ {"popped"} /\ run'[w] = j
    BY <1>2, <2>1
  <2> QED
    BY <1>2, <2>2 DEF CaredFor
<1> QED
  BY <1>1, <1>2 DEF CaredFor

\* What a transition does to the statuses and the queue.
LEMMA TransitionMoves ==
  ASSUME TypeOK, NEW j \in Jobs, NEW to \in {"processing", "done", "failed", "queued", "cancelled"},
         Transition(j, to)
  PROVE  /\ status[j] \in {"queued", "processing"} /\ status'[j] = to
         /\ to = "queued" => status[j] = "processing"
         /\ to \in {"done", "failed"} => status[j] = "processing"
         /\ \A i \in Jobs \ {j} : status'[i] = status[i] /\ abort'[i] = abort[i]
         /\ Ids(queue) \subseteq Ids(queue')
         /\ to = "queued" => j \in Ids(queue')
<1>1. /\ status[j] \in {"queued", "processing"}
      /\ to \in {"queued", "done", "failed"} => status[j] = "processing"
  BY DEF Transition, Allowed
<1>2. status'[j] = to /\ \A i \in Jobs \ {j} : status'[i] = status[i] /\ abort'[i] = abort[i]
  BY DEF Transition, TypeOK, StoreTypeOK
<1>3. queue \in Seq(Entry)
  BY DEF TypeOK, StoreTypeOK, Entry
<1>4. CASE to = "queued"
  <2>1. queue' = Append(queue, j)
    BY <1>4 DEF Transition
  <2> QED
    BY <1>1, <1>2, <1>3, <1>4, <2>1, AppendIds
<1>5. CASE to # "queued"
  <2>1. queue' = queue
    BY <1>5 DEF Transition
  <2> QED
    BY <1>1, <1>2, <1>5, <2>1
<1> QED
  BY <1>4, <1>5

\* No handler loses a job: a submit queues it, a cancel settles it.
LEMMA HandlerCared ==
  ASSUME TypeOK, Holding, Cared,
         \/ \E j \in Jobs : Submit(j) \/ CancelJob(j)
         \/ SubmitAdvisory
         \/ \E c \in Listeners : \E j \in Jobs : Listen(c, j)
         \/ \E c \in Listeners : ListenerLeaves(c)
  PROVE  Cared'
<1>1. UNCHANGED <<pc, run, sweeper, swept>>
  BY DEF Submit, CancelJob, SubmitAdvisory, Listen, ListenerLeaves, workerVars, shutdownVars
<1>2. InSweep' = InSweep
  BY <1>1 DEF InSweep
<1>3. ASSUME NEW j \in Jobs,
             status'[j] \in {"queued", "processing"} => status'[j] = status[j],
             status[j] = "queued" /\ j \in Ids(queue) => j \in Ids(queue')
      PROVE  CaredFor(j)'
  BY <1>1, <1>2, <1>3, CaredFrame DEF Cared
<1>4. ASSUME NEW i \in Jobs, Submit(i), NEW j \in Jobs
      PROVE  CaredFor(j)'
  <2>1. PICK E \in SUBSET Evictable : Create(i, E)
    BY <1>4 DEF Submit
  <2>2. /\ Ids(Retain(queue, E)) = Ids(queue) \ E /\ Retain(queue, E) \in Seq(Entry)
        /\ StatusWithout(E) \in [Jobs -> JobStatus]
        /\ StatusWithout(E)[j] = IF j \in E THEN "evicted" ELSE status[j]
        /\ j \in E => status[j] \in Terminal
    BY Evicted
  <2>3. CASE status' = StatusWithout(E) /\ queue' = Retain(queue, E)
    BY <1>3, <2>2, <2>3 DEF Terminal
  <2>4. CASE /\ status' = [StatusWithout(E) EXCEPT ![i] = "queued"]
             /\ queue' = Append(Retain(queue, E), i)
    <3>1. Ids(queue') = (Ids(queue) \ E) \cup {i}
      BY <2>2, <2>4, AppendIds
    <3>2. CASE j = i
      <4>1. status'[j] = "queued" /\ j \in Ids(queue')
        BY <2>2, <2>4, <3>1, <3>2
      <4> QED
        BY <4>1 DEF CaredFor
    <3>3. CASE j # i
      BY <1>3, <2>2, <2>4, <3>1, <3>3 DEF Terminal
    <3> QED
      BY <3>2, <3>3
  <2> QED
    BY <2>1, <2>3, <2>4 DEF Create
<1>5. ASSUME NEW i \in Jobs, CancelJob(i), NEW j \in Jobs
      PROVE  CaredFor(j)'
  <2>1. Transition(i, "cancelled")
    BY <1>5 DEF CancelJob
  <2> QED
    BY <1>3, <2>1, TransitionMoves
<1>6. ASSUME SubmitAdvisory, NEW j \in Jobs
      PROVE  CaredFor(j)'
  <2>1. PICK E \in SUBSET Evictable : IsFull(E)
    BY <1>6 DEF SubmitAdvisory
  <2>2. /\ Ids(Retain(queue, E)) = Ids(queue) \ E
        /\ StatusWithout(E)[j] = IF j \in E THEN "evicted" ELSE status[j]
        /\ j \in E => status[j] \in Terminal
    BY Evicted
  <2>3. status' = StatusWithout(E) /\ queue' = Retain(queue, E)
    BY <2>1 DEF IsFull
  <2> QED
    BY <1>3, <2>2, <2>3 DEF Terminal
<1>7. ASSUME NEW c \in Listeners, (\E j \in Jobs : Listen(c, j)) \/ ListenerLeaves(c), NEW j \in Jobs
      PROVE  CaredFor(j)'
  <2>1. UNCHANGED <<status, queue>>
    BY <1>7 DEF Listen, Subscribe, ListenerLeaves, HangUp
  <2> QED
    BY <1>3, <2>1
<1>8. ASSUME NEW j \in Jobs PROVE CaredFor(j)'
  BY <1>4, <1>5, <1>6, <1>7
<1> QED
  BY <1>8 DEF Cared

\* A worker that pops a job keeps it in hand until it is settled or queued again.
LEMMA WorkerCared ==
  ASSUME TypeOK, Holding, Cared, NEW w \in Workers, WorkerStep(w) \/ Tick(w) \/ RunEnds(w)
  PROVE  Cared'
<1>1. /\ pc \in [Workers -> {"idle", "poll", "stopped"} \cup Busy]
      /\ run \in [Workers -> Jobs \cup {NoJob}]
      /\ next \in [Workers -> {"none", "done", "failed", "queued"}]
      /\ (pc[w] \in Busy => run[w] \in Jobs)
      /\ pc[w] = "decided" => next[w] # "none"
      /\ \A j \in Jobs : CaredFor(j)
  BY DEF TypeOK, Holding, Cared
<1>2. UNCHANGED <<sweeper, swept>> /\ InSweep' = InSweep
  BY DEF WorkerStep, RunEnds, Tick, WorkerCheck, WorkerNext, WorkerStart, WorkerFetch, Register, SetupFails,
         WorkerDecide, WorkerSettle, RunSucceeds, RunFails, RunAborted, shutdownVars, InSweep
<1>3. ASSUME NEW j \in Jobs,
             status'[j] \in {"queued", "processing"} => status'[j] = status[j],
             status[j] = "queued" /\ j \in Ids(queue) => j \in Ids(queue'),
             \A v \in Workers \ {w} : pc'[v] = pc[v] /\ run'[v] = run[v],
             pc[w] \in Busy /\ run[w] = j /\ (pc[w] = "popped" <=> status'[j] = "queued") =>
               pc'[w] \in Busy /\ run'[w] = j /\ (pc'[w] = "popped" <=> pc[w] = "popped")
      PROVE  CaredFor(j)'
  <2>1. \A v \in Workers : pc[v] \in Busy /\ run[v] = j /\ (pc[v] = "popped" <=> status'[j] = "queued") =>
                              pc'[v] \in Busy /\ run'[v] = j /\ (pc'[v] = "popped" <=> pc[v] = "popped")
    BY <1>3
  <2> QED
    BY <1>1, <1>2, <1>3, <2>1, CaredFrame
<1>4. ASSUME LetGo(w)
      PROVE  /\ \A v \in Workers \ {w} : pc'[v] = pc[v] /\ run'[v] = run[v]
             /\ pc'[w] = "idle"
  BY <1>1, <1>4 DEF LetGo
<1>5. ASSUME \/ WorkerCheck(w) \/ RunSucceeds(w) \/ WorkerDecide(w)
             \/ \E how \in {"panic", "error"} : SetupFails(w, how) \/ RunFails(w, how)
             \/ Register(w) \/ RunAborted(w) \/ Tick(w),
             NEW j \in Jobs
      PROVE  CaredFor(j)'
  <2>1. status' = status /\ queue' = queue /\ run' = run
    BY <1>5 DEF WorkerCheck, RunSucceeds, WorkerDecide, SetupFails, RunFails, Register,
                RunAborted, Tick, BroadcastProgress, storeVars, workerVars
  <2>2. \A v \in Workers \ {w} : pc'[v] = pc[v]
    BY <1>1, <1>5 DEF WorkerCheck, RunSucceeds, WorkerDecide, SetupFails, RunFails, Register,
                RunAborted, Tick, workerVars
  <2>3. pc[w] \in Busy => pc'[w] \in Busy /\ (pc'[w] = "popped" <=> pc[w] = "popped")
    BY <1>1, <1>5 DEF WorkerCheck, RunSucceeds, WorkerDecide, SetupFails, RunFails, Register,
                RunAborted, Tick, workerVars, Busy
  <2> QED
    BY <1>3, <2>1, <2>2, <2>3
<1>6. ASSUME WorkerFetch(w), NEW j \in Jobs
      PROVE  CaredFor(j)'
  <2>1. status' = status /\ queue' = queue /\ pc[w] = "claimed"
    BY <1>6 DEF WorkerFetch, storeVars
  <2>2. CASE pc' = [pc EXCEPT ![w] = "setup"] /\ UNCHANGED run
    <3>1. pc'[w] = "setup" /\ \A v \in Workers \ {w} : pc'[v] = pc[v]
      BY <1>1, <2>2
    <3>2. "setup" \in Busy
      BY DEF Busy
    <3> QED
      BY <1>3, <2>1, <2>2, <3>1, <3>2
  <2>3. CASE status[run[w]] # "processing" /\ LetGo(w)
    <3>1. run[w] = j /\ (pc[w] = "popped" <=> status'[j] = "queued") => status'[j] \notin {"queued", "processing"}
      BY <2>1, <2>3
    <3>2. CASE status'[j] \in {"queued", "processing"}
      BY <1>3, <1>4, <2>1, <2>3, <3>1, <3>2
    <3>3. CASE status'[j] \notin {"queued", "processing"}
      BY <3>3 DEF CaredFor
    <3> QED
      BY <3>2, <3>3
  <2> QED
    BY <1>6, <2>2, <2>3 DEF WorkerFetch
<1>7. ASSUME WorkerNext(w), NEW j \in Jobs
      PROVE  CaredFor(j)'
  <2>1. PICK E \in SUBSET Evictable :
          \/ \E i \in Jobs : /\ NextQueued(i, E)
                             /\ run' = [run EXCEPT ![w] = i] /\ pc' = [pc EXCEPT ![w] = "popped"]
          \/ /\ NextQueuedNone(E)
             /\ pc' = [pc EXCEPT ![w] = "idle"] /\ UNCHANGED run
    BY <1>7 DEF WorkerNext
  <2>2. status'[j] \in {"queued", "processing"} => status'[j] = status[j]
    BY <2>1, Evicted DEF NextQueued, NextQueuedNone
  <2>3. pc[w] \notin Busy
    BY <1>7 DEF WorkerNext, Busy
  <2>4. \A v \in Workers \ {w} : pc'[v] = pc[v] /\ run'[v] = run[v]
    BY <1>1, <2>1
  <2>5. CASE NextQueuedNone(E)
    <3>1. j \in Ids(queue) => status[j] # "queued"
      BY <2>5, PoppedNone
    <3> QED
      BY <1>3, <2>2, <2>3, <2>4, <3>1
  <2>6. ASSUME NEW i \in Jobs, NextQueued(i, E),
               run' = [run EXCEPT ![w] = i], pc' = [pc EXCEPT ![w] = "popped"]
        PROVE  CaredFor(j)'
    <3>1. Once(queue)
      BY DEF Holding
    <3>2. status[i] = "queued" /\ \A m \in Ids(queue) \ Ids(queue') : m = i \/ status[m] # "queued"
      BY <2>6, <3>1, Popped
    <3>3. run'[w] = i /\ pc'[w] = "popped"
      BY <1>1, <2>6
    <3>4. CASE j = i
      <4>1. status'[j] # "processing"
        BY <2>2, <3>2, <3>4
      <4> QED
        BY <3>3, <3>4, <4>1 DEF CaredFor
    <3>5. CASE j # i
      BY <1>3, <2>2, <2>3, <2>4, <3>2, <3>5
    <3> QED
      BY <3>4, <3>5
  <2> QED
    BY <2>1, <2>5, <2>6
<1>8. ASSUME WorkerStart(w), NEW j \in Jobs
      PROVE  CaredFor(j)'
  <2>1. run[w] \in Jobs /\ pc[w] = "popped"
    BY <1>1, <1>8 DEF WorkerStart, Busy
  <2>2. CASE /\ Transition(run[w], "processing")
             /\ pc' = [pc EXCEPT ![w] = "claimed"] /\ UNCHANGED run
    <3>1. pc'[w] = "claimed" /\ "claimed" \in Busy /\ \A v \in Workers \ {w} : pc'[v] = pc[v]
      BY <1>1, <2>2 DEF Busy
    <3>2. CASE j = run[w]
      <4>1. status'[j] = "processing"
        BY <2>1, <2>2, <3>2, TransitionMoves
      <4> QED
        BY <2>1, <2>2, <3>1, <3>2, <4>1 DEF CaredFor
    <3>3. CASE j # run[w]
      <4>1. status'[j] = status[j] /\ Ids(queue) \subseteq Ids(queue')
        BY <2>1, <2>2, <3>3, TransitionMoves
      <4> QED
        BY <1>3, <2>2, <3>1, <3>3, <4>1
    <3> QED
      BY <3>2, <3>3
  <2>3. CASE ~Allowed(run[w], "processing") /\ UNCHANGED storeVars /\ LetGo(w)
    <3>1. status' = status /\ queue' = queue /\ status[run[w]] # "queued"
      BY <2>3 DEF storeVars, Allowed
    <3> QED
      BY <1>3, <1>4, <2>1, <2>3, <3>1
  <2> QED
    BY <1>8, <2>2, <2>3 DEF WorkerStart
<1>9. ASSUME WorkerSettle(w), NEW j \in Jobs
      PROVE  CaredFor(j)'
  <2>1. run[w] \in Jobs /\ pc[w] = "decided" /\ LetGo(w) /\ next[w] \in {"done", "failed", "queued"}
    BY <1>1, <1>9 DEF WorkerSettle, Busy
  <2>2. CASE Transition(run[w], next[w])
    <3>1. CASE j = run[w]
      <4>1. status'[j] \in {"done", "failed", "queued"} /\ (status'[j] = "queued" => j \in Ids(queue'))
        BY <2>1, <2>2, <3>1, TransitionMoves
      <4> QED
        BY <4>1 DEF CaredFor
    <3>2. CASE j # run[w]
      <4>1. status'[j] = status[j] /\ Ids(queue) \subseteq Ids(queue')
        BY <2>1, <2>2, <3>2, TransitionMoves
      <4> QED
        BY <1>3, <1>4, <2>1, <3>2, <4>1
    <3> QED
      BY <3>1, <3>2
  <2>3. CASE ~Allowed(run[w], next[w]) /\ UNCHANGED storeVars
    <3>1. status' = status /\ queue' = queue /\ status[run[w]] # "processing"
      BY <2>1, <2>3 DEF storeVars, Allowed
    <3>2. CASE status'[j] \in {"queued", "processing"}
      BY <1>3, <1>4, <2>1, <3>1, <3>2
    <3>3. CASE status'[j] \notin {"queued", "processing"}
      BY <3>3 DEF CaredFor
    <3> QED
      BY <3>2, <3>3
  <2> QED
    BY <1>9, <2>2, <2>3 DEF WorkerSettle, TransitionOrNot
<1>10. ASSUME NEW j \in Jobs PROVE CaredFor(j)'
  BY <1>5, <1>6, <1>7, <1>8, <1>9 DEF WorkerStep, RunEnds
<1> QED
  BY <1>10 DEF Cared

\* The sweep settles what it took from the list of queued jobs.
LEMMA SweepCared ==
  ASSUME TypeOK, Holding, Cared, SweepInOrder, ShutdownFires \/ SweepNext \/ SweepCancel
  PROVE  Cared'
<1>1. UNCHANGED <<pc, run>> /\ \A j \in Jobs : CaredFor(j)
  BY DEF ShutdownFires, SweepNext, SweepCancel, workerVars, Cared
<1>2. ASSUME NEW j \in Jobs,
             status'[j] \in {"queued", "processing"} => status'[j] = status[j],
             status[j] = "queued" /\ j \in Ids(queue) => j \in Ids(queue'),
             status'[j] = "queued" /\ j \in InSweep => j \in InSweep'
      PROVE  CaredFor(j)'
  BY <1>1, <1>2, CaredFrame
<1>3. ASSUME ShutdownFires, NEW j \in Jobs
      PROVE  CaredFor(j)'
  <2>1. InSweep = {} /\ status' = status /\ queue' = queue
    BY <1>3 DEF ShutdownFires, SweepInOrder, InSweep, storeVars
  <2> QED
    BY <1>2, <2>1
<1>4. ASSUME SweepCancel, NEW j \in Jobs
      PROVE  CaredFor(j)'
  <2>1. InSweep = {swept} /\ swept \in Jobs
    BY <1>4 DEF SweepCancel, InSweep, Holding
  <2>2. CASE Transition(swept, "cancelled")
    <3>1. /\ status'[swept] = "cancelled" /\ \A i \in Jobs \ {swept} : status'[i] = status[i]
          /\ Ids(queue) \subseteq Ids(queue')
      BY <2>1, <2>2, TransitionMoves
    <3> QED
      BY <1>2, <2>1, <3>1
  <2>3. CASE ~Allowed(swept, "cancelled") /\ UNCHANGED storeVars
    <3>1. status' = status /\ queue' = queue /\ status[swept] # "queued"
      BY <2>3 DEF Allowed, storeVars
    <3> QED
      BY <1>2, <2>1, <3>1
  <2> QED
    BY <1>4, <2>2, <2>3 DEF SweepCancel, TransitionOrNot
<1>5. ASSUME SweepNext, NEW j \in Jobs
      PROVE  CaredFor(j)'
  <2>1. PICK E \in SUBSET Evictable :
          \/ \E i \in Jobs : /\ NextQueued(i, E)
                             /\ swept' = i /\ sweeper' = "cancel"
          \/ NextQueuedNone(E) /\ sweeper' = "done" /\ UNCHANGED swept
    BY <1>5 DEF SweepNext
  <2>2. status'[j] \in {"queued", "processing"} => status'[j] = status[j]
    BY <2>1, Evicted DEF NextQueued, NextQueuedNone
  <2>3. InSweep = {}
    BY <1>5 DEF SweepNext, InSweep
  <2>4. CASE NextQueuedNone(E)
    <3>1. j \in Ids(queue) => status[j] # "queued"
      BY <2>4, PoppedNone
    <3> QED
      BY <1>2, <2>2, <2>3, <3>1
  <2>5. ASSUME NEW i \in Jobs, NextQueued(i, E), swept' = i, sweeper' = "cancel"
        PROVE  CaredFor(j)'
    <3>1. Once(queue)
      BY DEF Holding
    <3>2. status[i] = "queued" /\ \A m \in Ids(queue) \ Ids(queue') : m = i \/ status[m] # "queued"
      BY <2>5, <3>1, Popped
    <3>3. InSweep' = {i}
      BY <2>5 DEF InSweep
    <3>4. CASE j = i
      <4>1. status'[j] # "processing"
        BY <2>2, <3>2, <3>4
      <4> QED
        BY <3>3, <3>4, <4>1 DEF CaredFor
    <3>5. CASE j # i
      BY <1>2, <2>2, <2>3, <3>2, <3>5
    <3> QED
      BY <3>4, <3>5
  <2> QED
    BY <2>1, <2>4, <2>5
<1>6. ASSUME NEW j \in Jobs PROVE CaredFor(j)'
  BY <1>3, <1>4, <1>5
<1> QED
  BY <1>6 DEF Cared

-----------------------------------------------------------------------------
(* The abort handle.                                                       *)

\* A handle that is left stays the handle of the same run.
LEMMA HandleFrame ==
  ASSUME TypeOK, NEW j \in Jobs, HandleOf(j),
         abort'[j] # NoRun => abort'[j] = abort[j] /\ status'[j] = status[j],
         \A w \in Workers : run[w] = j /\ pc[w] \in {"running", "ended", "decided"}
                              /\ status'[j] = "processing" =>
                              run'[w] = j /\ pc'[w] \in {"running", "ended", "decided"}
  PROVE  HandleOf(j)'
<1>1. abort[j] # NoRun => abort[j] \in Workers
  BY DEF TypeOK, StoreTypeOK, Workers
<1> QED
  BY <1>1 DEF HandleOf

\* A job that is not being processed has no handle.
LEMMA TransitionHandles ==
  ASSUME TypeOK, Handles, NEW i \in Jobs, NEW j \in Jobs,
         NEW to \in {"processing", "done", "failed", "queued", "cancelled"}, Transition(i, to)
  PROVE  abort'[j] # NoRun => abort'[j] = abort[j] /\ status'[j] = status[j] /\ i # j
<1>1. CASE i = j
  <2>1. to = "processing" => status[i] = "queued"
    BY DEF Transition, Allowed
  <2>2. abort'[j] = IF to = "processing" THEN abort[j] ELSE NoRun
    BY <1>1 DEF Transition, TypeOK, StoreTypeOK
  <2>3. status[j] = "queued" => abort[j] = NoRun
    BY DEF Handles, HandleOf
  <2> QED
    BY <1>1, <2>1, <2>2, <2>3
<1>2. CASE i # j
  BY <1>2, TransitionMoves
<1> QED
  BY <1>1, <1>2

\* Eviction takes jobs without a handle.
LEMMA EvictedHandles ==
  ASSUME Handles, NEW E \in SUBSET Evictable, NEW j \in E
  PROVE  abort[j] = NoRun
  BY DEF Evictable, Terminal, Handles, HandleOf

\* A handler leaves abort handles alone or removes them with the outcome.
LEMMA HandlerHandles ==
  ASSUME TypeOK, Handles,
         \/ \E j \in Jobs : Submit(j) \/ CancelJob(j)
         \/ SubmitAdvisory
         \/ \E c \in Listeners : \E j \in Jobs : Listen(c, j)
         \/ \E c \in Listeners : ListenerLeaves(c)
  PROVE  Handles'
<1>1. UNCHANGED <<pc, run>> /\ \A j \in Jobs : HandleOf(j)
  BY DEF Submit, CancelJob, SubmitAdvisory, Listen, ListenerLeaves, workerVars, Handles
<1>2. ASSUME NEW j \in Jobs, abort'[j] # NoRun => abort'[j] = abort[j] /\ status'[j] = status[j]
      PROVE  HandleOf(j)'
  BY <1>1, <1>2, HandleFrame
<1>3. ASSUME NEW i \in Jobs, Submit(i), NEW j \in Jobs
      PROVE  HandleOf(j)'
  <2>1. PICK E \in SUBSET Evictable : Create(i, E)
    BY <1>3 DEF Submit
  <2>2. /\ StatusWithout(E) \in [Jobs -> JobStatus]
        /\ StatusWithout(E)[j] = IF j \in E THEN "evicted" ELSE status[j]
    BY Evicted
  <2>3. abort' = abort /\ status[i] = "absent"
        /\ status' \in {StatusWithout(E), [StatusWithout(E) EXCEPT ![i] = "queued"]}
    BY <2>1 DEF Create
  <2>4. j \in E \/ j = i => abort[j] = NoRun
    BY <2>3, EvictedHandles DEF Handles, HandleOf
  <2> QED
    BY <1>2, <2>2, <2>3, <2>4
<1>4. ASSUME NEW i \in Jobs, CancelJob(i), NEW j \in Jobs
      PROVE  HandleOf(j)'
  BY <1>2, <1>4, TransitionHandles DEF CancelJob
<1>5. ASSUME SubmitAdvisory, NEW j \in Jobs
      PROVE  HandleOf(j)'
  <2>1. PICK E \in SUBSET Evictable : IsFull(E)
    BY <1>5 DEF SubmitAdvisory
  <2>2. StatusWithout(E)[j] = IF j \in E THEN "evicted" ELSE status[j]
    BY Evicted
  <2>3. abort' = abort /\ status' = StatusWithout(E)
    BY <2>1 DEF IsFull
  <2>4. j \in E => abort[j] = NoRun
    BY EvictedHandles
  <2> QED
    BY <1>2, <2>2, <2>3, <2>4
<1>6. ASSUME NEW c \in Listeners, (\E j \in Jobs : Listen(c, j)) \/ ListenerLeaves(c), NEW j \in Jobs
      PROVE  HandleOf(j)'
  <2>1. UNCHANGED <<status, abort>>
    BY <1>6 DEF Listen, Subscribe, ListenerLeaves, HangUp
  <2> QED
    BY <1>2, <2>1
<1>7. ASSUME NEW j \in Jobs PROVE HandleOf(j)'
  BY <1>3, <1>4, <1>5, <1>6
<1> QED
  BY <1>7 DEF Handles

\* A worker registers the handle of its own attempt and Retry clears it.
LEMMA WorkerHandles ==
  ASSUME TypeOK, Holding, Handles, NEW w \in Workers, WorkerStep(w) \/ Tick(w) \/ RunEnds(w)
  PROVE  Handles'
<1>1. /\ pc \in [Workers -> {"idle", "poll", "stopped"} \cup Busy]
      /\ run \in [Workers -> Jobs \cup {NoJob}]
      /\ next \in [Workers -> {"none", "done", "failed", "queued"}]
      /\ (pc[w] \in Busy => run[w] \in Jobs) /\ w \in Runs
      /\ pc[w] = "decided" => next[w] # "none"
      /\ \A j \in Jobs : HandleOf(j)
      /\ abort \in [Jobs -> Runs \cup {NoRun}]
  BY DEF TypeOK, StoreTypeOK, Holding, Handles, Workers
<1>2. ASSUME NEW j \in Jobs, abort'[j] # NoRun => abort'[j] = abort[j] /\ status'[j] = status[j],
             \A v \in Workers \ {w} : pc'[v] = pc[v] /\ run'[v] = run[v],
             run[w] = j /\ pc[w] \in {"running", "ended", "decided"} /\ status'[j] = "processing" =>
                run'[w] = j /\ pc'[w] \in {"running", "ended", "decided"}
      PROVE  HandleOf(j)'
  <2>1. \A v \in Workers : run[v] = j /\ pc[v] \in {"running", "ended", "decided"}
                              /\ status'[j] = "processing" =>
                              run'[v] = j /\ pc'[v] \in {"running", "ended", "decided"}
    BY <1>2
  <2> QED
    BY <1>1, <1>2, <2>1, HandleFrame
<1>3. ASSUME LetGo(w)
      PROVE  \A v \in Workers \ {w} : pc'[v] = pc[v] /\ run'[v] = run[v]
  BY <1>1, <1>3 DEF LetGo
<1>4. ASSUME \/ WorkerCheck(w) \/ RunSucceeds(w) \/ WorkerDecide(w)
             \/ \E how \in {"panic", "error"} : SetupFails(w, how) \/ RunFails(w, how)
             \/ RunAborted(w) \/ Tick(w),
             NEW j \in Jobs
      PROVE  HandleOf(j)'
  <2>1. status' = status /\ abort' = abort /\ run' = run
    BY <1>4 DEF WorkerCheck, RunSucceeds, WorkerDecide, SetupFails, RunFails,
                RunAborted, Tick, BroadcastProgress, storeVars, workerVars
  <2>2. \A v \in Workers \ {w} : pc'[v] = pc[v]
    BY <1>1, <1>4 DEF WorkerCheck, RunSucceeds, WorkerDecide, SetupFails, RunFails,
                RunAborted, Tick, workerVars
  <2>3. pc[w] \in {"running", "ended", "decided"} => pc'[w] \in {"running", "ended", "decided"}
    BY <1>1, <1>4 DEF WorkerCheck, RunSucceeds, WorkerDecide, SetupFails, RunFails,
                RunAborted, Tick, workerVars
  <2> QED
    BY <1>2, <2>1, <2>2, <2>3
<1>5. ASSUME WorkerFetch(w), NEW j \in Jobs
      PROVE  HandleOf(j)'
  <2>1. status' = status /\ abort' = abort /\ pc[w] = "claimed"
    BY <1>5 DEF WorkerFetch, storeVars
  <2>2. \A v \in Workers \ {w} : pc'[v] = pc[v] /\ run'[v] = run[v]
    BY <1>1, <1>3, <1>5 DEF WorkerFetch
  <2> QED
    BY <1>2, <2>1, <2>2
<1>6. ASSUME WorkerNext(w), NEW j \in Jobs
      PROVE  HandleOf(j)'
  <2>1. PICK E \in SUBSET Evictable :
          \/ \E i \in Jobs : /\ NextQueued(i, E)
                             /\ run' = [run EXCEPT ![w] = i] /\ pc' = [pc EXCEPT ![w] = "popped"]
          \/ /\ NextQueuedNone(E)
             /\ pc' = [pc EXCEPT ![w] = "idle"] /\ UNCHANGED run
    BY <1>6 DEF WorkerNext
  <2>2. /\ StatusWithout(E)[j] = IF j \in E THEN "evicted" ELSE status[j]
        /\ abort' = abort /\ status' = StatusWithout(E)
    BY <2>1, Evicted DEF NextQueued, NextQueuedNone
  <2>3. j \in E => abort[j] = NoRun
    BY EvictedHandles
  <2>4. pc[w] = "poll" /\ \A v \in Workers \ {w} : pc'[v] = pc[v] /\ run'[v] = run[v]
    BY <1>1, <1>6, <2>1 DEF WorkerNext
  <2> QED
    BY <1>2, <2>2, <2>3, <2>4
<1>7. ASSUME WorkerStart(w), NEW j \in Jobs
      PROVE  HandleOf(j)'
  <2>1. run[w] \in Jobs /\ pc[w] = "popped"
    BY <1>1, <1>7 DEF WorkerStart, Busy
  <2>2. \A v \in Workers \ {w} : pc'[v] = pc[v] /\ run'[v] = run[v]
    BY <1>1, <1>3, <1>7 DEF WorkerStart
  <2>3. abort'[j] # NoRun => abort'[j] = abort[j] /\ status'[j] = status[j]
    <3>1. CASE Transition(run[w], "processing")
      BY <2>1, <3>1, TransitionHandles
    <3>2. CASE UNCHANGED storeVars
      BY <3>2 DEF storeVars
    <3> QED
      BY <1>7, <3>1, <3>2 DEF WorkerStart
  <2> QED
    BY <1>2, <2>1, <2>2, <2>3
<1>8. ASSUME WorkerSettle(w), NEW j \in Jobs
      PROVE  HandleOf(j)'
  <2>1. run[w] \in Jobs /\ LetGo(w) /\ next[w] \in {"done", "failed", "queued"}
    BY <1>1, <1>8 DEF WorkerSettle, Busy
  <2>2. CASE Transition(run[w], next[w])
    <3>1. abort'[j] # NoRun => abort'[j] = abort[j] /\ status'[j] = status[j]
      BY <2>1, <2>2, TransitionHandles
    <3>2. status'[run[w]] # "processing"
      BY <2>1, <2>2, TransitionMoves
    <3> QED
      BY <1>2, <1>3, <2>1, <3>1, <3>2
  <2>3. CASE ~Allowed(run[w], next[w]) /\ UNCHANGED storeVars
    <3>1. status' = status /\ abort' = abort /\ status[run[w]] # "processing"
      BY <2>1, <2>3 DEF storeVars, Allowed
    <3> QED
      BY <1>2, <1>3, <2>1, <3>1
  <2> QED
    BY <1>8, <2>2, <2>3 DEF WorkerSettle, TransitionOrNot
<1>9. ASSUME Register(w), NEW j \in Jobs
      PROVE  HandleOf(j)'
  <2>1. /\ run[w] \in Jobs /\ pc[w] = "setup" /\ run' = run /\ status' = status
        /\ pc'[w] = "running" /\ \A v \in Workers \ {w} : pc'[v] = pc[v]
        /\ abort'[j] = IF j = run[w] /\ status[j] = "processing" THEN w ELSE abort[j]
    BY <1>1, <1>9 DEF Register, Busy
  <2>2. CASE j = run[w] /\ status[j] = "processing"
    BY <2>1, <2>2 DEF HandleOf
  <2>3. CASE ~(j = run[w] /\ status[j] = "processing")
    BY <1>2, <2>1, <2>3
  <2> QED
    BY <2>2, <2>3
<1>10. ASSUME NEW j \in Jobs PROVE HandleOf(j)'
  BY <1>4, <1>5, <1>6, <1>7, <1>8, <1>9 DEF WorkerStep, RunEnds
<1> QED
  BY <1>10 DEF Handles

\* The sweep gives no record a handle.
LEMMA SweepHandles ==
  ASSUME TypeOK, Holding, Handles, ShutdownFires \/ SweepNext \/ SweepCancel
  PROVE  Handles'
<1>1. UNCHANGED <<pc, run>> /\ \A j \in Jobs : HandleOf(j)
  BY DEF ShutdownFires, SweepNext, SweepCancel, workerVars, Handles
<1>2. ASSUME NEW j \in Jobs, abort'[j] # NoRun => abort'[j] = abort[j] /\ status'[j] = status[j]
      PROVE  HandleOf(j)'
  BY <1>1, <1>2, HandleFrame
<1>3. ASSUME UNCHANGED storeVars, NEW j \in Jobs
      PROVE  HandleOf(j)'
  BY <1>2, <1>3 DEF storeVars
<1>4. ASSUME SweepCancel, NEW j \in Jobs
      PROVE  HandleOf(j)'
  <2>1. swept \in Jobs
    BY <1>4 DEF SweepCancel, InSweep, Holding
  <2> QED
    BY <1>2, <1>3, <1>4, <2>1, TransitionHandles DEF SweepCancel, TransitionOrNot
<1>5. ASSUME SweepNext, NEW j \in Jobs
      PROVE  HandleOf(j)'
  <2>1. PICK E \in SUBSET Evictable : (\E i \in Jobs : NextQueued(i, E)) \/ NextQueuedNone(E)
    BY <1>5 DEF SweepNext
  <2>2. /\ StatusWithout(E)[j] = IF j \in E THEN "evicted" ELSE status[j]
        /\ abort' = abort /\ status' = StatusWithout(E)
    BY <2>1, Evicted DEF NextQueued, NextQueuedNone
  <2>3. j \in E => abort[j] = NoRun
    BY EvictedHandles
  <2> QED
    BY <1>2, <2>2, <2>3
<1>6. ASSUME NEW j \in Jobs PROVE HandleOf(j)'
  BY <1>3, <1>4, <1>5 DEF ShutdownFires
<1> QED
  BY <1>6 DEF Handles

-----------------------------------------------------------------------------
(* The listeners.                                                          *)

\* Eviction and new jobs: who read of the end has read it.
LEMMA HeededEvict ==
  ASSUME Heeded, UNCHANGED <<channels, listener, topic, inbox>>,
         \A j \in Jobs : \/ status'[j] = status[j]
                         \/ status[j] \in Terminal /\ status'[j] = "evicted"
                         \/ status[j] = "absent"
  PROVE  Heeded'
<1>1. Registered'
  BY DEF Heeded, Registered
<1>2. ASSUME NEW c \in Listeners, listener'[c] = "open"
      PROVE  LET j == topic'[c] IN
             \/ status'[j] \in {"queued", "processing"} /\ c \in channels'[j]
             \/ status'[j] \in Terminal /\ inbox'[c] = status'[j]
             \/ status'[j] = "evicted" /\ inbox'[c] \in Terminal
  <2> DEFINE j == topic[c]
  <2>1. j \in Jobs /\ \/ status[j] \in {"queued", "processing"} /\ c \in channels[j]
                      \/ status[j] \in Terminal /\ inbox[c] = status[j]
                      \/ status[j] = "evicted" /\ inbox[c] \in Terminal
    BY <1>2 DEF Heeded, Registered, ListenersSeeOutcome
  <2> QED
    BY <2>1 DEF Terminal
<1> QED
  BY <1>1, <1>2 DEF Heeded, ListenersSeeOutcome

\* An event reaches those who read, and the last one ends their wait.
LEMMA HeededPublish ==
  ASSUME TypeOK, Heeded, NEW i \in Jobs, NEW to \in JobStatus, NEW event,
         status[i] \in {"queued", "processing"}, to \in {"queued", "processing"} \cup Terminal,
         event = IF to \in Terminal THEN to ELSE "progress",
         Publish(i, event), UNCHANGED <<listener, topic>>,
         status'[i] = to, \A j \in Jobs \ {i} : status'[j] = status[j]
  PROVE  Heeded'
<1> DEFINE reading == {c \in channels[i] : listener[c] = "open"}
<1>1. /\ channels'[i] = IF event \in Terminal THEN {} ELSE reading
      /\ \A j \in Jobs \ {i} : channels'[j] = channels[j]
      /\ \A c \in Listeners : inbox'[c] = IF c \in reading THEN event ELSE inbox[c]
  BY DEF Publish, TypeOK, StoreTypeOK
<1>2. event \in Terminal <=> to \in Terminal
  BY DEF Terminal
<1>3. Registered'
  BY <1>1 DEF Heeded, Registered
<1>4. ASSUME NEW c \in Listeners, listener'[c] = "open"
      PROVE  LET j == topic'[c] IN
             \/ status'[j] \in {"queued", "processing"} /\ c \in channels'[j]
             \/ status'[j] \in Terminal /\ inbox'[c] = status'[j]
             \/ status'[j] = "evicted" /\ inbox'[c] \in Terminal
  <2> DEFINE j == topic[c]
  <2>1. j \in Jobs /\ \/ status[j] \in {"queued", "processing"} /\ c \in channels[j]
                      \/ status[j] \in Terminal /\ inbox[c] = status[j]
                      \/ status[j] = "evicted" /\ inbox[c] \in Terminal
    BY <1>4 DEF Heeded, Registered, ListenersSeeOutcome
  <2>2. CASE j = i
    <3>1. c \in reading
      BY <1>4, <2>1, <2>2 DEF Terminal
    <3> QED
      BY <1>1, <1>2, <2>2, <3>1
  <2>3. CASE j # i
    <3>1. c \notin reading
      BY <2>3 DEF Heeded, Registered
    <3> QED
      BY <1>1, <2>1, <2>3, <3>1
  <2> QED
    BY <2>2, <2>3
<1> QED
  BY <1>3, <1>4 DEF Heeded, ListenersSeeOutcome

\* A transition tells every open channel (Publish).
LEMMA HeededTransition ==
  ASSUME TypeOK, Heeded, NEW i \in Jobs,
         NEW to \in {"processing", "done", "failed", "queued", "cancelled"}, Transition(i, to)
  PROVE  Heeded'
<1>1. /\ status[i] \in {"queued", "processing"} /\ status'[i] = to
      /\ \A j \in Jobs \ {i} : status'[j] = status[j]
  BY TransitionMoves
<1>2. Publish(i, IF to \in Terminal THEN to ELSE "progress") /\ UNCHANGED <<listener, topic>>
  BY DEF Transition
<1>3. to \in JobStatus /\ to \in {"queued", "processing"} \cup Terminal
  BY DEF JobStatus, Resident, Terminal
<1> QED
  BY <1>1, <1>2, <1>3, HeededPublish

\* A client that subscribes is registered, or answered at once.
LEMMA HeededSubscribe ==
  ASSUME TypeOK, Heeded, NEW d \in Listeners, NEW i \in Jobs, Subscribe(d, i)
  PROVE  Heeded'
<1> DEFINE reading == {c \in channels[i] : listener[c] = "open"}
<1>1. /\ listener[d] = "none" /\ status' = status /\ topic' = [topic EXCEPT ![d] = i]
      /\ \/ /\ status[i] \in Terminal
            /\ inbox' = [inbox EXCEPT ![d] = status[i]]
            /\ listener' = [listener EXCEPT ![d] = "open"] /\ channels' = channels
         \/ /\ status[i] \in {"queued", "processing"} /\ inbox' = inbox
            /\ channels' = [channels EXCEPT ![i] = reading \cup {d}]
            /\ listener' = [listener EXCEPT ![d] = "open"]
         \/ /\ status[i] \in {"queued", "processing"} /\ inbox' = inbox
            /\ \E old \in reading :
                 /\ channels' = [channels EXCEPT ![i] = (reading \ {old}) \cup {d}]
                 /\ listener' = [listener EXCEPT ![d] = "open", ![old] = "ousted"]
  BY DEF Subscribe, Resident
<1>2. /\ channels \in [Jobs -> SUBSET Listeners] /\ topic \in [Listeners -> Jobs \cup {NoJob}]
      /\ listener \in [Listeners -> {"none", "open", "closed", "ousted"}]
      /\ inbox \in [Listeners -> JobEvent]
      /\ reading \subseteq channels[i] /\ \A c \in reading : c \in Listeners /\ listener[c] = "open"
      /\ \A c \in channels[i] : listener[c] = "open" => c \in reading
  BY DEF TypeOK, StoreTypeOK
<1> HIDE DEF reading
<1>3. topic'[d] = i /\ \A c \in Listeners \ {d} : topic'[c] = topic[c] /\ inbox'[c] = inbox[c]
  BY <1>1, <1>2
<1>4. /\ listener'[d] = "open"
      /\ \A c \in Listeners \ {d} : \/ listener'[c] = listener[c]
                                    \/ (listener'[c] = "ousted" /\ listener[c] = "open")
  BY <1>1, <1>2
<1>5. /\ \A j \in Jobs \ {i} : channels'[j] = channels[j]
      /\ \A c \in channels'[i] : c = d \/ c \in channels[i]
  BY <1>1, <1>2
<1>6. \A c \in Listeners \ {d} : listener'[c] = "open" /\ c \in channels[i] => c \in channels'[i]
  <2> SUFFICES ASSUME NEW c \in Listeners \ {d}, listener'[c] = "open", c \in channels[i]
               PROVE  c \in channels'[i]
    OBVIOUS
  <2>1. c \in reading
    BY <1>2, <1>4
  <2>2. CASE channels' = channels
    BY <2>2
  <2>3. CASE channels' = [channels EXCEPT ![i] = reading \cup {d}]
    BY <1>2, <2>1, <2>3
  <2>4. CASE \E old \in reading :
                 /\ channels' = [channels EXCEPT ![i] = (reading \ {old}) \cup {d}]
                 /\ listener' = [listener EXCEPT ![d] = "open", ![old] = "ousted"]
    BY <1>2, <2>1, <2>4
  <2> QED
    BY <1>1, <2>2, <2>3, <2>4
<1>7. \/ status[i] \in Terminal /\ inbox'[d] = status[i]
      \/ status[i] \in {"queued", "processing"} /\ d \in channels'[i]
  BY <1>1, <1>2
<1>8. Registered'
  <2>1. \A j \in Jobs : \A c \in channels'[j] : topic'[c] = j /\ listener'[c] # "none"
    <3> SUFFICES ASSUME NEW j \in Jobs, NEW c \in channels'[j]
                 PROVE  topic'[c] = j /\ listener'[c] # "none"
      OBVIOUS
    <3>1. (c = d /\ j = i) \/ c \in channels[j]
      BY <1>5
    <3>2. CASE c \in channels[j]
      <4>1. topic[c] = j /\ listener[c] # "none" /\ c \in Listeners /\ c # d
        BY <1>1, <1>2, <3>2 DEF Heeded, Registered
      <4> QED
        BY <1>3, <1>4, <4>1
    <3> QED
      BY <1>3, <1>4, <3>1, <3>2
  <2>2. \A c \in Listeners : listener'[c] = "open" => topic'[c] \in Jobs
    BY <1>3, <1>4 DEF Heeded, Registered
  <2> QED
    BY <2>1, <2>2 DEF Registered
<1>9. ASSUME NEW c \in Listeners, listener'[c] = "open"
      PROVE  LET j == topic'[c] IN
             \/ status'[j] \in {"queued", "processing"} /\ c \in channels'[j]
             \/ status'[j] \in Terminal /\ inbox'[c] = status'[j]
             \/ status'[j] = "evicted" /\ inbox'[c] \in Terminal
  <2>1. CASE c = d
    BY <1>1, <1>3, <1>7, <2>1
  <2>2. CASE c # d
    <3> DEFINE j == topic[c]
    <3>1. listener[c] = "open" /\ topic'[c] = j /\ inbox'[c] = inbox[c]
      BY <1>3, <1>4, <1>9, <2>2
    <3>2. j \in Jobs /\ \/ status[j] \in {"queued", "processing"} /\ c \in channels[j]
                        \/ status[j] \in Terminal /\ inbox[c] = status[j]
                        \/ status[j] = "evicted" /\ inbox[c] \in Terminal
      BY <3>1 DEF Heeded, Registered, ListenersSeeOutcome
    <3>3. c \in channels[j] => c \in channels'[j]
      BY <1>5, <1>6, <1>9, <2>2, <3>2
    <3> QED
      BY <1>1, <3>1, <3>2, <3>3
  <2> QED
    BY <2>1, <2>2
<1> QED
  BY <1>8, <1>9 DEF Heeded, ListenersSeeOutcome

\* Listeners stay informed through submits, cancels, subscriptions and leaves.
LEMMA HandlerHeeded ==
  ASSUME TypeOK, Heeded,
         \/ \E j \in Jobs : Submit(j) \/ CancelJob(j)
         \/ SubmitAdvisory
         \/ \E c \in Listeners : \E j \in Jobs : Listen(c, j)
         \/ \E c \in Listeners : ListenerLeaves(c)
  PROVE  Heeded'
<1>1. ASSUME NEW i \in Jobs, Submit(i)
      PROVE  Heeded'
  <2>1. PICK E \in SUBSET Evictable : Create(i, E)
    BY <1>1 DEF Submit
  <2>2. /\ StatusWithout(E) \in [Jobs -> JobStatus]
        /\ \A j \in Jobs : StatusWithout(E)[j] = IF j \in E THEN "evicted" ELSE status[j]
        /\ \A j \in E : status[j] \in Terminal
    BY Evicted
  <2>3. /\ status[i] = "absent" /\ UNCHANGED <<channels, listener, topic, inbox>>
        /\ status' \in {StatusWithout(E), [StatusWithout(E) EXCEPT ![i] = "queued"]}
    BY <2>1 DEF Create
  <2>4. \A j \in Jobs : \/ status'[j] = status[j]
                        \/ status[j] \in Terminal /\ status'[j] = "evicted"
                        \/ status[j] = "absent"
    BY <2>2, <2>3
  <2> QED
    BY <2>3, <2>4, HeededEvict
<1>2. ASSUME NEW i \in Jobs, CancelJob(i)
      PROVE  Heeded'
  BY <1>2, HeededTransition DEF CancelJob
<1>3. ASSUME SubmitAdvisory
      PROVE  Heeded'
  <2>1. PICK E \in SUBSET Evictable : IsFull(E)
    BY <1>3 DEF SubmitAdvisory
  <2>2. /\ \A j \in Jobs : StatusWithout(E)[j] = IF j \in E THEN "evicted" ELSE status[j]
        /\ \A j \in E : status[j] \in Terminal
    BY Evicted
  <2>3. status' = StatusWithout(E) /\ UNCHANGED <<channels, listener, topic, inbox>>
    BY <2>1 DEF IsFull
  <2> QED
    BY <2>2, <2>3, HeededEvict
<1>4. ASSUME NEW c \in Listeners, NEW j \in Jobs, Listen(c, j)
      PROVE  Heeded'
  BY <1>4, HeededSubscribe DEF Listen
<1>5. ASSUME NEW c \in Listeners, ListenerLeaves(c)
      PROVE  Heeded'
  <2>1. /\ UNCHANGED <<status, channels, topic, inbox>>
        /\ listener'[c] = "closed" /\ \A d \in Listeners \ {c} : listener'[d] = listener[d]
    BY <1>5 DEF ListenerLeaves, HangUp, TypeOK, StoreTypeOK
  <2>2. \A d \in Listeners : listener'[d] = "open" => listener[d] = "open"
    BY <2>1
  <2>3. Registered'
    BY <2>1, <2>2 DEF Heeded, Registered, TypeOK, StoreTypeOK
  <2>4. ListenersSeeOutcome'
    BY <2>1, <2>2 DEF Heeded, ListenersSeeOutcome
  <2> QED
    BY <2>3, <2>4 DEF Heeded
<1> QED
  BY <1>1, <1>2, <1>3, <1>4, <1>5

\* Workers and the sweep act on the listeners by transitions and events only.
LEMMA TaskHeeded ==
  ASSUME TypeOK, Holding, Heeded,
         \/ \E w \in Workers : WorkerStep(w) \/ Tick(w) \/ RunEnds(w)
         \/ ShutdownFires \/ SweepNext \/ SweepCancel
  PROVE  Heeded'
<1>1. ASSUME UNCHANGED <<status, channels, listener, topic, inbox>>
      PROVE  Heeded'
  BY <1>1, HeededEvict
<1>2. ASSUME NEW E \in SUBSET Evictable, (\E j \in Jobs : NextQueued(j, E)) \/ NextQueuedNone(E)
      PROVE  Heeded'
  <2>1. /\ \A j \in Jobs : StatusWithout(E)[j] = IF j \in E THEN "evicted" ELSE status[j]
        /\ \A j \in E : status[j] \in Terminal
    BY Evicted
  <2>2. status' = StatusWithout(E) /\ UNCHANGED <<channels, listener, topic, inbox>>
    BY <1>2 DEF NextQueued, NextQueuedNone
  <2> QED
    BY <2>1, <2>2, HeededEvict
<1>3. ASSUME UNCHANGED storeVars
      PROVE  Heeded'
  BY <1>1, <1>3 DEF storeVars
<1>4. ASSUME NEW w \in Workers, WorkerStep(w) \/ Tick(w) \/ RunEnds(w)
      PROVE  Heeded'
  <2>1. /\ (pc[w] \in Busy => run[w] \in Jobs) /\ (pc[w] = "decided" => next[w] # "none")
        /\ next[w] \in {"none", "done", "failed", "queued"}
    BY DEF TypeOK, Holding
  <2>2. CASE \/ WorkerCheck(w) \/ WorkerFetch(w) \/ RunSucceeds(w) \/ WorkerDecide(w)
             \/ \E how \in {"panic", "error"} : SetupFails(w, how) \/ RunFails(w, how)
    BY <1>3, <2>2 DEF WorkerCheck, WorkerFetch, RunSucceeds, WorkerDecide, SetupFails, RunFails
  <2>3. CASE Register(w) \/ RunAborted(w)
    BY <1>1, <2>3 DEF Register, RunAborted
  <2>4. CASE WorkerNext(w)
    BY <1>2, <2>4 DEF WorkerNext
  <2>5. CASE WorkerStart(w)
    <3>1. run[w] \in Jobs /\ (Transition(run[w], "processing") \/ UNCHANGED storeVars)
      BY <2>1, <2>5 DEF WorkerStart, Busy
    <3> QED
      BY <1>3, <3>1, HeededTransition
  <2>6. CASE WorkerSettle(w)
    <3>1. /\ run[w] \in Jobs /\ next[w] \in {"done", "failed", "queued"}
          /\ Transition(run[w], next[w]) \/ UNCHANGED storeVars
      BY <2>1, <2>6 DEF WorkerSettle, TransitionOrNot, Busy
    <3> QED
      BY <1>3, <3>1, HeededTransition
  <2>7. CASE Tick(w)
    <3> DEFINE j == run[w]
    <3>1. j \in Jobs /\ BroadcastProgress(j)
      BY <2>1, <2>7 DEF Tick, Busy
    <3>2. CASE status[j] \in {"queued", "processing"}
      <4>1. /\ Publish(j, "progress") /\ UNCHANGED <<listener, topic>> /\ status' = status
            /\ status[j] \in JobStatus /\ "progress" = IF status[j] \in Terminal THEN status[j] ELSE "progress"
        BY <3>1, <3>2 DEF BroadcastProgress, Terminal, JobStatus, Resident
      <4> QED
        BY <3>1, <3>2, <4>1, HeededPublish
    <3>3. CASE status[j] \notin {"queued", "processing"}
      BY <1>1, <3>1, <3>3 DEF BroadcastProgress
    <3> QED
      BY <3>2, <3>3
  <2> QED
    BY <1>4, <2>2, <2>3, <2>4, <2>5, <2>6, <2>7 DEF WorkerStep, RunEnds
<1>5. CASE ShutdownFires
  BY <1>3, <1>5 DEF ShutdownFires
<1>6. CASE SweepNext
  BY <1>2, <1>6 DEF SweepNext
<1>7. CASE SweepCancel
  <2>1. swept \in Jobs /\ (Transition(swept, "cancelled") \/ UNCHANGED storeVars)
    BY <1>7 DEF SweepCancel, TransitionOrNot, InSweep, Holding
  <2> QED
    BY <1>3, <2>1, HeededTransition
<1> QED
  BY <1>4, <1>5, <1>6, <1>7

-----------------------------------------------------------------------------
(* The theorems.                                                           *)

\* The queue and the late jobs of it, when the queue gets no other entry.
LEMMA NotLate ==
  ASSUME SweepInOrder, Ids(queue') \subseteq Ids(queue), UNCHANGED <<shutdown, sweeper, late>>
  PROVE  SweepInOrder'
  BY DEF SweepInOrder

\* What a submission or a retry puts in the queue after the sweep is late.
LEMMA NotedLate ==
  ASSUME TypeOK, TypeOK', SweepInOrder, NoteLate, UNCHANGED <<shutdown, sweeper>>
  PROVE  SweepInOrder'
<1>1. \A j \in Jobs : Queued(j) <=> j \in Ids(queue)
  BY JobStoreAssumption DEF Queued, Ids
<1>2. \A j \in Jobs : Queued(j)' <=> j \in Ids(queue')
  BY JobStoreAssumption DEF Queued, Ids
<1>3. Ids(queue') \subseteq Jobs
  BY DEF TypeOK, StoreTypeOK, Ids
<1>4. ASSUME sweeper = "done" PROVE Ids(queue') \subseteq late'
  BY <1>1, <1>2, <1>3, <1>4 DEF SweepInOrder, NoteLate
<1> QED
  BY <1>4 DEF SweepInOrder

\* The order of shutdown: token, sweep, and whatever is late.
LEMMA SweepInOrderStep ==
  ASSUME TypeOK, TypeOK', Holding, SweepInOrder, Next
  PROVE  SweepInOrder'
<1>1. Once(queue)
  BY DEF Holding
<1>2. CASE \E j \in Jobs : Submit(j)
  BY <1>2, NotedLate DEF Submit
<1>3. CASE \E w \in Workers : WorkerSettle(w)
  BY <1>3, NotedLate DEF WorkerSettle
<1>4. ASSUME queue' = queue, UNCHANGED <<shutdown, sweeper, late>>
      PROVE  SweepInOrder'
  BY <1>4 DEF SweepInOrder
<1>5. ASSUME NEW j \in Jobs, CancelJob(j)
      PROVE  SweepInOrder'
  BY <1>4, <1>5 DEF CancelJob, Transition, shutdownVars
<1>6. CASE SubmitAdvisory
  <2>1. PICK E \in SUBSET Evictable : IsFull(E)
    BY <1>6 DEF SubmitAdvisory
  <2>2. Ids(queue') \subseteq Ids(queue)
    BY <1>1, <2>1, Evicted DEF IsFull
  <2> QED
    BY <1>6, <2>2, NotLate DEF SubmitAdvisory, shutdownVars
<1>7. ASSUME NEW c \in Listeners, (\E j \in Jobs : Listen(c, j)) \/ ListenerLeaves(c)
      PROVE  SweepInOrder'
  BY <1>4, <1>7 DEF Listen, Subscribe, ListenerLeaves, HangUp, shutdownVars
<1>8. ASSUME NEW w \in Workers, WorkerNext(w)
      PROVE  SweepInOrder'
  <2>1. PICK E \in SUBSET Evictable : (\E j \in Jobs : NextQueued(j, E)) \/ NextQueuedNone(E)
    BY <1>8 DEF WorkerNext
  <2>2. Ids(queue') \subseteq Ids(queue)
    BY <1>1, <2>1, Popped, PoppedNone
  <2> QED
    BY <1>8, <2>2, NotLate DEF WorkerNext, shutdownVars
<1>9. ASSUME NEW w \in Workers, WorkerStart(w)
      PROVE  SweepInOrder'
  BY <1>4, <1>9 DEF WorkerStart, Transition, storeVars, shutdownVars
<1>10. ASSUME NEW w \in Workers,
              \/ WorkerCheck(w) \/ WorkerFetch(w) \/ RunSucceeds(w) \/ WorkerDecide(w)
              \/ (\E how \in {"panic", "error"} : SetupFails(w, how) \/ RunFails(w, how))
              \/ Register(w) \/ RunAborted(w) \/ Tick(w)
       PROVE  SweepInOrder'
  <2>1. queue' = queue /\ UNCHANGED <<shutdown, sweeper, late>>
    BY <1>10 DEF WorkerCheck, WorkerFetch, RunSucceeds, WorkerDecide, SetupFails, RunFails,
       Register, RunAborted, Tick, BroadcastProgress, storeVars, shutdownVars
  <2> QED
    BY <1>4, <2>1
<1>11. CASE ShutdownFires
  BY <1>11 DEF ShutdownFires, SweepInOrder
<1>12. CASE SweepNext
  <2>1. PICK E \in SUBSET Evictable :
          \/ sweeper' = "cancel"
          \/ NextQueuedNone(E) /\ sweeper' = "done"
    BY <1>12 DEF SweepNext
  <2>2. CASE sweeper' = "cancel"
    BY <1>12, <2>2 DEF SweepNext, SweepInOrder
  <2>3. CASE NextQueuedNone(E) /\ sweeper' = "done"
    <3>1. Ids(queue') = {}
      BY <2>3, PoppedNone
    <3> QED
      BY <1>12, <3>1 DEF SweepNext, SweepInOrder
  <2> QED
    BY <2>1, <2>2, <2>3
<1>13. CASE SweepCancel
  BY <1>13 DEF SweepCancel, SweepInOrder
<1> QED
  BY <1>2, <1>3, <1>5, <1>6, <1>7, <1>8, <1>9, <1>10, <1>11, <1>12, <1>13
     DEF Next, WorkerStep, RunEnds

LEMMA IInvStep == IInv /\ [Next]_jobsVars => IInv'
<1> SUFFICES ASSUME IInv, [Next]_jobsVars PROVE IInv'
  OBVIOUS
<1>1. TypeOK /\ Holding /\ Cared /\ Handles /\ Heeded /\ SweepInOrder
  BY DEF IInv
<1>2. TypeOK' /\ Holding'
  BY <1>1, TypesStep, HoldingStep
<1>3. CASE Next
  <2>1. Cared'
    BY <1>1, <1>3, HandlerCared, WorkerCared, SweepCared DEF Next
  <2>2. Handles'
    BY <1>1, <1>3, HandlerHandles, WorkerHandles, SweepHandles DEF Next
  <2>3. Heeded'
    BY <1>1, <1>3, HandlerHeeded, TaskHeeded DEF Next
  <2>4. SweepInOrder'
    BY <1>1, <1>2, <1>3, SweepInOrderStep
  <2> QED
    BY <1>2, <2>1, <2>2, <2>3, <2>4 DEF IInv
<1>4. CASE UNCHANGED jobsVars
  <2>1. UNCHANGED <<status, abort, queue, channels, listener, topic, inbox, pc, run, shutdown, sweeper, swept, late>>
    BY <1>4 DEF jobsVars, storeVars, workerVars, shutdownVars
  <2>2. Cared'
    BY <1>1, <2>1 DEF Cared, CaredFor, InSweep
  <2>3. Handles'
    BY <1>1, <2>1 DEF Handles, HandleOf
  <2>4. Heeded' /\ SweepInOrder'
    BY <1>1, <2>1 DEF Heeded, Registered, ListenersSeeOutcome, SweepInOrder
  <2> QED
    BY <1>2, <2>2, <2>3, <2>4 DEF IInv
<1> QED
  BY <1>3, <1>4

\* The invariant the others rest on.
LEMMA IInvAlways == Spec => []IInv
  BY InitIInv, IInvStep, PTL DEF Spec

\* Every variable keeps its type: no step of handler, worker or sweep leaves
\* the store or a worker in a state the code has no name for.
THEOREM JobsTypes == Spec => []TypeOK
<1>1. IInv => TypeOK
  BY DEF IInv
<1> QED
  BY <1>1, IInvAlways, PTL

\* No upload is transcribed by two workers at once: a job id is in one queue
\* entry, or with one worker, or with the shutdown sweep (next_queued, Retry,
\* cancel_all_queued).
THEOREM OneHolder == Spec => []OneHolderPerJob
<1>1. IInv => OneHolderPerJob
  <2> SUFFICES ASSUME IInv, NEW j \in Jobs
               PROVE  /\ \A k, m \in DOMAIN queue : queue[k] = j /\ queue[m] = j => k = m
                      /\ \A w, v \in Workers : HeldBy(w, j) /\ HeldBy(v, j) => w = v
                      /\ \A w \in Workers : ~(HeldBy(w, j) /\ (Queued(j) \/ HeldBySweeper(j)))
                      /\ ~(HeldBySweeper(j) /\ Queued(j))
    BY DEF OneHolderPerJob
  <2>1. Holding /\ j # NoJob
    BY JobStoreAssumption DEF IInv
  <2>2. Queued(j) => j \in Ids(queue)
    BY <2>1 DEF Queued, Ids
  <2>3. \A w \in Workers : HeldBy(w, j) => j \in InHand
    BY DEF HeldBy, InHand
  <2>4. HeldBySweeper(j) => j \in InSweep
    BY DEF HeldBySweeper, InSweep
  <2>5. \A k, m \in DOMAIN queue : queue[k] = j /\ queue[m] = j => k = m
    BY <2>1 DEF Holding, Once
  <2>6. \A w, v \in Workers : HeldBy(w, j) /\ HeldBy(v, j) => w = v
    BY <2>1 DEF Holding, HeldBy
  <2> QED
    BY <2>1, <2>2, <2>3, <2>4, <2>5, <2>6 DEF Holding
<1> QED
  BY <1>1, IInvAlways, PTL

\* No job is forgotten that the shutdown sweep could see: what is Queued or
\* Processing is in a queue that is still emptied or in the hand of the task that
\* must go on with it, whatever is cancelled, evicted, retried or swept meanwhile.
\* Only what is retried or submitted after the sweep is left (late).
THEOREM NoneForgotten == Spec => []NoJobForgotten
<1>1. IInv => NoJobForgotten
  <2> SUFFICES ASSUME IInv, NEW j \in Jobs
               PROVE  /\ status[j] = "queued" =>
                           \/ Queued(j) /\ (sweeper = "done" => j \in late)
                           \/ HeldBySweeper(j)
                           \/ \E w \in Workers : pc[w] = "popped" /\ run[w] = j
                      /\ status[j] = "processing" =>
                           \E w \in Workers : pc[w] \in Busy \ {"popped"} /\ run[w] = j
    BY DEF NoJobForgotten
  <2>1. CaredFor(j) /\ SweepInOrder
    BY DEF IInv, Cared
  <2>2. j \in Ids(queue) => Queued(j) /\ (sweeper = "done" => j \in late)
    BY <2>1 DEF Queued, Ids, SweepInOrder
  <2>3. j \in InSweep => HeldBySweeper(j)
    BY DEF HeldBySweeper, InSweep
  <2> QED
    BY <2>1, <2>2, <2>3 DEF CaredFor
<1> QED
  BY <1>1, IInvAlways, PTL

\* DELETE aborts the run of this job and no other: a handle on a job is that of
\* the attempt in progress (register_abort_handle, Retry clears it).
THEOREM AbortHandle == Spec => []AbortIsOfThisRun
<1>1. IInv => AbortIsOfThisRun
  BY DEF IInv, Handles, HandleOf, AbortIsOfThisRun, Busy
<1> QED
  BY <1>1, IInvAlways, PTL

\* A reader of the event stream is registered until it has the outcome, however
\* its subscription falls between the transitions (subscribe, broadcast).
THEOREM OutcomeSeen == Spec => []ListenersSeeOutcome
<1>1. IInv => ListenersSeeOutcome
  BY DEF IInv, Heeded
<1> QED
  BY <1>1, IInvAlways, PTL

\* No step of anyone changes Done, Failed or Cancelled but by eviction.
LEMMA TerminalStep ==
  ASSUME IInv, Next, NEW j \in Jobs, status[j] \in Terminal
  PROVE  status'[j] \in {status[j], "evicted"}
<1>1. TypeOK /\ Holding
  BY DEF IInv
<1>2. ASSUME NEW i \in Jobs, NEW to \in {"processing", "done", "failed", "queued", "cancelled"}, Transition(i, to)
      PROVE  status'[j] = status[j]
  <2>1. status[i] \in {"queued", "processing"} /\ \A m \in Jobs \ {i} : status'[m] = status[m]
    BY <1>1, <1>2, TransitionMoves
  <2>2. i # j
    BY <2>1 DEF Terminal
  <2> QED
    BY <2>1, <2>2
<1>3. ASSUME NEW E \in SUBSET Evictable
      PROVE  StatusWithout(E)[j] \in {status[j], "evicted"} /\ StatusWithout(E) \in [Jobs -> JobStatus]
  BY <1>1, Evicted
<1>4. ASSUME UNCHANGED status
      PROVE  status'[j] \in {status[j], "evicted"}
  BY <1>4
<1>5. CASE \/ \E i \in Jobs : Submit(i) \/ CancelJob(i)
           \/ SubmitAdvisory
  <2>1. ASSUME NEW i \in Jobs, Submit(i)
        PROVE  status'[j] \in {status[j], "evicted"}
    <3>1. PICK E \in SUBSET Evictable : Create(i, E)
      BY <2>1 DEF Submit
    <3>2. i # j /\ status' \in {StatusWithout(E), [StatusWithout(E) EXCEPT ![i] = "queued"]}
      BY <3>1 DEF Create, Terminal
    <3> QED
      BY <1>3, <3>2
  <2> QED
    BY <1>2, <1>3, <1>5, <2>1 DEF CancelJob, SubmitAdvisory, IsFull
<1>6. CASE \E c \in Listeners : (\E i \in Jobs : Listen(c, i)) \/ ListenerLeaves(c)
  BY <1>6 DEF Listen, Subscribe, ListenerLeaves, HangUp
<1>7. ASSUME NEW w \in Workers, WorkerStep(w) \/ Tick(w) \/ RunEnds(w)
      PROVE  status'[j] \in {status[j], "evicted"}
  <2>1. /\ (pc[w] \in Busy => run[w] \in Jobs) /\ (pc[w] = "decided" => next[w] # "none")
        /\ next[w] \in {"none", "done", "failed", "queued"}
    BY <1>1 DEF TypeOK, Holding
  <2>2. CASE \/ WorkerCheck(w) \/ WorkerFetch(w) \/ RunSucceeds(w) \/ WorkerDecide(w)
             \/ \E how \in {"panic", "error"} : SetupFails(w, how) \/ RunFails(w, how)
             \/ Register(w) \/ RunAborted(w) \/ Tick(w)
    BY <2>2 DEF WorkerCheck, WorkerFetch, RunSucceeds, WorkerDecide, SetupFails, RunFails, Register,
                RunAborted, Tick, BroadcastProgress, storeVars
  <2>3. CASE WorkerNext(w)
    BY <1>3, <2>3 DEF WorkerNext, NextQueued, NextQueuedNone
  <2>4. CASE WorkerStart(w)
    <3>1. run[w] \in Jobs /\ (Transition(run[w], "processing") \/ UNCHANGED status)
      BY <2>1, <2>4 DEF WorkerStart, Busy, storeVars
    <3> QED
      BY <1>2, <3>1
  <2>5. CASE WorkerSettle(w)
    <3>1. /\ run[w] \in Jobs /\ next[w] \in {"done", "failed", "queued"}
          /\ Transition(run[w], next[w]) \/ UNCHANGED status
      BY <2>1, <2>5 DEF WorkerSettle, TransitionOrNot, Busy, storeVars
    <3> QED
      BY <1>2, <3>1
  <2> QED
    BY <1>7, <2>2, <2>3, <2>4, <2>5 DEF WorkerStep, RunEnds
<1>8. CASE ShutdownFires \/ SweepNext
  BY <1>3, <1>8 DEF ShutdownFires, SweepNext, NextQueued, NextQueuedNone, storeVars
<1>9. CASE SweepCancel
  <2>1. swept \in Jobs /\ (Transition(swept, "cancelled") \/ UNCHANGED status)
    BY <1>1, <1>9 DEF SweepCancel, TransitionOrNot, InSweep, Holding, storeVars
  <2> QED
    BY <1>2, <2>1
<1> QED
  BY <1>5, <1>6, <1>7, <1>8, <1>9 DEF Next

\* What a client was told is final: a late completion does not overwrite a
\* cancel, nor a cancel a result (Job::transition).
THEOREM OutcomeIsFinal == Spec => TerminalIsFinal
<1>1. IInv /\ [Next]_jobsVars =>
        [\A j \in Jobs : status[j] \in Terminal => status'[j] \in {status[j], "evicted"}]_jobsVars
  BY TerminalStep
<1> QED
  BY <1>1, IInvAlways, PTL DEF Spec, TerminalIsFinal

=============================================================================
