------------------------------- MODULE Bindings -------------------------------
(***************************************************************************)
(* The bindings for other languages (gigastt-ffi, gigastt-uniffi,          *)
(* gigastt-node): host threads that share engines and streams, free them   *)
(* while calls run, and hold a triplet of the pool per stream.             *)
(*                                                                         *)
(* An id stands for its object too: no id is issued twice.  "Free" is the  *)
(* removal of the id in the C interface, and in the others the host's last *)
(* reference.  Which of the waiting calls a triplet goes to is left open.  *)
(***************************************************************************)
EXTENDS Integers, FiniteSets

CONSTANTS
  Hosts,        \* threads of the host program
  Ids,          \* bound: engines and streams ever made
  PoolSize,
  Idle

Id == 1 .. Ids

\* A call: of the engine or the stream `on`, with the triplet it works with; 0: none.
Calls == [op : {"file", "open", "chunk", "flush"}, at : {"checkout", "lock", "decode", "insert"},
          on : Id, triplet : 0 .. PoolSize]

ASSUME BindingsAssumption == Ids \in Nat /\ PoolSize \in Nat \ {0} /\ Idle \notin Calls

VARIABLES
  api,          \* c, uniffi, node
  kind,         \* what each id was issued for: none, engine, stream
  held,         \* the ids the host has not freed
  call,         \* of each thread, or Idle
  idle,         \* of each engine: the triplets in its pool
  owner,        \* of each stream: its engine
  owns,         \* of each stream: its triplet; 0: none
  locked, poisoned   \* of each stream: its mutex

handleVars == <<api, kind, held, call, idle, owner, owns, locked, poisoned>>

Issued(k) == {i \in Id : kind[i] = k}

BindingsInit ==
  /\ api \in {"c", "uniffi", "node"}
  /\ kind = [i \in Id |-> "none"] /\ held = {}
  /\ call = [h \in Hosts |-> Idle]
  /\ idle = [i \in Id |-> {}] /\ owner = [i \in Id |-> 0] /\ owns = [i \in Id |-> 0]
  /\ locked = [i \in Id |-> FALSE] /\ poisoned = [i \in Id |-> FALSE]

\* next_id
NextId(i) == kind[i] = "none" /\ \A j \in Id : j < i => kind[j] # "none"

\* The reservation is dropped with the id, whatever calls are running.
LastReferenceIgnored(s, ids, calls) == s \notin ids

\* Neither the table nor a call has the stream any more: StreamSlot::drop.
LastReference(s, ids, calls) == s \notin ids /\ \A h \in Hosts : calls[h] = Idle \/ calls[h].on # s

\* The table and the calls become these, and what nobody refers to is dropped;
\* `back` is a triplet that a call returns to engine e.
Drops(ids, calls, e, back) ==
  LET dead == {s \in Issued("stream") : owns[s] # 0 /\ LastReference(s, ids, calls)} IN
  /\ held' = ids /\ call' = calls
  /\ owns' = [s \in Id |-> IF s \in dead THEN 0 ELSE owns[s]]
  /\ idle' = [i \in Id |-> idle[i] \cup {owns[s] : s \in {d \in dead : owner[d] = i}}
                                   \cup (IF i = e THEN back ELSE {})]

-----------------------------------------------------------------------------
(* gigastt_engine_new, *_free, and the beginning of every other call.      *)

EngineNew(h, i) ==
  /\ call[h] = Idle /\ NextId(i)
  /\ kind' = [kind EXCEPT ![i] = "engine"] /\ held' = held \cup {i}
  /\ idle' = [idle EXCEPT ![i] = 1 .. PoolSize]
  /\ UNCHANGED <<api, call, owner, owns, locked, poisoned>>

FreeHandle(h, i) ==
  /\ call[h] = Idle /\ i \in held
  /\ Drops(held \ {i}, call, 0, {})
  /\ UNCHANGED <<api, kind, owner, locked, poisoned>>

\* get_engine, get_stream: a freed id is refused, one that is held is cloned.
Enter(h, op, at, i) ==
  /\ call[h] = Idle /\ i \in held
  /\ call' = [call EXCEPT ![h] = [op |-> op, at |-> at, on |-> i, triplet |-> 0]]
  /\ UNCHANGED <<api, kind, held, idle, owner, owns, locked, poisoned>>
OnEngine(h, i) == \E op \in {"file", "open"} : i \in Issued("engine") /\ Enter(h, op, "checkout", i)
OnStream(h, i) == \E op \in {"chunk", "flush"} : i \in Issued("stream") /\ Enter(h, op, "lock", i)

Return(h, e, back) == Drops(held, [call EXCEPT ![h] = Idle], e, back)

-----------------------------------------------------------------------------
(* gigastt_transcribe_file, gigastt_stream_new.                            *)

\* checkout_blocking
CheckoutBlocking(h) ==
  /\ call[h] # Idle /\ call[h].at = "checkout"
  /\ \E t \in idle[call[h].on] :
       /\ idle' = [idle EXCEPT ![call[h].on] = @ \ {t}]
       /\ call' = [call EXCEPT ![h].triplet = t,
                               ![h].at = IF call[h].op = "file" THEN "decode" ELSE "insert"]
  /\ UNCHANGED <<api, kind, held, owner, owns, locked, poisoned>>

\* A result, an error or a panic: the guard returns the triplet.
FileReturns(h) ==
  /\ call[h] # Idle /\ call[h].op = "file" /\ call[h].at = "decode"
  /\ Return(h, call[h].on, {call[h].triplet})
  /\ UNCHANGED <<api, kind, owner, locked, poisoned>>

\* into_owned, create_state, insert_stream; create_state may panic.
StreamNew(h, i) ==
  /\ call[h] # Idle /\ call[h].at = "insert" /\ NextId(i)
  /\ kind' = [kind EXCEPT ![i] = "stream"] /\ held' = held \cup {i}
  /\ owner' = [owner EXCEPT ![i] = call[h].on] /\ owns' = [owns EXCEPT ![i] = call[h].triplet]
  /\ call' = [call EXCEPT ![h] = Idle]
  /\ UNCHANGED <<api, idle, locked, poisoned>>

StreamNewFails(h) ==
  /\ call[h] # Idle /\ call[h].at = "insert"
  /\ Return(h, call[h].on, {call[h].triplet})
  /\ UNCHANGED <<api, kind, owner, locked, poisoned>>

-----------------------------------------------------------------------------
(* gigastt_stream_process_chunk, gigastt_stream_flush.                     *)

\* The C interface takes a poisoned mutex all the same (into_inner).
LockStream(h) ==
  /\ call[h] # Idle /\ call[h].at = "lock" /\ ~locked[call[h].on]
  /\ IF poisoned[call[h].on] /\ api # "c"
       THEN Return(h, 0, {}) /\ UNCHANGED locked
       ELSE /\ locked' = [locked EXCEPT ![call[h].on] = TRUE]
            /\ call' = [call EXCEPT ![h].at = "decode", ![h].triplet = owns[call[h].on]]
            /\ UNCHANGED <<held, idle, owns>>
  /\ UNCHANGED <<api, kind, owner, poisoned>>

\* Where a panic is caught decides whether it crosses the guard of the mutex.
CrossesGuard(op) == IF api = "c" THEN op = "flush" ELSE op = "chunk"

DecodeReturns(h) ==
  /\ call[h] # Idle /\ call[h].op \in {"chunk", "flush"} /\ call[h].at = "decode"
  /\ locked' = [locked EXCEPT ![call[h].on] = FALSE]
  /\ \E panics \in {FALSE, CrossesGuard(call[h].op)} :
       poisoned' = [poisoned EXCEPT ![call[h].on] = @ \/ panics]
  /\ Return(h, 0, {})
  /\ UNCHANGED <<api, kind, owner>>

BindingsNext ==
  \E h \in Hosts :
    \/ \E i \in Id :
         EngineNew(h, i) \/ FreeHandle(h, i) \/ OnEngine(h, i) \/ OnStream(h, i) \/ StreamNew(h, i)
    \/ CheckoutBlocking(h) \/ FileReturns(h) \/ StreamNewFails(h) \/ LockStream(h)
    \/ DecodeReturns(h)

BindingsSpec == BindingsInit /\ [][BindingsNext]_handleVars

-----------------------------------------------------------------------------
(* Properties.                                                             *)

Working(e) ==
  {h \in Hosts : call[h] # Idle /\ call[h].triplet # 0
                   /\ e = IF call[h].op \in {"file", "open"} THEN call[h].on ELSE owner[call[h].on]}
OpenStreams(e) == {s \in Issued("stream") : owner[s] = e /\ owns[s] # 0}

\* Whatever is freed while calls run on it: a triplet that a call works with is
\* in no pool and with no other call, and none is lost, of an engine that was
\* freed either.  (StreamSlot, get_stream, the Arcs in flight)
TripletHasOneUser ==
  \A e \in Issued("engine") :
    /\ \A h \in Working(e) :
         /\ call[h].triplet \notin idle[e]
         /\ \A g \in Working(e) \ {h} : call[g].triplet # call[h].triplet
    /\ idle[e] \cup {owns[s] : s \in OpenStreams(e)} \cup {call[h].triplet : h \in Working(e)}
         = 1 .. PoolSize
=============================================================================
