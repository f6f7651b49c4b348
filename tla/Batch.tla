-------------------------------- MODULE Batch ---------------------------------
(***************************************************************************)
(* transcribe-batch and watch (gigastt/src/batch.rs): a scheduler, its     *)
(* tasks on blocking threads, and somebody who writes and removes files    *)
(* under the input directory meanwhile.                                    *)
(*                                                                         *)
(* A version of a file stands for its content and its signature: 0 is no   *)
(* file, 1 one that was there before the command.                          *)
(***************************************************************************)
EXTENDS Integers, Sequences, SequencesExt, FiniteSets

CONSTANTS
  Inbox,        \* in the order of a scan
  Formats,      \* how many outputs a file has
  SettlePolls,
  Concurrency, Retries,
  Versions      \* bound: what is ever written under one name

Paths == ToSet(Inbox)

ASSUME WatchAssumption ==
  /\ Inbox \in Seq(Paths) /\ IsInjective(Inbox)
  /\ Formats \in Nat \ {0} /\ SettlePolls \in Nat \ {0}
  /\ Concurrency \in Nat \ {0} /\ Retries \in Nat /\ Versions \in [Paths -> Nat]

VARIABLES
  command,      \* batch or watch
  source,       \* what becomes of a processed file: keep, away (moved or deleted)
  inputs, written,        \* version of each input, and how many there have been
  out,          \* version each output of a file was made from
  known,        \* WatchEntry of each path
  todo,         \* batch: files not begun; watch: files listed and not looked at
  tasks,        \* the JoinSet, in the order of spawning
  loop,         \* where the scheduler is
  stop,         \* the shutdown token
  counts,       \* BatchSummary: processed, failed, skipped
  heard, gone   \* history: versions written out whole; versions the program removed

watchVars == <<command, source, inputs, written, out, known, todo, tasks, loop, stop, counts,
               heard, gone>>

Unknown == [sig |-> 0, stable |-> 0, status |-> "Unknown", dirty |-> FALSE]
Entry(sig, status) == [Unknown EXCEPT !.sig = sig, !.status = status]
NewTask(f) == [file |-> f, step |-> "read", read |-> 0, written |-> 0, attempt |-> 0]

\* scan_inputs: what is there, in order.
Listings == {s \in SetToSeqs({f \in Paths : inputs[f] # 0}) :
               \A i, j \in DOMAIN Inbox, k, n \in DOMAIN s :
                 Inbox[i] = s[k] /\ Inbox[j] = s[n] /\ k < n => i < j}

\* prepare_dirs and the first look: a batch takes what is there, a watch
\* registers it as done.
WatchInit ==
  /\ command \in {"batch", "watch"} /\ source \in {"keep", "away"}
  /\ inputs \in [Paths -> 0 .. 1] /\ written = [f \in Paths |-> 1]
  /\ out = [f \in Paths |-> [k \in 1 .. Formats |-> 0]]
  /\ known = [f \in Paths |-> IF command = "watch" /\ inputs[f] # 0
                                THEN Entry(inputs[f], "Done") ELSE Unknown]
  /\ IF command = "batch" THEN todo \in Listings ELSE todo = <<>>
  /\ tasks = <<>> /\ loop = "top" /\ stop = FALSE
  /\ counts = [processed |-> 0, failed |-> 0, skipped |-> 0]
  /\ heard = {} /\ gone = {}

-----------------------------------------------------------------------------
(* Outside: whoever puts files there, and ctrl-C.                          *)

PutFile(f) ==
  /\ loop # "over" /\ written[f] < Versions[f]
  /\ written' = [written EXCEPT ![f] = @ + 1] /\ inputs' = [inputs EXCEPT ![f] = written[f] + 1]
  /\ UNCHANGED <<command, source, out, known, todo, tasks, loop, stop, counts, heard, gone>>

TakeFile(f) ==
  /\ loop # "over" /\ inputs[f] # 0 /\ inputs' = [inputs EXCEPT ![f] = 0]
  /\ UNCHANGED <<command, source, written, out, known, todo, tasks, loop, stop, counts,
                 heard, gone>>

CtrlC ==
  /\ loop # "over" /\ ~stop /\ stop' = TRUE
  /\ UNCHANGED <<command, source, inputs, written, out, known, todo, tasks, loop, counts,
                 heard, gone>>

-----------------------------------------------------------------------------
(* process_one_attempt and process_with_retries.                           *)

Progress(i, t) == tasks' = [tasks EXCEPT ![i] = t]

\* An attempt ends in an error: wait and try again, or give up.
Failed(i) ==
  LET t == tasks[i]
  IN  Progress(i, [t EXCEPT !.attempt = @ + 1, !.written = 0,
                            !.step = IF t.attempt + 1 > Retries THEN "err" ELSE "backoff"])

Transcribe(i) ==
  LET t == tasks[i] IN
  /\ t.step = "read"
  /\ \/ inputs[t.file] # 0 /\ Progress(i, [t EXCEPT !.read = inputs[t.file], !.step = "write"])
     \/ Failed(i)
  /\ UNCHANGED <<command, source, inputs, written, out, known, todo, loop, stop, counts,
                 heard, gone>>

WriteOutput(i) ==
  LET t == tasks[i]
      k == t.written + 1
  IN
  /\ t.step = "write"
  /\ \/ /\ out' = [out EXCEPT ![t.file][k] = t.read]
        /\ Progress(i, [t EXCEPT !.written = k,
                                 !.step = IF k < Formats THEN "write"
                                          ELSE IF source = "keep" THEN "ok" ELSE "source"])
        /\ heard' = IF k = Formats THEN heard \cup {<<t.file, t.read>>} ELSE heard
     \/ Failed(i) /\ UNCHANGED <<out, heard>>
  /\ UNCHANGED <<command, source, inputs, written, known, todo, loop, stop, counts, gone>>

\* move_file, remove_file
RemoveSource(i) ==
  LET t == tasks[i] IN
  /\ t.step = "source"
  /\ \/ /\ inputs[t.file] # 0
        /\ gone' = gone \cup {<<t.file, inputs[t.file]>>}
        /\ inputs' = [inputs EXCEPT ![t.file] = 0]
        /\ Progress(i, [t EXCEPT !.step = "ok"])
     \/ Failed(i) /\ UNCHANGED <<inputs, gone>>
  /\ UNCHANGED <<command, source, written, out, known, todo, loop, stop, counts, heard>>

Backoff(i) ==
  /\ tasks[i].step = "backoff" /\ Progress(i, [tasks[i] EXCEPT !.step = "read"])
  /\ UNCHANGED <<command, source, inputs, written, out, known, todo, loop, stop, counts,
                 heard, gone>>

-----------------------------------------------------------------------------
(* run_batch.                                                              *)

Count(ok) == IF ok THEN [counts EXCEPT !.processed = @ + 1] ELSE [counts EXCEPT !.failed = @ + 1]
Ended(t) == t.step \in {"ok", "err"}
Topped == stop \/ Len(tasks) >= Concurrency \/ todo = <<>>

TopUp ==
  /\ command = "batch" /\ loop = "top" /\ ~Topped
  /\ tasks' = Append(tasks, NewTask(Head(todo))) /\ todo' = Tail(todo)
  /\ UNCHANGED <<command, source, inputs, written, out, known, loop, stop, counts, heard, gone>>

JoinOrReturn ==
  /\ command = "batch" /\ loop = "top" /\ Topped
  /\ IF tasks = <<>>
       THEN loop' = "over" /\ counts' = [counts EXCEPT !.skipped = Len(todo)]
       ELSE loop' = "select" /\ UNCHANGED counts
  /\ UNCHANGED <<command, source, inputs, written, out, known, todo, tasks, stop, heard, gone>>

JoinBatch(i) ==
  /\ command = "batch" /\ loop = "select" /\ Ended(tasks[i])
  /\ counts' = Count(tasks[i].step = "ok") /\ tasks' = RemoveAt(tasks, i) /\ loop' = "top"
  /\ UNCHANGED <<command, source, inputs, written, out, known, todo, stop, heard, gone>>

-----------------------------------------------------------------------------
(* run_watch.                                                              *)

\* The head of the loop, and the branch of the select that shutdown takes.
Turn ==
  /\ command = "watch"
  /\ \/ loop = "top" /\ loop' = IF stop THEN "drain" ELSE "select"
     \/ loop = "select" /\ stop /\ loop' = "drain"
     \/ loop = "drain" /\ tasks = <<>> /\ loop' = "over"
  /\ UNCHANGED <<command, source, inputs, written, out, known, todo, tasks, stop, counts,
                 heard, gone>>

\* A task that has ended has done its file, as it was and as it is.
CompletedAnyway(e, ok) == [e EXCEPT !.dirty = FALSE, !.status = "Done"]

\* handle_completion
Completed(e, ok) ==
  IF e.dirty THEN [e EXCEPT !.dirty = FALSE, !.stable = 0, !.status = "Pending"]
  ELSE [e EXCEPT !.status = IF ok THEN "Done" ELSE "Failed"]

JoinWatch(i) ==
  LET t == tasks[i]
      e == known[t.file]
  IN
  /\ command = "watch" /\ loop \in {"select", "drain"} /\ Ended(t)
  /\ tasks' = RemoveAt(tasks, i) /\ loop' = IF loop = "select" THEN "top" ELSE loop
  /\ IF e.status # "InFlight" THEN UNCHANGED <<known, counts>>
       ELSE /\ known' = [known EXCEPT ![t.file] = Completed(e, t.step = "ok")]
            /\ counts' = IF e.dirty THEN counts ELSE Count(t.step = "ok")
  /\ UNCHANGED <<command, source, inputs, written, out, todo, stop, heard, gone>>

\* A poll: the directory is listed, and what is not there forgotten, unless a task
\* works on it.
Retained(f) == IF inputs[f] # 0 \/ known[f].status = "InFlight" THEN known[f] ELSE Unknown

Scan ==
  /\ command = "watch" /\ loop = "select"
  /\ \/ /\ todo' \in Listings /\ known' = [f \in Paths |-> Retained(f)]
        /\ loop' = IF todo' = <<>> THEN "top" ELSE "look"
     \/ UNCHANGED <<known, todo>> /\ loop' = "top"
  /\ UNCHANGED <<command, source, inputs, written, out, tasks, stop, counts, heard, gone>>

\* What becomes of the entry of a file that is there; `room`: a task may be spawned.
Seen(e, sig, room) ==
  IF e.status = "Unknown" THEN Entry(sig, "Pending")
  ELSE IF e.sig # sig
    THEN [e EXCEPT !.sig = sig, !.stable = 0, !.dirty = @ \/ e.status = "InFlight",
                   !.status = IF @ = "InFlight" THEN @ ELSE "Pending"]
  ELSE IF e.status # "Pending" THEN e
  ELSE LET calm == IF e.stable < SettlePolls THEN e.stable + 1 ELSE SettlePolls
       IN  [e EXCEPT !.stable = calm,
                     !.status = IF calm = SettlePolls /\ room THEN "InFlight" ELSE @]

\* signature_of each, and the tasks of those that have settled.
LookAt ==
  LET f == Head(todo)
      e == Seen(known[f], inputs[f], Len(tasks) < Concurrency)
  IN
  /\ command = "watch" /\ loop = "look" /\ todo # <<>>
  /\ todo' = Tail(todo) /\ loop' = IF todo' = <<>> THEN "top" ELSE "look"
  /\ IF inputs[f] = 0 THEN UNCHANGED <<known, tasks>>
     ELSE /\ known' = [known EXCEPT ![f] = e]
          /\ tasks' = IF e.status = "InFlight" /\ known[f].status # "InFlight"
                        THEN Append(tasks, NewTask(f)) ELSE tasks
  /\ UNCHANGED <<command, source, inputs, written, out, stop, counts, heard, gone>>

WatchNext ==
  \/ \E f \in Paths : PutFile(f) \/ TakeFile(f)
  \/ CtrlC
  \/ \E i \in DOMAIN tasks :
       Transcribe(i) \/ WriteOutput(i) \/ RemoveSource(i) \/ Backoff(i)
         \/ JoinBatch(i) \/ JoinWatch(i)
  \/ TopUp \/ JoinOrReturn \/ Turn \/ Scan \/ LookAt

WatchSpec == WatchInit /\ [][WatchNext]_watchVars

-----------------------------------------------------------------------------
(* Properties.                                                             *)

\* Whatever was written, removed and put back while a task worked on a file: a
\* file the watch counts as done and sees as it saw it last has every output
\* made from that content, unless it was there before the watch began.
\* (handle_completion, the dirty flag)
DoneIsHeard ==
  \A f \in Paths :
    known[f].status = "Done" /\ known[f].sig = inputs[f] /\ inputs[f] # 0 =>
      (\A k \in 1 .. Formats : out[f][k] = inputs[f]) \/ inputs[f] = 1

\* No two tasks work on one file, although a file may vanish and come back
\* while its task runs: their outputs would mix.  (run_watch, retain)
OneTaskPerFile ==
  \A i, j \in DOMAIN tasks : i # j => tasks[i].file # tasks[j].file

\* A change that was noticed while the task worked on the file is not moved or
\* deleted before it was transcribed.  (process_one_attempt; handle_completion
\* promises to process the new version)
ChangeIsHeard ==
  \A f \in Paths : known[f].dirty /\ <<f, known[f].sig>> \in gone => <<f, known[f].sig>> \in heard

\* What a finished entry says and who works on it, together.
WatchMissesNothing == DoneIsHeard /\ OneTaskPerFile
=============================================================================
