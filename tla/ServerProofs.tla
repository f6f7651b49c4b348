---------------------------- MODULE ServerProofs -----------------------------
(***************************************************************************)
(* Proofs about three parts of the server: that the stream of a file ends  *)
(* as it says it does (FileStream), that a client gets no more than its    *)
(* rate (RateLimiter), and that the watchdog of a one-shot run is prompt,  *)
(* patient and true, for any uploads, sessions and timeout (FileRun).      *)
(***************************************************************************)
EXTENDS FileRun, FileStream, RateLimiter, QueueLemmas, FiniteSetTheorems, TLAPS

Events == Endings \cup {"seg"}

\* What the producer may still have to send: segments on its way round the loop,
\* or what is left of one of the ends of a file.
Rounds == {<<>>, <<"seg">>}
Ends == {<<>>, <<"seg">>, <<"last">>, <<"error">>, <<"seg", "error">>, <<"mark">>, <<"done", "mark">>,
         <<"seg", "done", "mark">>}
Told == {<<>>, <<"error">>, <<"last">>, <<"done">>, <<"done", "mark">>}

Typed ==
  /\ producer \in {"top", "decode", "emit", "wait", "over"} /\ then \in {"top", "over"}
  /\ stage \in {"Processing", "Sending", "Finishing", "Finished", "TimedOut"}
  /\ before \in {"Processing", "Finishing"}
  /\ response \in {"live", "tail", "closed", "gone"}
  /\ timedOut \in BOOLEAN /\ dropped \in BOOLEAN
  /\ todo \in Ends /\ queue \in Seq(Events)
  /\ told \in Told /\ tail \in {<<>>, <<"error">>, <<"seg", "error">>}

\* Before the end of the file was claimed nothing that ends a stream is on its way,
\* and nobody claims it again after a timeout.
LoopHasNoEnd ==
  /\ then = "top" => /\ todo \in Rounds /\ \A k \in 1 .. Len(queue) : queue[k] \notin Endings
                     /\ told \in {<<>>, <<"error">>}
                     /\ response = "live" => told = <<>>
  /\ producer \in {"top", "decode"} => todo = <<>> /\ then = "top"
  /\ producer \in {"emit", "wait"} => todo # <<>>
  /\ producer = "over" => todo = <<>>
  /\ stage \in {"Processing", "TimedOut"} => then = "top"
  /\ stage = "Sending" => producer = "wait" /\ (before = "Processing" => then = "top")
  /\ producer = "wait" => stage = "Sending"
  /\ timedOut => stage = "TimedOut"

\* What may stand where on the way from the producer to the client.
EndIsLast ==
  /\ \A k \in 1 .. Len(queue) :
       /\ queue[k] \in {"last", "error"} => k = Len(queue) /\ todo = <<>>
       /\ queue[k] = "mark" => k = Len(queue) /\ todo = <<>>
       /\ queue[k] = "done" => \/ k = Len(queue) /\ todo \in {<<>>, <<"mark">>}
                               \/ k = Len(queue) - 1 /\ queue[k + 1] = "mark"
       /\ k = 1 /\ queue[k] = "mark" => told = <<"done">>
       /\ k > 1 /\ queue[k] = "mark" => queue[k - 1] = "done"
  /\ response = "live" /\ told # <<>> =>
       /\ queue = <<>> \/ (queue = <<"mark">> /\ told = <<"done">>)
       /\ todo \in {<<>>, <<"mark">>} /\ (todo = <<"mark">> => told = <<"done">> /\ queue = <<>>)
  /\ todo = <<"mark">> /\ response = "live" /\ queue = <<>> => told = <<"done">>
  /\ todo = <<"mark">> /\ queue # <<>> => queue[Len(queue)] = "done"
  /\ response # "live" => queue = <<>>
  /\ response = "tail" => timedOut /\ told = (IF tail = <<>> THEN <<"error">> ELSE <<>>)

\* An event that was not delivered is followed by no regular end.
LossIsFatal ==
  /\ told \notin {<<>>, <<"error">>} => then = "over" /\ todo \in {<<>>, <<"mark">>}
  /\ dropped => /\ producer = "over" \/ stage = "TimedOut"
                /\ \A k \in 1 .. Len(queue) : queue[k] \notin Endings
                /\ told \in {<<>>, <<"error">>}

StreamInv == Typed /\ LoopHasNoEnd /\ EndIsLast /\ LossIsFatal

-----------------------------------------------------------------------------
\* The sequences a producer has in hand, one event at a time.
LEMMA OneLess ==
  ASSUME NEW s \in Ends, s # <<>>
  PROVE  \/ s = <<"seg">> /\ Head(s) = "seg" /\ Tail(s) = <<>> /\ Len(s) = 1
         \/ s = <<"last">> /\ Head(s) = "last" /\ Tail(s) = <<>> /\ Len(s) = 1
         \/ s = <<"error">> /\ Head(s) = "error" /\ Tail(s) = <<>> /\ Len(s) = 1
         \/ s = <<"mark">> /\ Head(s) = "mark" /\ Tail(s) = <<>> /\ Len(s) = 1
         \/ s = <<"seg", "error">> /\ Head(s) = "seg" /\ Tail(s) = <<"error">> /\ Len(s) = 2
         \/ s = <<"done", "mark">> /\ Head(s) = "done" /\ Tail(s) = <<"mark">> /\ Len(s) = 2
         \/ /\ s = <<"seg", "done", "mark">> /\ Head(s) = "seg"
            /\ Tail(s) = <<"done", "mark">> /\ Len(s) = 3
<1>1. ASSUME NEW e \in Events, s = <<e>>
      PROVE  Head(s) = e /\ Tail(s) = <<>> /\ Len(s) = 1
  <2>1. s \in Seq(Events) /\ Len(s) = 1 /\ Head(s) = e
    BY <1>1
  <2> QED BY <2>1, TailOfOne
<1>2. ASSUME NEW e \in Events, NEW f \in Events, s = <<e, f>>
      PROVE  Head(s) = e /\ Tail(s) = <<f>> /\ Len(s) = 2
  <2>1. s \in Seq(Events) /\ Len(s) = 2 /\ Head(s) = e /\ s[2] = f
    BY <1>2
  <2> QED BY <2>1, TailOfTwo
<1>3. ASSUME s = <<"seg", "done", "mark">>
      PROVE  Head(s) = "seg" /\ Tail(s) = <<"done", "mark">> /\ Len(s) = 3
  <2>1. /\ s \in Seq(Events) /\ Len(s) = 3 /\ Head(s) = "seg" /\ s[2] = "done" /\ s[3] = "mark"
    BY <1>3 DEF Events, Endings
  <2> QED BY <2>1, TailOfThree
<1> QED BY <1>1, <1>2, <1>3 DEF Ends, Events, Endings

\* Which event it is says what is left behind it.
LEMMA Behind ==
  ASSUME NEW s \in Ends, s # <<>>
  PROVE  /\ (Len(s) = 1 /\ Tail(s) = <<>>) \/ (Len(s) > 1 /\ Len(s) # 1 /\ Tail(s) # <<>>)
         /\ s # <<"mark">> => \/ Head(s) = "seg" /\ Tail(s) # <<"mark">>
                              \/ Head(s) \in {"last", "error"} /\ Tail(s) = <<>> /\ Tail(s) # <<"mark">>
                              \/ Head(s) = "done" /\ Tail(s) = <<"mark">>
<1>1. /\ <<>> # <<"mark">> /\ <<"error">> # <<"mark">> /\ <<"done", "mark">> # <<"mark">>
      /\ <<"error">> # <<>> /\ <<"done", "mark">> # <<>> /\ <<"mark">> # <<>>
  OBVIOUS
<1> DEFINE t == Tail(s)
           h == Head(s)
           n == Len(s)
<1>2. \/ s = <<"seg">> /\ h = "seg" /\ t = <<>> /\ n = 1
      \/ s = <<"last">> /\ h = "last" /\ t = <<>> /\ n = 1
      \/ s = <<"error">> /\ h = "error" /\ t = <<>> /\ n = 1
      \/ s = <<"mark">> /\ h = "mark" /\ t = <<>> /\ n = 1
      \/ s = <<"seg", "error">> /\ h = "seg" /\ t = <<"error">> /\ n = 2
      \/ s = <<"done", "mark">> /\ h = "done" /\ t = <<"mark">> /\ n = 2
      \/ s = <<"seg", "done", "mark">> /\ h = "seg" /\ t = <<"done", "mark">> /\ n = 3
  BY OneLess
<1> HIDE DEF t, h, n
<1>3. (n = 1 /\ t = <<>>) \/ (n > 1 /\ n # 1 /\ t # <<>>)
  BY <1>1, <1>2
<1>4. s # <<"mark">> => \/ h = "seg" /\ t # <<"mark">>
                        \/ h \in {"last", "error"} /\ t = <<>> /\ t # <<"mark">>
                        \/ h = "done" /\ t = <<"mark">>
  BY <1>1, <1>2
<1> QED BY <1>3, <1>4, Zenon DEF t, h, n

\* While an event other than the mark is still to be sent, none that ends the stream
\* is on its way and the client was told of none.
LEMMA NothingEnded ==
  ASSUME StreamInv, todo # <<>>, todo # <<"mark">>
  PROVE  /\ \A k \in 1 .. Len(queue) : queue[k] \notin Endings
         /\ told \in {<<>>, <<"error">>}
         /\ response = "live" => told = <<>>
<1>1. \A k \in 1 .. Len(queue) : queue[k] \notin Endings
  <2> SUFFICES ASSUME NEW k \in 1 .. Len(queue), queue[k] \in Endings PROVE FALSE
    OBVIOUS
  <2>1. Len(queue) \in Nat
    BY DEF StreamInv, Typed
  <2>2. queue[k] = "done"
    BY DEF StreamInv, EndIsLast, Endings
  <2>3. k + 1 \in 1 .. Len(queue) /\ queue[k + 1] = "mark"
    BY <2>1, <2>2 DEF StreamInv, EndIsLast
  <2> QED BY <2>3 DEF StreamInv, EndIsLast
<1>2. response = "live" => told = <<>>
  BY DEF StreamInv, EndIsLast
<1>3. told \in {<<>>, <<"error">>}
  BY DEF StreamInv, LossIsFatal
<1> QED BY <1>1, <1>2, <1>3

LEMMA InitStream == StreamInit => StreamInv
<1> SUFFICES ASSUME StreamInit PROVE StreamInv
  OBVIOUS
<1>1. Typed
  <2>1. <<>> \in Ends /\ <<>> \in Told /\ <<>> \in Seq(Events)
    BY DEF Ends, Told
  <2> QED BY <2>1 DEF StreamInit, Typed
<1>2. Len(queue) = 0 /\ 1 .. Len(queue) = {}
  BY DEF StreamInit
<1>3. LoopHasNoEnd
  BY <1>2 DEF StreamInit, LoopHasNoEnd, Rounds
<1>4. EndIsLast
  BY <1>2 DEF StreamInit, EndIsLast
<1>5. LossIsFatal
  BY <1>2 DEF StreamInit, LossIsFatal
<1> QED BY <1>1, <1>3, <1>4, <1>5 DEF StreamInv

\* The loop goes on, or claims the end of the file.
LEMMA ClaimInv ==
  ASSUME StreamInv, producer \in {"top", "decode"},
         NEW events \in Ends \ {<<"seg">>, <<"mark">>}, FinishWith(events),
         UNCHANGED <<before, queue, told, tail, response, timedOut, dropped>>
  PROVE  StreamInv'
<1>1. /\ todo = <<>> /\ then = "top" /\ told \in {<<>>, <<"error">>}
      /\ response = "live" => told = <<>>
      /\ \A k \in 1 .. Len(queue) : queue[k] \notin Endings
  BY DEF StreamInv, LoopHasNoEnd
<1>2. CASE stage \in {"Processing", "Finishing"} /\ events # <<>>
  <2>1. /\ stage' = "Finishing" /\ producer' = "emit" /\ todo' = events /\ then' = "over"
        /\ todo' # <<>> /\ todo' # <<"mark">> /\ ~timedOut /\ ~dropped
    BY <1>2 DEF FinishWith, StreamInv, LoopHasNoEnd, LossIsFatal
  <2>2. Typed'
    BY <2>1 DEF StreamInv, Typed
  <2>3. LoopHasNoEnd'
    BY <1>1, <2>1 DEF LoopHasNoEnd, StreamInv
  <2>4. EndIsLast'
    BY <1>1, <2>1 DEF EndIsLast, StreamInv, Endings
  <2>5. LossIsFatal'
    BY <1>1, <2>1 DEF LossIsFatal, StreamInv
  <2> QED BY <2>2, <2>3, <2>4, <2>5 DEF StreamInv
<1>3. CASE ~(stage \in {"Processing", "Finishing"} /\ events # <<>>)
  <2>1. /\ stage' = (IF stage = "TimedOut" THEN stage ELSE "Finished")
        /\ producer' = "over" /\ todo' = <<>> /\ then' = "top"
    BY <1>1, <1>3 DEF FinishWith, ProducerEnds
  <2>2. Typed'
    BY <2>1 DEF StreamInv, Typed, Ends
  <2>3. LoopHasNoEnd'
    BY <1>1, <2>1 DEF LoopHasNoEnd, StreamInv, Rounds
  <2>4. EndIsLast'
    BY <1>1, <2>1 DEF EndIsLast, StreamInv, Endings
  <2>5. LossIsFatal'
    BY <1>1, <2>1 DEF LossIsFatal, StreamInv
  <2> QED BY <2>2, <2>3, <2>4, <2>5 DEF StreamInv
<1> QED BY <1>2, <1>3

\* An event goes into the channel.
LEMMA SentInv ==
  ASSUME StreamInv, producer \in {"emit", "wait"}, response = "live", stage # "TimedOut",
         NEW back \in {"Processing", "Finishing"}, back = "Processing" => then = "top",
         Sent(back), before' \in {"Processing", "Finishing"},
         UNCHANGED <<then, told, tail, response, timedOut>>
  PROVE  StreamInv'
<1> DEFINE e == Head(todo)
<1>1. todo \in Ends /\ todo # <<>> /\ queue \in Seq(Events)
  BY DEF StreamInv, Typed, LoopHasNoEnd
<1>2. e \in Events /\ Tail(todo) \in Ends
  BY <1>1, OneLess DEF Ends, Events, Endings
<1>3. /\ queue' \in Seq(Events) /\ Len(queue') = Len(queue) + 1 /\ Len(queue) \in Nat
      /\ queue'[Len(queue) + 1] = e /\ queue' # <<>>
      /\ \A k \in 1 .. Len(queue) : queue'[k] = queue[k]
  <2>1. queue' = Append(queue, e)
    BY DEF Sent
  <2>2. \A q \in Seq(Events) : Len(q) = Len(queue) + 1 => q # <<>>
    BY <1>1
  <2> QED BY <1>1, <1>2, <2>1, <2>2, AppendIs
<1>4. todo' = Tail(todo) /\ dropped' = dropped /\ ~timedOut /\ ~dropped
  BY DEF Sent, StreamInv, LoopHasNoEnd, LossIsFatal
<1>5. Typed'
  BY <1>2, <1>3, <1>4 DEF Sent, StreamInv, Typed
<1>6. LoopHasNoEnd'
  <2>1. then = "top" => todo = <<"seg">> /\ e = "seg" /\ todo' = <<>> /\ Len(todo) = 1
    BY SMTT(30), <1>1, <1>4, OneLess DEF StreamInv, LoopHasNoEnd, Rounds
  <2>2. then' = "top" => /\ todo' \in Rounds /\ \A k \in 1 .. Len(queue') : queue'[k] \notin Endings
                         /\ told' \in {<<>>, <<"error">>} /\ (response' = "live" => told' = <<>>)
    BY <1>3, <2>1 DEF StreamInv, LoopHasNoEnd, Rounds, Endings
  <2>3. (Len(todo) = 1 /\ todo' = <<>>) \/ (Len(todo) > 1 /\ Len(todo) # 1 /\ todo' # <<>>)
    BY <1>1, <1>4, Behind
  <2>4. then = "top" => Len(todo) = 1
    BY <2>1
  <2> HIDE DEF e
  <2>5. producer' = (IF Len(todo) > 1 THEN "emit" ELSE then) /\ then' = then
        /\ stage' = (IF Len(todo) = 1 /\ then = "over" THEN "Finished" ELSE back)
    BY DEF Sent
  <2>6. then \in {"top", "over"}
    BY DEF StreamInv, Typed
  <2>7. CASE Len(todo) > 1 /\ Len(todo) # 1 /\ todo' # <<>>
    <3>1. producer' = "emit" /\ stage' = back /\ then = "over" /\ back = "Finishing"
      BY <2>4, <2>5, <2>6, <2>7
    <3> QED BY <1>4, <2>5, <2>7, <3>1 DEF LoopHasNoEnd
  <2>8. CASE Len(todo) = 1 /\ todo' = <<>> /\ then = "top"
    <3>1. producer' = "top" /\ stage' = back
      BY <2>5, <2>8
    <3> QED BY <1>4, <2>2, <2>5, <2>8, <3>1 DEF LoopHasNoEnd
  <2>9. CASE Len(todo) = 1 /\ todo' = <<>> /\ then = "over"
    <3>1. producer' = "over" /\ stage' = "Finished"
      BY <2>5, <2>9
    <3> QED BY <1>4, <2>5, <2>9, <3>1 DEF LoopHasNoEnd
  <2> QED BY <2>3, <2>6, <2>7, <2>8, <2>9
<1>7. EndIsLast'
  <2>1. CASE todo = <<"mark">>
    <3>1. e = "mark" /\ todo' = <<>>
      BY <1>1, <1>4, <2>1, OneLess
    <3>2. \A k \in 1 .. Len(queue) : queue[k] \in Endings => k = Len(queue) /\ queue[k] = "done"
      BY <1>3, <2>1 DEF StreamInv, EndIsLast, Endings
    <3>3. CASE queue = <<>>
      <4>1. told = <<"done">> /\ Len(queue) = 0
        BY <1>1, <2>1, <3>3 DEF StreamInv, EndIsLast
      <4>2. queue' = <<"mark">>
        BY <1>3, <3>1, <4>1, OneElement DEF Events, Endings
      <4> QED BY <3>1, <4>1, <4>2 DEF EndIsLast
    <3>4. CASE queue # <<>>
      <4>1. told = <<>> /\ queue[Len(queue)] = "done" /\ Len(queue) > 0
        BY <1>1, <1>3, <2>1, <3>4 DEF StreamInv, EndIsLast
      <4> HIDE DEF e
      <4> QED BY <1>3, <3>1, <3>2, <4>1 DEF EndIsLast, Endings
    <3> QED BY <3>3, <3>4
  <2>2. CASE todo # <<"mark">>
    <3>1. /\ \A k \in 1 .. Len(queue) : queue[k] \notin Endings
          /\ told = <<>>
      BY <1>1, <2>2, NothingEnded
    <3>2. \/ e = "seg" /\ todo' # <<"mark">>
          \/ e \in {"last", "error"} /\ todo' = <<>> /\ todo' # <<"mark">>
          \/ e = "done" /\ todo' = <<"mark">>
      BY <1>1, <1>4, <2>2, Behind
    <3>3. \A k \in 1 .. Len(queue') : queue'[k] \in Endings => k = Len(queue') /\ queue'[k] = e
      BY <1>3, <3>1
    <3> HIDE DEF e
    <3>4. todo' # <<"mark">> \/ queue'[Len(queue')] = "done"
      BY <1>3, <3>2
    <3>5. e # "mark"
      BY <3>2
    <3> QED BY <1>3, <3>1, <3>2, <3>3, <3>4, <3>5 DEF EndIsLast, Endings
  <2> QED BY <2>1, <2>2
<1>8. LossIsFatal'
  <2>1. told \notin {<<>>, <<"error">>} => todo' = <<>>
    BY <1>1, <1>4, OneLess DEF StreamInv, LossIsFatal
  <2> QED BY <1>4, <2>1 DEF LossIsFatal, StreamInv
<1> QED BY <1>5, <1>6, <1>7, <1>8 DEF StreamInv

\* A send fails: what was not the mark is lost, and so is the rest.
LEMMA NotSentInv ==
  ASSUME StreamInv, producer \in {"emit", "wait"}, stage # "TimedOut",
         NotSent, before' \in {"Processing", "Finishing"},
         UNCHANGED <<then, told, tail, response, timedOut>>
  PROVE  StreamInv'
<1>1. todo \in Ends /\ todo # <<>> /\ ~timedOut /\ ~dropped
  BY DEF StreamInv, Typed, LoopHasNoEnd, LossIsFatal
<1>2. /\ dropped' = (dropped \/ Head(todo) # "mark") /\ dropped' \in BOOLEAN
      /\ producer' = "over" /\ todo' = <<>> /\ stage' = "Finished" /\ queue' = queue
  BY DEF NotSent
<1>3. dropped' => /\ \A k \in 1 .. Len(queue) : queue[k] \notin Endings
                  /\ told \in {<<>>, <<"error">>}
  <2>1. todo = <<"mark">> => Head(todo) = "mark"
    BY OneLess, <1>1
  <2> QED BY <1>1, <1>2, <2>1, NothingEnded
<1>4. Typed'
  BY <1>2 DEF StreamInv, Typed, Ends
<1>5. LoopHasNoEnd'
  BY <1>1, <1>2 DEF StreamInv, LoopHasNoEnd, Rounds
<1>6. <<>> # <<"mark">>
  OBVIOUS
<1>7. EndIsLast'
  <2>1. \A k \in 1 .. Len(queue) : queue[k] = "done" /\ k # Len(queue) =>
                                     k = Len(queue) - 1 /\ queue[k + 1] = "mark"
    BY DEF StreamInv, EndIsLast
  <2> QED BY <1>1, <1>2, <1>6, <2>1 DEF StreamInv, EndIsLast
<1>8. LossIsFatal'
  BY <1>2, <1>3 DEF StreamInv, LossIsFatal
<1> QED BY <1>4, <1>5, <1>7, <1>8 DEF StreamInv

\* The client takes the first event of the channel.
LEMMA RecvInv ==
  ASSUME StreamInv, Recv
  PROVE  StreamInv'
<1> DEFINE e == queue[1]
           t == Tail(queue)
<1>1. /\ queue \in Seq(Events) /\ queue # <<>> /\ Len(queue) \in Nat \ {0} /\ e \in Events
      /\ Head(queue) = e /\ t \in Seq(Events) /\ Len(t) = Len(queue) - 1
      /\ \A k \in 1 .. Len(t) : t[k] = queue[k + 1]
  <2>1. queue \in Seq(Events) /\ queue # <<>>
    BY DEF StreamInv, Typed, Recv
  <2> QED BY <2>1, TailIs
<1>2. queue' = t /\ response = "live" /\ ~timedOut
      /\ told' = (IF e \in Endings \/ told # <<>> THEN Append(told, e) ELSE told)
      /\ UNCHANGED <<producer, todo, then, stage, before, tail, response, timedOut, dropped>>
  BY <1>1 DEF Recv, Yield
<1> HIDE DEF t
<1>3. t = <<>> <=> Len(queue) = 1
  BY <1>1, NoElement
<1>4. CASE told = <<>> /\ e \notin Endings
  <2>1. told' = told
    BY <1>2, <1>4
  <2>2. Typed'
    BY <1>1, <1>2, <2>1 DEF StreamInv, Typed
  <2>3. LoopHasNoEnd'
    <3>1. (\A k \in 1 .. Len(queue) : queue[k] \notin Endings) =>
            \A k \in 1 .. Len(t) : t[k] \notin Endings
      BY <1>1
    <3> QED BY <1>2, <2>1, <3>1 DEF StreamInv, LoopHasNoEnd
  <2>4. EndIsLast'
    <3>1. \A k \in 1 .. Len(t) :
            /\ t[k] \in {"last", "error"} => k = Len(t) /\ todo = <<>>
            /\ t[k] = "mark" => k = Len(t) /\ todo = <<>>
      BY <1>1 DEF StreamInv, EndIsLast
    <3>2. \A k \in 1 .. Len(t) :
            t[k] = "done" => \/ k = Len(t) /\ todo \in {<<>>, <<"mark">>}
                             \/ k = Len(t) - 1 /\ t[k + 1] = "mark"
      <4> SUFFICES ASSUME NEW k \in 1 .. Len(t), t[k] = "done"
                   PROVE  \/ k = Len(t) /\ todo \in {<<>>, <<"mark">>}
                          \/ k = Len(t) - 1 /\ t[k + 1] = "mark"
        OBVIOUS
      <4>1. k + 1 \in 1 .. Len(queue) /\ queue[k + 1] = "done"
        BY <1>1
      <4>2. \/ k + 1 = Len(queue) /\ todo \in {<<>>, <<"mark">>}
            \/ k + 1 = Len(queue) - 1 /\ queue[(k + 1) + 1] = "mark"
        BY <4>1 DEF StreamInv, EndIsLast
      <4> QED BY <1>1, <4>2
    <3>3. \A k \in 1 .. Len(t) : k > 1 /\ t[k] = "mark" => t[k - 1] = "done"
      <4> SUFFICES ASSUME NEW k \in 1 .. Len(t), k > 1, t[k] = "mark" PROVE t[k - 1] = "done"
        OBVIOUS
      <4>1. k + 1 \in 1 .. Len(queue) /\ k + 1 > 1 /\ queue[k + 1] = "mark" /\ (k + 1) - 1 = k
        BY <1>1
      <4>2. queue[k] = "done"
        BY <4>1 DEF StreamInv, EndIsLast
      <4>3. k - 1 \in 1 .. Len(t) /\ (k - 1) + 1 = k
        BY <1>1
      <4> QED BY <1>1, <4>2, <4>3
    <3>4. \A k \in 1 .. Len(t) : k = 1 => t[k] # "mark"
      <4> SUFFICES ASSUME 1 \in 1 .. Len(t), t[1] = "mark" PROVE FALSE
        OBVIOUS
      <4>1. 2 \in 1 .. Len(queue) /\ queue[2] = "mark" /\ 2 - 1 = 1 /\ 2 > 1
        BY <1>1
      <4>2. queue[1] = "done"
        BY <4>1 DEF StreamInv, EndIsLast
      <4> QED BY <1>4, <4>2 DEF Endings
    <3>5. todo = <<"mark">> => t # <<>> /\ t[Len(t)] = "done"
      <4> SUFFICES ASSUME todo = <<"mark">> PROVE t # <<>> /\ t[Len(t)] = "done"
        OBVIOUS
      <4>1. queue[Len(queue)] = "done"
        BY <1>1 DEF StreamInv, EndIsLast
      <4>2. Len(queue) # 1
        BY <1>4, <4>1 DEF Endings
      <4> QED BY <1>1, <1>3, <4>1, <4>2
    <3> QED BY <1>2, <1>4, <2>1, <3>1, <3>2, <3>3, <3>4, <3>5 DEF EndIsLast
  <2>5. LossIsFatal'
    <3>1. (\A k \in 1 .. Len(queue) : queue[k] \notin Endings) =>
            \A k \in 1 .. Len(t) : t[k] \notin Endings
      BY <1>1
    <3> QED BY <1>2, <2>1, <3>1 DEF StreamInv, LossIsFatal
  <2> QED BY <2>2, <2>3, <2>4, <2>5 DEF StreamInv
<1>5. CASE told = <<>> /\ e \in Endings
  <2>1. told' = <<e>>
    BY <1>1, <1>2, <1>5, AppendIs, OneElement
  <2>2. 1 \in 1 .. Len(queue)
    BY <1>1
  <2>3. then = "over" /\ ~dropped /\ e # "mark" /\ then' = "over" /\ ~dropped'
    <3>1. then = "over" /\ ~dropped
      BY <1>5, <2>2 DEF StreamInv, LoopHasNoEnd, LossIsFatal, Typed
    <3>2. e # "mark"
      BY <1>5, <2>2 DEF StreamInv, EndIsLast
    <3> QED BY <1>2, <3>1, <3>2
  <2>4. \/ e \in {"last", "error"} /\ t = <<>> /\ todo = <<>>
        \/ e = "done" /\ t = <<>> /\ todo \in {<<>>, <<"mark">>}
        \/ e = "done" /\ t = <<"mark">> /\ todo = <<>>
    <3>1. CASE e \in {"last", "error"}
      BY <1>3, <2>2, <3>1 DEF StreamInv, EndIsLast
    <3>2. CASE e = "done" /\ Len(queue) = 1
      BY <1>1, <1>3, <2>2, <3>2 DEF StreamInv, EndIsLast
    <3>3. CASE e = "done" /\ Len(queue) # 1
      <4>1. 1 = Len(queue) - 1 /\ queue[1 + 1] = "mark"
        BY <1>1, <2>2, <3>3 DEF StreamInv, EndIsLast
      <4>2. Len(queue) = 2 /\ queue[2] = "mark" /\ 2 \in 1 .. Len(queue)
        <5>1. Len(queue) \in Nat
          BY <1>1
        <5>2. Len(queue) = 2
          BY <4>1, <5>1
        <5> QED BY <4>1, <5>2
      <4>5. Len(t) = 1 /\ 1 \in 1 .. Len(t) /\ t[1] = queue[1 + 1]
        BY <1>1, <4>2
      <4>3. t = <<"mark">>
        BY <1>1, <4>1, <4>5, OneElement DEF Events, Endings
      <4>4. todo = <<>>
        BY <4>2 DEF StreamInv, EndIsLast
      <4> QED BY <3>3, <4>3, <4>4
    <3> QED BY <1>5, <2>3, <3>1, <3>2, <3>3 DEF Endings
  <2>5. told' \in Told
    BY <2>1, <2>4 DEF Told
  <2>6. Typed'
    BY <1>1, <1>2, <2>5 DEF StreamInv, Typed
  <2>7. LoopHasNoEnd'
    BY <1>2, <2>3 DEF StreamInv, LoopHasNoEnd
  <2>8. /\ <<>> # <<"mark">> /\ Len(<<>>) = 0 /\ Len(<<"mark">>) = 1 /\ <<"mark">>[1] = "mark"
        /\ <<"mark">>[Len(<<"mark">>)] = "mark"
    OBVIOUS
  <2>9. EndIsLast'
    <3>1. CASE t = <<>>
      <4>1. todo' \in {<<>>, <<"mark">>} /\ (todo' = <<"mark">> => told' = <<"done">>)
        BY <1>2, <2>1, <2>4, <2>8, <3>1
      <4>2. queue' = <<>> /\ 1 .. Len(queue') = {} /\ response' = "live"
        BY <1>2, <2>8, <3>1
      <4> QED BY <4>1, <4>2 DEF EndIsLast
    <3>2. CASE t = <<"mark">>
      <4>1. todo' = <<>> /\ told' = <<"done">> /\ todo' # <<"mark">>
        BY <1>2, <2>1, <2>4, <2>8, <3>2
      <4>2. queue' = <<"mark">> /\ Len(queue') = 1 /\ queue'[1] = "mark" /\ response' = "live"
        BY <1>2, <2>8, <3>2
      <4> QED BY <4>1, <4>2 DEF EndIsLast
    <3> QED BY <2>4, <3>1, <3>2
  <2>10. LossIsFatal'
    BY <1>2, <2>3, <2>4 DEF LossIsFatal
  <2> QED BY <2>6, <2>7, <2>9, <2>10 DEF StreamInv
<1>6. CASE told # <<>>
  <2>1. queue = <<"mark">> /\ told = <<"done">>
    BY <1>1, <1>2, <1>6 DEF StreamInv, EndIsLast
  <2>2. e = "mark" /\ t = <<>>
    BY <1>3, <2>1
  <2>3. told' = <<"done", "mark">>
    <3>1. told' = Append(told, "mark")
      BY <1>2, <1>6, <2>2
    <3>2. told \in Seq(Events) /\ "mark" \in Events /\ "done" \in Events
      BY <2>1 DEF Events, Endings
    <3> QED BY <2>1, <3>1, <3>2, AppendToOne
  <2>4. todo = <<>> /\ then = "over" /\ ~dropped
    <3>1. 1 \in 1 .. Len(queue)
      BY <1>1
    <3>2. told \notin {<<>>, <<"error">>}
      BY <2>1
    <3> QED BY <2>2, <3>1, <3>2 DEF StreamInv, EndIsLast, LossIsFatal
  <2>5. Typed'
    BY <1>1, <1>2, <2>3 DEF StreamInv, Typed, Told
  <2>6. LoopHasNoEnd'
    BY <1>2, <2>4 DEF StreamInv, LoopHasNoEnd
  <2>7. <<>> # <<"mark">> /\ Len(<<>>) = 0
    OBVIOUS
  <2>8. EndIsLast'
    BY <1>2, <2>2, <2>4, <2>7 DEF EndIsLast
  <2>9. LossIsFatal'
    BY <1>2, <2>4 DEF LossIsFatal
  <2> QED BY <2>5, <2>6, <2>8, <2>9 DEF StreamInv
<1> QED BY <1>4, <1>5, <1>6

\* What does not move the events keeps the invariant.
LEMMA StillInv ==
  ASSUME StreamInv, UNCHANGED <<producer, todo, then, stage, before, queue, told, tail, response,
                                timedOut, dropped>>
  PROVE  StreamInv'
BY DEF StreamInv, Typed, LoopHasNoEnd, EndIsLast, LossIsFatal

LEMMA SendInv ==
  ASSUME StreamInv, SendEvent \/ SendWakes
  PROVE  StreamInv'
<1>1. CASE SendEvent /\ ~Listening
  BY <1>1, NotSentInv DEF SendEvent
<1>2. CASE SendEvent /\ Listening /\ Len(queue) < Places
  <2>1. stage \in {"Processing", "Finishing"} /\ (stage = "Processing" => then = "top")
        /\ stage # "TimedOut" /\ before' = stage /\ response = "live" /\ producer = "emit"
    BY <1>2 DEF SendEvent, Listening, StreamInv, LoopHasNoEnd
  <2>2. Sent(stage) /\ UNCHANGED <<then, told, tail, response, timedOut>>
    BY <1>2 DEF SendEvent
  <2> QED BY <2>1, <2>2, SentInv
<1>3. CASE SendEvent /\ Listening /\ ~(Len(queue) < Places)
  <2>1. /\ producer = "emit" /\ producer' = "wait" /\ stage' = "Sending" /\ before' = stage
        /\ stage \in {"Processing", "Finishing"} /\ (stage = "Processing" => then = "top")
        /\ UNCHANGED <<todo, then, queue, told, tail, response, timedOut, dropped>>
    BY <1>3 DEF SendEvent, StreamInv, LoopHasNoEnd
  <2>2. todo # <<>> /\ ~timedOut /\ ~dropped
    BY <2>1 DEF StreamInv, LoopHasNoEnd, LossIsFatal
  <2>3. Typed'
    BY <2>1 DEF StreamInv, Typed
  <2>4. LoopHasNoEnd'
    BY <2>1, <2>2 DEF StreamInv, LoopHasNoEnd
  <2>5. EndIsLast' /\ LossIsFatal'
    BY <2>1, <2>2 DEF StreamInv, EndIsLast, LossIsFatal
  <2> QED BY <2>3, <2>4, <2>5 DEF StreamInv
<1>4. CASE SendWakes
  <2>1. /\ stage = "Sending" /\ stage # "TimedOut" /\ before' = before /\ producer = "wait"
        /\ before \in {"Processing", "Finishing"} /\ (before = "Processing" => then = "top")
        /\ UNCHANGED <<then, told, tail, response, timedOut>>
    BY <1>4 DEF SendWakes, StreamInv, Typed, LoopHasNoEnd
  <2>2. CASE NotSent
    BY <2>1, <2>2, NotSentInv
  <2>3. CASE Listening /\ Sent(before)
    BY <2>1, <2>3, SentInv DEF Listening
  <2> QED BY <1>4, <2>2, <2>3 DEF SendWakes
<1> QED BY <1>1, <1>2, <1>3, <1>4

\* After a timeout nothing is sent.
LEMMA SendTooLateInv ==
  ASSUME StreamInv, SendTooLate
  PROVE  StreamInv'
<1>1. /\ then = "top" /\ stage = "TimedOut" /\ told \in {<<>>, <<"error">>}
      /\ \A k \in 1 .. Len(queue) : queue[k] \notin Endings
      /\ response = "live" => told = <<>>
  BY DEF StreamInv, LoopHasNoEnd, SendTooLate
<1>2. /\ producer' = "over" /\ todo' = <<>> /\ stage' = "TimedOut" /\ dropped' = TRUE
      /\ UNCHANGED <<then, before, queue, told, tail, response, timedOut>>
  BY <1>1 DEF SendTooLate, ProducerEnds
<1>3. Typed' /\ <<>> # <<"mark">>
  BY <1>2 DEF StreamInv, Typed, Ends
<1>4. LoopHasNoEnd'
  BY <1>1, <1>2 DEF StreamInv, LoopHasNoEnd, Rounds
<1>5. EndIsLast'
  BY <1>1, <1>2, <1>3 DEF StreamInv, EndIsLast, Endings
<1>6. LossIsFatal'
  BY <1>1, <1>2 DEF StreamInv, LossIsFatal
<1> QED BY <1>3, <1>4, <1>5, <1>6 DEF StreamInv

\* The watchdog gives up; the response goes over to its error.
LEMMA ExpiresInv ==
  ASSUME StreamInv, StreamExpires
  PROVE  StreamInv'
<1>1. /\ then = "top" /\ stage = "Processing" /\ stage' = "TimedOut" /\ timedOut' = TRUE
      /\ producer # "wait" /\ producer # "over"
      /\ UNCHANGED <<producer, todo, then, before, queue, told, tail, response, dropped>>
  BY DEF StreamInv, LoopHasNoEnd, StreamExpires
<1>2. Typed'
  BY <1>1 DEF StreamInv, Typed
<1>3. LoopHasNoEnd'
  BY <1>1 DEF StreamInv, LoopHasNoEnd
<1>4. EndIsLast' /\ LossIsFatal'
  BY <1>1 DEF StreamInv, EndIsLast, LossIsFatal
<1> QED BY <1>2, <1>3, <1>4 DEF StreamInv

LEMMA TimeoutSeenInv ==
  ASSUME StreamInv, TimeoutSeen
  PROVE  StreamInv'
<1>1. /\ then = "top" /\ stage = "TimedOut" /\ told = <<>> /\ timedOut
      /\ todo \in Rounds
  BY DEF StreamInv, LoopHasNoEnd, TimeoutSeen
<1>2. /\ response' = "tail" /\ queue' = <<>> /\ tail' \in ErrorEvents /\ dropped' \in BOOLEAN
      /\ UNCHANGED <<producer, todo, then, stage, before, told, timedOut>>
  BY DEF TimeoutSeen, StreamInv, Typed
<1>3. <<>> # <<"mark">> /\ <<"seg">> # <<"mark">> /\ Len(<<>>) = 0 /\ 1 .. 0 = {}
  OBVIOUS
<1>4. tail' # <<>> /\ tail' \in {<<>>, <<"error">>, <<"seg", "error">>}
  BY <1>2 DEF ErrorEvents
<1>5. Typed'
  BY <1>2, <1>4 DEF StreamInv, Typed
<1>6. LoopHasNoEnd'
  BY <1>1, <1>2, <1>3 DEF StreamInv, LoopHasNoEnd
<1>7. EndIsLast'
  BY <1>1, <1>2, <1>3, <1>4 DEF StreamInv, EndIsLast, Rounds
<1>8. LossIsFatal'
  BY <1>1, <1>2, <1>3 DEF StreamInv, LossIsFatal
<1> QED BY <1>5, <1>6, <1>7, <1>8 DEF StreamInv

LEMMA YieldTailInv ==
  ASSUME StreamInv, YieldTail
  PROVE  StreamInv'
<1>1. /\ timedOut /\ stage = "TimedOut" /\ then = "top" /\ response = "tail" /\ queue = <<>>
      /\ tail \in {<<>>, <<"error">>, <<"seg", "error">>}
      /\ told = (IF tail = <<>> THEN <<"error">> ELSE <<>>)
  BY DEF StreamInv, Typed, LoopHasNoEnd, EndIsLast, YieldTail
<1>2. UNCHANGED <<producer, todo, then, stage, before, queue, timedOut, dropped>>
  BY DEF YieldTail
<1>3. /\ told' \in {<<>>, <<"error">>} /\ tail' \in {<<>>, <<"error">>}
      /\ \/ response' = "closed"
         \/ response' = "tail" /\ told' = (IF tail' = <<>> THEN <<"error">> ELSE <<>>)
  <2>1. CASE tail = <<>>
    BY <1>1, <2>1 DEF YieldTail
  <2>2. CASE tail = <<"error">>
    <3>1. Head(tail) = "error" /\ Tail(tail) = <<>> /\ told = <<>>
      BY <1>1, <2>2, OneLess DEF Ends
    <3>2. told' = Append(told, "error") /\ tail' = <<>> /\ response' = "tail"
      BY <1>1, <2>2, <3>1 DEF YieldTail, Yield, Endings
    <3>3. told' = <<"error">>
      BY <3>1, <3>2, AppendToNone DEF Events, Endings
    <3> QED BY <3>2, <3>3
  <2>3. CASE tail = <<"seg", "error">>
    <3>1. Head(tail) = "seg" /\ Tail(tail) = <<"error">> /\ told = <<>>
      BY <1>1, <2>3, OneLess DEF Ends
    <3>2. told' = told /\ tail' = <<"error">> /\ response' = "tail"
      BY <1>1, <2>3, <3>1 DEF YieldTail, Yield, Endings
    <3> QED BY <3>1, <3>2
  <2> QED BY <1>1, <2>1, <2>2, <2>3
<1>4. Typed'
  BY <1>2, <1>3 DEF StreamInv, Typed, Told
<1>5. LoopHasNoEnd'
  BY <1>1, <1>2, <1>3 DEF StreamInv, LoopHasNoEnd
<1>6. EndIsLast'
  BY <1>1, <1>2, <1>3 DEF StreamInv, EndIsLast
<1>7. LossIsFatal'
  BY <1>1, <1>2, <1>3 DEF StreamInv, LossIsFatal
<1> QED BY <1>4, <1>5, <1>6, <1>7 DEF StreamInv

LEMMA LeavesInv ==
  ASSUME StreamInv, ClientLeaves \/ StreamCloses
  PROVE  StreamInv'
<1>1. /\ response' \in {"gone", "closed"} /\ queue' = <<>>
      /\ UNCHANGED <<producer, todo, then, stage, before, told, tail, timedOut, dropped>>
  BY DEF ClientLeaves, StreamCloses
<1>2. Len(<<>>) = 0 /\ 1 .. 0 = {}
  OBVIOUS
<1>3. Typed'
  BY <1>1 DEF StreamInv, Typed
<1>4. LoopHasNoEnd'
  BY <1>1, <1>2 DEF StreamInv, LoopHasNoEnd
<1>5. EndIsLast'
  BY <1>1, <1>2 DEF StreamInv, EndIsLast
<1>6. LossIsFatal'
  BY <1>1, <1>2 DEF StreamInv, LossIsFatal
<1> QED BY <1>3, <1>4, <1>5, <1>6 DEF StreamInv

LEMMA StreamStep == StreamInv /\ [StreamNext]_streamVars => StreamInv'
<1> SUFFICES ASSUME StreamInv, [StreamNext]_streamVars PROVE StreamInv'
  OBVIOUS
<1>1. CASE LoopTop
  <2>1. CASE ~stop
    <3>1. /\ producer = "top" /\ producer' = "decode"
          /\ UNCHANGED <<todo, then, stage, before, queue, told, tail, response, timedOut, dropped>>
      BY <1>1, <2>1 DEF LoopTop
    <3> QED BY <3>1 DEF StreamInv, Typed, LoopHasNoEnd, EndIsLast, LossIsFatal
  <2>2. CASE stop /\ api = "native"
    <3>1. <<"last">> \in Ends \ {<<"seg">>, <<"mark">>}
      BY DEF Ends
    <3> QED BY <1>1, <2>2, <3>1, ClaimInv DEF LoopTop
  <2>3. CASE stop /\ api # "native"
    <3>1. <<>> \in Ends \ {<<"seg">>, <<"mark">>}
      BY DEF Ends
    <3>2. FinishWith(<<>>)
      BY <1>1, <2>3 DEF LoopTop, FinishWith
    <3> QED BY <1>1, <3>1, <3>2, ClaimInv DEF LoopTop
  <2> QED BY <2>1, <2>2, <2>3
<1>2. CASE ChunkDecoded
  <2>1. /\ producer = "decode" /\ todo = <<>> /\ then = "top"
        /\ UNCHANGED <<stage, before, queue, told, tail, response, timedOut, dropped>>
        /\ \/ producer' = "top" /\ todo' = <<>> /\ then' = "top"
           \/ producer' = "emit" /\ todo' = <<"seg">> /\ then' = "top"
    BY <1>2 DEF ChunkDecoded, StreamInv, LoopHasNoEnd
  <2>2. <<"seg">> # <<>> /\ <<"seg">> # <<"mark">> /\ <<>> # <<"mark">>
    OBVIOUS
  <2>3. Typed'
    BY <2>1 DEF StreamInv, Typed, Ends
  <2>4. LoopHasNoEnd'
    BY <2>1, <2>2 DEF StreamInv, LoopHasNoEnd, Rounds
  <2>5. EndIsLast'
    BY <2>1, <2>2 DEF StreamInv, EndIsLast, LoopHasNoEnd, Endings
  <2>6. LossIsFatal'
    BY <2>1, <2>2 DEF StreamInv, LossIsFatal, LoopHasNoEnd
  <2> QED BY <2>3, <2>4, <2>5, <2>6 DEF StreamInv
<1>3. CASE FileEnds
  <2>1. PICK events \in {<<"last">>, <<>>, <<"seg", "done", "mark">>, <<"done", "mark">>} :
          FinishWith(events)
    BY <1>3 DEF FileEnds
  <2>2. events \in Ends \ {<<"seg">>, <<"mark">>}
    BY DEF Ends
  <2> QED BY <1>3, <2>1, <2>2, ClaimInv DEF FileEnds
<1>4. CASE DecodeFails
  <2>1. PICK events \in ErrorEvents : FinishWith(events)
    BY <1>4 DEF DecodeFails
  <2>2. events \in Ends \ {<<"seg">>, <<"mark">>}
    BY DEF Ends, ErrorEvents
  <2> QED BY <1>4, <2>1, <2>2, ClaimInv DEF DecodeFails
<1>5. CASE LinkAbort \/ StreamShutdown \/ StreamPoll \/ UNCHANGED streamVars
  BY <1>5, StillInv DEF LinkAbort, StreamShutdown, StreamPoll, streamVars
<1> QED BY <1>1, <1>2, <1>3, <1>4, <1>5, SendInv, SendTooLateInv, ExpiresInv, RecvInv,
           TimeoutSeenInv, YieldTailInv, LeavesInv
        DEF StreamNext, Decodes, Sends, Responds

\* For any channel, any timeout and any file: the stream ends once, with nothing after
\* its end, and a regular end comes only after everything else was delivered
\* (StreamWatchdog::claim_finish, send_stream_item).
THEOREM StreamTruth == StreamSpec => []StreamEndsTruly
<1>1. StreamInv => StreamEndsTruly
  <2> SUFFICES ASSUME StreamInv PROVE StreamEndsTruly
    OBVIOUS
  <2>1. StreamEndsOnce
    BY DEF StreamInv, Typed, Told, StreamEndsOnce
  <2>2. told # <<>> /\ told[1] # "error" => told \notin {<<>>, <<"error">>}
    OBVIOUS
  <2>3. DoneMeansWhole
    BY <2>2 DEF StreamInv, LossIsFatal, DoneMeansWhole
  <2> QED BY <2>1, <2>3 DEF StreamEndsTruly
<1> QED BY <1>1, InitStream, StreamStep, PTL DEF StreamSpec

-----------------------------------------------------------------------------
(* The rate limiter.                                                       *)

\* What a client was granted and what he may still take at once never exceed a full
\* bucket and what the rate yields, counted from any of his grants.
Covered(g, tokens, t, full, rpm) ==
  \A i \in 1 .. Len(g) :
    g[i] <= t /\ (Len(g) - i + 1) * Minute + tokens <= full + (t - g[i]) * rpm

\* The same between two grants.
Apart(g, full, rpm) ==
  \A i, j \in 1 .. Len(g) :
    i <= j => (j - i + 1) * Minute <= full + (g[j] - g[i]) * rpm

\* A client who is not in the map is one with a full bucket at the earliest time a
\* check that is still on its way has read.
Earliest == Greater(0, now - Lag)
TokensOf(ip) == IF ip \in DOMAIN buckets THEN buckets[ip].tokens ELSE Full
RefilledOf(ip) == IF ip \in DOMAIN buckets THEN buckets[ip].refilled ELSE Earliest

BucketsInBounds ==
  \A ip \in DOMAIN buckets :
    /\ buckets[ip].tokens <= Full
    /\ buckets[ip].refilled <= now /\ buckets[ip].refilled <= buckets[ip].seen + Lag

LimiterInv ==
  /\ LimiterTypeOK
  /\ BucketsInBounds
  /\ Amnesty => \A ip \in Addresses :
       /\ Covered(grants[ip], TokensOf(ip), RefilledOf(ip), Full, limiter.rpm)
       /\ Apart(grants[ip], Full, limiter.rpm)

LEMMA Additive ==
  ASSUME NEW a \in Int, NEW b \in Int, NEW c \in Int, NEW r \in Nat
  PROVE  /\ (b - a) * r + (c - b) * r = (c - a) * r /\ (c - a) * r \in Int
         /\ b <= c => b * r <= c * r
BY Z3T(30)

\* As time goes on a bucket gains no more than the rate.
LEMMA LaterCovered ==
  ASSUME NEW g \in Seq(Nat), NEW tokens \in Nat, NEW t \in Nat, NEW full \in Nat, NEW rpm \in Nat,
         NEW more \in Nat, NEW u \in Nat, t <= u, more <= tokens + (u - t) * rpm,
         Covered(g, tokens, t, full, rpm)
  PROVE  Covered(g, more, u, full, rpm)
<1> SUFFICES ASSUME NEW i \in 1 .. Len(g)
             PROVE  g[i] <= u /\ (Len(g) - i + 1) * Minute + more <= full + (u - g[i]) * rpm
  BY DEF Covered
<1> DEFINE x == (Len(g) - i + 1) * Minute
           y == (t - g[i]) * rpm
           z == (u - t) * rpm
           w == (u - g[i]) * rpm
<1>1. g[i] \in Nat /\ Len(g) \in Nat /\ Minute \in Nat
  BY LimiterAssumption
<1>2. x \in Int /\ y \in Int /\ z \in Int /\ w \in Int /\ y + z = w
  BY SMTT(30), <1>1, Additive
<1>3. g[i] <= t /\ x + tokens <= full + y /\ more <= tokens + z
  BY DEF Covered
<1> HIDE DEF x, y, z, w
<1>4. x + more <= full + w /\ g[i] <= u
  BY <1>1, <1>2, <1>3
<1> QED BY <1>4 DEF x, w

\* A token is taken.
LEMMA GrantCovered ==
  ASSUME NEW g \in Seq(Nat), NEW tokens \in Nat, NEW t \in Nat, NEW full \in Nat, NEW rpm \in Nat,
         Minute <= tokens, tokens <= full,
         Covered(g, tokens, t, full, rpm), Apart(g, full, rpm)
  PROVE  /\ Covered(Append(g, t), tokens - Minute, t, full, rpm)
         /\ Apart(Append(g, t), full, rpm)
<1> DEFINE h == Append(g, t)
           n == Len(g)
<1>1. /\ h \in Seq(Nat) /\ Len(h) = n + 1 /\ n \in Nat /\ h[n + 1] = t
      /\ \A k \in 1 .. n : h[k] = g[k]
  BY AppendIs
<1>2. Minute \in Nat /\ tokens \in Nat
  BY LimiterAssumption
<1> HIDE DEF h
<1>3. \A i \in 1 .. n : /\ g[i] \in Nat /\ g[i] <= t /\ (t - g[i]) * rpm \in Int
                        /\ (n - i + 1) * Minute \in Int
                        /\ (n - i + 1) * Minute + tokens <= full + (t - g[i]) * rpm
                        /\ ((n + 1) - i + 1) * Minute = (n - i + 1) * Minute + Minute
  <2> SUFFICES ASSUME NEW i \in 1 .. n
               PROVE  /\ g[i] \in Nat /\ g[i] <= t /\ (t - g[i]) * rpm \in Int
                      /\ (n - i + 1) * Minute \in Int
                      /\ (n - i + 1) * Minute + tokens <= full + (t - g[i]) * rpm
                      /\ ((n + 1) - i + 1) * Minute = (n - i + 1) * Minute + Minute
    OBVIOUS
  <2>1. g[i] \in Nat /\ (t - g[i]) * rpm \in Int
    BY Additive
  <2>2. \A m \in Int : m * Minute \in Int /\ (m + 1) * Minute = m * Minute + Minute
    BY <1>2
  <2>3. n - i + 1 \in Int /\ (n + 1) - i + 1 = (n - i + 1) + 1
    BY <1>1
  <2> QED BY <2>1, <2>2, <2>3 DEF Covered
<1>4. (t - t) * rpm = 0 /\ ((n + 1) - (n + 1) + 1) * Minute = Minute
  BY <1>1, <1>2
<1>5. Covered(h, tokens - Minute, t, full, rpm)
  <2> SUFFICES ASSUME NEW i \in 1 .. Len(h)
               PROVE  /\ h[i] <= t
                      /\ (Len(h) - i + 1) * Minute + (tokens - Minute) <= full + (t - h[i]) * rpm
    BY DEF Covered
  <2>1. CASE i \in 1 .. n
    <3> DEFINE x == (n - i + 1) * Minute
               y == (t - g[i]) * rpm
    <3>1. /\ h[i] = g[i] /\ g[i] <= t /\ x \in Int /\ y \in Int /\ x + tokens <= full + y
          /\ ((n + 1) - i + 1) * Minute = x + Minute
      BY <1>1, <1>3, <2>1
    <3> HIDE DEF x
    <3>2. (x + Minute) + (tokens - Minute) <= full + y
      BY <1>2, <3>1
    <3> QED BY <1>1, <3>1, <3>2
  <2>2. CASE i = n + 1
    BY <1>1, <1>2, <1>4, <2>2
  <2> QED BY <1>1, <2>1, <2>2
<1>6. Apart(h, full, rpm)
  <2> SUFFICES ASSUME NEW i \in 1 .. n + 1, NEW j \in 1 .. n + 1, i <= j
               PROVE  (j - i + 1) * Minute <= full + (h[j] - h[i]) * rpm
    BY <1>1 DEF Apart
  <2>1. CASE j \in 1 .. n
    <3>1. i \in 1 .. n /\ h[i] = g[i] /\ h[j] = g[j]
      <4>1. i \in 1 .. n
        BY <1>1, <2>1
      <4> QED BY <1>1, <2>1, <4>1
    <3> QED BY <2>1, <3>1 DEF Apart
  <2>2. CASE j = n + 1 /\ i = n + 1
    BY <1>1, <1>2, <1>4, <2>2
  <2>3. CASE j = n + 1 /\ i \in 1 .. n
    <3> DEFINE x == (n - i + 1) * Minute
               y == (t - g[i]) * rpm
    <3>1. /\ h[i] = g[i] /\ h[j] = t /\ x \in Int /\ y \in Int /\ x + tokens <= full + y
          /\ (j - i + 1) * Minute = x + Minute
      BY <1>1, <1>3, <2>3
    <3> HIDE DEF x
    <3>2. x + Minute <= full + y
      BY <1>2, <3>1
    <3> QED BY <3>1, <3>2
  <2> QED BY <1>1, <2>1, <2>2, <2>3
<1> QED BY <1>5, <1>6 DEF h

\* A bucket that is looked at.
LEMMA RefillIs ==
  ASSUME LimiterInv, NEW b \in Bucket, b.tokens <= Full, NEW t \in Nat
  PROVE  LET c == Refill(b, t)
         IN /\ c \in Bucket /\ c.tokens <= Full /\ c.seen = t
            /\ c.refilled = Greater(b.refilled, t) /\ b.refilled <= c.refilled
            /\ c.tokens <= b.tokens + (c.refilled - b.refilled) * limiter.rpm
<1> DEFINE r == limiter.rpm
           e == (t - b.refilled) * r
<1>1. r \in Nat /\ Full \in Nat /\ b.tokens \in Nat /\ b.refilled \in Nat
  <2>1. limiter.burst \in Nat /\ limiter.rpm \in Nat /\ Minute \in Nat
    BY LimiterAssumption DEF LimiterInv, LimiterTypeOK
  <2> QED BY <2>1 DEF Full, Bucket
<1>2. CASE t > b.refilled
  <2>1. t - b.refilled \in Nat /\ Elapsed(b, t) = t - b.refilled /\ Greater(b.refilled, t) = t
    BY <1>1, <1>2 DEF Elapsed, Greater
  <2>2. e \in Nat
    BY <1>1, <2>1
  <2> HIDE DEF e
  <2>3. /\ Refill(b, t) = [tokens |-> Lesser(b.tokens + e, Full), refilled |-> t, seen |-> t]
        /\ b.tokens + e \in Nat
    BY <1>1, <1>2, <2>1, <2>2 DEF Refill, e
  <2>4. Lesser(b.tokens + e, Full) \in Nat /\ Lesser(b.tokens + e, Full) <= Full
        /\ Lesser(b.tokens + e, Full) <= b.tokens + e
    BY <1>1, <2>3 DEF Lesser
  <2> QED BY <1>1, <1>2, <2>1, <2>3, <2>4 DEF Bucket, e
<1>3. CASE ~(t > b.refilled)
  <2>1. /\ Refill(b, t) = [tokens |-> b.tokens, refilled |-> b.refilled, seen |-> t]
        /\ Greater(b.refilled, t) = b.refilled
    BY <1>1, <1>3 DEF Refill, Greater
  <2>2. (b.refilled - b.refilled) * r = 0
    BY <1>1
  <2> QED BY <1>1, <2>1, <2>2 DEF Bucket
<1> QED BY <1>2, <1>3

\* A check that finds the account (tokens, refilled) of a client, kept or not, and the
\* grants it leaves behind.
LEMMA CheckKeeps ==
  ASSUME LimiterInv, NEW ip \in Addresses, NEW t \in Nat, Earliest <= t, t <= now,
         NEW b \in Bucket, b.tokens <= Full, b.refilled <= now,
         Amnesty => Covered(grants[ip], b.tokens, b.refilled, Full, limiter.rpm),
         NEW g, g = IF Passes(b, t) THEN Append(grants[ip], TryConsume(b, t).refilled)
                                    ELSE grants[ip]
  PROVE  LET c == TryConsume(b, t)
         IN /\ c \in Bucket /\ c.tokens <= Full /\ c.refilled <= now /\ c.refilled <= c.seen + Lag
            /\ g \in Seq(Nat)
            /\ Amnesty => /\ Covered(g, c.tokens, c.refilled, Full, limiter.rpm)
                          /\ Apart(g, Full, limiter.rpm)
<1> DEFINE d == Refill(b, t)
           c == TryConsume(b, t)
           f == grants[ip]
<1>1. /\ limiter.rpm \in Nat /\ Full \in Nat /\ Minute \in Nat /\ Lag \in Nat /\ now \in Nat
      /\ f \in Seq(Nat) /\ b.tokens \in Nat /\ b.refilled \in Nat
  <2>1. limiter.burst \in Nat /\ limiter.rpm \in Nat /\ Minute \in Nat
    BY LimiterAssumption DEF LimiterInv, LimiterTypeOK
  <2> QED BY <2>1, LimiterAssumption DEF LimiterInv, LimiterTypeOK, Full, Bucket
<1>2. /\ d \in Bucket /\ d.tokens <= Full /\ d.seen = t
      /\ d.refilled = Greater(b.refilled, t) /\ b.refilled <= d.refilled
      /\ d.tokens <= b.tokens + (d.refilled - b.refilled) * limiter.rpm
  BY RefillIs
<1>3. d.tokens \in Nat /\ d.refilled \in Nat
  BY <1>2 DEF Bucket
<1> HIDE DEF d
<1>4. d.refilled <= now /\ d.refilled <= t + Lag
  BY <1>1, <1>2 DEF Greater, Earliest
<1>5. Amnesty => Covered(f, d.tokens, d.refilled, Full, limiter.rpm)
  BY <1>1, <1>2, <1>3, LaterCovered
<1>6. Amnesty => Apart(f, Full, limiter.rpm)
  BY DEF LimiterInv
<1>7. CASE Passes(b, t)
  <2>1. /\ d.tokens >= Minute /\ c = [d EXCEPT !.tokens = @ - Minute] /\ g = Append(f, c.refilled)
    BY <1>7 DEF Passes, TryConsume, d
  <2> HIDE DEF c
  <2>7. d.tokens - Minute \in Nat
    BY <1>1, <1>3, <2>1
  <2>2. /\ c \in Bucket /\ c.tokens = d.tokens - Minute /\ c.refilled = d.refilled
        /\ c.seen = t
    BY <1>2, <2>1, <2>7 DEF Bucket
  <2>3. Minute <= d.tokens
    BY <1>1, <1>3, <2>1
  <2>4. Amnesty => /\ Covered(g, c.tokens, c.refilled, Full, limiter.rpm)
                   /\ Apart(g, Full, limiter.rpm)
    <3>1. Amnesty => /\ Covered(Append(f, d.refilled), d.tokens - Minute, d.refilled, Full,
                                limiter.rpm)
                     /\ Apart(Append(f, d.refilled), Full, limiter.rpm)
      BY <1>1, <1>2, <1>3, <1>5, <1>6, <2>3, GrantCovered
    <3> QED BY <2>1, <2>2, <3>1
  <2>5. g \in Seq(Nat)
    BY <1>1, <1>3, <2>1, <2>2, AppendIs
  <2>6. c.tokens <= Full /\ c.refilled <= now /\ c.refilled <= c.seen + Lag
    BY <1>1, <1>2, <1>3, <1>4, <2>2
  <2> QED BY <2>2, <2>4, <2>5, <2>6 DEF c
<1>8. CASE ~Passes(b, t)
  <2>1. c = d /\ g = f
    BY <1>8 DEF TryConsume, d
  <2> QED BY <1>1, <1>2, <1>4, <1>5, <1>6, <2>1
<1> QED BY <1>7, <1>8

\* The account of a client in the map and of one who is not.
LEMMA AccountIs ==
  ASSUME LimiterInv
  PROVE  /\ limiter.rpm \in Nat /\ limiter.burst \in Nat \ {0} /\ Full \in Nat /\ Minute <= Full
         /\ Minute \in Nat /\ Lag \in Nat /\ now \in Nat
         /\ EvictAfter \in Nat /\ Earliest \in Nat /\ Earliest <= now /\ now <= Earliest + Lag
         /\ \A ip \in DOMAIN buckets : /\ ip \in Addresses /\ buckets[ip] \in Bucket
                                       /\ buckets[ip].tokens \in Nat /\ buckets[ip].seen \in Nat
                                       /\ buckets[ip].refilled \in Nat
<1>1. /\ limiter.rpm \in Nat /\ limiter.burst \in Nat \ {0} /\ now \in Nat
      /\ \A ip \in DOMAIN buckets : /\ ip \in Addresses /\ buckets[ip] \in Bucket
                                    /\ buckets[ip].tokens \in Nat /\ buckets[ip].seen \in Nat
                                    /\ buckets[ip].refilled \in Nat
  BY DEF LimiterInv, LimiterTypeOK, Bucket
<1>2. Minute \in Nat \ {0} /\ Lag \in Nat /\ EvictAfter \in Nat
  BY LimiterAssumption
<1>3. Full \in Nat /\ Minute <= Full
  <2>1. \A m \in Nat, k \in Nat \ {0} : k * m \in Nat /\ m <= k * m
    BY Z3T(20)
  <2> QED BY <1>1, <1>2, <2>1 DEF Full
<1>4. Earliest \in Nat /\ Earliest <= now /\ now <= Earliest + Lag
  BY <1>1, <1>2 DEF Earliest, Greater
<1> QED BY <1>1, <1>2, <1>3, <1>4

LEMMA KnownInv ==
  ASSUME LimiterInv, NEW ip \in Addresses, NEW t \in Nat, Earliest <= t, t <= now, CheckKnown(ip, t)
  PROVE  LimiterInv'
<1> DEFINE b == buckets[ip]
           c == TryConsume(b, t)
           g == IF Passes(b, t) THEN Append(grants[ip], c.refilled) ELSE grants[ip]
<1>1. /\ ip \in DOMAIN buckets /\ b \in Bucket /\ b.tokens <= Full /\ b.refilled <= now
      /\ grants \in [Addresses -> Seq(Nat)]
      /\ TokensOf(ip) = b.tokens /\ RefilledOf(ip) = b.refilled
  BY AccountIs DEF CheckKnown, LimiterInv, BucketsInBounds, LimiterTypeOK, TokensOf, RefilledOf
<1>2. Amnesty => Covered(grants[ip], b.tokens, b.refilled, Full, limiter.rpm)
  BY <1>1 DEF LimiterInv
<1>3. /\ c \in Bucket /\ c.tokens <= Full /\ c.refilled <= now /\ c.refilled <= c.seen + Lag
      /\ g \in Seq(Nat)
      /\ Amnesty => /\ Covered(g, c.tokens, c.refilled, Full, limiter.rpm)
                    /\ Apart(g, Full, limiter.rpm)
  <2> HIDE DEF b
  <2> QED BY <1>1, <1>2, CheckKeeps
<1>4. /\ buckets' = [buckets EXCEPT ![ip] = c] /\ grants' = [grants EXCEPT ![ip] = g]
      /\ UNCHANGED <<now, limits, installed, limiter>>
  BY <1>1 DEF CheckKnown, Grant
<1> HIDE DEF b, c, g
<1>5. /\ DOMAIN buckets' = DOMAIN buckets /\ buckets'[ip] = c /\ grants'[ip] = g
      /\ \A q \in DOMAIN buckets : q # ip => buckets'[q] = buckets[q]
      /\ \A q \in Addresses : q # ip => grants'[q] = grants[q]
      /\ grants' \in [Addresses -> Seq(Nat)]
  BY <1>1, <1>3, <1>4
<1>6. Full' = Full /\ Amnesty' = Amnesty /\ Earliest' = Earliest
  BY <1>4 DEF Full, Amnesty, Earliest
<1>7. LimiterTypeOK'
  BY <1>3, <1>4, <1>5 DEF LimiterInv, LimiterTypeOK
<1>8. BucketsInBounds'
  BY <1>3, <1>4, <1>5, <1>6 DEF LimiterInv, BucketsInBounds
<1>9. ASSUME NEW q \in Addresses, Amnesty
      PROVE  /\ Covered(grants[q], TokensOf(q), RefilledOf(q), Full, limiter.rpm)'
             /\ Apart(grants[q], Full, limiter.rpm)'
  <2>1. CASE q = ip
    <3>1. TokensOf(q)' = c.tokens /\ RefilledOf(q)' = c.refilled
      BY <1>1, <1>5, <2>1 DEF TokensOf, RefilledOf
    <3> QED BY <1>3, <1>4, <1>5, <1>6, <1>9, <2>1, <3>1 DEF Covered, Apart
  <2>2. CASE q # ip
    <3>1. TokensOf(q)' = TokensOf(q) /\ RefilledOf(q)' = RefilledOf(q) /\ grants'[q] = grants[q]
      BY <1>5, <1>6, <2>2 DEF TokensOf, RefilledOf
    <3> QED BY <1>4, <1>6, <1>9, <3>1 DEF LimiterInv, Covered, Apart
  <2> QED BY <2>1, <2>2
<1> QED BY <1>6, <1>7, <1>8, <1>9 DEF LimiterInv

\* A client who is not in the map gets a full bucket; another may have to make room,
\* and what he was granted before is no longer counted.
LEMMA NewInv ==
  ASSUME LimiterInv, NEW ip \in Addresses, NEW t \in Nat, Earliest <= t, t <= now, CheckNew(ip, t)
  PROVE  LimiterInv'
<1> DEFINE b == Fresh(t)
           c == TryConsume(b, t)
           g == IF Passes(b, t) THEN Append(grants[ip], c.refilled) ELSE grants[ip]
<1>1. /\ ip \notin DOMAIN buckets /\ grants \in [Addresses -> Seq(Nat)]
      /\ TokensOf(ip) = Full /\ RefilledOf(ip) = Earliest
  BY DEF CheckNew, LimiterInv, LimiterTypeOK, TokensOf, RefilledOf
<1>2. b \in Bucket /\ b.tokens = Full /\ b.refilled = t /\ b.tokens <= Full /\ b.refilled <= now
  BY AccountIs DEF Fresh, Bucket
<1>3. Amnesty => Covered(grants[ip], b.tokens, b.refilled, Full, limiter.rpm)
  <2> SUFFICES ASSUME Amnesty PROVE Covered(grants[ip], Full, t, Full, limiter.rpm)
    BY <1>2
  <2>1. Covered(grants[ip], Full, Earliest, Full, limiter.rpm)
    BY <1>1 DEF LimiterInv
  <2>2. Full <= Full + (t - Earliest) * limiter.rpm
    <3>1. \A x, y \in Nat : x * y \in Nat
      BY Z3T(20)
    <3>2. t - Earliest \in Nat /\ Full \in Nat /\ limiter.rpm \in Nat
      BY AccountIs
    <3> QED BY <3>1, <3>2
  <2> QED BY <1>1, <2>1, <2>2, AccountIs, LaterCovered
<1>4. Passes(b, t)
  <2>1. Refill(b, t).tokens = Full
    BY <1>2, AccountIs DEF Refill
  <2> QED BY <2>1, AccountIs DEF Passes
<1>5. /\ c \in Bucket /\ c.tokens <= Full /\ c.refilled <= now /\ c.refilled <= c.seen + Lag
      /\ g \in Seq(Nat)
      /\ Amnesty => /\ Covered(g, c.tokens, c.refilled, Full, limiter.rpm)
                    /\ Apart(g, Full, limiter.rpm)
  <2> HIDE DEF b
  <2> QED BY <1>2, <1>3, CheckKeeps
<1>6. g = Append(grants[ip], c.refilled) /\ UNCHANGED <<now, limits, installed, limiter>>
  BY <1>4 DEF CheckNew
<1>7. Full' = Full /\ Amnesty' = Amnesty /\ Earliest' = Earliest
  BY <1>6 DEF Full, Amnesty, Earliest
\* Those who make room.
<1>8. PICK V \in SUBSET DOMAIN buckets :
        /\ buckets' = With(Without(buckets, V), ip, c)
        /\ \A q \in Addresses : grants'[q] = IF q = ip THEN g ELSE IF q \in V THEN <<>>
                                                                ELSE grants[q]
        /\ grants' \in [Addresses -> Seq(Nat)]
  <2> HIDE DEF g, c
  <2>1. CASE buckets' = With(buckets, ip, c) /\ grants' = Grant(grants, ip, c)
    <3>1. grants' = [grants EXCEPT ![ip] = g]
      BY <1>1, <1>6, <2>1 DEF Grant
    <3>2. buckets' = With(Without(buckets, {}), ip, c)
      BY <2>1 DEF With, Without
    <3> QED BY SMTT(30), <1>1, <1>5, <3>1, <3>2
  <2>2. CASE \E v \in Evictable : /\ buckets' = With(Without(buckets, {v}), ip, c)
                                  /\ grants' = Grant([grants EXCEPT ![v] = <<>>], ip, c)
    <3>1. PICK v \in Evictable : /\ buckets' = With(Without(buckets, {v}), ip, c)
                                 /\ grants' = Grant([grants EXCEPT ![v] = <<>>], ip, c)
      BY <2>2
    <3>2. v \in DOMAIN buckets /\ v \in Addresses /\ v # ip
      BY <1>1, AccountIs DEF Evictable
    <3>3. /\ \A q \in Addresses : grants'[q] = IF q = ip THEN g ELSE IF q \in {v} THEN <<>>
                                                                 ELSE grants[q]
          /\ grants' \in [Addresses -> Seq(Nat)]
      <4>1. <<>> \in Seq(Nat)
        OBVIOUS
      <4> QED BY <1>1, <1>5, <1>6, <3>1, <3>2, <4>1 DEF Grant
    <3> QED BY <3>1, <3>2, <3>3
  <2> QED BY <2>1, <2>2 DEF CheckNew, c, b
<1> HIDE DEF b, c, g
<1>9. /\ DOMAIN buckets' = (DOMAIN buckets \ V) \cup {ip} /\ buckets'[ip] = c
      /\ \A q \in DOMAIN buckets \ V : q # ip /\ buckets'[q] = buckets[q]
  BY <1>1, <1>8 DEF With, Without
<1>10. LimiterTypeOK'
  BY <1>5, <1>6, <1>8, <1>9 DEF LimiterInv, LimiterTypeOK
<1>11. BucketsInBounds'
  BY <1>5, <1>6, <1>7, <1>9 DEF LimiterInv, BucketsInBounds
<1>12. ASSUME NEW q \in Addresses, Amnesty
       PROVE  /\ Covered(grants[q], TokensOf(q), RefilledOf(q), Full, limiter.rpm)'
              /\ Apart(grants[q], Full, limiter.rpm)'
  <2>1. CASE q = ip
    <3>1. TokensOf(q)' = c.tokens /\ RefilledOf(q)' = c.refilled
      BY <1>9, <2>1 DEF TokensOf, RefilledOf
    <3> QED BY <1>5, <1>6, <1>7, <1>8, <1>12, <2>1, <3>1 DEF Covered, Apart
  <2>2. CASE q # ip /\ q \in V
    <3>1. grants'[q] = <<>> /\ Len(<<>>) = 0 /\ 1 .. 0 = {}
      BY <1>8, <2>2
    <3> QED BY <3>1 DEF Covered, Apart
  <2>3. CASE q # ip /\ q \notin V
    <3>1. TokensOf(q)' = TokensOf(q) /\ RefilledOf(q)' = RefilledOf(q) /\ grants'[q] = grants[q]
      BY <1>7, <1>8, <1>9, <2>3 DEF TokensOf, RefilledOf
    <3> QED BY <1>6, <1>7, <1>12, <3>1 DEF LimiterInv, Covered, Apart
  <2> QED BY <2>1, <2>2, <2>3
<1> QED BY <1>7, <1>10, <1>11, <1>12 DEF LimiterInv

\* A bucket is forgotten: with the limits of Amnesty it is full by then.
LEMMA EvictInv ==
  ASSUME LimiterInv, EvictStale
  PROVE  LimiterInv'
<1>1. /\ buckets' = Without(buckets, Stale) /\ grants \in [Addresses -> Seq(Nat)]
      /\ UNCHANGED <<now, limits, installed, limiter, grants>>
  BY DEF EvictStale, LimiterInv, LimiterTypeOK
<1>2. /\ DOMAIN buckets' = DOMAIN buckets \ Stale
      /\ \A q \in DOMAIN buckets \ Stale : buckets'[q] = buckets[q]
  BY <1>1 DEF Without
<1>3. Full' = Full /\ Amnesty' = Amnesty /\ Earliest' = Earliest
  BY <1>1 DEF Full, Amnesty, Earliest
<1>4. LimiterTypeOK'
  BY <1>1, <1>2 DEF LimiterInv, LimiterTypeOK
<1>5. BucketsInBounds'
  BY <1>1, <1>2, <1>3 DEF LimiterInv, BucketsInBounds
<1>6. ASSUME NEW q \in Addresses, Amnesty
      PROVE  /\ Covered(grants[q], TokensOf(q), RefilledOf(q), Full, limiter.rpm)'
             /\ Apart(grants[q], Full, limiter.rpm)'
  <2>1. /\ Covered(grants[q], TokensOf(q), RefilledOf(q), Full, limiter.rpm)
        /\ Apart(grants[q], Full, limiter.rpm)
    BY <1>6 DEF LimiterInv
  <2>2. Apart(grants[q], Full, limiter.rpm)'
    BY <1>1, <1>3, <2>1 DEF Apart
  <2>3. CASE q \in Stale
    <3> DEFINE b == buckets[q]
    <3>1. q \in DOMAIN buckets /\ b.seen < Greater(0, now - EvictAfter)
      BY <2>3 DEF Stale
    <3>2. /\ b.seen \in Nat /\ b.tokens \in Nat /\ b.refilled \in Nat
          /\ b.refilled <= b.seen + Lag
      BY <3>1, AccountIs DEF LimiterInv, BucketsInBounds
    <3> HIDE DEF b
    <3>3. /\ now \in Nat /\ EvictAfter \in Nat /\ Lag \in Nat /\ limiter.rpm \in Nat /\ Full \in Nat
          /\ Earliest \in Nat
      BY AccountIs
    <3>4. b.seen + EvictAfter + 1 <= now
      BY <3>1, <3>2, <3>3 DEF Greater
    <3>5. EvictAfter + 1 - 2 * Lag <= Earliest - b.refilled
      BY <3>2, <3>3, <3>4 DEF Earliest, Greater
    <3> DEFINE k == EvictAfter + 1 - 2 * Lag
               m == Earliest - b.refilled
    <3>6. k \in Int /\ m \in Int
      BY <3>2, <3>3
    <3>7. Full <= k * limiter.rpm
      BY <1>6 DEF Amnesty, Full
    <3>8. k * limiter.rpm <= m * limiter.rpm /\ k * limiter.rpm \in Int /\ m * limiter.rpm \in Int
      <4> HIDE DEF k, m
      <4>1. \A x, y \in Int, r \in Nat : x <= y => x * r <= y * r /\ x * r \in Int /\ y * r \in Int
        BY Z3T(20)
      <4> QED BY <3>3, <3>5, <3>6, <4>1 DEF k, m
    <3>9. Full <= b.tokens + m * limiter.rpm
      <4> HIDE DEF k, m
      <4> QED BY <3>2, <3>3, <3>7, <3>8
    <3>10. b.refilled <= Earliest
      <4>1. \A x \in Int, r \in Nat : x < 0 => x * r <= 0
        BY Z3T(20)
      <4>2. m < 0 => m * limiter.rpm <= 0
        BY <3>3, <3>6, <4>1
      <4>3. Full > 0
        <5>1. Minute \in Nat \ {0} /\ Minute <= Full
          BY AccountIs, LimiterAssumption
        <5> QED BY <3>3, <5>1
      <4>4. m >= 0
        <5> HIDE DEF k, m
        <5> QED BY <3>3, <3>6, <3>7, <3>8, <4>2, <4>3
      <4> QED BY <3>2, <3>3, <4>4
    <3>11. TokensOf(q) = b.tokens /\ RefilledOf(q) = b.refilled
           /\ TokensOf(q)' = Full /\ RefilledOf(q)' = Earliest
      BY <1>2, <1>3, <2>3, <3>1 DEF TokensOf, RefilledOf, b
    <3>12. Covered(grants[q], Full, Earliest, Full, limiter.rpm)
      <4>1. Covered(grants[q], b.tokens, b.refilled, Full, limiter.rpm)
        BY <2>1, <3>11
      <4>2. grants[q] \in Seq(Nat)
        BY <1>1
      <4> HIDE DEF m, k
      <4> QED BY <3>2, <3>3, <3>9, <3>10, <4>1, <4>2, LaterCovered DEF m
    <3> QED BY <1>1, <1>3, <2>2, <3>11, <3>12 DEF Covered
  <2>4. CASE q \notin Stale
    <3>1. TokensOf(q)' = TokensOf(q) /\ RefilledOf(q)' = RefilledOf(q)
      BY <1>2, <1>3, <2>4 DEF TokensOf, RefilledOf
    <3> QED BY <1>1, <1>3, <2>1, <2>2, <3>1 DEF Covered
  <2> QED BY <2>3, <2>4
<1> QED BY <1>3, <1>4, <1>5, <1>6 DEF LimiterInv

\* Time passes: the accounts of those who are not in the map are of a later time.
LEMMA TickInv ==
  ASSUME LimiterInv, LimiterTick
  PROVE  LimiterInv'
<1>1. now' = now + 1 /\ UNCHANGED <<limits, installed, limiter, buckets, grants>>
      /\ grants \in [Addresses -> Seq(Nat)]
  BY DEF LimiterTick, LimiterInv, LimiterTypeOK
<1>2. Full' = Full /\ Amnesty' = Amnesty
  BY <1>1 DEF Full, Amnesty
<1>3. Earliest \in Nat /\ Earliest' \in Nat /\ Earliest <= Earliest' /\ now' \in Nat /\ now <= now'
  BY <1>1, AccountIs DEF Earliest, Greater
<1>4. LimiterTypeOK'
  BY <1>1, <1>3 DEF LimiterInv, LimiterTypeOK
<1>5. BucketsInBounds'
  BY <1>1, <1>2, AccountIs DEF LimiterInv, BucketsInBounds
<1>6. ASSUME NEW q \in Addresses, Amnesty
      PROVE  /\ Covered(grants[q], TokensOf(q), RefilledOf(q), Full, limiter.rpm)'
             /\ Apart(grants[q], Full, limiter.rpm)'
  <2>1. /\ Covered(grants[q], TokensOf(q), RefilledOf(q), Full, limiter.rpm)
        /\ Apart(grants[q], Full, limiter.rpm)
    BY <1>6 DEF LimiterInv
  <2>2. Apart(grants[q], Full, limiter.rpm)'
    BY <1>1, <1>2, <2>1 DEF Apart
  <2>3. CASE q \in DOMAIN buckets
    <3>1. TokensOf(q)' = TokensOf(q) /\ RefilledOf(q)' = RefilledOf(q)
      BY <1>1, <2>3 DEF TokensOf, RefilledOf
    <3> QED BY <1>1, <1>2, <2>1, <2>2, <3>1 DEF Covered
  <2>4. CASE q \notin DOMAIN buckets
    <3>1. TokensOf(q) = Full /\ TokensOf(q)' = Full
          /\ RefilledOf(q) = Earliest /\ RefilledOf(q)' = Earliest'
      BY <1>1, <1>2, <2>4 DEF TokensOf, RefilledOf
    <3>2. Full <= Full + (Earliest' - Earliest) * limiter.rpm
      <4>1. \A x, y \in Nat : x * y \in Nat
        BY Z3T(20)
      <4>2. Earliest' - Earliest \in Nat
        <5>1. \A x, y \in Nat : x <= y => y - x \in Nat
          OBVIOUS
        <5> QED BY <1>3, <5>1
      <4>3. Full \in Nat /\ limiter.rpm \in Nat
        BY AccountIs
      <4> QED BY <4>1, <4>2, <4>3
    <3>3. Covered(grants[q], Full, Earliest', Full, limiter.rpm)
      BY ZenonT(60), <1>1, <1>3, <2>1, <3>1, <3>2, AccountIs, LaterCovered
    <3> QED BY <1>1, <1>2, <2>2, <3>1, <3>3 DEF Covered
  <2> QED BY <2>3, <2>4
<1> QED BY <1>2, <1>4, <1>5, <1>6 DEF LimiterInv

\* With no bucket and no grant everything holds: at the start, and after a limiter was
\* replaced.
LEMMA NothingGranted ==
  ASSUME LimiterTypeOK, buckets = <<>>, \A ip \in Addresses : grants[ip] = <<>>
  PROVE  LimiterInv
<1>1. DOMAIN buckets = {} /\ \A ip \in Addresses : Len(grants[ip]) = 0
  OBVIOUS
<1>2. \A ip \in Addresses : 1 .. Len(grants[ip]) = {}
  BY <1>1
<1> QED BY <1>1, <1>2 DEF LimiterInv, BucketsInBounds, Covered, Apart

LEMMA EffectiveIs ==
  ASSUME NEW c \in Configs
  PROVE  Effective(c) \in [rpm : Nat \ {0}, burst : Nat \ {0}]
<1>1. c.rpm \in Nat /\ c.burst \in Nat /\ MaxRpm \in Nat \ {0}
  BY LimiterAssumption
<1>2. Greater(1, Lesser(c.rpm, MaxRpm)) \in Nat \ {0} /\ Greater(1, c.burst) \in Nat \ {0}
  BY <1>1 DEF Greater, Lesser
<1> QED BY <1>2 DEF Effective

LEMMA ReloadInv ==
  ASSUME LimiterInv, NEW c \in Configs, ReloadLimits(c)
  PROVE  LimiterInv'
<1>1. CASE installed /\ c # limits /\ c.rpm > 0
  <2>1. /\ limiter' = Effective(c) /\ buckets' = <<>> /\ grants' = [ip \in Addresses |-> <<>>]
        /\ limits' = c /\ UNCHANGED <<now, installed>>
    BY <1>1 DEF ReloadLimits
  <2>2. LimiterTypeOK'
    <3>1. <<>> \in Seq(Nat) /\ DOMAIN <<>> = {}
      OBVIOUS
    <3> QED BY <2>1, <3>1, EffectiveIs DEF LimiterInv, LimiterTypeOK
  <2>3. DOMAIN buckets' = {} /\ \A ip \in Addresses : Len(grants'[ip]) = 0
    BY <2>1
  <2>4. \A ip \in Addresses : 1 .. Len(grants'[ip]) = {}
    BY <2>3
  <2> QED BY <2>2, <2>3, <2>4 DEF LimiterInv, BucketsInBounds, Covered, Apart
<1>2. CASE ~(installed /\ c # limits /\ c.rpm > 0)
  <2>1. limits' = c /\ UNCHANGED <<now, installed, limiter, buckets, grants>>
    BY <1>2 DEF ReloadLimits
  <2>2. Full' = Full /\ Amnesty' = Amnesty /\ Earliest' = Earliest
    BY <2>1 DEF Full, Amnesty, Earliest
  <2> QED BY <2>1, <2>2
       DEF LimiterInv, LimiterTypeOK, BucketsInBounds, Covered, Apart, TokensOf, RefilledOf
<1> QED BY <1>1, <1>2

\* For any limits, addresses and bounds of the map: where a bucket fills up before it is
\* forgotten, no client gets more than its burst and the rate since any of its grants
\* (RateLimiter::check, evict_stale).
THEOREM RateIsHeld == LimiterSpec => []RateHolds
<1>1. LimiterInit => LimiterInv
  <2> SUFFICES ASSUME LimiterInit PROVE LimiterInv
    OBVIOUS
  <2>1. <<>> \in Seq(Nat) /\ DOMAIN <<>> = {}
    OBVIOUS
  <2>2. LimiterTypeOK
    <3>1. (limits.rpm > 0) \in BOOLEAN
      OBVIOUS
    <3> QED BY <2>1, <3>1, EffectiveIs DEF LimiterInit, LimiterTypeOK
  <2> QED BY <2>2, NothingGranted DEF LimiterInit
<1>2. LimiterInv /\ [LimiterNext]_limiterVars => LimiterInv'
  <2> SUFFICES ASSUME LimiterInv, [LimiterNext]_limiterVars PROVE LimiterInv'
    OBVIOUS
  <2>1. ASSUME NEW ip \in Addresses, NEW t \in Greater(0, now - Lag) .. now,
               CheckKnown(ip, t) \/ CheckNew(ip, t)
        PROVE  LimiterInv'
    <3>1. t \in Nat /\ Earliest <= t /\ t <= now
      BY AccountIs DEF Earliest
    <3> QED BY <2>1, <3>1, KnownInv, NewInv
  <2>2. CASE UNCHANGED limiterVars
    BY <2>2 DEF limiterVars, LimiterInv, LimiterTypeOK, BucketsInBounds, Covered, Apart, TokensOf,
                RefilledOf, Full, Earliest, Amnesty
  <2> QED BY <2>1, <2>2, EvictInv, TickInv, ReloadInv DEF LimiterNext
<1>3. LimiterInv => RateHolds
  <2> SUFFICES ASSUME LimiterInv, Amnesty, NEW ip \in Addresses,
                      NEW i \in DOMAIN grants[ip], NEW j \in DOMAIN grants[ip], i <= j
               PROVE  (j - i + 1) * Minute
                        <= limiter.burst * Minute + (grants[ip][j] - grants[ip][i]) * limiter.rpm
    BY DEF RateHolds
  <2>1. grants[ip] \in Seq(Nat)
    BY DEF LimiterInv, LimiterTypeOK
  <2>2. i \in 1 .. Len(grants[ip]) /\ j \in 1 .. Len(grants[ip])
    BY <2>1
  <2>3. Apart(grants[ip], Full, limiter.rpm)
    BY DEF LimiterInv
  <2> QED BY <2>2, <2>3 DEF Apart, Full
<1> QED BY <1>1, <1>2, <1>3, PTL DEF LimiterSpec

-----------------------------------------------------------------------------
(* The one-shot run.  The watchdog never sees when a window was completed, *)
(* only that one was.  Clock says what it may conclude from that: its      *)
(* deadline lags at most one poll behind the last window, and never runs   *)
(* ahead of it.                                                            *)

\* A handler that waits for its session has not touched its watchdog yet.
Untouched == \A r \in Requests :
  pc[r] \in {"idle", "upload", "checkout"} =>
    /\ age[r] = 0 /\ quiet[r] = 0 /\ polled[r] /\ ~advanced[r] /\ ~abort[r]
    /\ run[r] = "none" /\ outcome[r] = "none"

\* The watchdog's deadline against the time since the last window.
Clock == \A r \in Requests :
  Timeout > 0 /\ pc[r] = "await" =>
    /\ age[r] <= Timeout
    /\ polled[r] => age[r] < Timeout
    /\ ~advanced[r] => age[r] <= quiet[r] /\ quiet[r] <= age[r] + 1
    /\ advanced[r] => quiet[r] <= 1 /\ (polled[r] => quiet[r] = 0)

\* Whatever can cancel a run whose client still waits is a shutdown.
Causes ==
  /\ ~poolOpen => shutdown
  /\ \A r \in Requests :
       /\ pc[r] = "await" /\ (abort[r] \/ outcome[r] = "cancelled") => shutdown
       /\ answer[r] = "cancelled" => shutdown

\* A permit outlives the handler exactly while the run reads the body.
Holding == {r \in Requests : refs[r] # {}}

Permits ==
  /\ Cardinality(Holding) <= Capacity
  /\ \A r \in Requests :
       /\ pc[r] \in {"upload", "checkout", "await"} => "handler" \in refs[r]
       /\ pc[r] = "checkout" \/ run[r] \in {"between", "native"} => "body" \in refs[r]

IInv == TypeOK /\ Untouched /\ Clock /\ Causes /\ Permits

\* The server starts with no request.
LEMMA InitIInv == Init => IInv
<1> SUFFICES ASSUME Init PROVE IInv
  OBVIOUS
<1>1. TypeOK
  BY FileRunAssumption DEF Init, TypeOK, Answers
<1>2. \A r \in Requests :
        /\ pc[r] = "idle" /\ run[r] = "none" /\ outcome[r] = "none" /\ answer[r] = "none"
        /\ age[r] = 0 /\ quiet[r] = 0
  BY DEF Init
<1>3. \A r \in Requests : polled[r] /\ ~advanced[r] /\ ~abort[r]
  BY Zenon DEF Init
<1>4. Untouched /\ Clock
  BY <1>2, <1>3 DEF Untouched, Clock
<1>5. Causes
  BY <1>2 DEF Init, Causes
<1>6. Permits
  <2>1. Holding = {}
    BY DEF Init, Holding
  <2> QED
    BY <1>2, <2>1, FS_EmptySet, FileRunAssumption DEF Permits
<1> QED
  BY <1>1, <1>4, <1>5, <1>6 DEF IInv

\* Every step of the specification preserves the types.
LEMMA TypeStep == TypeOK /\ [Next]_vars => TypeOK'
<1> SUFFICES ASSUME TypeOK, [Next]_vars PROVE TypeOK'
  OBVIOUS
<1> USE FileRunAssumption DEF TypeOK, Answers, clock, server
<1>1. CASE UNCHANGED vars
  BY <1>1 DEF vars
<1>2. ASSUME NEW r \in Requests, Admit(r) \/ TurnAway(r) \/ Refuse(r) \/ Arrive(r)
      PROVE  TypeOK'
  BY <1>2 DEF Admit, TurnAway, Refuse, Arrive, Say, HandlerGone
<1>3. ASSUME NEW r \in Requests, NEW s \in Slots, Reserve(r, s) PROVE TypeOK'
  BY <1>3 DEF Reserve
<1>4. ASSUME NEW r \in Requests, CheckoutTimesOut(r) \/ CheckoutClosed(r) PROVE TypeOK'
  BY <1>4 DEF CheckoutTimesOut, CheckoutClosed, Say, HandlerGone
<1>5. ASSUME NEW r \in Requests, Disconnect(r) PROVE TypeOK'
  BY <1>5 DEF Disconnect, HandlerGone
<1>6. ASSUME NEW r \in Requests, Joined(r) PROVE TypeOK'
  BY <1>6 DEF Joined, Say, HandlerGone
<1>7. ASSUME NEW r \in Requests, WatchdogSeesShutdown(r) PROVE TypeOK'
  BY <1>7 DEF WatchdogSeesShutdown
<1>8. ASSUME NEW r \in Requests, Poll(r) PROVE TypeOK'
  <2>1. CASE PollProgress(r)
    BY <2>1 DEF PollProgress
  <2>2. CASE PollStalled(r) /\ age[r] >= Timeout
    <3>1. refs' \in [Requests -> SUBSET {"handler", "body"}]
      BY <2>2 DEF PollStalled, Say, HandlerGone
    <3>2. abort' \in [Requests -> BOOLEAN] /\ polled' \in [Requests -> BOOLEAN]
      BY <2>2, Zenon DEF PollStalled
    <3> QED
      BY <2>2, <3>1, <3>2 DEF PollStalled, Say
  <2>3. CASE PollStalled(r) /\ ~(age[r] >= Timeout)
    BY <2>3 DEF PollStalled
  <2> QED
    BY <1>8, <2>1, <2>2, <2>3 DEF Poll
<1>9. ASSUME NEW r \in Requests, Engine(r) PROVE TypeOK'
  <2>1. CASE WindowStart(r)
    BY <2>1 DEF WindowStart
  <2>2. CASE WindowDone(r)
    <3>1. CASE abort[r]
      BY <2>2, <3>1 DEF WindowDone
    <3>2. CASE ~abort[r]
      <4>1. advanced' \in [Requests -> BOOLEAN]
        BY <2>2, <3>2, Zenon DEF WindowDone
      <4>2. run' \in [Requests -> {"none", "between", "native", "ended"}]
            /\ quiet' \in [Requests -> Nat]
        BY <2>2, <3>2 DEF WindowDone
      <4> QED
        BY <2>2, <4>1, <4>2 DEF WindowDone
    <3> QED
      BY <3>1, <3>2
  <2>3. CASE RunFinishes(r) \/ RunCancelled(r) \/ RunFails(r)
    BY <2>3 DEF RunFinishes, RunCancelled, RunFails, End
  <2> QED
    BY <1>9, <2>1, <2>2, <2>3 DEF Engine
<1>10. CASE Tick
  BY <1>10 DEF Tick
<1>11. CASE ShutdownFires \/ ClosePools
  BY <1>11 DEF ShutdownFires, ClosePools
<1> QED
  BY <1>1, <1>2, <1>3, <1>4, <1>5, <1>6, <1>7, <1>8, <1>9, <1>10, <1>11 DEF Next

\* ... and keeps the watchdog's clock in step with the run.
LEMMA ClockStep == IInv /\ [Next]_vars => Untouched' /\ Clock'
<1> SUFFICES ASSUME IInv, [Next]_vars PROVE Untouched' /\ Clock'
  OBVIOUS
<1> USE FileRunAssumption DEF IInv, TypeOK, Untouched, Clock, clock, server
<1>1. CASE UNCHANGED vars
  BY <1>1 DEF vars
<1>2. ASSUME NEW r \in Requests, Admit(r) \/ TurnAway(r) \/ Refuse(r) \/ Arrive(r)
      PROVE  Untouched' /\ Clock'
  BY <1>2 DEF Admit, TurnAway, Refuse, Arrive, Say, HandlerGone
<1>3. ASSUME NEW r \in Requests, NEW s \in Slots, Reserve(r, s) PROVE Untouched' /\ Clock'
  BY <1>3 DEF Reserve
<1>4. ASSUME NEW r \in Requests, CheckoutTimesOut(r) \/ CheckoutClosed(r) PROVE Untouched' /\ Clock'
  BY <1>4 DEF CheckoutTimesOut, CheckoutClosed, Say, HandlerGone
<1>5. ASSUME NEW r \in Requests, Disconnect(r) PROVE Untouched' /\ Clock'
  BY <1>5 DEF Disconnect, HandlerGone
<1>6. ASSUME NEW r \in Requests, Joined(r) PROVE Untouched' /\ Clock'
  BY <1>6 DEF Joined, Say, HandlerGone
<1>7. ASSUME NEW r \in Requests, WatchdogSeesShutdown(r) PROVE Untouched' /\ Clock'
  BY <1>7 DEF WatchdogSeesShutdown
<1>8. ASSUME NEW r \in Requests, Poll(r) PROVE Untouched' /\ Clock'
  <2>1. CASE PollProgress(r)
    BY <2>1 DEF PollProgress
  <2>2. CASE PollStalled(r)
    BY <2>2 DEF PollStalled, Say, HandlerGone
  <2> QED
    BY <1>8, <2>1, <2>2 DEF Poll
<1>9. ASSUME NEW r \in Requests, Engine(r) PROVE Untouched' /\ Clock'
  <2>1. CASE WindowStart(r)
    BY <2>1 DEF WindowStart
  <2>2. CASE WindowDone(r)
    BY <2>2 DEF WindowDone
  <2>3. CASE RunFinishes(r) \/ RunCancelled(r) \/ RunFails(r)
    BY <2>3 DEF RunFinishes, RunCancelled, RunFails, End
  <2> QED
    BY <1>9, <2>1, <2>2, <2>3 DEF Engine
<1>10. CASE Tick
  <2>1. ASSUME NEW r \in Requests, pc[r] = "await"
        PROVE  polled[r] /\ ~polled'[r] /\ age'[r] = age[r] + 1 /\ quiet'[r] = quiet[r] + 1
    BY <1>10, <2>1 DEF Tick
  <2>2. ASSUME NEW r \in Requests, pc[r] # "await"
        PROVE  polled'[r] /\ age'[r] = age[r] /\ quiet'[r] = quiet[r]
    BY <1>10, <2>2 DEF Tick
  <2>3. UNCHANGED <<pc, run, outcome, abort, advanced>>
    BY <1>10 DEF Tick
  <2>4. Untouched'
    BY <2>2, <2>3
  <2>5. Clock'
    BY <2>1, <2>3
  <2> QED
    BY <2>4, <2>5
<1>11. CASE ShutdownFires \/ ClosePools
  BY <1>11 DEF ShutdownFires, ClosePools
<1> QED
  BY <1>1, <1>2, <1>3, <1>4, <1>5, <1>6, <1>7, <1>8, <1>9, <1>10, <1>11 DEF Next

\* ... and cancels no run of a waiting client without a shutdown.
LEMMA CausesStep == IInv /\ [Next]_vars => Causes'
<1> SUFFICES ASSUME IInv, [Next]_vars PROVE Causes'
  OBVIOUS
<1> USE FileRunAssumption DEF IInv, TypeOK, Untouched, Causes, clock, server
<1>1. CASE UNCHANGED vars
  BY <1>1 DEF vars
<1>2. ASSUME NEW r \in Requests, Admit(r) \/ TurnAway(r) \/ Refuse(r) \/ Arrive(r)
      PROVE  Causes'
  BY <1>2 DEF Admit, TurnAway, Refuse, Arrive, Say, HandlerGone
<1>3. ASSUME NEW r \in Requests, NEW s \in Slots, Reserve(r, s) PROVE Causes'
  BY <1>3 DEF Reserve
<1>4. ASSUME NEW r \in Requests, CheckoutTimesOut(r) \/ CheckoutClosed(r) PROVE Causes'
  BY <1>4 DEF CheckoutTimesOut, CheckoutClosed, Say, HandlerGone
<1>5. ASSUME NEW r \in Requests, Disconnect(r) PROVE Causes'
  BY <1>5 DEF Disconnect, HandlerGone
<1>6. ASSUME NEW r \in Requests, Joined(r) PROVE Causes'
  BY <1>6 DEF Joined, Say, HandlerGone
<1>7. ASSUME NEW r \in Requests, WatchdogSeesShutdown(r) PROVE Causes'
  BY <1>7 DEF WatchdogSeesShutdown
<1>8. ASSUME NEW r \in Requests, Poll(r) PROVE Causes'
  BY <1>8 DEF Poll, PollProgress, PollStalled, Say
<1>9. ASSUME NEW r \in Requests, Engine(r) PROVE Causes'
  <2>1. CASE WindowStart(r)
    BY <2>1 DEF WindowStart
  <2>2. CASE WindowDone(r)
    BY <2>2 DEF WindowDone
  <2>3. CASE RunFinishes(r) \/ RunCancelled(r) \/ RunFails(r)
    BY <2>3 DEF RunFinishes, RunCancelled, RunFails, End
  <2> QED
    BY <1>9, <2>1, <2>2, <2>3 DEF Engine
<1>10. CASE Tick
  BY <1>10 DEF Tick
<1>11. CASE ShutdownFires \/ ClosePools
  BY <1>11 DEF ShutdownFires, ClosePools
<1> QED
  BY <1>1, <1>2, <1>3, <1>4, <1>5, <1>6, <1>7, <1>8, <1>9, <1>10, <1>11 DEF Next

\* ... and lets nobody keep a body in memory without its permit.
LEMMA PermitStep == IInv /\ [Next]_vars => Permits'
<1> SUFFICES ASSUME IInv, [Next]_vars PROVE Permits'
  OBVIOUS
<1> DEFINE Each == \A r \in Requests :
       /\ pc[r] \in {"upload", "checkout", "await"} => "handler" \in refs[r]
       /\ pc[r] = "checkout" \/ run[r] \in {"between", "native"} => "body" \in refs[r]
<1>a. IsFiniteSet(Holding)
  BY FileRunAssumption, FS_Subset DEF Holding
<1>b. Cardinality(Holding) \in Nat /\ Cardinality(Holding) <= Capacity
  BY <1>a, FS_CardinalityType DEF IInv, Permits
<1>c. ASSUME Holding' \subseteq Holding PROVE Cardinality(Holding') <= Capacity
  <2>1. Cardinality(Holding') <= Cardinality(Holding) /\ Cardinality(Holding') \in Nat
    BY <1>a, <1>c, FS_Subset, FS_CardinalityType
  <2> QED
    BY <1>b, <2>1, FileRunAssumption
<1> USE FileRunAssumption DEF IInv, TypeOK, Untouched, Permits, clock, server
<1>1. ASSUME NEW r \in Requests, Admit(r) PROVE Permits'
  <2>1. r \notin Holding => Cardinality(Holding \cup {r}) = Cardinality(Holding) + 1
    BY <1>a, FS_AddElement
  <2>2. Holding' = Holding \cup {r} /\ Cardinality(Holding) < Capacity
    BY <1>1 DEF Admit, Holding
  <2>3. Cardinality(Holding') <= Capacity
    <3>1. CASE r \in Holding
      BY <2>2, <3>1, <1>c
    <3>2. CASE r \notin Holding
      BY <2>1, <2>2, <3>2, <1>b
    <3> QED
      BY <3>1, <3>2
  <2>4. Each'
    BY <1>1 DEF Admit
  <2> QED
    BY <2>3, <2>4
<1>2. ASSUME Each', Holding' \subseteq Holding PROVE Permits'
  BY <1>2, <1>c
<1>3. CASE UNCHANGED vars
  BY <1>3, <1>2 DEF vars, Holding
<1>4. ASSUME NEW r \in Requests, TurnAway(r) \/ Refuse(r) \/ CheckoutTimesOut(r)
                                 \/ CheckoutClosed(r) \/ Disconnect(r) \/ Joined(r)
      PROVE  Permits'
  <2>1. refs' = [refs EXCEPT ![r] = IF run[r] = "none" THEN {} ELSE @ \ {"handler"}]
        /\ pc'[r] \in {"answered", "gone"} /\ run' = run
        /\ \A q \in Requests \ {r} : pc'[q] = pc[q]
    BY <1>4 DEF TurnAway, Refuse, CheckoutTimesOut, CheckoutClosed, Disconnect, Joined,
                Say, HandlerGone
  <2> QED
    BY <2>1, <1>2 DEF Holding
<1>5. ASSUME NEW r \in Requests, Arrive(r) \/ (\E s \in Slots : Reserve(r, s)) PROVE Permits'
  BY <1>5, <1>2 DEF Arrive, Reserve, Holding
<1>6. ASSUME NEW r \in Requests, WatchdogSeesShutdown(r) PROVE Permits'
  BY <1>6, <1>2 DEF WatchdogSeesShutdown, Holding
<1>7. ASSUME NEW r \in Requests, Poll(r) PROVE Permits'
  <2>1. CASE PollProgress(r)
    BY <2>1, <1>2 DEF PollProgress, Holding
  <2>2. CASE PollStalled(r) /\ age[r] >= Timeout
    BY <2>2, <1>2 DEF PollStalled, Say, HandlerGone, Holding
  <2>3. CASE PollStalled(r) /\ ~(age[r] >= Timeout)
    BY <2>3, <1>2 DEF PollStalled, Holding
  <2> QED
    BY <1>7, <2>1, <2>2, <2>3 DEF Poll
<1>8. ASSUME NEW r \in Requests, Engine(r) PROVE Permits'
  <2>1. CASE WindowStart(r) \/ WindowDone(r)
    BY <2>1, <1>2 DEF WindowStart, WindowDone, Holding
  <2>2. CASE RunFinishes(r) \/ RunCancelled(r) \/ RunFails(r)
    BY <2>2, <1>2 DEF RunFinishes, RunCancelled, RunFails, End, Holding
  <2> QED
    BY <1>8, <2>1, <2>2 DEF Engine
<1>9. CASE Tick \/ ShutdownFires \/ ClosePools
  BY <1>9, <1>2 DEF Tick, ShutdownFires, ClosePools, Holding
<1> QED
  BY <1>1, <1>3, <1>4, <1>5, <1>6, <1>7, <1>8, <1>9 DEF Next

\* The invariant the theorems below rest on.
LEMMA FileRunInvariant == Spec => []IInv
<1>1. Init => IInv
  BY InitIInv
<1>2. IInv /\ [Next]_vars => IInv'
  BY TypeStep, ClockStep, CausesStep, PermitStep DEF IInv
<1> QED
  BY <1>1, <1>2, PTL DEF Spec

\* The watchdog of await_transcription_watchdog notices a stall within one poll
\* of the timeout.
THEOREM WatchdogPrompt == Spec => []StallSeenInTime
<1>1. IInv => StallSeenInTime
  BY FileRunAssumption DEF IInv, TypeOK, Clock, StallSeenInTime
<1> QED
  BY <1>1, FileRunInvariant, PTL

\* The Cancelled arm of run_file_transcription is honest.
THEOREM CancelledHonest == Spec => []CancelledMeansShutdown
<1>1. IInv => CancelledMeansShutdown
  BY DEF IInv, Causes, CancelledMeansShutdown
<1> QED
  BY <1>1, FileRunInvariant, PTL

\* No upload is in memory without an admission permit, whoever still reads it.
THEOREM AdmissionHolds == Spec => []UploadsBounded
<1>1. IInv => UploadsBounded
  <2> SUFFICES ASSUME IInv PROVE UploadsBounded
    OBVIOUS
  <2> DEFINE Reading == {r \in Requests : \/ pc[r] \in {"upload", "checkout"}
                                          \/ run[r] \in {"between", "native"}}
  <2>1. Reading \subseteq Holding
    BY DEF IInv, Permits, Holding
  <2>2. IsFiniteSet(Holding)
    BY FileRunAssumption, FS_Subset DEF Holding
  <2>3. Cardinality(Reading) <= Cardinality(Holding)
        /\ Cardinality(Reading) \in Nat /\ Cardinality(Holding) \in Nat
    BY <2>1, <2>2, FS_Subset, FS_CardinalityType
  <2> QED
    BY <2>3, FileRunAssumption DEF IInv, Permits, UploadsBounded
<1> QED
  BY <1>1, FileRunInvariant, PTL

\* An inference timeout is only answered after a whole timeout without a window.
THEOREM WatchdogPatient == Spec => NoFalseTimeout
<1> DEFINE Patient == \A r \in Requests :
      answer[r] = "none" /\ answer'[r] = "inference_timeout" => quiet[r] >= Timeout
<1>1. IInv /\ [Next]_vars => [Patient]_vars
  <2> SUFFICES ASSUME IInv, Next, NEW q \in Requests,
                      answer[q] = "none", answer'[q] = "inference_timeout"
               PROVE  quiet[q] >= Timeout
    OBVIOUS
  <2> USE DEF IInv, TypeOK, Answers
  <2>1. CASE PollStalled(q)
    BY <2>1, FileRunAssumption DEF PollStalled, Clock
  <2>2. ASSUME NEW r \in Requests, Poll(r), r # q PROVE FALSE
    BY <2>2 DEF Poll, PollProgress, PollStalled, Say
  <2>3. CASE PollProgress(q)
    BY <2>3 DEF PollProgress
  <2>4. ASSUME NEW r \in Requests,
               \/ CheckoutTimesOut(r) \/ CheckoutClosed(r) \/ Joined(r)
               \/ Admit(r) \/ TurnAway(r) \/ Refuse(r) \/ Arrive(r)
               \/ Disconnect(r) \/ WatchdogSeesShutdown(r)
               \/ \E s \in Slots : Reserve(r, s)
        PROVE  FALSE
    BY <2>4 DEF Admit, TurnAway, Refuse, CheckoutTimesOut, CheckoutClosed, Joined, Arrive,
                Disconnect, WatchdogSeesShutdown, Reserve, Say
  <2>5. ASSUME NEW r \in Requests, Engine(r) PROVE FALSE
    BY <2>5 DEF Engine, WindowStart, WindowDone, RunFinishes, RunCancelled, RunFails, End
  <2>6. CASE Tick \/ ShutdownFires \/ ClosePools
    BY <2>6 DEF Tick, ShutdownFires, ClosePools
  <2> QED
    BY <2>1, <2>2, <2>3, <2>4, <2>5, <2>6 DEF Next, Poll
<1> QED
  BY <1>1, FileRunInvariant, PTL DEF Spec, NoFalseTimeout
============================================================================
