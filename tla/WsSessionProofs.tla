-------------------------- MODULE WsSessionProofs --------------------------
(***************************************************************************)
(* Proofs about WsSession, for any limits, periods and bounds.             *)
(*                                                                         *)
(* Custody says which of session, run and pool has the triplet at each     *)
(* point of the session; Signals that nothing but the client's end raises  *)
(* the abort flag or the token of a session that is not on its way out.    *)
(***************************************************************************)
EXTENDS WsSession, SequenceTheorems, TLAPS

Custody ==
  /\ pc \in {"checkout", "loop", "decode", "send", "closed"}
  /\ after \in {"loop", "closed"}
  /\ run \in {"none", "native"} \cup Results
  /\ pc = "checkout" => slot = "free" /\ run = "none"
  /\ pc = "loop" => slot = "session" /\ run = "none"
  /\ pc = "decode" => slot = "run" /\ run # "none"
  /\ pc = "send" /\ after = "loop" => slot = "session" /\ run = "none"
  /\ pc \in {"checkout", "loop", "decode"} => after = "loop"
  /\ pc \in {"send", "closed"} => run \in {"none", "native"}
  /\ run = "native" => slot = "run"
  /\ slot = "run" => run # "none"

\* The session is not on its way out.
Serving == pc # "closed" /\ after = "loop"

Signals ==
  /\ run = "native" /\ pc # "decode" => abort
  /\ run = "cancelled" => abort
  /\ Serving /\ abort => peer = "ended"
  /\ disc \/ reader = "mark" \/ hand = "end" => peer = "ended"
  /\ wire \in Seq(Frames)
  /\ \A i \in DOMAIN wire : wire[i] = "end" => peer = "ended"

\* The actions in groups that treat the triplet alike.
Leaves == \/ CheckoutShutdown \/ CheckoutTimesOut
          \/ ShutdownEnds \/ CapEnds \/ PingTimesOut \/ IdleEnds
Outside == Reader \/ Client \/ Shutdown \/ Tick

\* Every step keeps the triplet where Custody says it is.
LEMMA CustodyStep == Custody /\ [Next]_vars => Custody'
<1> SUFFICES ASSUME Custody, [Next]_vars PROVE Custody'
  OBVIOUS
<1> USE DEF Custody, Results
<1>1. CASE UNCHANGED vars
  BY <1>1 DEF vars
<1>2. CASE Leaves
  BY <1>2 DEF Leaves, CheckoutShutdown, CheckoutTimesOut, ShutdownEnds, CapEnds,
       PingTimesOut, PingTick, IdleEnds, Receiving, Finish, checkoutFrame
<1>3. CASE Checkout \/ PingPeer
  BY <1>3 DEF Checkout, PingPeer, PingTick, Continue, checkoutFrame
<1>4. CASE TakeOther \/ TakeEmpty
  BY <1>4 DEF TakeOther, TakeEmpty, Take, Receiving, Continue, Finish, takeFrame
<1>5. CASE TakeEnd
  BY <1>5 DEF TakeEnd, Receiving, End, takeFrame
<1>6. CASE TakeAudio \/ TakeStop
  BY <1>6 DEF TakeAudio, TakeStop, Decode, Take, Receiving
<1>7. CASE AbandonDecode
  BY <1>7 DEF AbandonDecode, Finish, Finished, Results, decodeFrame
<1>8. CASE ChunkDecoded \/ ChunkFails \/ ChunkPanics \/ ChunkCancelled
  BY <1>8 DEF ChunkDecoded, ChunkFails, ChunkPanics, ChunkCancelled, Join, Continue, Finish
<1>9. CASE StopDecoded \/ StopFails
  BY <1>9 DEF StopDecoded, StopFails, Join, Finish
<1>10. CASE Send \/ SendFails
  BY <1>10 DEF Send, SendFails, End, Continue
<1>11. ASSUME NEW r \in Results, RunReturns(r) PROVE Custody'
  BY <1>11 DEF RunReturns, Results, decodeFrame
<1>12. CASE Outside
  <2>1. UNCHANGED <<pc, after, slot, run>>
    BY <1>12 DEF Outside, Reader, Client, ReadFrame, MarkEnd, HandOver, readerFrame,
         ClientSends, ClientEnds, ClientStalls, ClientResumes, clientFrame, Shutdown, Tick
  <2> QED
    BY <2>1
<1> QED
  BY <1>1, <1>2, <1>3, <1>4, <1>5, <1>6, <1>7, <1>8, <1>9, <1>10, <1>11, <1>12
     DEF Next, Session, Leaves, Outside

\* In a session not on its way out only the client's end raises a signal.
LEMMA SignalsStep == Custody /\ Signals /\ [Next]_vars => Signals'
<1> SUFFICES ASSUME Custody, Signals, [Next]_vars PROVE Signals'
  OBVIOUS
<1> USE DEF Custody, Signals, Serving, Results, reading, client, history
<1>1. CASE UNCHANGED vars
  BY <1>1 DEF vars
<1>2. CASE Leaves
  BY <1>2 DEF Leaves, CheckoutShutdown, CheckoutTimesOut, ShutdownEnds, CapEnds,
       PingTimesOut, PingTick, IdleEnds, Receiving, Finish, checkoutFrame
<1>3. CASE Checkout \/ PingPeer
  BY <1>3 DEF Checkout, PingPeer, PingTick, Continue, checkoutFrame
<1>4. CASE TakeOther \/ TakeEmpty
  BY <1>4 DEF TakeOther, TakeEmpty, Take, Receiving, Continue, Finish, takeFrame
<1>5. CASE TakeEnd
  BY <1>5 DEF TakeEnd, Receiving, End, takeFrame, NoMsg
<1>6. CASE TakeAudio \/ TakeStop
  BY <1>6 DEF TakeAudio, TakeStop, Decode, Take, Receiving
<1>7. CASE AbandonDecode
  BY <1>7 DEF AbandonDecode, Finish, Finished, decodeFrame
<1>8. CASE ChunkDecoded \/ ChunkFails \/ ChunkPanics \/ ChunkCancelled
  BY <1>8 DEF ChunkDecoded, ChunkFails, ChunkPanics, ChunkCancelled, Join, Continue, Finish,
       decodeFrame
<1>9. CASE StopDecoded \/ StopFails
  <2>1. /\ run' = "none" /\ after' = "closed"
        /\ UNCHANGED <<abort, disc, reader, hand, wire, peer>>
    BY <1>9 DEF StopDecoded, StopFails, Join, Finish, decodeFrame
  <2> QED
    BY <2>1
<1>10. CASE Send \/ SendFails
  BY <1>10 DEF Send, SendFails, End, Continue, NoMsg
<1>11. ASSUME NEW r \in Results, RunReturns(r) PROVE Signals'
  BY <1>11 DEF RunReturns, decodeFrame
<1>12. CASE ReadFrame
  <2>1. wire \in Seq(Frames) /\ wire # <<>> /\ hand' = wire[1] /\ wire' = Tail(wire)
    BY <1>12 DEF ReadFrame
  <2>2. hand' = "end" => peer = "ended"
    <3>1. 1 \in DOMAIN wire
      BY <2>1, EmptySeq, LenProperties
    <3> QED
      BY <2>1, <3>1
  <2>3. /\ wire' \in Seq(Frames)
        /\ \A i \in DOMAIN wire' : i + 1 \in DOMAIN wire /\ wire'[i] = wire[i + 1]
    BY <2>1, HeadTailProperties
  <2>4. UNCHANGED <<pc, after, run, peer, disc>>
        /\ (IF hand' = "end" THEN abort' = TRUE /\ reader' = "mark"
                             ELSE UNCHANGED <<abort, reader>>)
    BY <1>12 DEF ReadFrame, readerFrame
  <2> QED
    BY <2>2, <2>3, <2>4
<1>13. CASE MarkEnd \/ HandOver
  BY <1>13 DEF MarkEnd, HandOver, readerFrame, NoMsg
<1>14. ASSUME NEW frame \in Frames \ {"end"}, ClientSends(frame) PROVE Signals'
  <2>1. wire' = Append(wire, frame) /\ peer = "up"
        /\ UNCHANGED <<pc, after, run, peer, disc, abort, reader, hand>>
    BY <1>14 DEF ClientSends, clientFrame
  <2>2. wire' \in Seq(Frames) /\ \A i \in DOMAIN wire' : wire'[i] = "end" => peer = "ended"
    BY <2>1
  <2> QED
    BY <2>1, <2>2
<1>15. CASE ClientEnds
  <2>1. wire' \in Seq(Frames)
    BY <1>15 DEF ClientEnds, Frames
  <2> QED
    BY <1>15, <2>1 DEF ClientEnds, clientFrame
<1>16. CASE ClientStalls \/ ClientResumes \/ Shutdown \/ Tick
  BY <1>16 DEF ClientStalls, ClientResumes, Shutdown, Tick, clientFrame
<1> QED
  BY <1>1, <1>2, <1>3, <1>4, <1>5, <1>6, <1>7, <1>8, <1>9, <1>10, <1>11, <1>12, <1>13,
     <1>14, <1>15, <1>16 DEF Next, Session, Leaves, Reader, Client

----------------------------------------------------------------------------
\* What the session says on its way out.

Message == Errors \cup {"final", "close", "partial", "segment", "ready", "ping",
                        "refused", "inference_error"}

Orderly(s) == \A i, j \in DOMAIN s : i < j =>
  /\ s[i] # "close"
  /\ s[i] \in Errors => s[j] = "close"
  /\ s[i] = "final" => s[j] # "final"

Excused(s) == (\E i \in DOMAIN s : s[i] = "cancelled") => shutdown \/ peer = "ended"

Farewell ==
  /\ told \in Seq(Message) /\ out \in Seq(Message)
  /\ pc = "send" => out # <<>>
  /\ after = "loop" => told = <<>>
  /\ after = "closed" => Orderly(told \o out) /\ Excused(told \o out)

\* A goodbye that is the first thing said on the way out.
Proper(msgs) == /\ msgs \in Seq(Message) /\ msgs # <<>>
                /\ Orderly(msgs) /\ Excused(msgs)

\* send_abort: whatever the reason, and with or without a hypothesis.
LEMMA GoodbyeProper ==
  ASSUME NEW reason \in {"shutdown", "cancelled", "max_session", "inference_timeout"},
         reason = "shutdown" => shutdown,
         reason = "cancelled" => shutdown \/ peer = "ended",
         NEW msgs \in Goodbye(reason)
  PROVE  Proper(msgs)
<1> DEFINE error == IF reason = "shutdown" THEN "cancelled" ELSE reason
<1>1. error \in {"cancelled", "max_session", "inference_timeout"}
  OBVIOUS
<1>2. error = "cancelled" => shutdown \/ peer = "ended"
  OBVIOUS
<1>3. \/ msgs = <<error, "close">>
      \/ msgs = <<"partial", error, "close">>
      \/ msgs = <<"final", error, "close">>
      \/ msgs = <<"partial", "final", error, "close">>
  BY DEF Goodbye
<1> HIDE DEF error
<1> USE <1>1, <1>2 DEF Proper, Orderly, Excused, Message, Errors
<1>4. CASE msgs = <<error, "close">>
  BY <1>4
<1>5. CASE msgs = <<"partial", error, "close">>
  BY <1>5
<1>6. CASE msgs = <<"final", error, "close">>
  BY <1>6
<1>7. CASE msgs = <<"partial", "final", error, "close">>
  BY <1>7
<1> QED
  BY <1>3, <1>4, <1>5, <1>6, <1>7

\* A session that ends with a proper list of messages has an orderly farewell.
LEMMA FinishFarewell ==
  ASSUME told = <<>>, UNCHANGED <<told, shutdown, peer>>,
         NEW msgs, Proper(msgs), Finish(msgs)
  PROVE  Farewell'
<1>1. told' \o out' = msgs /\ out' = msgs /\ told' = <<>> /\ after' = "closed"
  BY ConcatEmptySeq DEF Finish, Proper
<1>2. Orderly(told' \o out') /\ (Excused(told \o out))'
  BY <1>1 DEF Proper, Excused
<1> QED
  BY <1>1, <1>2 DEF Farewell, Proper, Orderly

\* What a session that goes on is about to send is no farewell.
LEMMA ContinueFarewell ==
  ASSUME told = <<>>, UNCHANGED told,
         NEW msgs \in Seq(Message), Continue(msgs)
  PROVE  Farewell'
  BY DEF Farewell, Continue

\* The messages of a session that goes on.
LEMMA Passing ==
  \A msg \in Message : <<msg>> \in Seq(Message)
  OBVIOUS

\* What is sent and what is left to send keep their order.
LEMMA SendKeepsOrder ==
  ASSUME NEW s \in Seq(Message), NEW t \in Seq(Message), t # <<>>
  PROVE  /\ Append(s, Head(t)) \in Seq(Message) /\ Tail(t) \in Seq(Message)
         /\ Append(s, Head(t)) \o Tail(t) = s \o t
<1>1. /\ Head(t) \in Message /\ Tail(t) \in Seq(Message)
      /\ t = <<Head(t)>> \o Tail(t)
  BY HeadTailProperties
<1>2. <<Head(t)>> \in Seq(Message) /\ Append(s, Head(t)) = s \o <<Head(t)>>
  BY <1>1, AppendIsConcat
<1> QED
  BY <1>1, <1>2, ConcatAssociative, ConcatProperties

\* Taking one message off a list leaves nothing only if it was the last.
LEMMA LastMessage ==
  ASSUME NEW t \in Seq(Message), t # <<>>
  PROVE  /\ Len(t) = 1 => Tail(t) = <<>>
         /\ Len(t) > 1 => Tail(t) # <<>>
<1>1. Tail(t) \in Seq(Message) /\ Len(Tail(t)) = Len(t) - 1
  BY HeadTailProperties
<1>2. Len(t) = 1 => Tail(t) = <<>>
  <2>1. Len(t) = 1 => Len(Tail(t)) = 0
    BY <1>1
  <2>2. Tail(t) # <<>> => Len(Tail(t)) \in Nat \ {0}
    BY <1>1, EmptySeq
  <2> QED
    BY <2>1, <2>2
<1>3. Len(t) > 1 => Tail(t) # <<>>
  <2>1. Len(t) \in Nat
    BY LenProperties
  <2>2. Tail(t) = <<>> => Len(Tail(t)) = 0
    BY EmptySeq, Zenon
  <2> QED
    BY <1>1, <2>1, <2>2
<1> QED
  BY <1>2, <1>3

\* A socket that fails cuts the goodbye short.
LEMMA OrderlyPrefix ==
  ASSUME NEW s \in Seq(Message), NEW t \in Seq(Message)
  PROVE  /\ Orderly(s \o t) => Orderly(s)
         /\ Excused(s \o t) => Excused(s)
<1>1. \A i \in DOMAIN s : i \in DOMAIN (s \o t) /\ (s \o t)[i] = s[i]
  BY ConcatProperties, LenProperties
<1> QED
  BY <1>1, ConcatProperties DEF Orderly, Excused

\* Every step keeps what was told and what is left in order.
LEMMA FarewellStep == Custody /\ Signals /\ Farewell /\ [Next]_vars => Farewell'
<1> SUFFICES ASSUME Custody, Signals, Farewell, [Next]_vars PROVE Farewell'
  OBVIOUS
<1>a. pc \in {"checkout", "loop", "decode"} => told = <<>>
  BY DEF Custody, Farewell
<1>b. ASSUME NEW e \in Errors, e = "cancelled" => peer = "ended"
      PROVE  Proper(<<e, "close">>) /\ Proper(<<"partial", e, "close">>)
  <2> USE <1>b DEF Proper, Orderly, Excused, Message, Errors
  <2>1. Proper(<<e, "close">>)
    OBVIOUS
  <2>2. Proper(<<"partial", e, "close">>)
    OBVIOUS
  <2> QED
    BY <2>1, <2>2
<1>c. Proper(<<"final">>) /\ Proper(<<"close">>) /\ Proper(<<"final", "close">>)
      /\ Proper(<<"timeout">>) /\ Proper(<<"final", "max_session", "close">>)
  BY DEF Proper, Orderly, Excused, Message, Errors
<1>d. <<>> \in Seq(Message)
  OBVIOUS
<1>1. CASE UNCHANGED vars
  BY <1>1 DEF vars, client, Farewell, Orderly, Excused
<1>2. CASE Leaves
  <2>1. told = <<>> /\ UNCHANGED <<told, shutdown, peer>>
    BY <1>2, <1>a DEF Leaves, CheckoutShutdown, CheckoutTimesOut, ShutdownEnds, CapEnds,
         PingTimesOut, PingTick, IdleEnds, Receiving, checkoutFrame, client
  <2>2. PICK msgs : Proper(msgs) /\ Finish(msgs)
    <3>1. Proper(<<"idle_timeout", "close">>)
      BY <1>b DEF Errors
    <3> QED
      BY <1>2, <1>c, <3>1 DEF Leaves, CheckoutShutdown, CheckoutTimesOut, ShutdownEnds,
           CapEnds, PingTimesOut, IdleEnds
  <2> QED
    BY <2>1, <2>2, FinishFarewell
<1>3. CASE Checkout \/ PingPeer
  <2>1. told = <<>> /\ UNCHANGED told
    BY <1>3, <1>a DEF Checkout, PingPeer, PingTick, checkoutFrame
  <2>2. PICK msg \in Message : Continue(<<msg>>)
    BY <1>3 DEF Checkout, PingPeer, Message
  <2> QED
    BY <2>1, <2>2, Passing, ContinueFarewell
<1>4. CASE TakeOther \/ TakeEmpty
  <2>1. told = <<>> /\ UNCHANGED <<told, shutdown, peer>>
    BY <1>4, <1>a DEF TakeOther, TakeEmpty, Take, Receiving, takeFrame, client
  <2>2. \/ Continue(<<>>) \/ Continue(<<"refused">>)
        \/ Finish(<<"policy_violation", "close">>)
    BY <1>4 DEF TakeOther, TakeEmpty
  <2>3. Proper(<<"policy_violation", "close">>) /\ "refused" \in Message
    BY <1>b DEF Errors, Message
  <2> QED
    BY <2>1, <2>2, <2>3, <1>d, Passing, ContinueFarewell, FinishFarewell
<1>5. CASE TakeEnd
  <2>1. told' = <<>> /\ out' = <<>> /\ pc' = "closed" /\ after' = "closed"
    BY <1>5, <1>a DEF TakeEnd, Receiving, End, takeFrame
  <2> QED
    BY <2>1, <1>d, ConcatEmptySeq DEF Farewell, Orderly, Excused
<1>6. CASE TakeAudio \/ TakeStop
  BY <1>6, <1>a DEF TakeAudio, TakeStop, Decode, Take, Receiving, Farewell, Custody
<1>7. CASE AbandonDecode
  <2>1. told = <<>> /\ UNCHANGED <<told, shutdown, peer>>
    BY <1>7, <1>a DEF AbandonDecode, decodeFrame, client
  <2>2. /\ Reason \in {"shutdown", "cancelled", "max_session", "inference_timeout"}
        /\ Reason = "shutdown" => shutdown
        /\ Reason = "cancelled" => peer = "ended"
    BY <1>7 DEF AbandonDecode, Reason, Signals
  <2>3. PICK msgs \in Goodbye(Reason) : Finish(msgs)
    BY <1>7 DEF AbandonDecode
  <2> QED
    BY <2>1, <2>2, <2>3, GoodbyeProper, FinishFarewell
<1>8. CASE ChunkDecoded \/ ChunkFails \/ ChunkPanics
  <2>1. told = <<>> /\ UNCHANGED told
    BY <1>8, <1>a DEF ChunkDecoded, ChunkFails, ChunkPanics, Join, decodeFrame
  <2>2. Continue(<<>>) \/ \E msg \in Message : Continue(<<msg>>)
    BY <1>8 DEF ChunkDecoded, ChunkFails, ChunkPanics, Message, Errors
  <2> QED
    BY <2>1, <2>2, <1>d, Passing, ContinueFarewell
<1>9. CASE ChunkCancelled
  <2>1. told = <<>> /\ UNCHANGED <<told, shutdown, peer>> /\ peer = "ended"
    BY <1>9, <1>a DEF ChunkCancelled, Join, decodeFrame, client, Custody, Signals, Serving
  <2>2. PICK msgs \in Goodbye("cancelled") : Finish(msgs)
    BY <1>9 DEF ChunkCancelled
  <2> QED
    BY <2>1, <2>2, GoodbyeProper, FinishFarewell
<1>10. CASE StopDecoded
  <2>1. told = <<>> /\ UNCHANGED <<told, shutdown, peer>> /\ (abort => peer = "ended")
    BY <1>10, <1>a DEF StopDecoded, Join, decodeFrame, client, Custody, Signals, Serving
  <2>2. CASE abort
    <3>1. PICK msgs \in Goodbye("cancelled") : Finish(msgs)
      BY <1>10, <2>2 DEF StopDecoded
    <3> QED
      BY <2>1, <2>2, <3>1, GoodbyeProper, FinishFarewell
  <2>3. CASE ~abort
    BY <1>10, <2>1, <2>3, <1>c, FinishFarewell DEF StopDecoded
  <2> QED
    BY <2>2, <2>3
<1>11. CASE StopFails
  <2>1. told = <<>> /\ UNCHANGED <<told, shutdown, peer>>
    BY <1>11, <1>a DEF StopFails, Join, decodeFrame, client
  <2>2. PICK r \in Results \ {"ok"} : /\ Join(r, "stop")
          /\ LET error == IF r = "panic" THEN "inference_panic" ELSE r
             IN Finish(<<error, "close">>) \/ Finish(<<"partial", error, "close">>)
    BY <1>11 DEF StopFails
  <2>3. r = "cancelled" => peer = "ended"
    BY <2>2 DEF Join, Custody, Signals, Serving
  <2>4. PICK e \in Errors : /\ Finish(<<e, "close">>) \/ Finish(<<"partial", e, "close">>)
                            /\ e = "cancelled" => peer = "ended"
    BY <2>2, <2>3 DEF Results, Errors
  <2>5. Proper(<<e, "close">>) /\ Proper(<<"partial", e, "close">>)
    BY <2>4, <1>b
  <2> QED
    BY <2>1, <2>4, <2>5, FinishFarewell
<1>12. CASE Send
  <2>1. /\ told \in Seq(Message) /\ out \in Seq(Message) /\ out # <<>>
        /\ pc = "send" /\ UNCHANGED <<shutdown, peer>>
        /\ told' = IF after = "closed" THEN Append(told, Head(out)) ELSE told
    BY <1>12 DEF Send, Farewell, client
  <2>2. /\ Append(told, Head(out)) \in Seq(Message) /\ Tail(out) \in Seq(Message)
        /\ Append(told, Head(out)) \o Tail(out) = told \o out
    BY <2>1, SendKeepsOrder
  <2>3. CASE Len(out) > 1 /\ out' = Tail(out) /\ UNCHANGED <<pc, after>>
    <3>1. Tail(out) # <<>>
      BY <2>1, <2>3, LastMessage
    <3>2. told' \in Seq(Message) /\ out' \in Seq(Message)
      BY <2>1, <2>2, <2>3
    <3>3. after = "closed" => told' \o out' = told \o out
      BY <2>1, <2>2, <2>3
    <3>4. after = "closed" => Orderly(told \o out) /\ Excused(told \o out)
      BY DEF Farewell
    <3>5. after = "closed" => Orderly(told' \o out')
      BY <3>3, <3>4
    <3>6. after = "closed" => (Excused(told \o out))'
      BY <2>1, <3>3, <3>4 DEF Excused
    <3> QED
      BY <2>1, <2>3, <3>1, <3>2, <3>5, <3>6 DEF Farewell
  <2>4. CASE after = "loop" /\ Continue(<<>>)
    BY <2>1, <2>4, <1>d, ContinueFarewell DEF Farewell
  <2>5. CASE Len(out) = 1 /\ after = "closed" /\ End
    <3>1. Tail(out) = <<>>
      BY <2>1, <2>5, LastMessage
    <3>2. pc' = "closed" /\ after' = "closed" /\ out' = <<>>
      BY <2>5 DEF End
    <3>3. told' \in Seq(Message) /\ told' \o out' = told \o out
      BY <2>1, <2>2, <2>5, <3>1, <3>2
    <3> QED
      BY <2>1, <2>5, <3>2, <3>3, <1>d DEF Farewell, Orderly, Excused
  <2> QED
    BY <1>12, <2>3, <2>4, <2>5 DEF Send
<1>13. CASE SendFails
  <2>1. /\ told' = told /\ out' = <<>> /\ pc' = "closed" /\ after' = "closed"
        /\ UNCHANGED <<shutdown, peer>>
    BY <1>13 DEF SendFails, End, client
  <2>2. told \in Seq(Message) /\ told \o <<>> = told
    BY ConcatEmptySeq DEF Farewell
  <2>3. Orderly(told) /\ Excused(told)
    <3>1. CASE after = "loop"
      BY <3>1 DEF Farewell, Orderly, Excused
    <3>2. CASE after = "closed"
      BY <3>2, OrderlyPrefix DEF Farewell
    <3> QED
      BY <3>1, <3>2 DEF Custody
  <2> QED
    BY <2>1, <2>2, <2>3, <1>d DEF Farewell, Orderly, Excused
<1>14. CASE Outside \/ \E r \in Results : RunReturns(r)
  <2>1. UNCHANGED <<pc, after, out, told>>
    BY <1>14 DEF Outside, Reader, Client, ReadFrame, MarkEnd, HandOver, readerFrame,
         ClientSends, ClientEnds, ClientStalls, ClientResumes, clientFrame, Shutdown, Tick,
         RunReturns, decodeFrame
  <2>2. (shutdown => shutdown') /\ (peer = "ended" => peer' = "ended")
    BY <1>14 DEF Outside, Reader, Client, ReadFrame, MarkEnd, HandOver, readerFrame,
         ClientSends, ClientEnds, ClientStalls, ClientResumes, clientFrame, client, Shutdown,
         Tick, RunReturns, decodeFrame
  <2> QED
    BY <2>1, <2>2 DEF Farewell, Orderly, Excused
<1> QED
  BY <1>1, <1>2, <1>3, <1>4, <1>5, <1>6, <1>7, <1>8, <1>9, <1>10, <1>11, <1>12, <1>13,
     <1>14 DEF Next, Session, Leaves, Outside

----------------------------------------------------------------------------
IInv == Custody /\ Signals /\ Farewell

\* The invariant the theorems below rest on.
LEMMA Invariance == Spec => []IInv
<1>1. Init => IInv
  <2> SUFFICES ASSUME Init PROVE IInv
    OBVIOUS
  <2>1. Custody
    BY DEF Init, Custody
  <2>2. Signals
    BY DEF Init, Signals, NoMsg, Frames
  <2>3. Farewell
    BY DEF Init, Farewell
  <2> QED
    BY <2>1, <2>2, <2>3 DEF IInv
<1>2. IInv /\ [Next]_vars => IInv'
  BY CustodyStep, SignalsStep, FarewellStep DEF IInv
<1> QED
  BY <1>1, <1>2, PTL DEF Spec

\* What was told so far is in order, and a "cancelled" in it has its cause.
LEMMA SaidIsOrderly ==
  ASSUME IInv
  PROVE  Orderly(told) /\ Excused(told)
<1>1. CASE after = "loop"
  BY <1>1 DEF IInv, Farewell, Orderly, Excused
<1>2. CASE after = "closed"
  BY <1>2, OrderlyPrefix DEF IInv, Farewell
<1> QED
  BY <1>1, <1>2 DEF IInv, Custody

\* The triplet and the state are with the session, with its decode or home, and
\* never return to the pool under a native call (handle_binary_frame,
\* handle_stop_message, await_decode).
THEOREM SessionWhole == Spec => []WholeOrDecoding
<1>1. IInv => WholeOrDecoding
  BY DEF IInv, Custody, WholeOrDecoding
<1> QED
  BY <1>1, Invariance, PTL

\* A decode that was left to itself has its abort flag raised (await_decode).
THEOREM SessionTellsRun == Spec => []DetachedRunIsTold
<1>1. IInv => DetachedRunIsTold
  BY DEF IInv, Signals, DetachedRunIsTold
<1> QED
  BY <1>1, Invariance, PTL

\* The goodbye is said once and in order, whatever brought it about and wherever
\* the socket cut it short (send_abort, flush_and_final, send_finish_error).
THEOREM SessionEndsOnce == Spec => []EndsOnce
<1>1. IInv => EndsOnce
  BY SaidIsOrderly DEF Orderly, EndsOnce
<1> QED
  BY <1>1, Invariance, PTL

\* "cancelled" is only told on a shutdown or to a client that has ended.
THEOREM SessionCancelledTrue == Spec => []CancelledIsTrue
<1>1. IInv => CancelledIsTrue
  BY SaidIsOrderly DEF Excused, CancelledIsTrue, Sent
<1> QED
  BY <1>1, Invariance, PTL
=============================================================================
