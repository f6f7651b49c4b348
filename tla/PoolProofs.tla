----------------------------- MODULE PoolProofs -----------------------------
(***************************************************************************)
(* Theorems of the session pool, for any number of sessions and of calls.  *)
(*                                                                         *)
(* The inductive invariant is IInv: the three safety invariants of Pool    *)
(* and the bookkeeping that ties a call's state to its channel, its guards *)
(* and its sender.  None of the three is inductive alone: that a send      *)
(* never overwrites an item needs OneSenderPerCall, and that the drain     *)
(* leaves no one behind needs both.                                        *)
(***************************************************************************)
EXTENDS Pool, QueueLemmas, FiniteSetTheorems

Bookkeeping ==
  /\ \A i \in Items : checkin[i] = "send" <=> target[i] # NoCall
  /\ \A c \in Calls : mailbox[c] # NoItem => HasReceiver(c)
  /\ \A c \in Calls : call[c] = "holding" <=> held[c] # {}
  /\ \A c \in Calls : call[c] = "expired" => c \in Async
  /\ drained => closed

IInv == TypeOK /\ SlotConservation /\ OneSenderPerCall /\ ParkedCallIsReachable
        /\ Bookkeeping

-----------------------------------------------------------------------------
\* Pool::new satisfies the invariant: every session queued once, nobody inside.
LEMMA InitIInv == Init => IInv
<1> SUFFICES ASSUME Init PROVE IInv
  OBVIOUS
<1> DEFINE n == Cardinality(Items)
<1>1. n \in Nat /\ IsFiniteSet(Items)
  BY PoolAssumption, FS_CardinalityType
<1>2. items \in [1..n -> Items] /\ IsInjective(items)
  BY DEF Init
<1>3. items \in Seq(Items)
  BY <1>1, <1>2, SeqDef
<1>4. Range(items) = Items
  <2>1. Cardinality(1..n) = n
    BY <1>1, FS_Interval
  <2>2. items \in Injection(1..n, Items)
    BY <1>2 DEF Injection
  <2>3. items \in Surjection(1..n, Items)
    BY <1>1, <2>1, <2>2, FS_Injection
  <2> QED BY <1>2, <2>3 DEF Surjection, Range
<1>5. TypeOK
  <2>1. waiters \in Seq(Calls)
    BY EmptySeq DEF Init
  <2> QED BY <1>3, <2>1 DEF Init, TypeOK, CallState, CheckinState
<1>6. InUse = {} /\ InChannel = {} /\ Returning = {} /\ Idle = Items
  BY <1>4 DEF Init, InUse, InChannel, Returning, Idle
<1>7. SlotConservation
  BY <1>2, <1>6 DEF Init, SlotConservation
<1>8. OneSenderPerCall
  <2>1. IsInjective(waiters) /\ Range(waiters) = {}
    BY DEF Init, IsInjective, Range
  <2> QED BY <2>1, PoolAssumption DEF Init, OneSenderPerCall
<1>9. ParkedCallIsReachable /\ Bookkeeping
  BY DEF Init, ParkedCallIsReachable, Bookkeeping
<1> QED BY <1>5, <1>7, <1>8, <1>9 DEF IInv

-----------------------------------------------------------------------------
(* One lemma per action: it keeps the invariant.                           *)

\* An item comes out of the idle queue into a call's guard (pop_front).
LEMMA TakeFrontIInv ==
  ASSUME IInv, NEW c \in Calls, call[c] \in {"idle", "slow"}, ~closed,
         items # <<>>, TakeFront(c),
         UNCHANGED <<waiters, closed, drained, mailbox, checkin, target, lost>>
  PROVE  IInv'
<1> DEFINE i == Head(items)
<1>1. /\ i \in Items /\ items' \in Seq(Items) /\ IsInjective(items')
      /\ Idle = {i} \cup Idle' /\ i \notin Idle'
  BY PopFront DEF IInv, TypeOK, SlotConservation, TakeFront, Idle
<1>2. held[c] = {} /\ held' = [held EXCEPT ![c] = {i}]
  BY DEF IInv, TypeOK, Bookkeeping, TakeFront
<1> HIDE DEF i
<1>3. InUse' = InUse \cup {i} /\ InChannel' = InChannel /\ Returning' = Returning
  BY <1>2 DEF IInv, TypeOK, InUse, InChannel, Returning
<1>4. TypeOK'
  BY <1>1, <1>2 DEF IInv, TypeOK, TakeFront, CallState
<1>5. SlotConservation'
  <2>1. i \notin InUse /\ i \notin InChannel /\ i \notin Returning /\ i \notin lost
    BY <1>1 DEF IInv, SlotConservation
  <2>2. \A d \in Calls : i \notin held[d]
    BY <2>1 DEF InUse
  <2>3. \A d, e \in Calls : d # e => held'[d] \cap held'[e] = {}
    BY <1>2, <2>2 DEF IInv, TypeOK, SlotConservation
  <2> QED BY <1>1, <1>3, <2>1, <2>3 DEF IInv, SlotConservation
<1>6. OneSenderPerCall' /\ ParkedCallIsReachable' /\ Bookkeeping'
  BY <1>2 DEF IInv, TypeOK, OneSenderPerCall, ParkedCallIsReachable, Bookkeeping, HasReceiver, TakeFront, CallState
<1> QED BY <1>4, <1>5, <1>6 DEF IInv

\* Steps that move no session and touch no channel and no queue.
LEMMA QuietIInv ==
  ASSUME IInv, UNCHANGED <<items, waiters, drained, held, mailbox, checkin, target, lost>>,
         closed' \in BOOLEAN, closed => closed',
         NEW c \in Calls, NEW s \in CallState, s \notin {"waiting", "holding"},
         \/ call' = call
         \/ /\ call' = [call EXCEPT ![c] = s]
            /\ call[c] # "holding" /\ mailbox[c] = NoItem
            /\ s = "expired" => c \in Async
            /\ \/ s \in {"expired", "gone"}
               \/ c \notin Range(waiters) /\ \A i \in Items : target[i] # c
  PROVE  IInv'
<1>1. TypeOK' /\ InUse' = InUse /\ InChannel' = InChannel /\ Returning' = Returning
      /\ Idle' = Idle
  BY DEF IInv, TypeOK, InUse, InChannel, Returning, Idle
<1>2. SlotConservation'
  BY <1>1 DEF IInv, SlotConservation
<1>3. CASE call' = call
  BY <1>1, <1>2, <1>3 DEF IInv, OneSenderPerCall, ParkedCallIsReachable, Bookkeeping, HasReceiver
<1>4. CASE call' # call
  <2>1. /\ call' = [call EXCEPT ![c] = s] /\ call[c] # "holding" /\ mailbox[c] = NoItem
        /\ s = "expired" => c \in Async
        /\ s \in {"expired", "gone"} \/ (c \notin Range(waiters) /\ \A i \in Items : target[i] # c)
    BY <1>4
  <2>2. call \in [Calls -> CallState]
    BY DEF IInv, TypeOK
  <2>3. OneSenderPerCall'
    BY <2>1, <2>2 DEF IInv, OneSenderPerCall
  <2>4. ParkedCallIsReachable'
    BY <2>1, <2>2 DEF IInv, ParkedCallIsReachable
  <2>5. Bookkeeping'
    BY <2>1, <2>2 DEF IInv, Bookkeeping, HasReceiver
  <2> QED BY <1>1, <1>2, <2>3, <2>4, <2>5 DEF IInv
<1> QED BY <1>3, <1>4

\* The fast path of checkout.
LEMMA CheckoutFastIInv ==
  ASSUME IInv, NEW c \in Calls, CheckoutFast(c)
  PROVE  IInv'
<1>1. c \notin Range(waiters) /\ \A i \in Items : target[i] # c
  BY DEF IInv, OneSenderPerCall, CheckoutFast
<1>2. mailbox[c] = NoItem
  BY DEF IInv, Bookkeeping, HasReceiver, CheckoutFast
<1>3. CASE closed /\ Refuse(c)
  BY <1>1, <1>2, <1>3, QuietIInv DEF CheckoutFast, Refuse, CallState, IInv, TypeOK
<1>4. CASE ~closed /\ items # <<>> /\ TakeFront(c)
  BY <1>4, TakeFrontIInv DEF CheckoutFast
<1>5. CASE /\ ~closed /\ items = <<>>
           /\ call' = [call EXCEPT ![c] = "slow"]
           /\ UNCHANGED <<items, held>>
  BY <1>1, <1>2, <1>5, QuietIInv DEF CheckoutFast, CallState, IInv, TypeOK
<1> QED BY <1>3, <1>4, <1>5 DEF CheckoutFast

\* The slow path of checkout.
LEMMA CheckoutSlowIInv ==
  ASSUME IInv, NEW c \in Calls, CheckoutSlow(c)
  PROVE  IInv'
<1>1. c \notin Range(waiters) /\ \A i \in Items : target[i] # c
  BY DEF IInv, OneSenderPerCall, CheckoutSlow
<1>2. mailbox[c] = NoItem
  BY DEF IInv, Bookkeeping, HasReceiver, CheckoutSlow
<1>3. CASE closed /\ Refuse(c) /\ UNCHANGED waiters
  BY <1>1, <1>2, <1>3, QuietIInv DEF CheckoutSlow, Refuse, CallState, IInv, TypeOK
<1>4. CASE ~closed /\ items # <<>> /\ TakeFront(c) /\ UNCHANGED waiters
  BY <1>4, TakeFrontIInv DEF CheckoutSlow
<1>5. CASE /\ ~closed /\ items = <<>>
           /\ waiters' = Append(waiters, c)
           /\ call' = [call EXCEPT ![c] = "waiting"]
           /\ UNCHANGED <<items, held>>
  <2>1. /\ waiters' \in Seq(Calls) /\ IsInjective(waiters')
        /\ Range(waiters') = Range(waiters) \cup {c}
    BY <1>1, <1>5, PushBack DEF IInv, TypeOK, OneSenderPerCall
  <2>2. /\ TypeOK' /\ InUse' = InUse /\ InChannel' = InChannel
        /\ Returning' = Returning /\ Idle' = Idle
    BY <1>5, <2>1 DEF IInv, TypeOK, InUse, InChannel, Returning, Idle, CheckoutSlow,
                      CallState
  <2>3. SlotConservation'
    BY <1>5, <2>2 DEF IInv, SlotConservation, CheckoutSlow
  <2>4. OneSenderPerCall'
    BY <1>1, <1>2, <1>5, <2>1 DEF IInv, TypeOK, OneSenderPerCall, CheckoutSlow
  <2>5. ParkedCallIsReachable'
    <3>1. ~drained
      BY <1>5 DEF IInv, Bookkeeping
    <3> QED BY <1>5, <2>1, <3>1 DEF IInv, TypeOK, ParkedCallIsReachable, CheckoutSlow
  <2>6. Bookkeeping'
    BY <1>5 DEF IInv, TypeOK, Bookkeeping, HasReceiver, CheckoutSlow
  <2> QED BY <2>2, <2>3, <2>4, <2>5, <2>6 DEF IInv
<1> QED BY <1>3, <1>4, <1>5 DEF CheckoutSlow

\* The item in a parked call's channel becomes that call's guard.
LEMMA ReceiveIInv ==
  ASSUME IInv, NEW c \in Calls, Receive(c)
  PROVE  IInv'
<1> DEFINE i == mailbox[c]
<1>1. i \in Items /\ held[c] = {} /\ i \in InChannel
  BY DEF IInv, TypeOK, Bookkeeping, Receive, InChannel
<1>2. i \notin InUse /\ i \notin Idle /\ i \notin Returning /\ i \notin lost
  BY <1>1 DEF IInv, SlotConservation
<1>3. InUse' = InUse \cup {i} /\ Idle' = Idle /\ Returning' = Returning
  BY <1>1 DEF IInv, TypeOK, Receive, InUse, Idle, Returning
<1>4. InChannel' = InChannel \ {i}
  <2>1. \A d \in Calls : d # c => mailbox[d] # i
    BY <1>1, PoolAssumption DEF IInv, SlotConservation
  <2> QED BY <1>1, <2>1 DEF IInv, TypeOK, Receive, InChannel
<1>5. TypeOK'
  BY <1>1 DEF IInv, TypeOK, Receive, CallState
<1>6. SlotConservation'
  <2>1. \A d, e \in Calls : d # e => held'[d] \cap held'[e] = {}
    BY <1>1, <1>2 DEF IInv, TypeOK, SlotConservation, Receive, InUse
  <2>2. \A d, e \in Calls : d # e /\ mailbox'[d] = mailbox'[e] => mailbox'[d] = NoItem
    BY DEF IInv, TypeOK, SlotConservation, Receive
  <2>3. IsInjective(items')
    BY DEF IInv, SlotConservation, Receive
  <2>4. lost' = lost
    BY DEF Receive
  <2> QED BY <1>1, <1>2, <1>3, <1>4, <2>1, <2>2, <2>3, <2>4 DEF IInv, SlotConservation
<1>7. OneSenderPerCall' /\ ParkedCallIsReachable' /\ Bookkeeping'
  BY <1>1, PoolAssumption
     DEF IInv, TypeOK, OneSenderPerCall, ParkedCallIsReachable, Bookkeeping, HasReceiver,
         Receive
<1> QED BY <1>5, <1>6, <1>7 DEF IInv

\* A parked call's timer wins while its channel is empty.
LEMMA CheckoutTimeoutIInv ==
  ASSUME IInv, NEW c \in Calls, CheckoutTimeout(c)
  PROVE  IInv'
BY QuietIInv DEF CheckoutTimeout, CallState, IInv, TypeOK

\* A receiver is dropped: the item in its channel, if any, is destroyed.
LEMMA DropReceiverIInv ==
  ASSUME IInv, NEW c \in Calls, HasReceiver(c), DropReceiver(c)
  PROVE  IInv'
<1>1. CASE mailbox[c] = NoItem
  <2>1. lost' = lost /\ mailbox' = mailbox
    BY <1>1 DEF DropReceiver, IInv, TypeOK
  <2> QED BY <1>1, <2>1, QuietIInv DEF DropReceiver, HasReceiver, CallState, IInv, TypeOK
<1>2. CASE mailbox[c] # NoItem
  <2> DEFINE i == mailbox[c]
  <2>1. i \in Items /\ i \in InChannel
    BY <1>2 DEF IInv, TypeOK, InChannel
  <2>2. i \notin InUse /\ i \notin Idle /\ i \notin Returning /\ i \notin lost
    BY <2>1 DEF IInv, SlotConservation
  <2>3. lost' = lost \cup {i} /\ InUse' = InUse /\ Idle' = Idle /\ Returning' = Returning
    BY <1>2 DEF DropReceiver, InUse, Idle, Returning
  <2>4. InChannel' = InChannel \ {i}
    <3>1. \A d \in Calls : d # c => mailbox[d] # i
      BY <1>2 DEF IInv, SlotConservation
    <3> QED BY <2>1, <3>1, PoolAssumption DEF IInv, TypeOK, DropReceiver, InChannel
  <2>5. TypeOK'
    BY <2>1, <2>3 DEF IInv, TypeOK, DropReceiver, CallState
  <2>6. SlotConservation'
    <3>1. \A d, e \in Calls : d # e /\ mailbox'[d] = mailbox'[e] => mailbox'[d] = NoItem
      BY DEF IInv, TypeOK, SlotConservation, DropReceiver
    <3>2. held' = held /\ items' = items
      BY DEF DropReceiver
    <3> HIDE DEF i
    <3> QED BY <2>1, <2>2, <2>3, <2>4, <3>1, <3>2 DEF IInv, SlotConservation
  <2>7. OneSenderPerCall' /\ ParkedCallIsReachable' /\ Bookkeeping'
    BY DEF IInv, TypeOK, OneSenderPerCall, ParkedCallIsReachable, Bookkeeping,
           HasReceiver, DropReceiver
  <2> QED BY <2>5, <2>6, <2>7 DEF IInv
<1> QED BY <1>1, <1>2

\* Extra idle items go to a call that already holds one.
LEMMA TryCheckoutNIInv ==
  ASSUME IInv, NEW c \in Calls, NEW n \in 1..MaxExtra, TryCheckoutN(c, n)
  PROVE  IInv'
<1> DEFINE k == IF n < Len(items) THEN n ELSE Len(items)
           T == {items[j] : j \in 1..k}
<1>1. Len(items) \in Nat /\ k \in 0..Len(items)
  BY LenProperties, PoolAssumption DEF IInv, TypeOK
<1>2. /\ items' \in Seq(Items) /\ IsInjective(items') /\ T \subseteq Items
      /\ Idle = T \cup Idle' /\ T \cap Idle' = {}
  BY <1>1, CutPrefix DEF IInv, TypeOK, SlotConservation, TryCheckoutN, Idle
<1>3. held' = [held EXCEPT ![c] = @ \cup T] /\ call[c] = "holding"
  BY DEF TryCheckoutN
<1> HIDE DEF T, k
<1>4. InUse' = InUse \cup T /\ InChannel' = InChannel /\ Returning' = Returning
      /\ lost' = lost
  BY <1>3 DEF IInv, TypeOK, TryCheckoutN, InUse, InChannel, Returning
<1>5. TypeOK'
  BY <1>2, <1>3 DEF IInv, TypeOK, TryCheckoutN
<1>6. SlotConservation'
  <2>1. T \cap InUse = {} /\ T \cap InChannel = {} /\ T \cap Returning = {} /\ T \cap lost = {}
    BY <1>2 DEF IInv, SlotConservation
  <2>2. \A d \in Calls : T \cap held[d] = {}
    BY <2>1 DEF InUse
  <2>3. \A d, e \in Calls : d # e => held'[d] \cap held'[e] = {}
    BY <1>3, <2>2 DEF IInv, TypeOK, SlotConservation
  <2>4. mailbox' = mailbox
    BY DEF TryCheckoutN
  <2> QED BY <1>2, <1>4, <2>1, <2>3, <2>4 DEF IInv, SlotConservation
<1>7. OneSenderPerCall' /\ ParkedCallIsReachable' /\ Bookkeeping'
  <2>1. held[c] # {}
    BY <1>3 DEF IInv, Bookkeeping
  <2> QED BY <1>3, <2>1 DEF IInv, TypeOK, OneSenderPerCall, ParkedCallIsReachable,
                            Bookkeeping, HasReceiver, TryCheckoutN
<1> QED BY <1>5, <1>6, <1>7 DEF IInv

\* A guard is dropped: its item is in checkin's hand, or, closed, destroyed.
LEMMA CheckinStartIInv ==
  ASSUME IInv, NEW c \in Calls, NEW i \in Items, CheckinStart(c, i)
  PROVE  IInv'
<1>1. i \in held[c] /\ i \in InUse
  BY DEF CheckinStart, InUse
<1>2. i \notin Idle /\ i \notin InChannel /\ i \notin Returning /\ i \notin lost
  BY <1>1 DEF IInv, SlotConservation
<1>3. Idle' = Idle /\ InChannel' = InChannel
  BY DEF CheckinStart, Idle, InChannel
<1>4. InUse' = InUse \ {i}
  <2>1. \A d \in Calls : d # c => i \notin held[d]
    BY <1>1 DEF IInv, SlotConservation
  <2> QED BY <1>1, <2>1 DEF IInv, TypeOK, CheckinStart, InUse
<1>5. target[i] = NoCall
  BY <1>2 DEF IInv, Bookkeeping, Returning
<1>6. Returning' \cup lost' = Returning \cup lost \cup {i} /\ Returning' \cap lost' = {}
      /\ Returning' \subseteq Returning \cup {i} /\ lost' \subseteq lost \cup {i}
  BY <1>2 DEF IInv, TypeOK, SlotConservation, CheckinStart, Returning
<1>7. TypeOK'
  BY DEF IInv, TypeOK, CheckinStart, CallState, CheckinState
<1>8. SlotConservation'
  <2>1. \A d, e \in Calls : d # e => held'[d] \cap held'[e] = {}
    BY DEF IInv, TypeOK, SlotConservation, CheckinStart
  <2>2. mailbox' = mailbox /\ items' = items
    BY DEF CheckinStart
  <2> QED BY <1>1, <1>2, <1>3, <1>4, <1>6, <2>1, <2>2 DEF IInv, SlotConservation
<1>9. OneSenderPerCall' /\ ParkedCallIsReachable'
  BY DEF IInv, TypeOK, OneSenderPerCall, ParkedCallIsReachable, CheckinStart
<1>10. Bookkeeping'
  <2>1. \A d \in Calls : call'[d] = "holding" <=> held'[d] # {}
    BY DEF IInv, TypeOK, Bookkeeping, CheckinStart
  <2>2. \A j \in Items : checkin'[j] = "send" <=> target'[j] # NoCall
    BY <1>2, <1>5 DEF IInv, TypeOK, Bookkeeping, CheckinStart, Returning
  <2>3. \A d \in Calls : mailbox'[d] # NoItem => HasReceiver(d)'
    BY DEF IInv, TypeOK, Bookkeeping, HasReceiver, CheckinStart
  <2>4. \A d \in Calls : call'[d] = "expired" => d \in Async
    BY DEF IInv, TypeOK, Bookkeeping, CheckinStart
  <2> QED BY <2>1, <2>2, <2>3, <2>4 DEF IInv, Bookkeeping, CheckinStart
<1> QED BY <1>7, <1>8, <1>9, <1>10 DEF IInv

\* A waiter is popped, or the queue was empty.
LEMMA CheckinPopIInv ==
  ASSUME IInv, NEW i \in Items, CheckinPop(i)
  PROVE  IInv'
<1>1. Idle' = Idle /\ InChannel' = InChannel /\ InUse' = InUse /\ Returning' = Returning
  BY DEF IInv, TypeOK, CheckinPop, Idle, InChannel, InUse, Returning
<1>2. SlotConservation'
  BY <1>1 DEF IInv, SlotConservation, CheckinPop
<1>3. target[i] = NoCall
  BY DEF IInv, Bookkeeping, CheckinPop
<1>4. CASE waiters = <<>>
  BY <1>2, <1>3, <1>4 DEF IInv, TypeOK, OneSenderPerCall, ParkedCallIsReachable,
                          Bookkeeping, HasReceiver, CheckinPop, CheckinState
<1>5. CASE waiters # <<>>
  <2> DEFINE w == Head(waiters)
  <2>1. /\ w \in Calls /\ waiters' \in Seq(Calls) /\ IsInjective(waiters')
        /\ Range(waiters) = {w} \cup Range(waiters') /\ w \notin Range(waiters')
    <3>1. waiters' = Tail(waiters)
      BY <1>5 DEF CheckinPop
    <3>2. waiters \in Seq(Calls) /\ IsInjective(waiters)
      BY DEF IInv, TypeOK, OneSenderPerCall
    <3> QED BY <1>5, <3>1, <3>2, PopFront
  <2>2. target' = [target EXCEPT ![i] = w] /\ checkin' = [checkin EXCEPT ![i] = "send"]
    BY <1>5 DEF CheckinPop
  <2> HIDE DEF w
  <2>3. TypeOK'
    BY <2>1, <2>2 DEF IInv, TypeOK, CheckinPop, CheckinState
  <2>4. OneSenderPerCall'
    <3>1. \A j \in Items : target[j] # w
      BY <2>1 DEF IInv, OneSenderPerCall
    <3> QED BY <2>1, <2>2, <3>1 DEF IInv, TypeOK, OneSenderPerCall, CheckinPop
  <2>5. ParkedCallIsReachable'
    <3> SUFFICES ASSUME NEW c \in Calls, call[c] = "waiting", mailbox[c] = NoItem
                 PROVE  (\E j \in Items : target'[j] = c) \/ (c \in Range(waiters') /\ ~drained)
      BY DEF ParkedCallIsReachable, CheckinPop
    <3>1. CASE \E j \in Items : target[j] = c
      <4>1. PICK j \in Items : target[j] = c
        BY <3>1
      <4>2. j # i
        BY <1>3, <4>1, PoolAssumption
      <4> QED BY <2>2, <4>1, <4>2 DEF IInv, TypeOK
    <3>2. CASE c \in Range(waiters) /\ ~drained
      BY <2>1, <2>2, <3>2 DEF IInv, TypeOK
    <3> QED BY <3>1, <3>2 DEF IInv, ParkedCallIsReachable
  <2>6. Bookkeeping'
    BY <2>1, <2>2, PoolAssumption DEF IInv, TypeOK, Bookkeeping, HasReceiver, CheckinPop
  <2> QED BY <1>2, <2>3, <2>4, <2>5, <2>6 DEF IInv
<1> QED BY <1>4, <1>5

\* The send fills the channel of a live waiter or comes back.
LEMMA CheckinSendIInv ==
  ASSUME IInv, NEW i \in Items, CheckinSend(i)
  PROVE  IInv'
<1> DEFINE w == target[i]
<1>1. w \in Calls
  BY DEF IInv, TypeOK, Bookkeeping, CheckinSend
<1>2. /\ call[w] \in {"waiting", "expired", "gone"} /\ mailbox[w] = NoItem /\ w \notin Range(waiters)
      /\ \A j \in Items : j # i => target[j] # w
  BY <1>1, PoolAssumption DEF IInv, OneSenderPerCall
<1>3. i \in Returning /\ i \notin Idle /\ i \notin InUse /\ i \notin InChannel /\ i \notin lost
  BY DEF IInv, SlotConservation, CheckinSend, Returning
<1>4. target' = [target EXCEPT ![i] = NoCall]
  BY DEF CheckinSend
<1>5. Idle' = Idle /\ InUse' = InUse /\ lost' = lost /\ items' = items /\ held' = held
  BY DEF CheckinSend, Idle, InUse
<1>6. NoCall \notin Range(waiters)
  BY PoolAssumption, RangeOfSeq DEF IInv, TypeOK
<1>7. CASE HasReceiver(w)
  <2>1. mailbox' = [mailbox EXCEPT ![w] = i] /\ checkin' = [checkin EXCEPT ![i] = "none"]
    BY <1>7 DEF CheckinSend
  <2>2. Returning' = Returning \ {i}
    BY <2>1 DEF IInv, TypeOK, Returning
  <2>3. InChannel' = InChannel \cup {i}
    BY <1>1, <1>2, <2>1, PoolAssumption DEF IInv, TypeOK, InChannel
  <2> HIDE DEF w
  <2>4. TypeOK'
    BY <1>1, <1>4, <2>1 DEF IInv, TypeOK, CheckinSend, CheckinState
  <2>5. SlotConservation'
    <3>1. \A d \in Calls : mailbox[d] # i
      BY <1>3, PoolAssumption DEF InChannel
    <3>2. \A d, e \in Calls : d # e /\ mailbox'[d] = mailbox'[e] => mailbox'[d] = NoItem
      BY <1>1, <2>1, <3>1 DEF IInv, TypeOK, SlotConservation
    <3> QED BY <1>3, <1>5, <2>2, <2>3, <3>2 DEF IInv, SlotConservation
  <2>6. OneSenderPerCall'
    BY <1>1, <1>2, <1>4, <1>6, <2>1, PoolAssumption
       DEF IInv, TypeOK, OneSenderPerCall, CheckinSend
  <2>7. ParkedCallIsReachable'
    <3> SUFFICES ASSUME NEW c \in Calls, call[c] = "waiting", mailbox'[c] = NoItem
                 PROVE  (\E j \in Items : target'[j] = c) \/ (c \in Range(waiters) /\ ~drained)
      BY DEF ParkedCallIsReachable, CheckinSend
    <3>1. c # w /\ mailbox[c] = NoItem
      BY <1>1, <2>1, PoolAssumption DEF IInv, TypeOK
    <3>2. CASE \E j \in Items : target[j] = c
      <4>1. PICK j \in Items : target[j] = c
        BY <3>2
      <4>2. j # i
        BY <3>1, <4>1 DEF w
      <4> QED BY <1>4, <4>1, <4>2 DEF IInv, TypeOK
    <3> QED BY <3>1, <3>2 DEF IInv, ParkedCallIsReachable
  <2>8. Bookkeeping'
    BY <1>1, <1>4, <1>7, <2>1 DEF IInv, TypeOK, Bookkeeping, HasReceiver, CheckinSend, w
  <2> QED BY <2>4, <2>5, <2>6, <2>7, <2>8 DEF IInv
<1>8. CASE ~HasReceiver(w)
  <2>1. mailbox' = mailbox /\ checkin' = [checkin EXCEPT ![i] = "pop"]
    BY <1>8 DEF CheckinSend
  <2>2. Returning' = Returning /\ InChannel' = InChannel
    BY <1>3, <2>1 DEF IInv, TypeOK, Returning, InChannel
  <2>3. TypeOK' /\ SlotConservation'
    BY <1>4, <1>5, <2>1, <2>2 DEF IInv, TypeOK, SlotConservation, CheckinSend, CheckinState
  <2>4. OneSenderPerCall' /\ Bookkeeping'
    BY <1>1, <1>2, <1>4, <1>6, <1>8, <2>1, PoolAssumption
       DEF IInv, TypeOK, OneSenderPerCall, Bookkeeping, HasReceiver, CheckinSend
  <2>5. ParkedCallIsReachable'
    <3> SUFFICES ASSUME NEW c \in Calls, call[c] = "waiting", mailbox[c] = NoItem
                 PROVE  (\E j \in Items : target'[j] = c) \/ (c \in Range(waiters) /\ ~drained)
      BY <2>1 DEF ParkedCallIsReachable, CheckinSend
    <3>1. CASE \E j \in Items : target[j] = c
      <4>1. PICK j \in Items : target[j] = c
        BY <3>1
      <4>2. j # i
        BY <1>8, <4>1 DEF HasReceiver
      <4> QED BY <1>4, <4>1, <4>2 DEF IInv, TypeOK
    <3> QED BY <3>1 DEF IInv, ParkedCallIsReachable
  <2> QED BY <2>3, <2>4, <2>5 DEF IInv
<1> QED BY <1>7, <1>8

\* The item goes to the back of the idle queue.
LEMMA CheckinPushIInv ==
  ASSUME IInv, NEW i \in Items, CheckinPush(i)
  PROVE  IInv'
<1>1. i \in Returning /\ i \notin Idle /\ i \notin InUse /\ i \notin InChannel /\ i \notin lost
  BY DEF IInv, SlotConservation, CheckinPush, Returning
<1>2. items' \in Seq(Items) /\ IsInjective(items') /\ Idle' = Idle \cup {i}
  BY <1>1, PushBack DEF IInv, TypeOK, SlotConservation, CheckinPush, Idle
<1>3. Returning' = Returning \ {i} /\ InUse' = InUse /\ InChannel' = InChannel
  BY DEF IInv, TypeOK, CheckinPush, Returning, InUse, InChannel
<1>4. TypeOK'
  BY <1>2 DEF IInv, TypeOK, CheckinPush, CheckinState
<1>5. SlotConservation'
  <2>1. held' = held /\ mailbox' = mailbox /\ lost' = lost
    BY DEF CheckinPush
  <2> QED BY <1>1, <1>2, <1>3, <2>1 DEF IInv, SlotConservation
<1>6. OneSenderPerCall' /\ ParkedCallIsReachable' /\ Bookkeeping'
  BY DEF IInv, TypeOK, OneSenderPerCall, ParkedCallIsReachable, Bookkeeping, HasReceiver,
         CheckinPush
<1> QED BY <1>4, <1>5, <1>6 DEF IInv

\* close drains the queue: the parked calls in it are refused, and no other
\* parked call is left without an item on its way.
LEMMA CloseDrainIInv ==
  ASSUME IInv, CloseDrain
  PROVE  IInv'
<1>1. waiters' \in Seq(Calls) /\ IsInjective(waiters') /\ Range(waiters') = {}
  BY EmptySeq DEF CloseDrain, IsInjective, Range
<1>2. TypeOK' /\ InUse' = InUse /\ InChannel' = InChannel /\ Returning' = Returning
      /\ Idle' = Idle
  BY <1>1 DEF IInv, TypeOK, CloseDrain, CallState, InUse, InChannel, Returning, Idle
<1>3. SlotConservation'
  BY <1>2 DEF IInv, SlotConservation, CloseDrain
<1>4. OneSenderPerCall'
  BY <1>1 DEF IInv, TypeOK, OneSenderPerCall, CloseDrain
<1>5. ParkedCallIsReachable'
  BY <1>1 DEF IInv, TypeOK, ParkedCallIsReachable, CloseDrain
<1>6. Bookkeeping'
  <2>1. \A c \in Calls : mailbox[c] # NoItem => c \notin Range(waiters)
    BY DEF IInv, OneSenderPerCall
  <2> QED BY <2>1 DEF IInv, TypeOK, Bookkeeping, HasReceiver, CloseDrain
<1> QED BY <1>2, <1>3, <1>4, <1>5, <1>6 DEF IInv

-----------------------------------------------------------------------------
\* Every step of the pool, and a stutter, keeps the invariant.
LEMMA StepIInv == IInv /\ [Next]_poolVars => IInv'
<1> SUFFICES ASSUME IInv, [Next]_poolVars PROVE IInv'
  OBVIOUS
<1>1. ASSUME NEW c \in Calls, CheckoutFast(c) PROVE IInv'
  BY <1>1, CheckoutFastIInv
<1>2. ASSUME NEW c \in Calls, CheckoutSlow(c) PROVE IInv'
  BY <1>2, CheckoutSlowIInv
<1>3. ASSUME NEW c \in Calls, Receive(c) PROVE IInv'
  BY <1>3, ReceiveIInv
<1>4. ASSUME NEW c \in Calls, CheckoutTimeout(c) PROVE IInv'
  BY <1>4, CheckoutTimeoutIInv
<1>5. ASSUME NEW c \in Calls, CheckoutElapsed(c) \/ CheckoutDropped(c) PROVE IInv'
  BY <1>5, DropReceiverIInv DEF CheckoutElapsed, CheckoutDropped, HasReceiver
<1>6. ASSUME NEW c \in Calls, Recycle(c) PROVE IInv'
  <2>1. mailbox[c] = NoItem
    BY <1>6 DEF IInv, Bookkeeping, HasReceiver, Recycle
  <2> QED BY <1>6, <2>1, QuietIInv DEF Recycle, CallState, IInv, TypeOK
<1>7. ASSUME NEW c \in Calls, NEW n \in 1..MaxExtra, TryCheckoutN(c, n) PROVE IInv'
  BY <1>7, TryCheckoutNIInv
<1>8. ASSUME NEW c \in Calls, NEW i \in Items, CheckinStart(c, i) PROVE IInv'
  BY <1>8, CheckinStartIInv
<1>9. ASSUME NEW i \in Items, CheckinPop(i) PROVE IInv'
  BY <1>9, CheckinPopIInv
<1>10. ASSUME NEW i \in Items, CheckinSend(i) PROVE IInv'
  BY <1>10, CheckinSendIInv
<1>11. ASSUME NEW i \in Items, CheckinPush(i) PROVE IInv'
  BY <1>11, CheckinPushIInv
<1>12. CASE CloseStore
  BY <1>12 DEF CloseStore, IInv, TypeOK, SlotConservation, OneSenderPerCall,
       ParkedCallIsReachable, Bookkeeping, HasReceiver, Idle, InUse, InChannel, Returning
<1>13. CASE CloseDrain
  BY <1>13, CloseDrainIInv
<1>14. CASE UNCHANGED poolVars
  BY <1>14 DEF poolVars, IInv, TypeOK, SlotConservation, OneSenderPerCall,
       ParkedCallIsReachable, Bookkeeping, HasReceiver, Idle, InUse, InChannel, Returning
<1> QED BY <1>1, <1>2, <1>3, <1>4, <1>5, <1>6, <1>7, <1>8, <1>9, <1>10, <1>11,
           <1>12, <1>13, <1>14 DEF Next

\* The pool's inductive invariant.
THEOREM PoolInvariant == Spec => []IInv
BY InitIInv, StepIInv, PTL DEF Spec

\* Type correctness of the pool's state.
THEOREM PoolTypeOK == Spec => []TypeOK
<1>1. IInv => TypeOK
  BY DEF IInv
<1> QED BY <1>1, PoolInvariant, PTL

\* Every session is in exactly one place, for any pool size and any number of
\* concurrent checkouts, timeouts, dropped futures and a close at any moment.
THEOREM PoolConservesSlots == Spec => []SlotConservation
<1>1. IInv => SlotConservation
  BY DEF IInv
<1> QED BY <1>1, PoolInvariant, PTL

\* No channel has two senders, so none is filled twice.
THEOREM PoolOneSender == Spec => []OneSenderPerCall
<1>1. IInv => OneSenderPerCall
  BY DEF IInv
<1> QED BY <1>1, PoolInvariant, PTL

\* No call is ever parked where neither a checkin nor close can reach it.
THEOREM PoolReachesParkedCalls == Spec => []ParkedCallIsReachable
<1>1. IInv => ParkedCallIsReachable
  BY DEF IInv
<1> QED BY <1>1, PoolInvariant, PTL

\* In an open pool a session is destroyed only with the receiver of a call that
\* is dropped from outside or whose timer had won before the item came; an item
\* that came to a call still waiting stays there until the call takes it.
THEOREM PoolOnlyAbandonedLose == Spec => OnlyAbandonedLose
<1> DEFINE Losses == \A i \in lost' \ lost : closed \/ LostByAbandoning(i)
           Arrivals == \A c \in Calls : (call[c] = "waiting" /\ mailbox[c] # NoItem)
                                         => KeepsOrTakes(c)
<1>1. IInv /\ Next => Losses
  <2> SUFFICES ASSUME IInv, Next, ~closed, NEW i \in lost' \ lost
               PROVE  LostByAbandoning(i)
    OBVIOUS
  <2>1. PICK c \in Calls : CheckoutElapsed(c) \/ CheckoutDropped(c)
    BY DEF Next, CheckoutFast, CheckoutSlow, Receive, CheckoutTimeout,
         Recycle, TryCheckoutN, CheckinStart, CheckinPop, CheckinSend, CheckinPush,
         CloseStore, CloseDrain
  <2>2. DropReceiver(c) /\ (call[c] = "expired" \/ c \in Droppable)
    BY <2>1 DEF CheckoutElapsed, CheckoutDropped
  <2>3. mailbox[c] = i /\ mailbox[c] # NoItem
    BY <2>2 DEF DropReceiver
  <2>4. call'[c] = "gone"
    BY <2>2 DEF DropReceiver, IInv, TypeOK
  <2>5. c \in Async
    BY <2>2, PoolAssumption DEF IInv, Bookkeeping
  <2> QED BY <2>2, <2>3, <2>4, <2>5 DEF LostByAbandoning
<1>2. IInv /\ Next => Arrivals
  <2> SUFFICES ASSUME IInv, Next, NEW c \in Calls, call[c] = "waiting", mailbox[c] # NoItem
               PROVE  KeepsOrTakes(c)
    OBVIOUS
  <2>1. CASE CloseDrain
    <3>1. c \notin Range(waiters)
      BY DEF IInv, OneSenderPerCall
    <3> QED BY <2>1, <3>1 DEF CloseDrain, KeepsOrTakes
  <2>2. ASSUME NEW d \in Calls, CheckoutFast(d) \/ CheckoutSlow(d) \/ CheckoutTimeout(d)
                                \/ Recycle(d)
        PROVE  KeepsOrTakes(c)
    <3>1. d # c /\ mailbox' = mailbox /\ \E s : call' = [call EXCEPT ![d] = s]
      BY <2>2 DEF CheckoutFast, CheckoutSlow, CheckoutTimeout, Recycle, TakeFront, Refuse
    <3> QED BY <3>1 DEF KeepsOrTakes, IInv, TypeOK
  <2>3. ASSUME NEW d \in Calls, CheckoutElapsed(d) \/ CheckoutDropped(d)
        PROVE  KeepsOrTakes(c)
    BY <2>3 DEF CheckoutElapsed, CheckoutDropped, DropReceiver, KeepsOrTakes, IInv, TypeOK
  <2>4. ASSUME NEW d \in Calls, Receive(d) PROVE KeepsOrTakes(c)
    BY <2>4 DEF Receive, KeepsOrTakes, IInv, TypeOK
  <2>5. ASSUME NEW d \in Calls, NEW n \in 1..MaxExtra, TryCheckoutN(d, n)
        PROVE  KeepsOrTakes(c)
    BY <2>5 DEF TryCheckoutN, KeepsOrTakes
  <2>6. ASSUME NEW d \in Calls, NEW i \in Items, CheckinStart(d, i) PROVE KeepsOrTakes(c)
    BY <2>6 DEF CheckinStart, KeepsOrTakes, IInv, TypeOK
  <2>7. ASSUME NEW i \in Items, CheckinPop(i) \/ CheckinSend(i) \/ CheckinPush(i)
        PROVE  KeepsOrTakes(c)
    <3>1. CASE CheckinSend(i)
      <4>1. target[i] # c
        BY <3>1 DEF IInv, OneSenderPerCall
      <4> QED BY <3>1, <4>1 DEF CheckinSend, KeepsOrTakes, IInv, TypeOK
    <3> QED BY <2>7, <3>1 DEF CheckinPop, CheckinPush, KeepsOrTakes
  <2>8. CASE CloseStore
    BY <2>8 DEF CloseStore, KeepsOrTakes
  <2> QED BY <2>1, <2>2, <2>3, <2>4, <2>5, <2>6, <2>7, <2>8 DEF Next
<1>3. IInv /\ [Next]_poolVars => [Losses /\ Arrivals]_poolVars
  BY <1>1, <1>2
<1> QED BY <1>3, PoolInvariant, PTL DEF Spec, OnlyAbandonedLose
-----------------------------------------------------------------------------
(* The refinement: every step of the pool is a step of SlotPool or hidden. *)

\* Whoever holds a session is its owner, and nobody else.
LEMMA OwnerOf ==
  ASSUME NEW h \in [Calls -> SUBSET Items], NEW i \in Items, NEW o,
         \A c, d \in Calls : c # d => h[c] \cap h[d] = {},
         o = IF \E c \in Calls : i \in h[c] THEN CHOOSE c \in Calls : i \in h[c] ELSE NoCall
  PROVE  o \in Calls \cup {NoCall} /\ \A c \in Calls : o = c <=> i \in h[c]
<1>1. CASE \E c \in Calls : i \in h[c]
  <2>1. o \in Calls /\ i \in h[o]
    BY <1>1
  <2> QED BY <2>1
<1>2. CASE ~\E c \in Calls : i \in h[c]
  BY <1>2, PoolAssumption
<1> QED BY <1>1, <1>2

\* The owner, now and after a step.
LEMMA OwnerHolds ==
  ASSUME IInv, NEW i \in Items
  PROVE  Owner(i) \in Calls \cup {NoCall} /\ \A c \in Calls : Owner(i) = c <=> i \in held[c]
BY OwnerOf DEF IInv, TypeOK, SlotConservation, Owner

LEMMA OwnerHoldsNext ==
  ASSUME IInv', NEW i \in Items
  PROVE  Owner(i)' \in Calls \cup {NoCall} /\ \A c \in Calls : Owner(i)' = c <=> i \in held'[c]
BY OwnerOf DEF IInv, TypeOK, SlotConservation, Owner

\* Free sessions become a call's: nobody else's ownership changes.
LEMMA OwnersGrow ==
  ASSUME IInv, IInv', NEW c \in Calls, NEW S \in SUBSET Items, S \cap InUse = {},
         held' = [held EXCEPT ![c] = @ \cup S]
  PROVE  /\ \A i \in S : Owner(i) = NoCall
         /\ \A i \in Items : Owner(i)' = IF i \in S THEN c ELSE Owner(i)
<1>1. held \in [Calls -> SUBSET Items]
  BY DEF IInv, TypeOK
<1>2. \A i \in S : \A d \in Calls : i \notin held[d]
  BY DEF InUse
<1>3. \A i \in S : Owner(i) = NoCall
  BY <1>2, OwnerHolds
<1>4. ASSUME NEW i \in Items, i \in S PROVE Owner(i)' = c
  BY <1>1, <1>4, OwnerHoldsNext
<1>5. ASSUME NEW i \in Items, i \notin S PROVE Owner(i)' = Owner(i)
  <2>1. \A d \in Calls : i \in held'[d] <=> i \in held[d]
    BY <1>1, <1>5
  <2> QED BY <2>1, OwnerHolds, OwnerHoldsNext, PoolAssumption
<1> QED BY <1>3, <1>4, <1>5

\* One session is dropped.
LEMMA OwnersShrink ==
  ASSUME IInv, IInv', NEW c \in Calls, NEW i \in held[c],
         held' = [held EXCEPT ![c] = @ \ {i}]
  PROVE  /\ i \in Items /\ Owner(i) = c
         /\ \A j \in Items : Owner(j)' = IF j = i THEN NoCall ELSE Owner(j)
<1>1. held \in [Calls -> SUBSET Items] /\ i \in Items
  BY DEF IInv, TypeOK
<1>2. \A d \in Calls : d # c => i \notin held[d]
  BY DEF IInv, SlotConservation
<1>3. Owner(i) = c
  BY <1>1, OwnerHolds
<1>4. Owner(i)' = NoCall
  <2>1. \A d \in Calls : i \notin held'[d]
    BY <1>1, <1>2
  <2> QED BY <1>1, <2>1, OwnerHoldsNext
<1>5. ASSUME NEW j \in Items, j # i PROVE Owner(j)' = Owner(j)
  <2>1. \A d \in Calls : j \in held'[d] <=> j \in held[d]
    BY <1>1, <1>5
  <2> QED BY <2>1, OwnerHolds, OwnerHoldsNext, PoolAssumption
<1> QED BY <1>1, <1>3, <1>4, <1>5

LEMMA Hidden ==
  ASSUME UNCHANGED <<held, lost, closed, Asking>>
  PROVE  UNCHANGED Abstract!absVars
BY DEF Abstract!absVars, Owners, Owner

\* A call takes sessions it did not wait for.
LEMMA TakesAbstractly ==
  ASSUME IInv, IInv', NEW c \in Calls \ Asking, NEW S \in SUBSET Items, S # {},
         S \cap InUse = {}, S \cap lost = {}, ~closed,
         held[c] = {} => \E i \in S : S = {i},
         held' = [held EXCEPT ![c] = @ \cup S],
         UNCHANGED <<lost, closed, Asking>>
  PROVE  Abstract!Take(c, S)
<1>1. /\ \A i \in S : Owner(i) = NoCall
      /\ \A i \in Items : Owner(i)' = IF i \in S THEN c ELSE Owner(i)
  BY OwnersGrow
<1>2. Abstract!Owns(c) \/ held[c] = {}
  <2> SUFFICES ASSUME NEW i \in held[c] PROVE Abstract!Owns(c)
    OBVIOUS
  <2>1. i \in Items
    BY DEF IInv, TypeOK
  <2> QED BY <2>1, OwnerHolds DEF Abstract!Owns, Owners
<1>3. Owners' = [i \in Items |-> IF i \in S THEN c ELSE Owners[i]]
  BY <1>1 DEF Owners
<1>4. \A i \in S : Owners[i] = NoCall /\ i \notin lost
  BY <1>1 DEF Owners
<1> QED BY <1>2, <1>3, <1>4 DEF Abstract!Take

\* A call that waits is given one.
LEMMA GrantedAbstractly ==
  ASSUME IInv, IInv', NEW c \in Asking, NEW i \in Items, i \notin InUse, i \notin lost,
         held' = [held EXCEPT ![c] = {i}], held[c] = {},
         Asking' = Asking \ {c}, UNCHANGED <<lost, closed>>
  PROVE  Abstract!Grant(c, i)
<1>1. c \in Calls
  BY DEF Asking
<1>2. held' = [held EXCEPT ![c] = @ \cup {i}]
  OBVIOUS
<1>3. Owner(i) = NoCall /\ \A j \in Items : Owner(j)' = IF j = i THEN c ELSE Owner(j)
  <2> DEFINE S == {i}
  <2>1. S \in SUBSET Items /\ S \cap InUse = {}
    OBVIOUS
  <2>2. held' = [held EXCEPT ![c] = @ \cup S]
    BY <1>2
  <2> HIDE DEF S
  <2>3. /\ \A j \in S : Owner(j) = NoCall
        /\ \A j \in Items : Owner(j)' = IF j \in S THEN c ELSE Owner(j)
    BY <1>1, <2>1, <2>2, OwnersGrow
  <2> QED BY <2>3 DEF S
<1>4. Owners' = [Owners EXCEPT ![i] = c]
  BY <1>3 DEF Owners
<1> QED BY <1>3, <1>4 DEF Abstract!Grant, Owners

\* The first idle session, for a call that has none.
LEMMA FrontIsFree ==
  ASSUME IInv, items # <<>>
  PROVE  LET i == Head(items) IN i \in Items /\ i \notin InUse /\ i \notin lost
BY PopFront DEF IInv, TypeOK, SlotConservation, Idle

\* The idle queue holds sessions nobody has.
LEMMA IdleIsFree ==
  ASSUME IInv
  PROVE  Idle \subseteq Items /\ Idle \cap InUse = {} /\ Idle \cap lost = {}
BY DEF IInv, TypeOK, SlotConservation, Idle, Range

LEMMA FastImplements ==
  ASSUME IInv, IInv', NEW c \in Calls, CheckoutFast(c)
  PROVE  [Abstract!Next]_(Abstract!absVars)
<1>1. call \in [Calls -> CallState] /\ held[c] = {} /\ c \notin Asking
  BY DEF IInv, TypeOK, CheckoutFast, Asking, Bookkeeping
<1>2. CASE closed /\ Refuse(c)
  BY <1>1, <1>2, Hidden DEF CheckoutFast, Refuse, Asking
<1>3. CASE ~closed /\ items # <<>> /\ TakeFront(c)
  <2> DEFINE i == Head(items)
  <2>1. i \in Items /\ i \notin InUse /\ i \notin lost
    BY <1>3, FrontIsFree
  <2>2. held' = [held EXCEPT ![c] = @ \cup {i}]
    BY <1>1, <1>3 DEF TakeFront
  <2>3. UNCHANGED <<lost, closed, Asking>>
    BY <1>1, <1>3 DEF CheckoutFast, TakeFront, Asking
  <2> HIDE DEF i
  <2>4. {i} \in SUBSET Items /\ {i} # {} /\ {i} \cap InUse = {} /\ {i} \cap lost = {}
    BY <2>1
  <2>5. Abstract!Take(c, {i})
    BY <1>1, <1>3, <2>2, <2>3, <2>4, TakesAbstractly
  <2> QED BY <2>4, <2>5 DEF Abstract!Next
<1>4. CASE ~closed /\ items = <<>> /\ call' = [call EXCEPT ![c] = "slow"]
           /\ UNCHANGED <<items, held>>
  <2>1. Asking' = Asking \cup {c}
    BY <1>1, <1>4 DEF Asking
  <2>2. Owners' = Owners
    BY <1>4 DEF Owners, Owner
  <2>3. ~Abstract!Owns(c)
    BY <1>1, OwnerHolds DEF Abstract!Owns, Owners
  <2>4. Abstract!Ask(c)
    BY <1>1, <1>4, <2>1, <2>2, <2>3 DEF Abstract!Ask, CheckoutFast
  <2> QED BY <2>4 DEF Abstract!Next
<1> QED BY <1>2, <1>3, <1>4 DEF CheckoutFast

LEMMA SlowImplements ==
  ASSUME IInv, IInv', NEW c \in Calls, CheckoutSlow(c)
  PROVE  [Abstract!Next]_(Abstract!absVars)
<1>1. call \in [Calls -> CallState] /\ held[c] = {} /\ c \in Asking
  BY DEF IInv, TypeOK, CheckoutSlow, Asking, Bookkeeping
<1>2. CASE closed /\ Refuse(c)
  <2>1. Asking' = Asking \ {c} /\ Owners' = Owners
    BY <1>1, <1>2 DEF Asking, Refuse, Owners, Owner
  <2>2. Abstract!Refuse({c})
    BY <1>1, <1>2, <2>1 DEF Abstract!Refuse, CheckoutSlow
  <2> QED BY <2>2 DEF Abstract!Next
<1>3. CASE ~closed /\ items # <<>> /\ TakeFront(c)
  <2> DEFINE i == Head(items)
  <2>1. i \in Items /\ i \notin InUse /\ i \notin lost
    BY <1>3, FrontIsFree
  <2>2. held' = [held EXCEPT ![c] = {i}]
    BY <1>3 DEF TakeFront
  <2>3. Asking' = Asking \ {c} /\ UNCHANGED <<lost, closed>>
    BY <1>1, <1>3 DEF CheckoutSlow, TakeFront, Asking
  <2> HIDE DEF i
  <2>4. Abstract!Grant(c, i)
    BY <1>1, <2>1, <2>2, <2>3, GrantedAbstractly
  <2> QED BY <2>1, <2>4 DEF Abstract!Next
<1>4. CASE ~closed /\ items = <<>> /\ call' = [call EXCEPT ![c] = "waiting"]
           /\ UNCHANGED <<items, held>>
  <2>1. Asking' = Asking
    BY <1>1, <1>4 DEF Asking
  <2> QED BY <1>4, <2>1, Hidden DEF CheckoutSlow
<1> QED BY <1>2, <1>3, <1>4 DEF CheckoutSlow

LEMMA ReceiveImplements ==
  ASSUME IInv, IInv', NEW c \in Calls, Receive(c)
  PROVE  [Abstract!Next]_(Abstract!absVars)
<1> DEFINE i == mailbox[c]
<1>1. call \in [Calls -> CallState] /\ held[c] = {} /\ c \in Asking
  BY DEF IInv, TypeOK, Receive, Asking, Bookkeeping
<1>2. i \in Items /\ i \notin InUse /\ i \notin lost
  BY DEF IInv, TypeOK, Receive, SlotConservation, InChannel
<1>3. held' = [held EXCEPT ![c] = {i}] /\ UNCHANGED <<lost, closed>>
  BY DEF Receive
<1>4. Asking' = Asking \ {c}
  BY <1>1 DEF Receive, Asking
<1> HIDE DEF i
<1>5. Abstract!Grant(c, i)
  BY <1>1, <1>2, <1>3, <1>4, GrantedAbstractly
<1> QED BY <1>2, <1>5 DEF Abstract!Next

\* A call that stops waiting, with what was in its channel or with nothing.
LEMMA GivesUpAbstractly ==
  ASSUME IInv, NEW c \in Calls, c \in Asking, NEW L \in SUBSET ({mailbox[c]} \ {NoItem}),
         call' = [call EXCEPT ![c] = "gone"], lost' = lost \cup L,
         UNCHANGED <<held, closed>>
  PROVE  Abstract!Next
<1>1. Asking' = Asking \ {c}
  BY DEF IInv, TypeOK, Asking
<1>2. Owners' = Owners
  BY DEF Owners, Owner
<1>3. L \subseteq Items /\ L \cap InUse = {} /\ L \cap lost = {}
  BY DEF IInv, TypeOK, SlotConservation, InChannel
<1>4. \A i \in L : Owners[i] = NoCall
  <2> SUFFICES ASSUME NEW i \in L PROVE Owner(i) = NoCall
    BY <1>3 DEF Owners
  <2>1. i \in Items /\ \A d \in Calls : i \notin held[d]
    BY <1>3 DEF InUse
  <2> QED BY <2>1, OwnerHolds
<1>5. Abstract!GiveUp(c, L)
  BY <1>1, <1>2, <1>3, <1>4 DEF Abstract!GiveUp
<1> QED BY <1>3, <1>5 DEF Abstract!Next

LEMMA TryImplements ==
  ASSUME IInv, IInv', NEW c \in Calls, NEW n \in 1..MaxExtra, TryCheckoutN(c, n)
  PROVE  [Abstract!Next]_(Abstract!absVars)
<1> DEFINE k == IF n < Len(items) THEN n ELSE Len(items)
           S == {items[j] : j \in 1..k}
<1>1. items \in Seq(Items) /\ held \in [Calls -> SUBSET Items] /\ n \in Nat /\ MaxExtra \in Nat
  BY PoolAssumption DEF IInv, TypeOK
<1>2. k \in Nat /\ k > 0 /\ k <= Len(items)
  BY <1>1 DEF TryCheckoutN
<1>3. S \subseteq Idle /\ S # {}
  BY <1>1, <1>2 DEF Idle, Range
<1>4. held[c] # {} /\ c \notin Asking
  BY DEF IInv, TryCheckoutN, Asking, Bookkeeping
<1>5. held' = [held EXCEPT ![c] = @ \cup S] /\ UNCHANGED <<lost, closed, Asking>> /\ ~closed
  BY DEF TryCheckoutN, Asking
<1> HIDE DEF S
<1>6. S \in SUBSET Items /\ S \cap InUse = {} /\ S \cap lost = {}
  BY <1>3, IdleIsFree
<1>7. Abstract!Take(c, S)
  BY <1>3, <1>4, <1>5, <1>6, TakesAbstractly
<1> QED BY <1>6, <1>7 DEF Abstract!Next

LEMMA StartImplements ==
  ASSUME IInv, IInv', NEW c \in Calls, NEW i \in Items, CheckinStart(c, i)
  PROVE  [Abstract!Next]_(Abstract!absVars)
<1>1. i \in held[c] /\ held' = [held EXCEPT ![c] = @ \ {i}] /\ UNCHANGED closed
  BY DEF CheckinStart
<1>2. Owner(i) = c /\ \A j \in Items : Owner(j)' = IF j = i THEN NoCall ELSE Owner(j)
  BY <1>1, OwnersShrink
<1>3. Owners' = [Owners EXCEPT ![i] = NoCall] /\ Owners[i] # NoCall
  BY <1>2, PoolAssumption DEF Owners
<1>4. lost' = IF ~closed THEN lost ELSE lost \cup {i}
  BY DEF CheckinStart
<1>5. Asking' = Asking
  BY DEF CheckinStart, Asking, IInv, TypeOK
<1>6. Abstract!Release(i)
  BY <1>1, <1>3, <1>4, <1>5 DEF Abstract!Release
<1> QED BY <1>6 DEF Abstract!Next

LEMMA DrainImplements ==
  ASSUME IInv, CloseDrain
  PROVE  [Abstract!Next]_(Abstract!absVars)
<1> DEFINE C == {c \in Calls : call[c] = "waiting" /\ c \in Range(waiters)}
<1>1. Asking' = Asking \ C
  BY DEF CloseDrain, Asking, IInv, TypeOK
<1>2. Owners' = Owners
  BY DEF CloseDrain, Owners, Owner
<1>3. C \subseteq Asking /\ C \in SUBSET Calls
  BY DEF Asking
<1>4. Abstract!Refuse(C)
  BY <1>1, <1>2, <1>3 DEF Abstract!Refuse, CloseDrain
<1> QED BY <1>3, <1>4 DEF Abstract!Next

\* Every step of the pool.
LEMMA StepImplements ==
  ASSUME IInv, IInv', [Next]_poolVars
  PROVE  [Abstract!Next]_(Abstract!absVars)
<1>1. CASE \E c \in Calls : CheckoutFast(c) \/ CheckoutSlow(c) \/ Receive(c)
  BY <1>1, FastImplements, SlowImplements, ReceiveImplements
<1>2. ASSUME NEW c \in Calls, CheckoutTimeout(c)
      PROVE  UNCHANGED Abstract!absVars
  <2>1. Asking' = Asking
    BY <1>2 DEF CheckoutTimeout, Asking, IInv, TypeOK
  <2> QED BY <1>2, <2>1, Hidden DEF CheckoutTimeout
<1>3. ASSUME NEW c \in Calls, CheckoutElapsed(c) \/ CheckoutDropped(c)
      PROVE  Abstract!Next
  <2> DEFINE L == {mailbox[c]} \ {NoItem}
  <2>1. /\ c \in Asking /\ L \in SUBSET ({mailbox[c]} \ {NoItem})
        /\ call' = [call EXCEPT ![c] = "gone"] /\ lost' = lost \cup L /\ UNCHANGED <<held, closed>>
    BY <1>3 DEF CheckoutElapsed, CheckoutDropped, DropReceiver, Asking
  <2> HIDE DEF L
  <2> QED BY <2>1, GivesUpAbstractly
<1>4. ASSUME NEW c \in Calls, Recycle(c)
      PROVE  UNCHANGED Abstract!absVars
  <2>1. Asking' = Asking
    BY <1>4 DEF Recycle, Asking, IInv, TypeOK
  <2> QED BY <1>4, <2>1, Hidden DEF Recycle
<1>5. CASE \E c \in Calls : \E n \in 1..MaxExtra : TryCheckoutN(c, n)
  BY <1>5, TryImplements
<1>6. CASE \E c \in Calls : \E i \in Items : CheckinStart(c, i)
  BY <1>6, StartImplements
<1>7. ASSUME NEW i \in Items, CheckinPop(i) \/ CheckinSend(i) \/ CheckinPush(i)
      PROVE  UNCHANGED Abstract!absVars
  <2>1. UNCHANGED <<held, lost, closed, Asking>>
    BY <1>7 DEF CheckinPop, CheckinSend, CheckinPush, Asking
  <2> QED BY <2>1, Hidden
<1>8. CASE CloseStore
  <2>1. Abstract!Close
    BY <1>8 DEF CloseStore, Abstract!Close, Owners, Owner, Asking
  <2> QED BY <2>1 DEF Abstract!Next
<1>9. CASE UNCHANGED poolVars
  <2>1. UNCHANGED <<held, lost, closed, Asking>>
    BY <1>9 DEF poolVars, Asking
  <2> QED BY <2>1, Hidden
<1> QED BY <1>1, <1>2, <1>3, <1>4, <1>5, <1>6, <1>7, <1>8, <1>9, DrainImplements DEF Next

LEMMA InitImplements == Init => Abstract!Init
<1> SUFFICES ASSUME Init PROVE Abstract!Init
  OBVIOUS
<1>1. \A i \in Items : Owner(i) = NoCall
  BY DEF Init, Owner
<1> QED BY <1>1 DEF Init, Abstract!Init, Owners, Asking

\* The pool with its two locks, its queues and its channels is the pool without
\* them: whatever the interleaving, its callers see only exclusive owners,
\* grants to who asked, releases, and refusals once the pool is closed.
THEOREM PoolImplementsSlotPool == Spec => ImplementsSlotPool
<1>1. Init => Abstract!Init
  BY InitImplements
<1>2. IInv /\ IInv' /\ [Next]_poolVars => [Abstract!Next]_(Abstract!absVars)
  BY StepImplements
<1> QED BY <1>1, <1>2, PoolInvariant, PTL DEF Spec, ImplementsSlotPool, Abstract!Spec
=============================================================================
