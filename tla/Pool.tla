-------------------------------- MODULE Pool --------------------------------
(***************************************************************************)
(* The session pool of gigastt-core (src/crates/gigastt-core/src/          *)
(* inference/pool.rs): a queue of idle inference sessions, a queue of      *)
(* parked callers, a closed flag, and the RAII guards that give a session  *)
(* back.                                                                   *)
(*                                                                         *)
(* Granularity.  The two queues have a lock each.  One action is one       *)
(* critical section; between two critical sections of one operation every  *)
(* other thread may run, so checkout is up to three actions and checkin is *)
(* a small state machine of its own, one per item being given back.        *)
(*                                                                         *)
(* An element of Calls is the identity of one checkout: a REST request, a  *)
(* WebSocket session, a job attempt, an FFI call.  An identity is used     *)
(* again (Recycle) once no trace of its former use is left.                *)
(***************************************************************************)
EXTENDS Naturals, Sequences, FiniteSets, Functions

CONSTANTS
  Items,      \* the sessions the pool was created with
  Calls,      \* identities of checkouts in flight
  Async,      \* the calls made by `checkout().await`; the others block a thread
  Droppable,  \* async calls whose whole future may be dropped at any await
  MaxExtra,   \* largest n passed to try_checkout_n
  NoItem, NoCall

ASSUME PoolAssumption ==
  /\ IsFiniteSet(Items) /\ Items # {}
  /\ Droppable \subseteq Async /\ Async \subseteq Calls
  /\ MaxExtra \in Nat
  /\ NoItem \notin Items /\ NoCall \notin Calls

VARIABLES
  items,    \* inner.items: idle items, oldest first
  waiters,  \* inner.waiters: parked calls, oldest first
  closed,   \* inner.closed
  drained,  \* close() has run waiters.clear()
  call,     \* where each call is
  held,     \* the items whose guard each call owns
  mailbox,  \* the item sent into a parked call's channel, not yet received
  checkin,  \* where the return of each item is
  target,   \* the waiter popped for an item, its sender still in our hand
  lost      \* items destroyed: no queue, guard or channel has them any more

poolVars == <<items, waiters, closed, drained, call, held, mailbox, checkin,
              target, lost>>

CallState    == {"idle", "slow", "waiting", "expired", "holding", "refused", "gone"}
CheckinState == {"none", "pop", "send", "push"}

TypeOK ==
  /\ items   \in Seq(Items)
  /\ waiters \in Seq(Calls)
  /\ closed  \in BOOLEAN /\ drained \in BOOLEAN
  /\ call    \in [Calls -> CallState]
  /\ held    \in [Calls -> SUBSET Items]
  /\ mailbox \in [Calls -> Items \cup {NoItem}]
  /\ checkin \in [Items -> CheckinState]
  /\ target  \in [Items -> Calls \cup {NoCall}]
  /\ lost    \subseteq Items

\* Pool::new fills the queue with every item, in some order.
Init ==
  /\ items \in {s \in [1..Cardinality(Items) -> Items] : IsInjective(s)}
  /\ waiters = <<>>
  /\ closed  = FALSE
  /\ drained = FALSE
  /\ call    = [c \in Calls |-> "idle"]
  /\ held    = [c \in Calls |-> {}]
  /\ mailbox = [c \in Calls |-> NoItem]
  /\ checkin = [i \in Items |-> "none"]
  /\ target  = [i \in Items |-> NoCall]
  /\ lost    = {}

-----------------------------------------------------------------------------
(* checkout and checkout_blocking: the same steps on another channel type. *)

TakeFront(c) ==
  /\ items' = Tail(items)
  /\ held'  = [held EXCEPT ![c] = {Head(items)}]
  /\ call'  = [call EXCEPT ![c] = "holding"]

Refuse(c) ==
  /\ call' = [call EXCEPT ![c] = "refused"]
  /\ UNCHANGED <<items, held>>

\* Fast path, under the items lock.
CheckoutFast(c) ==
  /\ call[c] = "idle"
  /\ \/ closed /\ Refuse(c)
     \/ ~closed /\ items # <<>> /\ TakeFront(c)
     \/ /\ ~closed /\ items = <<>>
        /\ call' = [call EXCEPT ![c] = "slow"]
        /\ UNCHANGED <<items, held>>
  /\ UNCHANGED <<waiters, closed, drained, mailbox, checkin, target, lost>>

\* Mutant: the slow path does not look at `closed` again.
CheckoutSlowNoRecheck(c) ==
  /\ call[c] = "slow"
  /\ \/ items # <<>> /\ TakeFront(c) /\ UNCHANGED waiters
     \/ /\ items = <<>>
        /\ waiters' = Append(waiters, c)
        /\ call' = [call EXCEPT ![c] = "waiting"]
        /\ UNCHANGED <<items, held>>
  /\ UNCHANGED <<closed, drained, mailbox, checkin, target, lost>>

\* Slow path, under the waiters lock, with the items lock nested inside it.
CheckoutSlow(c) ==
  /\ call[c] = "slow"
  /\ \/ closed /\ Refuse(c) /\ UNCHANGED waiters
     \/ ~closed /\ items # <<>> /\ TakeFront(c) /\ UNCHANGED waiters
     \/ /\ ~closed /\ items = <<>>
        /\ waiters' = Append(waiters, c)
        /\ call' = [call EXCEPT ![c] = "waiting"]
        /\ UNCHANGED <<items, held>>
  /\ UNCHANGED <<closed, drained, mailbox, checkin, target, lost>>

\* The parked call is polled with the item in its channel.
Receive(c) ==
  /\ call[c] = "waiting" /\ mailbox[c] # NoItem
  /\ held'    = [held EXCEPT ![c] = {mailbox[c]}]
  /\ mailbox' = [mailbox EXCEPT ![c] = NoItem]
  /\ call'    = [call EXCEPT ![c] = "holding"]
  /\ UNCHANGED <<items, waiters, closed, drained, checkin, target, lost>>

\* tokio::time::timeout around checkout polls the inner future, then the timer:
\* the timer wins only while the channel is empty.  The answer is decided, but
\* the receiver lives until the future is dropped; the sender stays where it is.
CheckoutTimeout(c) ==
  /\ c \in Async /\ call[c] = "waiting" /\ mailbox[c] = NoItem
  /\ call' = [call EXCEPT ![c] = "expired"]
  /\ UNCHANGED <<items, waiters, closed, drained, held, mailbox, checkin,
                 target, lost>>

\* The receiver goes with whatever its channel holds: a bare item, not a guard.
DropReceiver(c) ==
  /\ call'    = [call EXCEPT ![c] = "gone"]
  /\ lost'    = lost \cup ({mailbox[c]} \ {NoItem})
  /\ mailbox' = [mailbox EXCEPT ![c] = NoItem]
  /\ UNCHANGED <<items, waiters, closed, drained, held, checkin, target>>

\* The future whose timer won is dropped, a moment after its last poll.
CheckoutElapsed(c) == call[c] = "expired" /\ DropReceiver(c)

\* The future is dropped from outside: a client disconnect drops the handler,
\* an abort drops the task.
CheckoutDropped(c) == c \in Droppable /\ call[c] = "waiting" /\ DropReceiver(c)

\* Mutant: the items are handed out but stay queued.
TryCheckoutNPeek(c, n) ==
  LET k == IF n < Len(items) THEN n ELSE Len(items) IN
  /\ call[c] = "holding" /\ ~closed /\ k > 0
  /\ held' = [held EXCEPT ![c] = @ \cup {items[j] : j \in 1..k}]
  /\ UNCHANGED <<items, waiters, closed, drained, call, mailbox, checkin, target, lost>>

\* try_checkout_n by a call that already holds a slot: up to n more items in
\* one critical section, never waiting.  On a closed pool it returns an error
\* and changes nothing.
TryCheckoutN(c, n) ==
  LET k == IF n < Len(items) THEN n ELSE Len(items) IN
  /\ call[c] = "holding" /\ ~closed /\ k > 0
  /\ held'  = [held EXCEPT ![c] = @ \cup {items[j] : j \in 1..k}]
  /\ items' = SubSeq(items, k + 1, Len(items))
  /\ UNCHANGED <<waiters, closed, drained, call, mailbox, checkin, target, lost>>

-----------------------------------------------------------------------------
(* checkin, run by the drop of a PoolGuard or an OwnedReservation.         *)

\* The guard is gone; the first line of checkin reads the closed flag.
CheckinStart(c, i) ==
  /\ call[c] = "holding" /\ i \in held[c]
  /\ held' = [held EXCEPT ![c] = @ \ {i}]
  /\ call' = [call EXCEPT ![c] = IF held[c] = {i} THEN "idle" ELSE "holding"]
  /\ IF closed
       THEN lost' = lost \cup {i} /\ UNCHANGED checkin
       ELSE checkin' = [checkin EXCEPT ![i] = "pop"] /\ UNCHANGED lost
  /\ UNCHANGED <<items, waiters, closed, drained, mailbox, target>>

\* waiters.lock(); pop_front(); drop(waiters).
CheckinPop(i) ==
  /\ checkin[i] = "pop"
  /\ \/ /\ waiters # <<>>
        /\ waiters' = Tail(waiters)
        /\ target'  = [target EXCEPT ![i] = Head(waiters)]
        /\ checkin' = [checkin EXCEPT ![i] = "send"]
     \/ /\ waiters = <<>>
        /\ checkin' = [checkin EXCEPT ![i] = "push"]
        /\ UNCHANGED <<waiters, target>>
  /\ UNCHANGED <<items, closed, drained, call, held, mailbox, lost>>

HasReceiver(c) == call[c] \in {"waiting", "expired"}

\* Mutant: the item of a send that failed is not taken back.
CheckinSendOnce(i) ==
  LET w == target[i] IN
  /\ checkin[i] = "send"
  /\ target' = [target EXCEPT ![i] = NoCall]
  /\ checkin' = [checkin EXCEPT ![i] = "none"]
  /\ IF HasReceiver(w) THEN mailbox' = [mailbox EXCEPT ![w] = i] /\ UNCHANGED lost
                       ELSE lost' = lost \cup {i} /\ UNCHANGED mailbox
  /\ UNCHANGED <<items, waiters, closed, drained, call, held>>

\* tx.send(item): it fails, and the loop goes round, when the receiver is gone.
CheckinSend(i) ==
  LET w == target[i] IN
  /\ checkin[i] = "send"
  /\ target' = [target EXCEPT ![i] = NoCall]
  /\ \/ /\ HasReceiver(w)
        /\ mailbox' = [mailbox EXCEPT ![w] = i]
        /\ checkin' = [checkin EXCEPT ![i] = "none"]
     \/ /\ ~HasReceiver(w)
        /\ checkin' = [checkin EXCEPT ![i] = "pop"]
        /\ UNCHANGED mailbox
  /\ UNCHANGED <<items, waiters, closed, drained, call, held, lost>>

\* items.lock(); push_back(item): a critical section of its own, entered
\* after the waiters lock was released.
CheckinPush(i) ==
  /\ checkin[i] = "push"
  /\ items'   = Append(items, i)
  /\ checkin' = [checkin EXCEPT ![i] = "none"]
  /\ UNCHANGED <<waiters, closed, drained, call, held, mailbox, target, lost>>

-----------------------------------------------------------------------------
(* close: the store, then the drain under the waiters lock.                *)

CloseStore ==
  /\ ~closed
  /\ closed' = TRUE
  /\ UNCHANGED <<items, waiters, drained, call, held, mailbox, checkin, target,
                 lost>>

\* Mutant: the queue is not drained.
CloseDrainNothing ==
  /\ closed /\ ~drained
  /\ drained' = TRUE
  /\ UNCHANGED <<items, waiters, closed, call, held, mailbox, checkin, target, lost>>

\* Dropping a queued sender makes its receiver return PoolError::Closed.
CloseDrain ==
  /\ closed /\ ~drained
  /\ drained' = TRUE
  /\ waiters' = <<>>
  /\ call' = [c \in Calls |-> IF call[c] = "waiting" /\ c \in Range(waiters)
                                THEN "refused" ELSE call[c]]
  /\ UNCHANGED <<items, closed, held, mailbox, checkin, target, lost>>

\* The identity of a finished call, with no sender left, names a new call.
Recycle(c) ==
  /\ call[c] \in {"refused", "gone"}
  /\ c \notin Range(waiters) /\ \A i \in Items : target[i] # c
  /\ call' = [call EXCEPT ![c] = "idle"]
  /\ UNCHANGED <<items, waiters, closed, drained, held, mailbox, checkin,
                 target, lost>>

Next ==
  \/ \E c \in Calls : \/ CheckoutFast(c)
                      \/ CheckoutSlow(c)
                      \/ Receive(c)
                      \/ CheckoutTimeout(c)
                      \/ CheckoutElapsed(c)
                      \/ CheckoutDropped(c)
                      \/ Recycle(c)
  \/ \E c \in Calls : \E n \in 1..MaxExtra : TryCheckoutN(c, n)
  \/ \E c \in Calls : \E i \in Items : CheckinStart(c, i)
  \/ \E i \in Items : CheckinPop(i) \/ CheckinSend(i) \/ CheckinPush(i)
  \/ CloseStore
  \/ CloseDrain

Spec == Init /\ [][Next]_poolVars

\* A thread inside checkin, checkout or close finishes its critical sections,
\* and the runtime polls a task whose channel was filled and goes on with one
\* whose timer won.  Callers owe nothing:
\* they may hold a slot for ever, never call, never time out.
Fairness ==
  /\ \A i \in Items : WF_poolVars(CheckinPop(i)) /\ WF_poolVars(CheckinSend(i))
                      /\ WF_poolVars(CheckinPush(i))
  /\ \A c \in Calls : WF_poolVars(CheckoutSlow(c)) /\ WF_poolVars(Receive(c))
                      /\ WF_poolVars(CheckoutElapsed(c))
  /\ WF_poolVars(CloseDrain)

FairSpec == Spec /\ Fairness

-----------------------------------------------------------------------------
(* Where the items are.                                                    *)

Idle      == Range(items)
InUse     == UNION {held[c] : c \in Calls}
InChannel == {mailbox[c] : c \in Calls} \ {NoItem}
Returning == {i \in Items : checkin[i] # "none"}

(* Safety.                                                                 *)

\* Every session is in exactly one place: queued, owned by one guard, in one
\* channel, inside checkin, or destroyed.  No two calls ever decode on one
\* session (`&mut SessionTriplet`), and none vanishes in the retry loop of
\* checkin, where it changes hands between two locks and a channel.
SlotConservation ==
  /\ IsInjective(items)
  /\ \A c, d \in Calls : c # d => held[c] \cap held[d] = {}
  /\ \A c, d \in Calls : c # d /\ mailbox[c] = mailbox[d] => mailbox[c] = NoItem
  /\ Items = Idle \cup InUse \cup InChannel \cup Returning \cup lost
  /\ Idle \cap InUse = {}      /\ Idle \cap InChannel = {}
  /\ Idle \cap Returning = {}  /\ Idle \cap lost = {}
  /\ InUse \cap InChannel = {} /\ InUse \cap Returning = {}
  /\ InUse \cap lost = {}      /\ InChannel \cap Returning = {}
  /\ InChannel \cap lost = {}  /\ Returning \cap lost = {}

\* A call has one sender, in the queue or in the hand of one checkin, and none
\* once its channel was used: no item is sent where another already waits, and
\* an abandoned call can only be in a queue, never at work.
OneSenderPerCall ==
  /\ IsInjective(waiters)
  /\ \A i, j \in Items : i # j /\ target[i] = target[j] => target[i] = NoCall
  /\ \A i \in Items : target[i] \notin Range(waiters)
  /\ \A c \in Calls : c \in Range(waiters) \/ (\E i \in Items : target[i] = c)
                     => call[c] \in {"waiting", "expired", "gone"} /\ mailbox[c] = NoItem

\* A parked call can always be woken: its channel is filled, or a checkin is
\* about to fill it, or its sender is queued in a pool whose close has not
\* drained the queue yet.  A call parked behind the drain would hang for ever
\* (checkin returns early on a closed pool), so this is what the second look at
\* `closed`, under the waiters lock, is for.
ParkedCallIsReachable ==
  \A c \in Calls : call[c] = "waiting" =>
    \/ mailbox[c] # NoItem
    \/ \E i \in Items : target[i] = c
    \/ c \in Range(waiters) /\ ~drained

\* While the pool is open no session is destroyed: the retry loop of checkin
\* ("Without this retry a cancelled waiter permanently leaks a pool slot").
NoSlotLost == ~closed => lost = {}

\* What is left of it.  In an open pool a session is destroyed only with the
\* receiver of a call that is not there to take it: one whose future is dropped
\* from outside, or one whose timer had won before the item came.  So the two
\* that pool.rs names (a timeout, a dropped future) both lose sessions, and
\* nothing else does: not a send to a receiver that is gone, and not a timer
\* that runs out with the item already in the channel.
LostByAbandoning(i) ==
  \E c \in Async : /\ mailbox[c] = i /\ call'[c] = "gone"
                   /\ call[c] = "expired" \/ c \in Droppable

KeepsOrTakes(c) ==
  \/ call'[c] = "waiting" /\ mailbox'[c] = mailbox[c]
  \/ call'[c] = "holding" /\ held'[c] = {mailbox[c]}
  \/ call'[c] = "gone" /\ c \in Droppable

OnlyAbandonedLose ==
  [][/\ \A i \in lost' \ lost : closed \/ LostByAbandoning(i)
     /\ \A c \in Calls : (call[c] = "waiting" /\ mailbox[c] # NoItem)
                          => KeepsOrTakes(c)]_poolVars

\* What the re-check under the waiters lock is there for ("to prevent the
\* lost-wakeup race"): with every thread out of the pool's critical sections,
\* no live call is parked while an item is idle.
NoLostWakeup ==
  (items # <<>> /\ ~closed /\ Returning = {}) =>
    \A c \in Range(waiters) : call[c] # "waiting"

-----------------------------------------------------------------------------
(* Liveness.                                                               *)

\* close() resolves every parked call, with an item already on its way or with
\* PoolError::Closed, whatever holders and other callers do.
CloseResolvesWaiters ==
  \A c \in Calls : (closed /\ call[c] \in {"slow", "waiting", "expired"})
                     ~> call[c] \in {"holding", "refused", "gone"}

-----------------------------------------------------------------------------
(* What the pool promises: SlotPool, with the queues, the channels and the *)
(* critical sections hidden.                                               *)

Owner(i) == IF \E c \in Calls : i \in held[c]
              THEN CHOOSE c \in Calls : i \in held[c] ELSE NoCall

Owners == [i \in Items |-> Owner(i)]
Asking == {c \in Calls : call[c] \in {"slow", "waiting", "expired"}}

Abstract == INSTANCE SlotPool WITH
  owner <- Owners, dead <- lost, asking <- Asking, open <- ~closed

\* The lock-by-lock pool implements the abstract one.
ImplementsSlotPool == Abstract!Spec

=============================================================================
