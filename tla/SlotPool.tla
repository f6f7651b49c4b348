------------------------------ MODULE SlotPool ------------------------------
(***************************************************************************)
(* What the session pool promises its callers (the doc comments of Pool,   *)
(* PoolGuard and OwnedReservation in inference/pool.rs), with no queue, no  *)
(* channel and no lock: an exclusive owner per session, requests answered   *)
(* with a session or, once the pool is closed, with an error.               *)
(***************************************************************************)
CONSTANTS Items, Calls, NoCall

VARIABLES
  owner,   \* the call that owns each session, or NoCall
  dead,    \* sessions destroyed
  asking,  \* calls with a request outstanding
  open     \* FALSE once the pool was closed

absVars == <<owner, dead, asking, open>>

Init == /\ owner = [i \in Items |-> NoCall]
        /\ dead = {} /\ asking = {} /\ open = TRUE

Owns(c) == \E i \in Items : owner[i] = c

\* A call with nothing, on an open pool, asks and starts to wait.
Ask(c) == /\ c \notin asking /\ ~Owns(c) /\ open
          /\ asking' = asking \cup {c}
          /\ UNCHANGED <<owner, dead, open>>

\* A waiting call is granted one free session.
Grant(c, i) == /\ c \in asking /\ owner[i] = NoCall /\ i \notin dead
               /\ owner' = [owner EXCEPT ![i] = c]
               /\ asking' = asking \ {c}
               /\ UNCHANGED <<dead, open>>

\* An answer without waiting: one free session to a call that has none, or any
\* number of extra ones to a call that has some; only on an open pool.
Take(c, S) == /\ c \notin asking /\ open /\ S # {}
              /\ ~Owns(c) => \E i \in S : S = {i}
              /\ \A i \in S : owner[i] = NoCall /\ i \notin dead
              /\ owner' = [i \in Items |-> IF i \in S THEN c ELSE owner[i]]
              /\ UNCHANGED <<dead, asking, open>>

\* A guard is dropped; on a closed pool the session is dropped with it.
Release(i) == /\ owner[i] # NoCall
              /\ owner' = [owner EXCEPT ![i] = NoCall]
              /\ dead' = IF open THEN dead ELSE dead \cup {i}
              /\ UNCHANGED <<asking, open>>

\* A waiting call stops waiting on its own; a free session that was already on
\* its way to it may be destroyed.
GiveUp(c, L) == /\ c \in asking
                /\ asking' = asking \ {c}
                /\ \A i, j \in L : i = j
                /\ \A i \in L : owner[i] = NoCall /\ i \notin dead
                /\ dead' = dead \cup L
                /\ UNCHANGED <<owner, open>>

\* The pool closes; later it refuses whoever is waiting.
Close == open /\ open' = FALSE /\ UNCHANGED <<owner, dead, asking>>

Refuse(C) == /\ ~open /\ C \subseteq asking
             /\ asking' = asking \ C
             /\ UNCHANGED <<owner, dead, open>>

Next == \/ \E c \in Calls : \/ Ask(c)
                            \/ \E i \in Items : Grant(c, i)
                            \/ \E S \in SUBSET Items : Take(c, S)
                            \/ \E L \in SUBSET Items : GiveUp(c, L)
        \/ \E i \in Items : Release(i)
        \/ \E C \in SUBSET Calls : Refuse(C)
        \/ Close

Spec == Init /\ [][Next]_absVars
=============================================================================
