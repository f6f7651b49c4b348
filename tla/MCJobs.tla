------------------------------- MODULE MCJobs -------------------------------
(* Instances of Jobs for TLC.                                              *)
EXTENDS Jobs, TLC

CONSTANTS j1, j2, j3, w1, w2, s1, s2

\* The first upload is twice as long as the others.
MCBodyLen == [j \in Jobs |-> IF j = j1 THEN 2 ELSE 1]

\* Workers are interchangeable, and so are uploads of the same length and
\* SSE clients.
MCSymmetry == Permutations({w1, w2}) \cup Permutations({j2, j3})
              \cup Permutations({s1, s2})

\* With SSE clients one worker and the two short jobs are enough; without them
\* there is room for more, and for a shutdown with two
\* jobs or one client.
MCSmall ==
  \/ /\ \A c \in Listeners : listener[c] = "none"
     /\ shutdown => \E j \in Jobs : status[j] = "absent"
  \/ /\ status[j1] = "absent"
     /\ shutdown => \E c \in Listeners : listener[c] = "none"
     /\ \E w \in Workers : \A v \in Workers \ {w} : pc[v] \in {"idle", "stopped"} /\ ~flag[v]
=============================================================================
