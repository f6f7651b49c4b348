---------------------------- MODULE MCWsSession ----------------------------
(* Instances of WsSession for TLC.                                         *)
EXTENDS WsSession

L(idle, cap, timeout) == [idle |-> idle, cap |-> cap, timeout |-> timeout]

\* The idle timeout below and above the ping period; a session limit without
\* an inference timeout, and the reverse.
MCLimits == {L(1, 2, 0), L(3, 0, 1)}

\* The order of the defaults: idle 300 s > ping timeout 90 s > ping 30 s, and
\* neither a session limit nor an inference timeout in the way.
MCDefaultOrder == {L(7, 0, 0)}
=============================================================================
