------------------------------- MODULE MCPool -------------------------------
(* Instances of Pool for TLC.                                               *)
EXTENDS Pool, TLC

CONSTANTS c1, c2, c3, c4, i1, i2

\* The two async calls are interchangeable, and so are the items.
MCSymmetry == Permutations({c1, c2}) \cup Permutations({i1, i2})

=============================================================================
