------------------------------ MODULE MCTimer ------------------------------
(***************************************************************************)
(* Timer for TLC.                                                          *)
(***************************************************************************)
EXTENDS Timer

CONSTANTS t1, t2, k1, k2

\* Threads and tags are interchangeable.
Symmetry == Permutations({t1, t2}) \cup Permutations({k1, k2})
=============================================================================
