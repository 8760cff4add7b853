---------------------------- MODULE MCHvacClient ----------------------------
(***************************************************************************)
(* HvacClient for TLC.                                                     *)
(***************************************************************************)
EXTENDS HvacClient, TLC

CONSTANTS t1, t2, l1, l2, p1, p2

\* Threads and local descriptors are interchangeable.
Symmetry == Permutations({t1, t2}) \cup Permutations({l1, l2})
=============================================================================
