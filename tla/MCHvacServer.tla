---------------------------- MODULE MCHvacServer ----------------------------
(***************************************************************************)
(* HvacServer for TLC.                                                     *)
(***************************************************************************)
EXTENDS HvacServer, TLC

CONSTANTS c1, c2, p1, p2, d1, d2

\* Callers, files and burst-buffer directories are interchangeable.
Symmetry == Permutations({c1, c2}) \cup Permutations({p1, p2})
              \cup Permutations({d1, d2})
=============================================================================
