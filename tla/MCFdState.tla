----------------------------- MODULE MCFdState -----------------------------
(***************************************************************************)
(* FdState for TLC.                                                        *)
(***************************************************************************)
EXTENDS FdState, TLC

CONSTANTS a1, a2, g1

\* The last nanosecond of a second.
ClockReadings == {[sec |-> 0, nsec |-> NsPerSec - 1]}

\* Application threads are interchangeable.
Symmetry == Permutations({a1, a2})
=============================================================================
