----------------------------- MODULE MCStartup -----------------------------
(***************************************************************************)
(* Startup for TLC.                                                        *)
(***************************************************************************)
EXTENDS Startup, TLC

CONSTANTS c1, c2, p1, p2

\* The two files hash to different servers.
HashOf == (p1 :> 6) @@ (p2 :> 9)

\* Processes are interchangeable.
Symmetry == Permutations({c1, c2})
=============================================================================
