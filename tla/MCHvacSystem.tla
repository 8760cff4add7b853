---------------------------- MODULE MCHvacSystem ----------------------------
(***************************************************************************)
(* HvacSystem for TLC.                                                     *)
(***************************************************************************)
EXTENDS HvacSystem

CONSTANTS t1, t2, l1, l2, p1, d1
=============================================================================
