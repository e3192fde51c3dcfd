---------------------------- MODULE MCSpscRing ----------------------------
(***************************************************************************)
(* SpscRing for TLC: four slots, indices that wrap modulo 8, and enough    *)
(* items to go round the ring three times (MCSpscRing.cfg).                *)
(***************************************************************************)
EXTENDS SpscRing

=============================================================================
