--------------------------- MODULE MCRingObserver ---------------------------
(***************************************************************************)
(* RingObserver for TLC (MCRingObserver.cfg).                              *)
(***************************************************************************)
EXTENDS RingObserver

=============================================================================
