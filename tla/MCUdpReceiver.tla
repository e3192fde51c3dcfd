--------------------------- MODULE MCUdpReceiver ---------------------------
(***************************************************************************)
(* The two receiving programs, and the histogram from which both print     *)
(* their latencies, for TLC (MCUdpReceiver.cfg).                           *)
(***************************************************************************)
EXTENDS BaselineReceiver

=============================================================================
