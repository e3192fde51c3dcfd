----------------------------- MODULE MCTwoBooks -----------------------------
(***************************************************************************)
(* TwoBooks for TLC: two prices, three slots, and tapes long enough for    *)
(* the ladder's ids to be reused twice (MCTwoBooks.cfg).                   *)
(***************************************************************************)
EXTENDS TwoBooks

=============================================================================
