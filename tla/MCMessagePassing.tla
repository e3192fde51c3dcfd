-------------------------- MODULE MCMessagePassing --------------------------
(***************************************************************************)
(* MessagePassing for TLC: two slots, six messages, both values of --wrong *)
(* (MCMessagePassing.cfg).                                                 *)
(***************************************************************************)
EXTENDS MessagePassing

=============================================================================
