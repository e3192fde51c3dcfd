--------------------------- MODULE MCStoreBuffer ---------------------------
(* StoreBuffer for TLC: the constants are given in the .cfg file.          *)
EXTENDS StoreBuffer
=============================================================================
