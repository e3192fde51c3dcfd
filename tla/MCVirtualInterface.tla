------------------------- MODULE MCVirtualInterface -------------------------
(* VirtualInterface for TLC: the constants are given in the .cfg files.    *)
EXTENDS VirtualInterface
=============================================================================
