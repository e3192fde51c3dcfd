------------------------------- MODULE MCBook -------------------------------
(* Book for TLC: the constants are given in the .cfg files.                *)
EXTENDS Book
=============================================================================
