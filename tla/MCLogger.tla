------------------------------ MODULE MCLogger ------------------------------
(* Logger for TLC: the constants are given in the .cfg file.               *)
EXTENDS Logger
=============================================================================
