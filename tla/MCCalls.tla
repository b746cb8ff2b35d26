-------------------------------- MODULE MCCalls --------------------------------
(* Values for TLC. *)
EXTENDS Calls
===============================================================================
