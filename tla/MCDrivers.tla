----------------------------- MODULE MCDrivers -----------------------------
(***************************************************************************)
(* Instance of Drivers for TLC: one name, so that a timer can be set again *)
(* while the task of the one before it waits for its tick.                 *)
(***************************************************************************)
EXTENDS Drivers

CONSTANT n1

=============================================================================
