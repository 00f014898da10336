-------------------------- MODULE MCActorRuntime --------------------------
(***************************************************************************)
(* Instances of ActorRuntime for TLC: the requests and handlers as model   *)
(* values.  The .cfg files choose who sends control commands and when.     *)
(***************************************************************************)
EXTENDS ActorRuntime

CONSTANTS o1, o2, o3, i1, i2, h1, h2

=============================================================================
