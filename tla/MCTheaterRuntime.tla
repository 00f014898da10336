-------------------------- MODULE MCTheaterRuntime --------------------------
(***************************************************************************)
(* Instances of TheaterRuntime for TLC: actor ids as model values, and the *)
(* host functions each actor uses.  Where all use the same, ids are        *)
(* interchangeable, which the safety run uses.                             *)
(***************************************************************************)
EXTENDS TheaterRuntime, TLC

CONSTANTS a1, a2

MCHostAll   == [a \in Ids |-> {"Spawn", "Stop", "shutdown"}]
MCHostEach  == [a \in Ids |-> IF a = a1 THEN {"Spawn"} ELSE {"shutdown"}]

Symmetry == Permutations(Ids)

=============================================================================
