---------------------------- MODULE MCStateChain ----------------------------
(***************************************************************************)
(* Instances of StateChain for TLC: subscribers as model values.           *)
(***************************************************************************)
EXTENDS StateChain

CONSTANTS s1, s2, s3

=============================================================================
