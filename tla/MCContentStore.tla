--------------------------- MODULE MCContentStore ---------------------------
(***************************************************************************)
(* Two actors for TLC that store the same contents under one label; one    *)
(* also reads, the other removes the label.                                *)
(***************************************************************************)
EXTENDS ContentStore

CONSTANTS a1, a2, h1, h2, l1

MCOps == [a \in Actors |-> IF a = a1 THEN {"store", "store-at-label", "get", "get-by-label"}
                           ELSE {"store-at-label", "label", "remove-label"}]

=============================================================================
