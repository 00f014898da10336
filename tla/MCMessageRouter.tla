-------------------------- MODULE MCMessageRouter --------------------------
(***************************************************************************)
(* Two actors for TLC.  Liveness excludes symmetry, so the two have        *)
(* different parts: one opens channels and has a call more, the other      *)
(* sends requests and can close a channel it was asked for.                *)
(***************************************************************************)
EXTENDS MessageRouter

CONSTANTS a1, a2, c1

MCHostCalls ==
    [a \in Actors |-> IF a = a1 THEN {"register", "open", "msg", "close"}
                      ELSE {"register", "request", "close"}]

MCMaxCalls == [a \in Actors |-> IF a = a1 THEN 3 ELSE 2]

=============================================================================
