------------------------------ MODULE MCReplay ------------------------------
(***************************************************************************)
(* Guests for TLC.  The original reads the clock in f1 and, if it shows 1, *)
(* a random number, which it returns; f2 reads the clock and fails if it   *)
(* shows 1.  One changed guest returns another value, one leaves out the   *)
(* random number, one asks for it twice.                                   *)
(***************************************************************************)
EXTENDS Replay

CONSTANTS original, value, shorter, longer

Host(h)   == [do |-> "host", g |-> h]
Return(v) == [do |-> "return", v |-> v]

F1(g, outs) ==
    IF outs = <<>> THEN Host("now")
    ELSE IF outs[1] = 0 THEN Return(IF g = value THEN 1 ELSE 0)
    ELSE IF Len(outs) < (CASE g = shorter -> 1 [] g = longer -> 3 [] OTHER -> 2) THEN Host("random")
    ELSE Return(outs[Len(outs)])

F2(g, outs) ==
    IF outs = <<>> THEN Host("now")
    ELSE IF outs[1] = 1 THEN [do |-> "trap"] ELSE Return(0)

MCProgram ==
    [g \in Guests |-> [f \in Exports |-> [outs \in BoundedSeq(Outputs, 3) |->
        IF f = "f1" THEN F1(g, outs) ELSE F2(g, outs)]]]

=============================================================================
