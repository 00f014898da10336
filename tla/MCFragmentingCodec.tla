------------------------ MODULE MCFragmentingCodec ------------------------
(***************************************************************************)
(* Small messages: the limits keep the proportions of the code, four       *)
(* characters of a frame for a byte of a fragment.                         *)
(***************************************************************************)
EXTENDS FragmentingCodec

CONSTANTS short, wide, two, three

MCSize   == [m \in Messages |-> CASE m = short -> 1 [] m = wide -> 3
                                  [] m = two -> 4 [] m = three -> 7]
MCDigits == [m \in Messages |-> IF m = wide THEN 3 ELSE 2]

=============================================================================
