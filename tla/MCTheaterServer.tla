-------------------------- MODULE MCTheaterServer --------------------------
(***************************************************************************)
(* Two clients for TLC: one starts and stops an actor and closes the other *)
(* one's channel, the other may subscribe in both ways, fail and leave.    *)
(***************************************************************************)
EXTENDS TheaterServer

CONSTANTS k1, k2, a1, s1, h1

MCCommands ==
    [c \in Clients |-> IF c = k1 THEN <<{"start"}, {"stop", "close", "start"}>>
                       ELSE <<{"follow", "subscribe", "open", "bad"},
                              {"unsubscribe", "query", "subscribe", "close", "stop", "bad"}>>]

=============================================================================
