---------------------------- MODULE MCTcpHandler ----------------------------
(***************************************************************************)
(* Instances of TcpHandler for TLC: actors and connections as model        *)
(* values.                                                                 *)
(***************************************************************************)
EXTENDS TcpHandler, TLC

CONSTANTS a1, a2, c1, c2

\* An actor that connects and hands its connections on, and a server.
MCUses ==
    [a \in Actors |->
       IF a = a1
       THEN {"connect", "active", "transfer", "transfer-async"}
       ELSE {"listen", "activate", "once", "send", "receive",
             "close", "upgrade"}]

=============================================================================
