--------------------------- MODULE ActorLifecycle ---------------------------
(***************************************************************************)
(* What the theater runtime relies on when it owns an actor: setup reports *)
(* once; calls begin one at a time while the actor is up; after a Shutdown *)
(* taken by the actor at most one more begins, and only if the operation   *)
(* loop had passed its look at the phase when the Shutdown was taken; it   *)
(* is acknowledged only when no call is in progress and none is to come,   *)
(* after which none ever is.  ActorRuntime implements it.                  *)
(***************************************************************************)
VARIABLES
    life,  \* starting, then up or failed, then stopping, then stopped
    call,  \* is a call executing in the actor?
    late   \* may one still begin although the actor is stopping?

lifeVars == <<life, call, late>>

Init == life = "starting" /\ call = FALSE /\ late = FALSE

SetupOk  == life = "starting" /\ life' = "up" /\ UNCHANGED <<call, late>>
SetupErr == life = "starting" /\ life' = "failed" /\ UNCHANGED <<call, late>>

BeginCall ==
    /\ life = "up" \/ late
    /\ ~call
    /\ call' = TRUE
    /\ late' = FALSE
    /\ UNCHANGED life

EndCall == call /\ call' = FALSE /\ UNCHANGED <<life, late>>

Stop ==
    /\ life = "up"
    /\ life' = "stopping"
    /\ late' \in (IF call THEN {FALSE} ELSE BOOLEAN)
    /\ UNCHANGED call

\* The operation loop found nothing in its queue, or was aborted.
Miss == late /\ late' = FALSE /\ UNCHANGED <<life, call>>

Ack == life = "stopping" /\ ~call /\ ~late /\ life' = "stopped" /\ UNCHANGED <<call, late>>

Next == SetupOk \/ SetupErr \/ BeginCall \/ EndCall \/ Stop \/ Miss \/ Ack

Spec == Init /\ [][Next]_lifeVars

=============================================================================
