------------------------------ MODULE Drivers ------------------------------
(***************************************************************************)
(* The handlers that call an actor on their own: the timer handler, the    *)
(* loop handler and the terminal handler.  The guest starts a timer, the   *)
(* cooperative loop or the terminal input loop with a host function; each  *)
(* is a detached task that queues a call of the actor, waits for the       *)
(* answer and goes on.  Nobody holds the handle of such a task: what ends  *)
(* it is its cancel channel, the running flag, a shutdown receiver or the  *)
(* failure of its call.                                                    *)
(*                                                                         *)
(* The actor is the operation loop of ActorRuntime with its queue, reduced *)
(* to what these tasks see of it: calls are served one at a time and in    *)
(* order, a failed call pauses the actor, and Shutdown first waits for all *)
(* shutdown receivers.  Pause, Resume and the raw mode of the terminal are *)
(* left out.                                                               *)
(***************************************************************************)
EXTENDS Integers, Sequences, FiniteSets

CONSTANTS
    Names,      \* names of timers
    MaxTimers,  \* number of timer tasks that are started
    MaxLoops,   \* number of loop tasks that are started
    MaxHosts,   \* number of host functions the guest calls with effect
    MaxOut,     \* number of calls of others
    Hasty,      \* kinds of callers that give up waiting
    MaxLate,    \* number of calls each of them gives up waiting for
    None

TimerIds == 1..MaxTimers
LoopIds  == 1..MaxLoops
Timer(i) == <<"timer", i>>
Loop(i)  == <<"loop", i>>
Term     == <<"terminal", 1>>
Other    == <<"other", 1>>      \* whoever else calls the actor
Drivers  == {Timer(i) : i \in TimerIds} \cup {Loop(i) : i \in LoopIds} \cup {Term}
Callers  == Drivers \cup {Other}
Handlers == {"timer", "loop", "terminal"}
Op == [by : Callers, n : 0..MaxLate]

ASSUME DriversAssumption ==
    /\ {MaxTimers, MaxLoops, MaxHosts, MaxOut, MaxLate} \subseteq Nat
    /\ None \notin Names /\ None \notin Nat /\ None \notin Op

VARIABLES
    phase,    \* "Running", "Paused" or "ShuttingDown"
    opl,      \* the operation loop: "idle", "run", "paused" or "gone"
    op,       \* the operation it runs
    queue,    \* operations waiting
    slip,     \* has the operation loop passed its looks at the phase before Shutdown?
    ctl,      \* the control loop: "up", "signal", "drain" or "acked"
    setup,    \* setup() of each handler: "new", "wait", "cancel" or "done"
    rx,       \* the second receiver of loop and terminal: "held", "read" or "gone"
    pc,       \* of each task that calls the actor
    late,     \* how often it gave up waiting
    name,     \* of each timer task, the name it was started with
    zero,     \* timer tasks that were started with the interval 0
    entry,    \* active_timers: for each name, the task whose cancel sender it holds
    cancel,   \* the timer tasks that have a message in their cancel channel
    clearing, \* the timer task for whose cancel channel clear-interval waits
    running,  \* the flag of LoopState
    owner,    \* the loop task that has the receiver
    hosts,    \* host functions called so far
    outs      \* calls of others so far

actorVars == <<phase, opl, op, queue, slip>>
timerVars == <<name, zero, entry, cancel, clearing>>
loopVars  == <<running, owner>>
vars == <<actorVars, ctl, setup, rx, pc, late, timerVars, loopVars, hosts, outs>>

Init ==
    /\ phase = "Running" /\ opl = "idle" /\ op = None /\ queue = <<>> /\ slip = FALSE
    /\ ctl = "up"
    /\ setup = [h \in Handlers |-> "new"]
    /\ rx = [h \in {"loop", "terminal"} |-> "held"]
    /\ pc = [c \in Callers |-> IF c = Other THEN "ready" ELSE "free"]
    /\ late = [c \in Callers |-> 0]
    /\ name = [i \in TimerIds |-> None]
    /\ zero = {}
    /\ entry = [n \in Names |-> None]
    /\ cancel = {} /\ clearing = None
    /\ running = FALSE /\ owner = None
    /\ hosts = 0 /\ outs = 0

Signalled == ctl # "up"
Alive(c)  == pc[c] \notin {"free", "done"}

-----------------------------------------------------------------------------
(* setup() of the three handlers.                                          *)

\* setup() is called: it stores the actor handle for the host functions.  The
\* receiver passed to loop and terminal is dropped, theirs were subscribed before.
Setup(h) ==
    /\ setup[h] = "new"
    /\ setup' = [setup EXCEPT ![h] = "wait"]
    /\ UNCHANGED <<actorVars, ctl, rx, pc, late, timerVars, loopVars, hosts, outs>>

\* setup() of loop and terminal ends with the shutdown signal, or once the host
\* function has taken the other receiver.
SetupEnds(h) ==
    /\ h # "timer" /\ setup[h] = "wait"
    /\ Signalled \/ rx[h] # "held"
    /\ setup' = [setup EXCEPT ![h] = "done"]
    /\ UNCHANGED <<actorVars, ctl, rx, pc, late, timerVars, loopVars, hosts, outs>>

\* The timer handler has answered the signal as soon as it has received it ...
TimerAnswers ==
    /\ Signalled /\ setup["timer"] = "wait"
    /\ setup' = [setup EXCEPT !["timer"] = "cancel"]
    /\ UNCHANGED <<actorVars, ctl, rx, pc, late, timerVars, loopVars, hosts, outs>>

\* ... then it cancels the timers in the table, and leaves them there.  A cancel
\* channel holds one message; those of the table are empty, for clear-interval
\* takes the sender out of the table before it uses it.
CancelAll ==
    /\ setup["timer"] = "cancel"
    /\ cancel' = cancel \cup {i \in TimerIds : \E n \in Names : entry[n] = i}
    /\ setup' = [setup EXCEPT !["timer"] = "done"]
    /\ UNCHANGED <<actorVars, ctl, rx, pc, late, name, zero, entry, clearing, loopVars, hosts, outs>>

\* A handler task that still runs after the acknowledgement is aborted.
SetupAborted ==
    /\ ctl = "acked" /\ setup["timer"] = "cancel"
    /\ setup' = [setup EXCEPT !["timer"] = "done"]
    /\ UNCHANGED <<actorVars, ctl, rx, pc, late, timerVars, loopVars, hosts, outs>>

-----------------------------------------------------------------------------
(* Host functions, of a guest that runs.  One that returns an error leaves *)
(* everything as it was.                                                   *)

GuestRuns  == opl = "run" /\ clearing = None
GuestCalls == GuestRuns /\ hosts < MaxHosts /\ hosts' = hosts + 1

\* set-interval: the task of the interval 0 panics when it makes its interval,
\* and leaves the table as it is.
SetInterval(n, i, isZero) ==
    /\ GuestCalls
    /\ setup["timer"] # "new" /\ entry[n] = None
    /\ pc[Timer(i)] = "free" /\ \A j \in 1..(i - 1) : pc[Timer(j)] # "free"
    /\ entry' = [entry EXCEPT ![n] = i]
    /\ name' = [name EXCEPT ![i] = n]
    /\ zero' = IF isZero THEN zero \cup {i} ELSE zero
    /\ pc' = [pc EXCEPT ![Timer(i)] = IF isZero THEN "done" ELSE "ready"]
    /\ UNCHANGED <<actorVars, ctl, setup, rx, late, cancel, clearing, loopVars, outs>>

\* clear-interval: the sender leaves the table, is used and dropped.  The guest
\* waits for room in a channel that CancelAll has filled, if the timer still runs.
ClearInterval(n) ==
    /\ GuestCalls
    /\ entry[n] # None
    /\ entry' = [entry EXCEPT ![n] = None]
    /\ cancel' = cancel \cup {entry[n]}
    /\ clearing' = IF entry[n] \in cancel /\ Alive(Timer(entry[n])) THEN entry[n] ELSE None
    /\ UNCHANGED <<actorVars, ctl, setup, rx, pc, late, name, zero, loopVars, outs>>

\* The timer has ended, with the message that filled the channel or by a failed tick.
ClearReturns ==
    /\ clearing # None /\ ~Alive(Timer(clearing))
    /\ clearing' = None
    /\ UNCHANGED <<actorVars, ctl, setup, rx, pc, late, name, zero, entry, cancel, loopVars,
                   hosts, outs>>

\* start-loop: the first loop task takes the receiver, a later one has none.
StartLoop(i) ==
    /\ GuestCalls
    /\ ~running /\ setup["loop"] # "new"
    /\ pc[Loop(i)] = "free" /\ \A j \in 1..(i - 1) : pc[Loop(j)] # "free"
    /\ running' = TRUE
    /\ owner' = IF rx["loop"] = "held" THEN i ELSE owner
    /\ rx' = IF rx["loop"] = "held" THEN [rx EXCEPT !["loop"] = "read"] ELSE rx
    /\ pc' = [pc EXCEPT ![Loop(i)] = "ready"]
    /\ UNCHANGED <<actorVars, ctl, setup, late, timerVars, outs>>

StopLoop ==
    /\ GuestCalls
    /\ running
    /\ running' = FALSE
    /\ UNCHANGED <<actorVars, ctl, setup, rx, pc, late, timerVars, owner, outs>>

\* enable-input works once: without the receiver it is "Input already enabled".
EnableInput ==
    /\ GuestCalls
    /\ setup["terminal"] # "new" /\ rx["terminal"] = "held"
    /\ rx' = [rx EXCEPT !["terminal"] = "read"]
    /\ pc' = [pc EXCEPT ![Term] = "ready"]
    /\ UNCHANGED <<actorVars, ctl, setup, late, timerVars, loopVars, outs>>

-----------------------------------------------------------------------------
(* The operation loop.                                                     *)

Enqueue(q, c) == Append(q, [by |-> c, n |-> late[c]])

\* Whether c still waits for the answer of o.
Waits(o) == pc[o.by] = "call" /\ late[o.by] = o.n

\* What an answer makes of a task: timers and loops end with their first failure.
AfterOk(c)    == "ready"
AfterError(c) == IF c \in {Term, Other} THEN "ready" ELSE "failed"

\* Every caller whose operation is dropped unanswered gets ChannelClosed.
Dropped == [c \in Callers |-> IF pc[c] = "call" THEN AfterError(c) ELSE pc[c]]

\* Looks for ShuttingDown and for Paused before it takes an operation, one that
\* comes after a Shutdown between the look and the receiver too.
OpTake ==
    /\ opl = "idle" /\ (phase = "Running" \/ slip) /\ queue # <<>>
    /\ opl' = "run" /\ op' = Head(queue) /\ queue' = Tail(queue) /\ slip' = FALSE
    /\ UNCHANGED <<phase, ctl, setup, rx, pc, late, timerVars, loopVars, hosts, outs>>

\* In this wait the loop sees Running only.
OpPause ==
    /\ opl = "idle" /\ phase = "Paused"
    /\ opl' = "paused"
    /\ UNCHANGED <<phase, slip, op, queue, ctl, setup, rx, pc, late, timerVars, loopVars, hosts, outs>>

\* Mutant of OpEnds: the queue outlives the loop, so that nobody is told.
OpEndsKeeping ==
    /\ opl = "idle" /\ phase = "ShuttingDown"
    /\ opl' = "gone"
    /\ UNCHANGED <<phase, slip, op, queue, ctl, setup, rx, pc, late, timerVars, loopVars, hosts, outs>>

\* The loop ends and drops its queue.
OpEnds ==
    /\ opl = "idle" /\ phase = "ShuttingDown"
    /\ opl' = "gone" /\ queue' = <<>>
    /\ pc' = Dropped
    /\ UNCHANGED <<phase, slip, op, ctl, setup, rx, late, timerVars, loopVars, hosts, outs>>

\* The call returns; an iteration of the loop may return its own error.
GuestReturns(ownError) ==
    /\ GuestRuns
    /\ ownError => op.by \in {Loop(i) : i \in LoopIds}
    /\ opl' = "idle" /\ op' = None
    /\ pc' = IF Waits(op)
             THEN [pc EXCEPT ![op.by] = IF ownError THEN "failed" ELSE AfterOk(op.by)]
             ELSE pc
    /\ UNCHANGED <<phase, slip, queue, ctl, setup, rx, late, timerVars, loopVars, hosts, outs>>

\* A failed call pauses the actor, also one that is shutting down.
GuestFails ==
    /\ GuestRuns
    /\ opl' = "idle" /\ op' = None /\ phase' = "Paused"
    /\ pc' = IF Waits(op) THEN [pc EXCEPT ![op.by] = AfterError(op.by)] ELSE pc
    /\ UNCHANGED <<slip, queue, ctl, setup, rx, late, timerVars, loopVars, hosts, outs>>

-----------------------------------------------------------------------------
(* The tasks that call the actor.                                          *)

\* call_function: c queues a call, or is told that nobody takes it any more.
Call(c) ==
    IF opl = "gone"
    THEN /\ pc' = [pc EXCEPT ![c] = AfterError(c)]
         /\ UNCHANGED queue
    ELSE /\ pc' = [pc EXCEPT ![c] = "call"]
         /\ queue' = Enqueue(queue, c)

TimerTick(i) ==
    /\ pc[Timer(i)] = "ready"
    /\ Call(Timer(i))
    /\ UNCHANGED <<phase, slip, opl, op, ctl, setup, rx, late, timerVars, loopVars, hosts, outs>>

\* recv() returns for a message, and also when the table has dropped the sender.
Cancelled(i) == i \in cancel \/ entry[name[i]] # i

TimerEnds(i) ==
    /\ pc[Timer(i)] = "ready" /\ Cancelled(i)
    /\ pc' = [pc EXCEPT ![Timer(i)] = "done"]
    /\ UNCHANGED <<actorVars, ctl, setup, rx, late, timerVars, loopVars, hosts, outs>>

\* Mutant of TimerFails: the failure does not touch the table.
TimerFailsQuietly(i) ==
    /\ pc[Timer(i)] = "failed"
    /\ pc' = [pc EXCEPT ![Timer(i)] = "done"]
    /\ UNCHANGED <<actorVars, ctl, setup, rx, late, timerVars, loopVars, hosts, outs>>

\* A failed tick removes the name, whichever timer has it by now.
TimerFails(i) ==
    /\ pc[Timer(i)] = "failed"
    /\ pc' = [pc EXCEPT ![Timer(i)] = "done"]
    /\ entry' = [entry EXCEPT ![name[i]] = None]
    /\ UNCHANGED <<actorVars, ctl, setup, rx, late, name, zero, cancel, clearing, loopVars, hosts, outs>>

\* A loop task ends; its receiver, if it has it, is dropped or has answered.
LoopDone(i) ==
    /\ pc' = [pc EXCEPT ![Loop(i)] = "done"]
    /\ rx' = IF owner = i THEN [rx EXCEPT !["loop"] = "gone"] ELSE rx
    /\ UNCHANGED <<actorVars, ctl, setup, late, timerVars, owner, hosts, outs>>

LoopIterate(i) ==
    /\ pc[Loop(i)] = "ready" /\ running
    /\ Call(Loop(i))
    /\ UNCHANGED <<phase, slip, opl, op, ctl, setup, rx, late, timerVars, loopVars, hosts, outs>>

\* Mutant of LoopStopped: the flag is not looked at before an iteration.
LoopNotStopped(i) ==
    /\ pc[Loop(i)] = "ready" /\ ~running
    /\ Call(Loop(i))
    /\ UNCHANGED <<phase, slip, opl, op, ctl, setup, rx, late, timerVars, loopVars, hosts, outs>>

LoopStopped(i) ==
    /\ pc[Loop(i)] = "ready" /\ ~running
    /\ LoopDone(i)
    /\ UNCHANGED running

\* An iteration that failed stops whatever loop is running by now.
LoopFails(i) ==
    /\ pc[Loop(i)] = "failed"
    /\ LoopDone(i)
    /\ running' = FALSE

\* The task selects on the receiver also while it waits for an iteration.
LoopShutdown(i) ==
    /\ Alive(Loop(i)) /\ owner = i /\ Signalled
    /\ LoopDone(i)
    /\ running' = FALSE

\* Input or an operating system signal; the shutdown is looked for first.
TermInput ==
    /\ pc[Term] = "ready" /\ ~Signalled
    /\ Call(Term)
    /\ UNCHANGED <<phase, slip, opl, op, ctl, setup, rx, late, timerVars, loopVars, hosts, outs>>

\* The input ends, or the loop gets the shutdown signal between two calls.
TermEnds ==
    /\ pc[Term] = "ready"
    /\ pc' = [pc EXCEPT ![Term] = "done"]
    /\ rx' = [rx EXCEPT !["terminal"] = "gone"]
    /\ UNCHANGED <<actorVars, ctl, setup, late, timerVars, loopVars, hosts, outs>>

OtherCalls ==
    /\ pc[Other] = "ready" /\ outs < MaxOut
    /\ outs' = outs + 1
    /\ Call(Other)
    /\ UNCHANGED <<phase, slip, opl, op, ctl, setup, rx, late, timerVars, loopVars, hosts>>

\* A call is given up after DEFAULT_OPERATION_TIMEOUT; its operation stays queued.
GiveUp(c) ==
    /\ c[1] \in Hasty /\ pc[c] = "call" /\ late[c] < MaxLate
    /\ late' = [late EXCEPT ![c] = @ + 1]
    /\ pc' = [pc EXCEPT ![c] = AfterError(c)]
    /\ UNCHANGED <<actorVars, ctl, setup, rx, timerVars, loopVars, hosts, outs>>

-----------------------------------------------------------------------------
(* The control loop.                                                       *)

Shutdown ==
    /\ ctl = "up"
    /\ ctl' = "signal" /\ phase' = "ShuttingDown"
    /\ slip' \in (IF opl = "idle" THEN BOOLEAN ELSE {FALSE})
    /\ UNCHANGED <<opl, op, queue, setup, rx, pc, late, timerVars, loopVars, hosts, outs>>

\* Terminate aborts the operation loop first, and leaves the phase alone.
Terminate ==
    /\ ctl = "up"
    /\ ctl' = "signal"
    /\ opl' = "gone" /\ op' = None /\ queue' = <<>> /\ clearing' = None
    /\ pc' = Dropped
    /\ UNCHANGED <<phase, slip, setup, rx, late, name, zero, entry, cancel, loopVars, hosts, outs>>

\* Every receiver has answered the signal or was dropped.
Settled ==
    /\ setup["timer"] \in {"cancel", "done"}
    /\ setup["loop"] = "done" /\ setup["terminal"] = "done"
    /\ \A h \in {"loop", "terminal"} : rx[h] = "gone"

CtlSettled ==
    /\ ctl = "signal" /\ Settled
    /\ ctl' = "drain"
    /\ UNCHANGED <<actorVars, setup, rx, pc, late, timerVars, loopVars, hosts, outs>>

\* The operation loop is aborted when it has not ended in time ...
CtlAbort ==
    /\ ctl = "drain" /\ opl # "gone"
    /\ opl' = "gone" /\ op' = None /\ queue' = <<>> /\ clearing' = None
    /\ pc' = Dropped
    /\ UNCHANGED <<phase, slip, ctl, setup, rx, late, name, zero, entry, cancel, loopVars, hosts, outs>>

\* ... and the command is acknowledged.
CtlAck ==
    /\ ctl = "drain" /\ opl = "gone"
    /\ ctl' = "acked"
    /\ UNCHANGED <<actorVars, setup, rx, pc, late, timerVars, loopVars, hosts, outs>>

-----------------------------------------------------------------------------

SetupNext == (\E h \in Handlers : Setup(h) \/ SetupEnds(h)) \/ TimerAnswers \/ CancelAll

HostNext ==
    \/ (\E n \in Names : ClearInterval(n)) \/ ClearReturns
    \/ \E n \in Names, i \in TimerIds, z \in BOOLEAN : SetInterval(n, i, z)
    \/ \E i \in LoopIds : StartLoop(i)
    \/ StopLoop
    \/ EnableInput

GuestEnds == (\E e \in BOOLEAN : GuestReturns(e)) \/ GuestFails

OpNext == OpTake \/ OpPause \/ OpEnds \/ GuestEnds

TimerNext(i) == TimerTick(i) \/ TimerEnds(i) \/ TimerFails(i)
LoopNext(i)  == LoopIterate(i) \/ LoopStopped(i) \/ LoopFails(i) \/ LoopShutdown(i)

Next ==
    \/ SetupNext \/ SetupAborted
    \/ HostNext
    \/ OpNext
    \/ \E i \in TimerIds : TimerNext(i)
    \/ \E i \in LoopIds : LoopNext(i)
    \/ TermInput \/ TermEnds \/ OtherCalls
    \/ \E c \in Callers : GiveUp(c)
    \/ Shutdown \/ Terminate \/ CtlSettled \/ CtlAbort \/ CtlAck

Spec == Init /\ [][Next]_vars

\* Tokio runs every task that can run and its timers fire; select! in a timer task
\* picks among its ready branches at random, so cancelling is not passed over for
\* ever; a guest call ends (epoch deadline).  Nobody is made to type, to call or to
\* stop the actor.  A call is given up after 3000 s; this is assumed only of the
\* tick that waits behind the guest which clears its timer, a circle that nothing
\* else undoes.
Fairness ==
    /\ \A h \in Handlers : WF_vars(Setup(h)) /\ WF_vars(SetupEnds(h))
    /\ WF_vars(TimerAnswers) /\ WF_vars(CancelAll)
    /\ WF_vars(OpTake \/ OpPause \/ OpEnds) /\ WF_vars(GuestEnds) /\ WF_vars(ClearReturns)
    /\ \A i \in TimerIds : WF_vars(clearing = i /\ GiveUp(Timer(i)))
    /\ \A i \in TimerIds :
           WF_vars(TimerTick(i)) /\ SF_vars(TimerEnds(i)) /\ WF_vars(TimerFails(i))
    /\ \A i \in LoopIds : WF_vars(LoopNext(i)) /\ WF_vars(LoopShutdown(i))
    /\ WF_vars(Signalled /\ TermEnds)
    /\ WF_vars(CtlSettled) /\ WF_vars(CtlAbort \/ CtlAck)

LiveSpec == Spec /\ Fairness

-----------------------------------------------------------------------------
(* Properties.                                                             *)

\* The types; every caller has one call on its way and those it gave up.
TypeOK ==
    /\ phase \in {"Running", "Paused", "ShuttingDown"}
    /\ opl \in {"idle", "run", "paused", "gone"}
    /\ op \in Op \cup {None} /\ (op = None) = (opl # "run")
    /\ queue \in Seq(Op) /\ slip \in BOOLEAN
    /\ \A c \in Callers :
           Cardinality({k \in DOMAIN queue : queue[k].by = c}) <= late[c] + 1
    /\ ctl \in {"up", "signal", "drain", "acked"}
    /\ setup \in [Handlers -> {"new", "wait", "cancel", "done"}]
    /\ rx \in [{"loop", "terminal"} -> {"held", "read", "gone"}]
    /\ pc \in [Callers -> {"free", "ready", "call", "failed", "done"}]
    /\ late \in [Callers -> 0..MaxLate]
    /\ name \in [TimerIds -> Names \cup {None}]
    /\ zero \subseteq TimerIds /\ cancel \subseteq TimerIds
    /\ entry \in [Names -> TimerIds \cup {None}]
    /\ clearing \in TimerIds \cup {None} /\ (clearing # None => opl = "run")
    /\ running \in BOOLEAN /\ owner \in LoopIds \cup {None}
    /\ hosts \in 0..MaxHosts /\ outs \in 0..MaxOut

\* A name in active_timers belongs to a timer that runs: set-interval does not
\* refuse it ("already exists") for a timer that is dead.  Only the interval 0
\* leaves such a name, and the shutdown of the handler.
TableLive ==
    /\ TypeOK
    /\ \A n \in Names :
        entry[n] # None => Alive(Timer(entry[n])) \/ entry[n] \in zero \/ Signalled

\* Removing a timer from the table ends its task, however it was removed: the
\* task receives the message, or sees that its sender is gone - unless it waits
\* for a tick of an actor that a failed call has paused.  A timer that the guest
\* clears after the handler has cancelled it, while its tick waits for that guest,
\* ends when the tick is given up.
ClearedStops ==
    \A i \in TimerIds :
        (Alive(Timer(i)) /\ entry[name[i]] # i) ~> (~Alive(Timer(i)) \/ opl = "paused")

\* stop-loop ends every loop task, unless the guest starts the loop again or the
\* actor is paused.
LoopStops ==
    (~running) ~> (running \/ opl = "paused" \/ \A i \in LoopIds : ~Alive(Loop(i)))

\* No driver outlives the operation loop: with the actor gone, every timer, every
\* loop task and the input loop end, those that have no receiver too.
DriversEnd == (opl = "gone") ~> (\A d \in Drivers : ~Alive(d))

\* The detached tasks, whose handles nobody holds, end when they should: when
\* they are cleared or stopped, and with their actor.
TasksEnd == ClearedStops /\ LoopStops /\ DriversEnd

\* A receiver that was subscribed for start-loop or enable-input and never taken.
Parked == \E h \in {"loop", "terminal"} : rx[h] = "held"

\* The input loop waits for a call of an actor that is paused.
InputCaught == pc[Term] = "call" /\ opl = "paused"

\* The handlers answer the shutdown signal, although they run loops that call the
\* actor which is being shut down - except for a parked receiver, which nobody
\* reads, and an input loop that waits for an actor paused by a failed call.  An
\* input loop whose call waits behind a guest that is caught in clear-interval
\* answers once the tick of that timer is given up: 3000 s later.
ShutdownSettles == (ctl = "signal") ~> (ctl # "signal" \/ Parked \/ InputCaught)

=============================================================================
