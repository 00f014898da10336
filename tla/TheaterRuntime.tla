--------------------------- MODULE TheaterRuntime ---------------------------
(***************************************************************************)
(* The theater command loop (crates/theater/src/theater_runtime.rs), the   *)
(* actors it owns and the supervisor handler through which actors own each *)
(* other (crates/theater-handler-supervisor).                              *)
(*                                                                         *)
(* The loop takes one TheaterCommand at a time from a bounded channel and  *)
(* finishes it before the next, waiting inside it for an actor's setup, for *)
(* its acknowledgement of Shutdown, for its info loop, or for room in a    *)
(* supervisor's channel.  Host functions running inside actors wait for    *)
(* the loop.  An actor is what ActorLifecycle says it is.  Every actor's   *)
(* supervisor handler is a clone of one: the channel of child results and  *)
(* the set of children are shared, and the receiver belongs to the first   *)
(* actor that was set up (the holder).                                     *)
(***************************************************************************)
EXTENDS Naturals, Sequences, FiniteSets

CONSTANTS
    Ids,         \* bound: the actor ids that may be generated
    CmdCap,      \* capacity of the command channel (32 in the server)
    NoteCap,     \* capacity of the channel of child results (100)
    HostCalls,   \* HostCalls[a]: host functions that a uses
    ClientCmds,  \* commands sent from outside (server, CLI)
    MaxClient,   \* bound: how many of them
    MaxExits,    \* bound: how often an actor calls runtime.shutdown
    Callbacks,   \* does the holder export the handle-child-* functions?
    Slow,        \* bound: actors on whose Shutdown the ten seconds granted may run out
    None         \* no actor

ASSUME TheaterAssumption ==
    /\ IsFiniteSet(Ids)
    /\ CmdCap \in Nat \ {0}
    /\ NoteCap \in Nat \ {0}
    /\ HostCalls \in [Ids -> SUBSET {"Spawn", "Stop", "Info", "shutdown"}]
    /\ ClientCmds \subseteq {"Spawn", "Setup", "Stop", "Terminate", "Info", "ShutdownRuntime"}
    /\ MaxClient \in Nat
    /\ MaxExits \in Nat
    /\ Callbacks \in BOOLEAN
    /\ Slow \subseteq Ids
    /\ None \notin Ids

VARIABLES
    cmds,      \* the command channel
    loop,      \* where the command loop is, and the command it is processing
    actors,    \* the registry: actors
    chains,    \* the registry: chains
    life,      \* each actor's lifecycle, as in ActorLifecycle
    late,      \* stopping actors whose operation loop had looked at the phase before
    asked,     \* actors whose control channel has been sent Shutdown
    call,      \* what each actor's current call is doing
    kind,      \* why it was called: init, callback or message
    req,       \* the command its host function sends
    got,       \* the child its host function was answered with
    init,      \* the detached init call of spawn_actor
    parent,    \* the actor whose supervisor_tx an actor was spawned with
    tasks,     \* detached tasks: how many of each <<what, actor>>
    notes,     \* the channel of child results: whose end each is about
    children,  \* SupervisorHandler::children
    holder,    \* the actor whose handler took the receiver
    sv,        \* where that handler is
    toStop,    \* its children_to_stop
    told,      \* history: the actors whose end was announced, or is announced to nobody
    exits,     \* number of calls of runtime.shutdown
    sent       \* number of client commands

actVars == <<life, late, asked, call, kind, req, got, init>>
svVars  == <<notes, children, holder, sv, toStop>>
regVars == <<actors, chains, parent, told>>
bounds  == <<exits, sent>>
vars    == <<cmds, loop, regVars, actVars, tasks, svVars, bounds>>

Ops == {"Spawn", "Setup", "Stop", "Terminate", "Info", "ShuttingDown",
        "ShutdownComplete", "Error", "ShutdownRuntime", "none"}
Commands == [op : Ops, id : Ids \cup {None}, by : Ids \cup {None}]
NoCmd == [op |-> "none", id |-> None, by |-> None]

TypeOK ==
    /\ cmds \in Seq(Commands) /\ Len(cmds) <= CmdCap
    /\ loop \in [pc : {"recv", "setup", "note", "act", "stop", "info", "exited"}, cmd : Commands]
    /\ actors \subseteq Ids
    /\ chains \subseteq Ids
    /\ life \in [Ids -> {"unborn", "starting", "up", "failed", "stopping", "stopped"}]
    /\ late \subseteq Ids
    /\ asked \subseteq Ids
    /\ call \in [Ids -> {"idle", "guest", "send", "wait", "answered", "report", "dead", "over"}]
    /\ kind \in [Ids -> {"none", "init", "callback", "message"}]
    /\ req \in [Ids -> Commands]
    /\ got \in [Ids -> Ids \cup {None}]
    /\ init \in [Ids -> {"none", "queued", "running", "over"}]
    /\ parent \in [Ids -> Ids \cup {None}]
    /\ tasks \in [{"shutdown", "waiter", "note"} \X Ids -> Nat]
    /\ notes \in Seq(Ids) /\ Len(notes) <= NoteCap
    /\ children \subseteq Ids
    /\ holder \in Ids \cup {None}
    /\ sv \in {"none", "run", "call", "busy", "stopping", "drain", "done"}
    /\ toStop \subseteq Ids
    /\ told \subseteq Ids
    /\ exits \in [Ids -> 0 .. MaxExits]
    /\ sent \in 0 .. MaxClient

Init ==
    /\ cmds = <<>>
    /\ loop = [pc |-> "recv", cmd |-> NoCmd]
    /\ actors = {} /\ chains = {}
    /\ life = [a \in Ids |-> "unborn"]
    /\ late = {}
    /\ asked = {}
    /\ call = [a \in Ids |-> "idle"]
    /\ kind = [a \in Ids |-> "none"]
    /\ req = [a \in Ids |-> NoCmd]
    /\ got = [a \in Ids |-> None]
    /\ init = [a \in Ids |-> "none"]
    /\ parent = [a \in Ids |-> None]
    /\ tasks = [t \in {"shutdown", "waiter", "note"} \X Ids |-> 0]
    /\ notes = <<>>
    /\ children = {}
    /\ holder = None
    /\ sv = "none"
    /\ toStop = {}
    /\ told = {}
    /\ exits = [a \in Ids |-> 0]
    /\ sent = 0

Exited == loop.pc = "exited"
HasRoom == Len(cmds) < CmdCap

\* A send on the command channel, by whoever: it waits for room, and fails once
\* the runtime is gone.
Send(c) ==
    \/ ~Exited /\ HasRoom /\ cmds' = Append(cmds, c)
    \/ Exited /\ UNCHANGED cmds

\* The receiver of child results is dropped with its handler.
NotesClosed == sv = "done"

\* The answer on a oneshot: it reaches a host function that still waits for it.
Reply(c, who) == IF who \in Ids /\ c[who] = "wait" THEN [c EXCEPT ![who] = "answered"] ELSE c

\* tokio::spawn of a task, and its end.
Plus(what, a)  == [tasks EXCEPT ![<<what, a>>] = @ + 1]
Minus(what, a) == [tasks EXCEPT ![<<what, a>>] = @ - 1]

Finish == loop' = [pc |-> "recv", cmd |-> NoCmd]

-----------------------------------------------------------------------------
(* TheaterRuntime::run, one command at a time.                             *)

Taken(ops) ==
    /\ loop.pc = "recv"
    /\ cmds # <<>>
    /\ Head(cmds).op \in ops
    /\ cmds' = Tail(cmds)

\* spawn_actor: the id and the chain first; then the handler registry, which
\* can fail on a replay chain that cannot be loaded ...
LoopRegistryErr(a) ==
    /\ Taken({"Spawn", "Setup"})
    /\ life[a] = "unborn"
    /\ chains' = chains \cup {a}
    /\ life' = [life EXCEPT ![a] = "failed"]
    /\ call' = Reply(call, Head(cmds).by)
    /\ UNCHANGED <<loop, actors, parent, told, late, asked, kind, req, got, init, tasks,
                   svVars, bounds>>

\* ... and the actor's task, whose setup the loop waits for.
LoopSpawn(a) ==
    /\ Taken({"Spawn", "Setup"})
    /\ life[a] = "unborn"
    /\ chains' = chains \cup {a}
    /\ life' = [life EXCEPT ![a] = "starting"]
    /\ parent' = [parent EXCEPT ![a] = Head(cmds).by]
    /\ loop' = [pc |-> "setup", cmd |-> [Head(cmds) EXCEPT !.id = a]]
    /\ UNCHANGED <<actors, told, late, asked, call, kind, req, got, init, tasks, svVars, bounds>>

\* Setup is over: register the actor; SpawnActor detaches the call of init.
LoopRegister ==
    LET a == loop.cmd.id IN
    /\ loop.pc = "setup"
    /\ life[a] = "up"
    /\ actors' = actors \cup {a}
    /\ init' = [init EXCEPT ![a] = IF loop.cmd.op = "Spawn" THEN "queued" ELSE "none"]
    /\ Finish
    /\ UNCHANGED <<cmds, chains, parent, told, life, late, asked, call, kind, req, got,
                   tasks, svVars, bounds>>

\* Mutant of LoopSetupErr: the spawner is not answered.
LoopSetupErrSilent ==
    /\ loop.pc = "setup"
    /\ life[loop.cmd.id] = "failed"
    /\ Finish
    /\ UNCHANGED <<cmds, regVars, life, late, asked, call, kind, req, got, init, tasks, svVars, bounds>>

LoopSetupErr ==
    /\ loop.pc = "setup"
    /\ life[loop.cmd.id] = "failed"
    /\ call' = Reply(call, loop.cmd.by)
    /\ Finish
    /\ UNCHANGED <<cmds, regVars, life, late, asked, kind, req, got, init, tasks, svVars, bounds>>

\* StopActor, TerminateActor, ActorError, ShuttingDown, GetActorState and its
\* siblings on an id that is not in the registry: answered at once.
LoopAbsent ==
    /\ Taken({"Stop", "Terminate", "Error", "ShuttingDown", "Info"})
    /\ Head(cmds).id \notin actors
    /\ call' = Reply(call, Head(cmds).by)
    /\ UNCHANGED <<loop, regVars, life, late, asked, kind, req, got, init, tasks, svVars, bounds>>

\* Mutant of ToldInLoop: not of exits.
ToldOfStopsOnly == {"Stop"}

\* The commands of whose effect the supervisor is told by the loop itself ...
ToldInLoop == {"Stop", "ShuttingDown"}

\* ... and by a detached task.
ToldByTask == {"Error"}

\* The same four on a registered actor.  The supervisor is told in the loop of
\* an exit and an external stop, by a detached task of an error, and not at all
\* of a termination.
LoopTake ==
    LET c == Head(cmds) IN
    /\ Taken({"Stop", "Terminate", "Error", "ShuttingDown"})
    /\ c.id \in actors
    /\ loop' = [pc |-> IF parent[c.id] # None /\ c.op \in ToldInLoop
                       THEN "note" ELSE "act",
                cmd |-> c]
    /\ tasks' = IF parent[c.id] # None /\ c.op \in ToldByTask THEN Plus("note", c.id) ELSE tasks
    /\ told' = IF c.op = "Terminate" THEN told \cup {c.id} ELSE told
    /\ UNCHANGED <<actors, chains, parent, actVars, svVars, bounds>>

\* supervisor_tx.send(..).await of a Success, an Error or an ExternalStop: it waits
\* for room, and fails when the receiver is gone.
Note(a) ==
    /\ \/ NotesClosed /\ UNCHANGED notes
       \/ ~NotesClosed /\ Len(notes) < NoteCap /\ notes' = Append(notes, a)
    /\ told' = told \cup {a}

LoopNote ==
    /\ loop.pc = "note"
    /\ Note(loop.cmd.id)
    /\ loop' = [loop EXCEPT !.pc = "act"]
    /\ UNCHANGED <<cmds, actors, chains, parent, actVars, tasks,
                   children, holder, sv, toStop, bounds>>

\* stop_actor: the "shutdown" event if there still is a chain, the chain goes,
\* Shutdown is sent, and the loop waits for the answer.
LoopStop ==
    LET a == loop.cmd.id IN
    /\ loop.pc = "act"
    /\ loop.cmd.op # "ShuttingDown"
    /\ chains' = chains \ {a}
    /\ asked' = asked \cup {a}
    /\ loop' = [loop EXCEPT !.pc = "stop"]
    /\ UNCHANGED <<cmds, actors, parent, told, life, call, late, kind, req, got, init, tasks,
                   svVars, bounds>>

\* An actor that shuts itself down is waited for by a detached task.
LoopDetach ==
    LET a == loop.cmd.id IN
    /\ loop.pc = "act"
    /\ loop.cmd.op = "ShuttingDown"
    /\ asked' = asked \cup {a}
    /\ tasks' = Plus("waiter", a)
    /\ Finish
    /\ UNCHANGED <<cmds, regVars, life, call, late, kind, req, got, init, svVars, bounds>>

\* Mutant of WaitOver: the acknowledgement is not waited for.
WaitNot(a) == TRUE

\* A waiter for Shutdown goes on when it is acknowledged, when the control
\* channel or the answer's is closed, or after ten seconds.
WaitOver(a) == life[a] = "stopped" \/ a \in Slow

\* The end of stop_actor.
LoopStopped ==
    /\ loop.pc = "stop"
    /\ WaitOver(loop.cmd.id)
    /\ actors' = actors \ {loop.cmd.id}
    /\ call' = Reply(call, loop.cmd.by)
    /\ Finish
    /\ UNCHANGED <<cmds, chains, parent, told, life, late, asked, kind, req, got, init,
                   tasks, svVars, bounds>>

\* run returns and the runtime is dropped: whoever waits for the answer to a
\* command in the queue learns that there will be none.
Exit ==
    /\ loop' = [pc |-> "exited", cmd |-> NoCmd]
    /\ cmds' = <<>>
    /\ call' = [a \in Ids |-> IF call[a] = "wait" /\ \E i \in DOMAIN cmds : cmds[i].by = a
                              THEN "answered" ELSE call[a]]

\* ActorShutdownComplete; the runtime ends with its last actor.
LoopComplete ==
    /\ loop.pc = "recv"
    /\ cmds # <<>>
    /\ Head(cmds).op = "ShutdownComplete"
    /\ actors' = actors \ {Head(cmds).id}
    /\ chains' = chains \ {Head(cmds).id}
    /\ IF actors' = {} THEN Exit ELSE cmds' = Tail(cmds) /\ UNCHANGED <<loop, call>>
    /\ UNCHANGED <<parent, told, life, late, asked, kind, req, got, init, tasks, svVars, bounds>>

LoopShutdownRuntime ==
    /\ loop.pc = "recv"
    /\ cmds # <<>>
    /\ Head(cmds).op = "ShutdownRuntime"
    /\ Exit
    /\ UNCHANGED <<regVars, life, late, asked, kind, req, got, init, tasks, svVars, bounds>>

\* GetActorState, GetActorMetrics, GetActorExportHashes: the loop waits for the
\* actor's info loop ...
LoopInfo ==
    /\ Taken({"Info"})
    /\ Head(cmds).id \in actors
    /\ loop' = [pc |-> "info", cmd |-> Head(cmds)]
    /\ UNCHANGED <<regVars, actVars, tasks, svVars, bounds>>

\* ... which waits for the instance lock that a call holds.
LoopInfoDone ==
    LET a == loop.cmd.id IN
    /\ loop.pc = "info"
    /\ call[a] \in {"idle", "dead", "over"} \/ life[a] # "up"
    /\ call' = Reply(call, loop.cmd.by)
    /\ Finish
    /\ UNCHANGED <<cmds, regVars, life, late, asked, kind, req, got, init, tasks, svVars, bounds>>

-----------------------------------------------------------------------------
(* The actors.                                                             *)

\* Setup runs every handler's setup(): the first supervisor handler to get
\* there takes the receivers.
SetupOk(a) ==
    /\ life[a] = "starting"
    /\ life' = [life EXCEPT ![a] = "up"]
    /\ holder' = IF holder = None THEN a ELSE holder
    /\ sv' = IF holder = None THEN "run" ELSE sv
    /\ UNCHANGED <<cmds, loop, regVars, late, asked, call, kind, req, got, init, tasks,
                   notes, children, toStop, bounds>>

SetupErr(a) ==
    /\ life[a] = "starting"
    /\ life' = [life EXCEPT ![a] = "failed"]
    /\ UNCHANGED <<cmds, loop, regVars, late, asked, call, kind, req, got, init, tasks, svVars, bounds>>

\* A call begins: the init call, a child result the handler passes on, or
\* anything other handlers bring; one may begin after Shutdown was taken.
BeginCall(a, k) ==
    /\ life[a] = "up" \/ a \in late
    /\ call[a] = "idle"
    /\ \/ k = "init" /\ init[a] = "queued"
       \/ k = "callback" /\ holder = a /\ sv = "call"
       \/ k = "message"
    /\ call' = [call EXCEPT ![a] = "guest"]
    /\ kind' = [kind EXCEPT ![a] = k]
    /\ init' = IF k = "init" THEN [init EXCEPT ![a] = "running"] ELSE init
    /\ sv' = IF k = "callback" THEN "busy" ELSE sv
    /\ late' = late \ {a}
    /\ UNCHANGED <<cmds, loop, regVars, life, asked, req, got, tasks,
                   notes, children, holder, toStop, bounds>>

\* Bound: no more spawns are requested than there are ids left.
SpawnRoom ==
    Cardinality({a \in Ids : life[a] = "unborn"}) >
        Cardinality({i \in DOMAIN cmds : cmds[i].op \in {"Spawn", "Setup"}})
        + Cardinality({a \in Ids : call[a] = "send" /\ req[a].op = "Spawn"})

Target(o, b) ==
    IF o = "Spawn" THEN b = None /\ SpawnRoom ELSE b \in Ids /\ life[b] # "unborn"

\* spawn, stop-child, get-child-state: nobody checks whose child it is.
GuestHost(a, o, b) ==
    /\ o \in HostCalls[a] \ {"shutdown"}
    /\ call[a] = "guest"
    /\ Target(o, b)
    /\ call' = [call EXCEPT ![a] = "send"]
    /\ req' = [req EXCEPT ![a] = [op |-> o, id |-> b, by |-> a]]
    /\ UNCHANGED <<cmds, loop, regVars, life, late, asked, kind, got, init, tasks, svVars, bounds>>

HostSend(a) ==
    /\ call[a] = "send"
    /\ Send(req[a])
    /\ call' = [call EXCEPT ![a] = IF Exited THEN "answered" ELSE "wait"]
    /\ req' = [req EXCEPT ![a] = NoCmd]
    /\ UNCHANGED <<loop, regVars, life, late, asked, kind, got, init, tasks, svVars, bounds>>

\* The host function resumes; spawn puts the new child in the set.
HostResume(a) ==
    /\ call[a] = "answered"
    /\ call' = [call EXCEPT ![a] = "guest"]
    /\ children' = IF got[a] = None THEN children ELSE children \cup {got[a]}
    /\ got' = [got EXCEPT ![a] = None]
    /\ UNCHANGED <<cmds, loop, regVars, life, late, asked, kind, req, init, tasks,
                   notes, holder, sv, toStop, bounds>>

\* theater:simple/runtime.shutdown: a detached task sends ShuttingDown.
GuestShutdown(a) ==
    /\ "shutdown" \in HostCalls[a]
    /\ call[a] = "guest"
    /\ exits[a] < MaxExits
    /\ exits' = [exits EXCEPT ![a] = @ + 1]
    /\ tasks' = Plus("shutdown", a)
    /\ UNCHANGED <<cmds, loop, regVars, actVars, svVars, sent>>

\* A call's caller is answered: the init task answers the spawn, and the
\* supervisor handler goes back to its loop.
Answer(a, c, ok) ==
    LET p == parent[a] IN
    /\ init' = IF kind[a] = "init" THEN [init EXCEPT ![a] = "over"] ELSE init
    /\ call' = IF kind[a] = "init" THEN Reply(c, p) ELSE c
    /\ got' = IF kind[a] = "init" /\ ok /\ p # None /\ c[p] = "wait"
              THEN [got EXCEPT ![p] = a] ELSE got
    /\ sv' = IF kind[a] = "callback" THEN "run" ELSE sv
    /\ kind' = [kind EXCEPT ![a] = "none"]

GuestReturn(a) ==
    /\ call[a] = "guest"
    /\ Answer(a, [call EXCEPT ![a] = "idle"], TRUE)
    /\ UNCHANGED <<cmds, loop, regVars, life, late, asked, req, tasks,
                   notes, children, holder, toStop, bounds>>

GuestTrap(a) ==
    /\ call[a] = "guest"
    /\ call' = [call EXCEPT ![a] = "report"]
    /\ UNCHANGED <<cmds, loop, regVars, life, late, asked, kind, req, got, init, tasks, svVars, bounds>>

\* The failure is reported, then the caller answered and the actor paused.
Report(a) ==
    /\ call[a] = "report"
    /\ Send([op |-> "Error", id |-> a, by |-> None])
    /\ Answer(a, [call EXCEPT ![a] = "dead"], FALSE)
    /\ UNCHANGED <<loop, regVars, life, late, asked, req, tasks,
                   notes, children, holder, toStop, bounds>>

\* The control loop takes Shutdown and signals the handlers.  An operation loop
\* that is between its look at the phase and its receiver - one that has just
\* paused, too, since Paused is looked for after ShuttingDown - takes one more call.
CtlStop(a) ==
    /\ a \in asked
    /\ life[a] = "up"
    /\ life' = [life EXCEPT ![a] = "stopping"]
    /\ \/ UNCHANGED <<late, call>>
       \/ /\ call[a] \in {"idle", "dead"}
          /\ late' = late \cup {a}
          /\ call' = [call EXCEPT ![a] = "idle"]
    /\ UNCHANGED <<cmds, loop, regVars, asked, kind, req, got, init, tasks, svVars, bounds>>

\* What the runtime or the handler has put in an actor's operation queue.
Queued(a) == init[a] = "queued" \/ (holder = a /\ sv = "call")

\* There is none to take.
LateMiss(a) ==
    /\ a \in late
    /\ ~Queued(a)
    /\ late' = late \ {a}
    /\ UNCHANGED <<cmds, loop, regVars, life, asked, call, kind, req, got, init, tasks,
                   svVars, bounds>>

\* operation_loop, unless it is paused or in a call, leaves: what was queued
\* (init, or the handler's call) is closed.
DropQueued(a) ==
    /\ life[a] = "stopping"
    /\ a \notin late
    /\ call[a] = "idle"
    /\ Queued(a)
    /\ init' = IF init[a] = "queued" THEN [init EXCEPT ![a] = "over"] ELSE init
    /\ call' = IF init[a] = "queued" THEN Reply(call, parent[a]) ELSE call
    /\ sv' = IF holder = a /\ sv = "call" THEN "run" ELSE sv
    /\ UNCHANGED <<cmds, loop, regVars, life, late, asked, kind, req, got, tasks,
                   notes, children, holder, toStop, bounds>>

\* The handlers have dropped their signals.
Signalled(a) == life[a] = "stopping" /\ (holder = a => sv \notin {"run", "call", "busy"})

\* operation_loop is aborted after five seconds, at the await its call is in -
\* the guest has none - and the caller's channel is closed.
OpAbort(a) ==
    LET c == [call EXCEPT ![a] = "over"] IN
    /\ Signalled(a)
    /\ call[a] \in {"send", "wait", "answered", "report"}
    /\ call' = IF kind[a] = "init" THEN Reply(c, parent[a]) ELSE c
    /\ init' = IF kind[a] = "init" THEN [init EXCEPT ![a] = "over"] ELSE init
    /\ kind' = [kind EXCEPT ![a] = "none"]
    /\ req' = [req EXCEPT ![a] = NoCmd]
    /\ got' = [got EXCEPT ![a] = None]
    /\ UNCHANGED <<cmds, loop, regVars, life, late, asked, tasks, svVars, bounds>>

\* The loops have ended, the receivers are gone and with them what was queued:
\* Shutdown is acknowledged.
ActorAck(a) ==
    LET c == [call EXCEPT ![a] = "over"] IN
    /\ Signalled(a)
    /\ a \notin late
    /\ call[a] \in {"idle", "dead", "over"}
    /\ life' = [life EXCEPT ![a] = "stopped"]
    /\ call' = IF init[a] = "queued" THEN Reply(c, parent[a]) ELSE c
    /\ init' = IF init[a] = "queued" THEN [init EXCEPT ![a] = "over"] ELSE init
    /\ UNCHANGED <<cmds, loop, regVars, late, asked, kind, req, got, tasks, svVars, bounds>>

-----------------------------------------------------------------------------
(* The holder's supervisor handler.                                        *)

\* process_child_result: forget the child, then tell the actor, if it wants to
\* know.
SvTake ==
    /\ sv = "run"
    /\ notes # <<>>
    /\ notes' = Tail(notes)
    /\ children' = children \ {Head(notes)}
    /\ sv' = IF Callbacks THEN "call" ELSE "run"
    /\ UNCHANGED <<cmds, loop, regVars, actVars, tasks, holder, toStop, bounds>>

\* ActorHandle::call_function gives up after DEFAULT_OPERATION_TIMEOUT, on a call
\* that is queued behind another, that has begun, or that a paused actor will
\* never take; it stays queued, or goes on, as a call nobody waits for.
SvCallTimeout ==
    /\ sv \in {"call", "busy"}
    /\ sv' = "run"
    /\ kind' = IF sv = "busy" THEN [kind EXCEPT ![holder] = "message"] ELSE kind
    /\ UNCHANGED <<cmds, loop, regVars, life, late, asked, call, req, got, init, tasks,
                   notes, children, holder, toStop, bounds>>

\* The shutdown arm: the signal is dropped (and so acknowledged) by the break
\* out of the select loop; the children to stop are read after it.
SvSignal ==
    /\ sv = "run"
    /\ life[holder] = "stopping"
    /\ toStop' = children
    /\ sv' = IF children = {} THEN "done" ELSE "stopping"
    /\ notes' = IF children = {} THEN <<>> ELSE notes
    /\ UNCHANGED <<cmds, loop, regVars, actVars, tasks, children, holder, bounds>>

\* Mutant of SvSendStop: try_send.
SvTrySendStop(c) ==
    /\ sv = "stopping"
    /\ c \in toStop
    /\ cmds' = IF HasRoom /\ ~Exited THEN Append(cmds, [op |-> "Stop", id |-> c, by |-> None])
               ELSE cmds
    /\ toStop' = toStop \ {c}
    /\ sv' = IF toStop = {c} THEN "drain" ELSE "stopping"
    /\ UNCHANGED <<loop, regVars, actVars, tasks, notes, children, holder, bounds>>

\* StopActor for each, without waiting for the answers.
SvSendStop(c) ==
    /\ sv = "stopping"
    /\ c \in toStop
    /\ Send([op |-> "Stop", id |-> c, by |-> None])
    /\ toStop' = toStop \ {c}
    /\ sv' = IF toStop = {c} THEN "drain" ELSE "stopping"
    /\ UNCHANGED <<loop, regVars, actVars, tasks, notes, children, holder, bounds>>

\* Child results are still taken (their callbacks fail, at the latest when operation_loop has ended) ...
SvDrain ==
    /\ sv = "drain"
    /\ notes # <<>>
    /\ notes' = Tail(notes)
    /\ children' = children \ {Head(notes)}
    /\ UNCHANGED <<cmds, loop, regVars, actVars, tasks, holder, sv, toStop, bounds>>

\* ... until no child is left, five seconds are over, or the end of start
\* aborts the handler - which it also does where it waits for room to send a
\* StopActor.
SvEnd ==
    /\ \/ sv = "drain"
       \/ sv = "stopping" /\ life[holder] = "stopped" /\ ~HasRoom
    /\ sv' = "done"
    /\ notes' = <<>>
    /\ UNCHANGED <<cmds, loop, regVars, actVars, tasks, children, holder, toStop, bounds>>

-----------------------------------------------------------------------------
(* Detached tasks and clients.                                             *)

TaskShutdown(a) ==
    /\ tasks[<<"shutdown", a>>] > 0
    /\ Send([op |-> "ShuttingDown", id |-> a, by |-> None])
    /\ tasks' = Minus("shutdown", a)
    /\ UNCHANGED <<loop, regVars, actVars, svVars, bounds>>

\* Mutant of TaskWaiter: the completion is not sent.
TaskWaiterSilent(a) ==
    /\ tasks[<<"waiter", a>>] > 0
    /\ WaitOver(a)
    /\ tasks' = Minus("waiter", a)
    /\ UNCHANGED <<cmds, loop, regVars, actVars, svVars, bounds>>

TaskWaiter(a) ==
    /\ tasks[<<"waiter", a>>] > 0
    /\ WaitOver(a)
    /\ Send([op |-> "ShutdownComplete", id |-> a, by |-> None])
    /\ tasks' = Minus("waiter", a)
    /\ UNCHANGED <<loop, regVars, actVars, svVars, bounds>>

TaskNote(a) ==
    /\ tasks[<<"note", a>>] > 0
    /\ Note(a)
    /\ tasks' = Minus("note", a)
    /\ UNCHANGED <<cmds, loop, actors, chains, parent, actVars,
                   children, holder, sv, toStop, bounds>>

ClientSend(o, b) ==
    /\ o \in ClientCmds
    /\ sent < MaxClient
    /\ ~Exited
    /\ IF o \in {"Spawn", "Setup"} THEN b = None /\ SpawnRoom
       ELSE IF o = "ShutdownRuntime" THEN b = None ELSE b \in Ids /\ life[b] # "unborn"
    /\ Send([op |-> o, id |-> b, by |-> None])
    /\ sent' = sent + 1
    /\ UNCHANGED <<loop, regVars, actVars, tasks, svVars, exits>>

LoopNext ==
    \/ \E a \in Ids : LoopRegistryErr(a) \/ LoopSpawn(a)
    \/ LoopRegister \/ LoopSetupErr \/ LoopAbsent \/ LoopTake \/ LoopNote \/ LoopStop
    \/ LoopDetach \/ LoopStopped \/ LoopComplete \/ LoopShutdownRuntime
    \/ LoopInfo \/ LoopInfoDone

ActorNext(a) ==
    \/ SetupOk(a) \/ SetupErr(a) \/ HostResume(a) \/ GuestShutdown(a) \/ GuestTrap(a)
    \/ HostSend(a) \/ Report(a) \/ GuestReturn(a) \/ CtlStop(a) \/ LateMiss(a)
    \/ DropQueued(a) \/ OpAbort(a) \/ ActorAck(a)
    \/ \E k \in {"init", "callback", "message"} : BeginCall(a, k)
    \/ \E o \in {"Spawn", "Stop", "Info"}, b \in Ids \cup {None} : GuestHost(a, o, b)

SvNext == SvTake \/ SvCallTimeout \/ SvSignal \/ SvDrain \/ SvEnd \/ \E c \in Ids : SvSendStop(c)

TaskNext(a) == TaskShutdown(a) \/ TaskWaiter(a) \/ TaskNote(a)

Next ==
    \/ LoopNext
    \/ SvNext
    \/ \E a \in Ids : ActorNext(a) \/ TaskNext(a)
    \/ \E o \in {"Spawn", "Setup", "Stop", "Terminate", "Info", "ShutdownRuntime"},
          b \in Ids \cup {None} : ClientSend(o, b)

Spec == Init /\ [][Next]_vars

\* Tokio runs every task that can run, its timers fire, and an operation queue
\* and the instance lock are first come first served, so neither the queued init
\* call nor the loop's query is passed over for ever.
\* The command channel serves its senders in order too, and an epoch deadline
\* ends every call that stays in the guest; for both weak fairness is enough
\* here, because the runs that assume it bound how much is sent.
Fairness ==
    /\ SF_vars(LoopNext)
    /\ WF_vars(SvNext)
    /\ \A a \in Ids :
           /\ WF_vars(SetupOk(a) \/ SetupErr(a) \/ HostResume(a) \/ CtlStop(a)
                        \/ LateMiss(a) \/ DropQueued(a) \/ OpAbort(a) \/ ActorAck(a))
           /\ WF_vars(HostSend(a) \/ Report(a) \/ GuestReturn(a) \/ GuestTrap(a))
           /\ SF_vars(BeginCall(a, "init"))
           /\ WF_vars(TaskNext(a))

LiveSpec == Spec /\ Fairness

-----------------------------------------------------------------------------
(* Properties.                                                             *)

\* Whether the command in c, or being processed, is o about a.
Pending(o, a) == \E i \in DOMAIN cmds : cmds[i].op = o /\ cmds[i].id = a

\* stop_actor's unwrap is "Safe - we just checked it exists": between the check
\* and the removal the loop waits for the supervisor's channel, for subscribers
\* and for the actor, and nothing else removes the entry.
StillRegistered == loop.pc \in {"note", "act", "stop"} => loop.cmd.id \in actors

\* Whenever the loop looks at its next command, every registered actor has its
\* chain: SubscribeToActor on a registered actor finds one.
RegisteredHasChain == loop.pc = "recv" => actors \subseteq chains

\* An actor whose Shutdown is answered in time has stopped when it has left the
\* registry: none runs on that the runtime cannot find any more.
StoppedBeforeRemoved ==
    \A a \in Ids \ (actors \cup Slow) :
        life[a] \in {"up", "stopping"} => loop.pc = "setup" /\ loop.cmd.id = a

\* A stopped actor does not stay registered: as long as it is in the registry,
\* somebody is about to remove it - the loop itself, the detached task that
\* waits for it, or the completion that task has sent.
NoZombie ==
    ~Exited => \A a \in actors : life[a] = "stopped" =>
        \/ loop.pc = "stop" /\ loop.cmd.id = a
        \/ tasks[<<"waiter", a>>] > 0
        \/ Pending("ShutdownComplete", a)

\* The registry agrees with the chains, the actors and the loop that changes it,
\* whatever commands, exits and detached tasks come in between: stop_actor's
\* entry is still there when it is unwrapped, a registered actor has its chain,
\* and a stopped one is about to be removed.
RegistryAgrees == TypeOK /\ StillRegistered /\ RegisteredHasChain /\ NoZombie

\* A supervised actor does not vanish: if it was spawned by another actor and
\* is gone from the registry, its end was put in the supervisor's channel, or
\* that was closed, or a detached task still holds the message - unless it was
\* terminated, of which nobody is told.
ToldBeforeGone ==
    \A a \in Ids \ actors :
        parent[a] # None /\ life[a] = "stopped" =>
            a \in told \/ tasks[<<"note", a>>] > 0

\* The one circle of waits: a query waits inside the loop, without a timeout, for
\* the instance lock of an actor whose call waits for the loop.
Tied == loop.pc = "info" /\ call[loop.cmd.id] \in {"send", "wait", "report"}

\* The loop comes back from every command, unless a query has tied it up.
LoopReturns ==
    (loop.pc \notin {"recv", "exited"}) ~> (loop.pc \in {"recv", "exited"} \/ Tied)

\* The actors that use host function f.
Uses(f) == {a \in Ids : f \in HostCalls[a]}

\* A host function that waits for the runtime is answered, or its call ends.
HostCallsAnswered ==
    \A a \in Uses("Spawn") \cup Uses("Stop") \cup Uses("Info") :
        (call[a] = "wait") ~> (call[a] # "wait" \/ Tied)

\* An actor is stopped with those of its children that spawn has put in the set
\* of its supervisor handler: the StopActor that the handler sends without
\* waiting for the answer takes effect, although the parent's own stop may end,
\* or be given up, before.  The end of the parent loses only a StopActor that the
\* handler could not send, because the command channel had no room for it.
ChildrenStop ==
    \A a \in Ids :
        (a \in toStop)
            ~> (a \notin actors \/ Exited \/ (a \in toStop /\ sv = "done") \/ Tied)

\* An actor that asked to be shut down leaves the registry.
SelfShutdownCompletes ==
    \A a \in Uses("shutdown") :
        (tasks[<<"shutdown", a>>] > 0) ~> (a \notin actors \/ Exited \/ Tied)

\* The command loop serves everybody: it comes back from every command and
\* answers the host functions that wait for it, also those of actors whose spawn
\* fails or whose init call spawns in its turn, and also when the supervisor's
\* channel is full and its handler waits for an actor that waits for the loop: that
\* circle opens when the handler's call gives up, after 3000 seconds at the latest.
LoopServes == LoopReturns /\ HostCallsAnswered

\* Every end that was asked for comes: of an actor that called shutdown, and of
\* those children of an actor that has ended which were in the set when its handler
\* read it.  A child whose spawn was still on its way is not stopped: the comment of
\* stop_actor, "stops an actor and all its children recursively", promises more.
StopsComplete == ChildrenStop /\ SelfShutdownCompletes

=============================================================================
