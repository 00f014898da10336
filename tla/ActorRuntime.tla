--------------------------- MODULE ActorRuntime ---------------------------
(***************************************************************************)
(* One actor's runtime: ActorRuntime::start and the four tasks it runs     *)
(* (crates/theater/src/actor/runtime.rs).                                  *)
(*                                                                         *)
(*   setup   builds the instance, spawns the handler tasks, sets Running   *)
(*   op      operation_loop: runs WebAssembly calls one at a time          *)
(*   info    info_loop: answers status, state, metrics and hash requests   *)
(*   ctl     the control loop of start: Shutdown, Terminate, Pause, Resume *)
(*                                                                         *)
(* They share the phase (a tokio watch channel), the instance behind a     *)
(* RwLock that a call holds for its whole duration, the handlers' shutdown *)
(* controller and the handler tasks.  A step of the model is what a task   *)
(* does between two await points that can suspend it.                      *)
(***************************************************************************)
EXTENDS Naturals, Sequences, FiniteSets

CONSTANTS
    Ops,          \* the operations callers send (one CallFunctionPack each)
    HttpOps,      \* those that are HandleWasiHttpRequest instead
    Infos,        \* the info requests callers send
    StatusInfos,  \* those that are GetStatus: the only ones that take no lock
    Handlers,     \* the handlers in this actor's registry
    Controls,     \* the control commands this actor's owner may send
    EarlyControl, \* may they be sent before setup has reported its result?
    MaxControl,   \* bound: control commands sent to this actor
    None          \* no operation; also the initial actor state

Cmds == {"Shutdown", "Terminate", "Pause", "Resume"}

ASSUME ConstantsAssumption ==
    /\ HttpOps \subseteq Ops
    /\ StatusInfos \subseteq Infos
    /\ Controls \subseteq Cmds
    /\ EarlyControl \in BOOLEAN
    /\ MaxControl \in Nat
    /\ None \notin Ops \cup Infos

VARIABLES
    phase,      \* ActorPhaseManager's current phase
    setup,      \* program counter of the setup task
    op,         \* program counter of operation_loop
    info,       \* program counter of info_loop
    ctl,        \* program counter of the control loop
    instance,   \* has the wrapper an instance?
    controller, \* the handlers' ShutdownController: none yet, stored, taken
    stored,     \* have the handlers' join handles been stored?
    hand,       \* the handler tasks
    aborts,     \* tasks on which abort() was called
    opQ,        \* operation channel
    cur,        \* the operation being processed
    opRes,      \* what each operation's caller has been told
    infoQ,      \* info channel
    infoCur,    \* the info request being answered
    infoRes,    \* what each info request's caller has been told
    ctlQ,       \* control channel
    sent,       \* number of control commands sent
    replies,    \* the answers given to control commands
    reported,   \* failed operations announced as TheaterCommand::ActorError
    log,        \* the wasm events on the actor's chain, stop_actor's own among them
    state       \* the actor's state: the operation that last set it

loops   == <<setup, op, info, ctl, aborts>>
opVars  == <<opQ, cur, opRes, reported, log, state>>
infVars == <<infoQ, infoCur, infoRes>>
ctlVars == <<ctlQ, sent, replies>>
res     == <<instance, controller, stored, hand>>
vars    == <<phase, loops, opVars, infVars, ctlVars, res>>

Phases    == {"Starting", "Running", "Paused", "ShuttingDown"}
SetupPc   == {"building", "spawning", "storing", "publishing", "done", "failed", "aborted"}
OpPc      == {"waiting", "ready", "idle", "poll", "recv", "paused", "calling", "guest",
              "host", "recording", "failing", "reporting", "exited", "aborted"}
InfoPc    == {"idle", "recv", "serving", "exited", "aborted"}
CtlPc     == {"recv", "signal", "waitOp", "waitInfo", "waitSetup", "force", "cleanup", "exited"}
Tasks     == {"op", "info", "setup"}
OpStatus  == {"unsent", "queued", "running", "ok", "err", "closed"}
InfStatus == {"unsent", "queued", "ok", "err", "closed"}
Results   == {"Ok", "ErrShuttingDown", "ErrNotPaused"}
StopEvent == [ev |-> "stop", op |-> None]
Events    == [ev : {"call", "result", "error"}, op : Ops] \cup {StopEvent}

Ended     == {"exited", "aborted"}
SetupOver == {"done", "failed", "aborted"}
Alive     == {"running", "signalled", "leaving"}
Locked    == {"calling", "guest", "host", "recording", "failing", "reporting"}

TypeOK ==
    /\ phase \in Phases
    /\ setup \in SetupPc
    /\ op \in OpPc
    /\ info \in InfoPc
    /\ ctl \in CtlPc
    /\ instance \in BOOLEAN
    /\ controller \in {"none", "some", "taken"}
    /\ stored \in BOOLEAN
    /\ hand \in [Handlers -> {"absent", "running", "signalled", "leaving", "done", "aborted"}]
    /\ aborts \subseteq Tasks
    /\ opQ \in Seq(Ops)
    /\ cur \in Ops \cup {None}
    /\ opRes \in [Ops -> OpStatus]
    /\ infoQ \in Seq(Infos)
    /\ infoCur \in Infos \cup {None}
    /\ infoRes \in [Infos -> InfStatus]
    /\ ctlQ \in Seq(Controls)
    /\ sent \in Nat
    /\ replies \subseteq Cmds \X Results
    /\ reported \subseteq Ops
    /\ log \in Seq(Events)
    /\ state \in Ops \cup {None}

Init ==
    /\ phase = "Starting"
    /\ setup = "building"
    /\ op = "waiting"
    /\ info = "idle"
    /\ ctl = "recv"
    /\ instance = FALSE
    /\ controller = "none"
    /\ stored = FALSE
    /\ hand = [h \in Handlers |-> "absent"]
    /\ aborts = {}
    /\ opQ = <<>>
    /\ cur = None
    /\ opRes = [o \in Ops |-> "unsent"]
    /\ infoQ = <<>>
    /\ infoCur = None
    /\ infoRes = [i \in Infos |-> "unsent"]
    /\ ctlQ = <<>>
    /\ sent = 0
    /\ replies = {}
    /\ reported = {}
    /\ log = <<>>
    /\ state = None

-----------------------------------------------------------------------------
(* The setup task: build_actor_resources and the match on its result.      *)

\* Any of the early returns of build_actor_resources: a phase checkpoint that
\* finds another phase than Starting, or instantiation, interface-hash or
\* metadata checks that fail.  The Err arm sets ShuttingDown.
SetupFail ==
    /\ setup = "building"
    /\ setup' = "failed"
    /\ phase' = "ShuttingDown"
    /\ UNCHANGED <<op, info, ctl, aborts, opVars, infVars, ctlVars, res>>

\* The last checkpoint: the phase is still Starting, and the instance is put
\* in the shared wrapper.
SetupFinalize ==
    /\ setup = "building"
    /\ phase = "Starting"
    /\ setup' = "spawning"
    /\ instance' = TRUE
    /\ UNCHANGED <<phase, op, info, ctl, aborts, opVars, infVars, ctlVars,
                   controller, stored, hand>>

\* One handler: subscribe to the shutdown controller and the chain (an await
\* on the chain lock), spawn its task.  After the last, the Ok is returned.
SetupSpawnHandler(h) ==
    /\ setup = "spawning"
    /\ hand[h] = "absent"
    /\ hand' = [hand EXCEPT ![h] = "running"]
    /\ UNCHANGED <<phase, loops, opVars, infVars, ctlVars, instance, controller, stored>>

\* The Ok arm: join handles first, then the controller, then Running - each
\* behind a lock of its own, with the phase set whatever it was by then.
SetupStore ==
    /\ setup = "spawning"
    /\ \A h \in Handlers : hand[h] # "absent"
    /\ setup' = "storing"
    /\ stored' = TRUE
    /\ UNCHANGED <<phase, op, info, ctl, aborts, opVars, infVars, ctlVars,
                   instance, controller, hand>>

SetupController ==
    /\ setup = "storing"
    /\ setup' = "publishing"
    /\ controller' = "some"
    /\ UNCHANGED <<phase, op, info, ctl, aborts, opVars, infVars, ctlVars,
                   instance, stored, hand>>

SetupRunning ==
    /\ setup = "publishing"
    /\ setup' = "done"
    /\ phase' = "Running"
    /\ UNCHANGED <<op, info, ctl, aborts, opVars, infVars, ctlVars, res>>

-----------------------------------------------------------------------------
(* operation_loop and process_operation.                                   *)

InQueue(q, x) == \E k \in 1..Len(q) : q[k] = x

\* Mutant of CloseOps: only the operation being processed is answered.
CloseCurrent(r, q, c) ==
    [o \in Ops |-> IF o = c THEN "closed" ELSE r[o]]

\* What the callers of the operations in q learn when operation_rx is dropped.
CloseOps(r, q, c) ==
    [o \in Ops |-> IF o = c \/ InQueue(q, o) THEN "closed" ELSE r[o]]

\* operation_loop returns: its receiver goes, and every queued sender's
\* response channel with it.
OpExit ==
    /\ op' = "exited"
    /\ opRes' = CloseOps(opRes, opQ, None)
    /\ opQ' = <<>>
    /\ UNCHANGED <<phase, setup, info, ctl, aborts, cur, reported, log, state,
                   infVars, ctlVars, res>>

\* wait_for_ready_or_shutdown: the wait ends on Running or ShuttingDown ...
OpReady ==
    /\ op = "waiting"
    /\ phase \in {"Running", "ShuttingDown"}
    /\ op' = "ready"
    /\ UNCHANGED <<phase, setup, info, ctl, aborts, opVars, infVars, ctlVars, res>>

\* ... and the phase is then read a second time to decide what it was.
OpEnter ==
    /\ op = "ready"
    /\ phase = "Running"
    /\ op' = "idle"
    /\ UNCHANGED <<phase, setup, info, ctl, aborts, opVars, infVars, ctlVars, res>>

OpNotReady == op = "ready" /\ phase # "Running" /\ OpExit

\* The biased select polls its branches in turn, and the phase may change between
\* two polls.  First branch: ShuttingDown.
OpStop == op = "idle" /\ phase = "ShuttingDown" /\ OpExit

OpNotStopped ==
    /\ op = "idle"
    /\ phase # "ShuttingDown"
    /\ op' = "poll"
    /\ UNCHANGED <<phase, setup, info, ctl, aborts, opVars, infVars, ctlVars, res>>

\* Second branch: Paused, from which only Running is waited for.
OpPause ==
    /\ op = "poll"
    /\ phase = "Paused"
    /\ op' = "paused"
    /\ UNCHANGED <<phase, setup, info, ctl, aborts, opVars, infVars, ctlVars, res>>

OpNotPaused ==
    /\ op = "poll"
    /\ phase # "Paused"
    /\ op' = "recv"
    /\ UNCHANGED <<phase, setup, info, ctl, aborts, opVars, infVars, ctlVars, res>>

OpUnpause ==
    /\ op = "paused"
    /\ phase = "Running"
    /\ op' = "idle"
    /\ UNCHANGED <<phase, setup, info, ctl, aborts, opVars, infVars, ctlVars, res>>

\* Mutant of TakesOp: the receiver is polled before the phase.
TakesOpAlways ==
    /\ op \in {"idle", "recv"}
    /\ opQ # <<>>

\* Third branch: the next operation, whatever the phase is by now.
TakesOp ==
    /\ op = "recv"
    /\ opQ # <<>>

\* No branch is ready: the select is polled again when one may be.
OpMiss ==
    /\ op = "recv"
    /\ opQ = <<>>
    /\ op' = "idle"
    /\ UNCHANGED <<phase, setup, info, ctl, aborts, opVars, infVars, ctlVars, res>>

\* A call: the instance and metrics locks are taken for all of it.
OpCall ==
    /\ TakesOp
    /\ Head(opQ) \notin HttpOps
    /\ instance
    /\ op' = "calling"
    /\ cur' = Head(opQ)
    /\ opQ' = Tail(opQ)
    /\ opRes' = [opRes EXCEPT ![Head(opQ)] = "running"]
    /\ UNCHANGED <<phase, setup, info, ctl, aborts, reported, log, state,
                   infVars, ctlVars, res>>

\* Answered with an error at once: a call that finds no instance (reported as
\* ActorRuntimeError, which the theater runtime only logs), and a
\* HandleWasiHttpRequest.  Neither pauses the actor.
OpReject ==
    /\ TakesOp
    /\ Head(opQ) \in HttpOps \/ ~instance
    /\ op' = "idle"
    /\ opQ' = Tail(opQ)
    /\ opRes' = [opRes EXCEPT ![Head(opQ)] = "err"]
    /\ UNCHANGED <<phase, setup, info, ctl, aborts, cur, reported, log, state,
                   infVars, ctlVars, res>>

\* execute_call_pack: the parameters decode, WasmCall is recorded, and the
\* guest is entered.
CallRecord ==
    /\ op = "calling"
    /\ op' = "guest"
    /\ log' = Append(log, [ev |-> "call", op |-> cur])
    /\ UNCHANGED <<phase, setup, info, ctl, aborts, opQ, cur, opRes, reported, state,
                   infVars, ctlVars, res>>

\* The parameters do not decode: SerializationError, nothing recorded.
CallDecodeError ==
    /\ op = "calling"
    /\ op' = "reporting"
    /\ UNCHANGED <<phase, setup, info, ctl, aborts, opVars, infVars, ctlVars, res>>

\* The guest calls a host function, an await that may suspend the task ...
GuestToHost ==
    /\ op = "guest"
    /\ op' = "host"
    /\ UNCHANGED <<phase, setup, info, ctl, aborts, opVars, infVars, ctlVars, res>>

\* ... and may return.
HostToGuest ==
    /\ op = "host"
    /\ op' = "guest"
    /\ UNCHANGED <<phase, setup, info, ctl, aborts, opVars, infVars, ctlVars, res>>

\* The guest function returns: WasmResult is recorded (an await: the chain
\* waits for its subscribers).
GuestReturn ==
    /\ op = "guest"
    /\ op' = "recording"
    /\ log' = Append(log, [ev |-> "result", op |-> cur])
    /\ UNCHANGED <<phase, setup, info, ctl, aborts, opQ, cur, opRes, reported, state,
                   infVars, ctlVars, res>>

\* Mutant of GuestTrap: the operation is dropped before its failure is reported.
GuestTrapForgets ==
    /\ op = "guest"
    /\ op' = "failing"
    /\ log' = Append(log, [ev |-> "error", op |-> cur])
    /\ cur' = None
    /\ UNCHANGED <<phase, setup, info, ctl, aborts, opQ, opRes, reported, state,
                   infVars, ctlVars, res>>

\* The guest function traps (its epoch deadline included): WasmError.
GuestTrap ==
    /\ op = "guest"
    /\ op' = "failing"
    /\ log' = Append(log, [ev |-> "error", op |-> cur])
    /\ UNCHANGED <<phase, setup, info, ctl, aborts, opQ, cur, opRes, reported, state,
                   infVars, ctlVars, res>>

\* Mutant of CallOk: the new state is not stored.
CallOkStateless ==
    /\ op = "recording"
    /\ op' = "idle"
    /\ opRes' = [opRes EXCEPT ![cur] = "ok"]
    /\ cur' = None
    /\ UNCHANGED <<phase, setup, info, ctl, aborts, opQ, reported, log, state,
                   infVars, ctlVars, res>>

\* set_state, then the Ok answer.
CallOk ==
    /\ op = "recording"
    /\ op' = "idle"
    /\ state' = cur
    /\ opRes' = [opRes EXCEPT ![cur] = "ok"]
    /\ cur' = None
    /\ UNCHANGED <<phase, setup, info, ctl, aborts, opQ, reported, log,
                   infVars, ctlVars, res>>

\* Err(ActorError::Internal) out of execute_call_pack.
CallErr ==
    /\ op = "failing"
    /\ op' = "reporting"
    /\ UNCHANGED <<phase, setup, info, ctl, aborts, opVars, infVars, ctlVars, res>>

\* ActorError is sent to the theater runtime (an await: its queue may be
\* full) ...
CallReport ==
    /\ op = "reporting"
    /\ cur \notin reported
    /\ reported' = reported \cup {cur}
    /\ UNCHANGED <<phase, loops, opQ, cur, opRes, log, state, infVars, ctlVars, res>>

\* Mutant of CallFailed: the actor is not paused.
CallFailedUnpaused ==
    /\ op = "reporting"
    /\ cur \in reported
    /\ op' = "idle"
    /\ opRes' = [opRes EXCEPT ![cur] = "err"]
    /\ cur' = None
    /\ UNCHANGED <<phase, setup, info, ctl, aborts, opQ, reported, log, state,
                   infVars, ctlVars, res>>

\* ... then the caller is answered and the actor paused, whatever its phase.
CallFailed ==
    /\ op = "reporting"
    /\ cur \in reported
    /\ op' = "idle"
    /\ opRes' = [opRes EXCEPT ![cur] = "err"]
    /\ cur' = None
    /\ phase' = "Paused"
    /\ UNCHANGED <<setup, info, ctl, aborts, opQ, reported, log, state,
                   infVars, ctlVars, res>>

-----------------------------------------------------------------------------
(* info_loop.                                                              *)

CloseInfos(r, q, c) ==
    [i \in Infos |-> IF i = c \/ InQueue(q, i) THEN "closed" ELSE r[i]]

InfoStop ==
    /\ info = "idle"
    /\ phase = "ShuttingDown"
    /\ info' = "exited"
    /\ infoRes' = CloseInfos(infoRes, infoQ, None)
    /\ infoQ' = <<>>
    /\ UNCHANGED <<phase, setup, op, ctl, aborts, opVars, infoCur, ctlVars, res>>

\* Its select too polls the phase first and the receiver after it.
InfoNotStopped ==
    /\ info = "idle"
    /\ phase # "ShuttingDown"
    /\ info' = "recv"
    /\ UNCHANGED <<phase, setup, op, ctl, aborts, opVars, infVars, ctlVars, res>>

InfoMiss ==
    /\ info = "recv"
    /\ infoQ = <<>>
    /\ info' = "idle"
    /\ UNCHANGED <<phase, setup, op, ctl, aborts, opVars, infVars, ctlVars, res>>

InfoTake ==
    /\ info = "recv"
    /\ infoQ # <<>>
    /\ info' = "serving"
    /\ infoCur' = Head(infoQ)
    /\ infoQ' = Tail(infoQ)
    /\ UNCHANGED <<phase, setup, op, ctl, aborts, opVars, infoRes, ctlVars, res>>

\* GetStatus reads the phase; GetState, GetMetrics and GetExportHashes wait
\* for a lock that a running call holds, and the loop waits with them.  The
\* answer is an error without an instance; the errors get_export_hashes can
\* return with one are answers as well, and are not told apart from its results.
InfoServe ==
    /\ info = "serving"
    /\ infoCur \in StatusInfos \/ op \notin Locked
    /\ info' = "idle"
    /\ infoRes' = [infoRes EXCEPT ![infoCur] =
                     IF infoCur \in StatusInfos \/ instance THEN "ok" ELSE "err"]
    /\ infoCur' = None
    /\ UNCHANGED <<phase, setup, op, ctl, aborts, opVars, infoQ, ctlVars, res>>

-----------------------------------------------------------------------------
(* The control loop of start.                                              *)

\* Handlers that have a shutdown receiver get the signal; those that already
\* returned dropped theirs.
Signal == [h \in Handlers |-> IF hand[h] = "running" THEN "signalled" ELSE hand[h]]

\* Shutdown, up to its first long await: the phase, then the handlers are
\* signalled if the controller has been stored.
CtlShutdown ==
    /\ ctl = "recv"
    /\ ctlQ # <<>> /\ Head(ctlQ) = "Shutdown"
    /\ ctlQ' = Tail(ctlQ)
    /\ phase' = "ShuttingDown"
    /\ controller' = IF controller = "some" THEN "taken" ELSE controller
    /\ hand' = IF controller = "some" THEN Signal ELSE hand
    /\ ctl' = IF controller = "some" THEN "signal" ELSE "waitOp"
    /\ UNCHANGED <<setup, op, info, aborts, opVars, infVars, sent, replies,
                   instance, stored>>

\* signal_shutdown returns once every signal has been dropped.
CtlSignalled ==
    /\ ctl = "signal"
    /\ \A h \in Handlers : hand[h] # "signalled"
    /\ ctl' = "waitOp"
    /\ UNCHANGED <<phase, setup, op, info, aborts, opVars, infVars, ctlVars, res>>

\* Mutant of CtlOpEnded: the aborted task is not awaited.
CtlOpNotAwaited ==
    /\ ctl = "waitOp"
    /\ (op \in Ended \/ "op" \in aborts)
    /\ ctl' = "waitInfo"
    /\ UNCHANGED <<phase, setup, op, info, aborts, opVars, infVars, ctlVars, res>>

\* The three selects on a join handle.  Each ends when its task has ended ...
CtlOpEnded ==
    /\ ctl = "waitOp"
    /\ op \in Ended
    /\ ctl' = "waitInfo"
    /\ UNCHANGED <<phase, setup, op, info, aborts, opVars, infVars, ctlVars, res>>

CtlInfoEnded ==
    /\ ctl = "waitInfo"
    /\ info \in Ended
    /\ ctl' = "waitSetup"
    /\ UNCHANGED <<phase, setup, op, info, aborts, opVars, infVars, ctlVars, res>>

\* ... and the last is followed by the answer and the end of the loop.
CtlSetupEnded ==
    /\ ctl = "waitSetup"
    /\ setup \in SetupOver
    /\ ctl' = "cleanup"
    /\ replies' = replies \cup {<<"Shutdown", "Ok">>}
    /\ UNCHANGED <<phase, setup, op, info, aborts, opVars, infVars, ctlQ, sent, res>>

\* Mutant of CtlTimeout: the operation loop is waited for without a timeout.
CtlTimeoutNotOp(t) ==
    /\ \/ t = "info" /\ ctl = "waitInfo" /\ info \notin Ended
       \/ t = "setup" /\ ctl = "waitSetup" /\ setup \notin SetupOver
    /\ t \notin aborts
    /\ aborts' = aborts \cup {t}
    /\ UNCHANGED <<phase, setup, op, info, ctl, opVars, infVars, ctlVars, res>>

\* ... or, after 5, 2 and 2 seconds, aborts it and awaits it again.
CtlTimeout(t) ==
    /\ \/ t = "op" /\ ctl = "waitOp" /\ op \notin Ended
       \/ t = "info" /\ ctl = "waitInfo" /\ info \notin Ended
       \/ t = "setup" /\ ctl = "waitSetup" /\ setup \notin SetupOver
    /\ t \notin aborts
    /\ aborts' = aborts \cup {t}
    /\ UNCHANGED <<phase, setup, op, info, ctl, opVars, infVars, ctlVars, res>>

\* Terminate: abort the three tasks without awaiting them, then force the
\* handlers.
CtlTerminate ==
    /\ ctl = "recv"
    /\ ctlQ # <<>> /\ Head(ctlQ) = "Terminate"
    /\ ctlQ' = Tail(ctlQ)
    /\ aborts' = Tasks
    /\ controller' = IF controller = "some" THEN "taken" ELSE controller
    /\ hand' = IF controller = "some" THEN Signal ELSE hand
    /\ ctl' = "force"
    /\ UNCHANGED <<phase, setup, op, info, opVars, infVars, sent, replies,
                   instance, stored>>

CtlForced ==
    /\ ctl = "force"
    /\ \A h \in Handlers : hand[h] # "signalled"
    /\ ctl' = "cleanup"
    /\ replies' = replies \cup {<<"Terminate", "Ok">>}
    /\ UNCHANGED <<phase, setup, op, info, aborts, opVars, infVars, ctlQ, sent, res>>

CtlPause ==
    /\ ctl = "recv"
    /\ ctlQ # <<>> /\ Head(ctlQ) = "Pause"
    /\ ctlQ' = Tail(ctlQ)
    /\ phase' = IF phase = "ShuttingDown" THEN phase ELSE "Paused"
    /\ replies' = replies \cup
         {<<"Pause", IF phase = "ShuttingDown" THEN "ErrShuttingDown" ELSE "Ok">>}
    /\ UNCHANGED <<loops, opVars, infVars, sent, res>>

CtlResume ==
    /\ ctl = "recv"
    /\ ctlQ # <<>> /\ Head(ctlQ) = "Resume"
    /\ ctlQ' = Tail(ctlQ)
    /\ \/ /\ phase = "Paused"
          /\ phase' = "Running"
          /\ replies' = replies \cup {<<"Resume", "Ok">>}
       \/ /\ phase = "ShuttingDown"
          /\ replies' = replies \cup {<<"Resume", "ErrShuttingDown">>}
          /\ UNCHANGED phase
       \/ /\ phase \in {"Starting", "Running"}
          /\ replies' = replies \cup {<<"Resume", "ErrNotPaused">>}
          /\ UNCHANGED phase
    /\ UNCHANGED <<loops, opVars, infVars, sent, res>>

\* recv() yields None when every sender is gone: after a failed setup nobody
\* was given a handle, and the owner drops its own.
CtlClosed ==
    /\ ctl = "recv"
    /\ ctlQ = <<>>
    /\ setup = "failed"
    /\ ctl' = "cleanup"
    /\ UNCHANGED <<phase, setup, op, info, aborts, opVars, infVars, ctlVars, res>>

\* Mutant of CtlCleanup: the handler tasks are left alone.
CtlCleanupDetaches ==
    /\ ctl = "cleanup"
    /\ op \notin Locked
    /\ ctl' = "exited"
    /\ ctlQ' = <<>>
    /\ UNCHANGED <<phase, setup, op, info, aborts, opVars, infVars, sent, replies, res>>

\* The end of start: a metrics read (which a running call delays) and an
\* abort of every stored handler task that has not finished.  Dropping the
\* receiver drops what is still in the control channel.
CtlCleanup ==
    /\ ctl = "cleanup"
    /\ op \notin Locked
    /\ ctl' = "exited"
    /\ ctlQ' = <<>>
    /\ hand' = [h \in Handlers |->
                  IF stored /\ hand[h] \in Alive THEN "aborted" ELSE hand[h]]
    /\ UNCHANGED <<phase, setup, op, info, aborts, opVars, infVars, sent, replies,
                   instance, controller, stored>>

-----------------------------------------------------------------------------
(* abort() takes effect at the task's next suspended await; the guest has   *)
(* none.  A pass of the select that took nothing might as well not have    *)
(* begun: an abort in the middle of one is an abort before it.             *)

OpAborted ==
    /\ "op" \in aborts
    /\ op \notin Ended \cup {"guest"}
    /\ op' = "aborted"
    /\ opRes' = CloseOps(opRes, opQ, cur)
    /\ opQ' = <<>>
    /\ cur' = None
    /\ UNCHANGED <<phase, setup, info, ctl, aborts, reported, log, state,
                   infVars, ctlVars, res>>

InfoAborted ==
    /\ "info" \in aborts
    /\ info \notin Ended
    /\ info' = "aborted"
    /\ infoRes' = CloseInfos(infoRes, infoQ, infoCur)
    /\ infoQ' = <<>>
    /\ infoCur' = None
    /\ UNCHANGED <<phase, setup, op, ctl, aborts, opVars, ctlVars, res>>

SetupAborted ==
    /\ "setup" \in aborts
    /\ setup \notin SetupOver
    /\ setup' = "aborted"
    /\ UNCHANGED <<phase, op, info, ctl, aborts, opVars, infVars, ctlVars, res>>

-----------------------------------------------------------------------------
(* The actor's surroundings: callers through ActorHandle, the owner of the *)
(* control channel, and the handlers' own tasks.                           *)

\* ActorHandle::call_function and its siblings; the channel is closed once the
\* loop's receiver is gone.
SendOp(o) ==
    /\ opRes[o] = "unsent"
    /\ IF op \in Ended
       THEN /\ opRes' = [opRes EXCEPT ![o] = "closed"]
            /\ UNCHANGED opQ
       ELSE /\ opRes' = [opRes EXCEPT ![o] = "queued"]
            /\ opQ' = Append(opQ, o)
    /\ UNCHANGED <<phase, loops, cur, reported, log, state, infVars, ctlVars, res>>

SendInfo(i) ==
    /\ infoRes[i] = "unsent"
    /\ IF info \in Ended
       THEN /\ infoRes' = [infoRes EXCEPT ![i] = "closed"]
            /\ UNCHANGED infoQ
       ELSE /\ infoRes' = [infoRes EXCEPT ![i] = "queued"]
            /\ infoQ' = Append(infoQ, i)
    /\ UNCHANGED <<phase, loops, opVars, infoCur, ctlVars, res>>

\* The theater runtime sends control commands only after setup_rx said Ok; a
\* handler given an ActorHandle, or another owner, may do so earlier.
SendControl(c) ==
    /\ setup = "done" \/ (EarlyControl /\ setup # "failed")
    /\ ctl # "exited"
    /\ sent < MaxControl
    /\ sent' = sent + 1
    /\ ctlQ' = Append(ctlQ, c)
    /\ UNCHANGED <<phase, loops, opVars, infVars, replies, res>>

\* stop_actor, on the command loop of the theater runtime, records WasmCall
\* "shutdown" on the chain before it sends Shutdown: in the middle of a call, or
\* after an actor that shut itself down has answered and before its
\* ActorShutdownComplete is read.  It then forgets the chain, so it does so once.
StopRecorded ==
    /\ "Shutdown" \in Controls
    /\ setup = "done"
    /\ \A i \in DOMAIN log : log[i] # StopEvent
    /\ log' = Append(log, StopEvent)
    /\ UNCHANGED <<phase, loops, opQ, cur, opRes, reported, state, infVars, ctlVars, res>>

\* A handler's setup() returns by itself, dropping its receiver ...
HandlerReturns(h) ==
    /\ hand[h] = "running"
    /\ hand' = [hand EXCEPT ![h] = "done"]
    /\ UNCHANGED <<phase, loops, opVars, infVars, ctlVars, instance, controller, stored>>

\* ... or sees the signal and drops it, which answers it ...
HandlerAnswers(h) ==
    /\ hand[h] = "signalled"
    /\ hand' = [hand EXCEPT ![h] = "leaving"]
    /\ UNCHANGED <<phase, loops, opVars, infVars, ctlVars, instance, controller, stored>>

\* ... and may have more to do before it returns.
HandlerStops(h) ==
    /\ hand[h] = "leaving"
    /\ hand' = [hand EXCEPT ![h] = "done"]
    /\ UNCHANGED <<phase, loops, opVars, infVars, ctlVars, instance, controller, stored>>

SetupNext ==
    \/ SetupFail \/ SetupFinalize \/ SetupStore \/ SetupController \/ SetupRunning
    \/ SetupAborted
    \/ \E h \in Handlers : SetupSpawnHandler(h)

\* The steps of operation_loop whose completion does not depend on a host
\* function returning.
OpProgress ==
    \/ OpReady \/ OpEnter \/ OpNotReady \/ OpStop \/ OpNotStopped \/ OpPause
    \/ OpNotPaused \/ OpUnpause \/ OpMiss \/ OpCall \/ OpReject
    \/ CallRecord \/ CallDecodeError \/ CallOk \/ CallErr \/ CallReport \/ CallFailed \/ OpAborted

OpNext ==
    \/ OpProgress
    \/ GuestToHost \/ HostToGuest \/ GuestReturn \/ GuestTrap

InfoNext == InfoStop \/ InfoNotStopped \/ InfoMiss \/ InfoTake \/ InfoServe \/ InfoAborted

CtlNext ==
    \/ CtlShutdown \/ CtlSignalled \/ CtlOpEnded \/ CtlInfoEnded \/ CtlSetupEnded
    \/ CtlTerminate \/ CtlForced \/ CtlPause \/ CtlResume \/ CtlClosed \/ CtlCleanup
    \/ \E t \in Tasks : CtlTimeout(t)

EnvNext ==
    \/ \E o \in Ops : SendOp(o)
    \/ \E i \in Infos : SendInfo(i)
    \/ \E c \in Controls : SendControl(c)
    \/ StopRecorded
    \/ \E h \in Handlers : HandlerReturns(h) \/ HandlerAnswers(h) \/ HandlerStops(h)

Next == SetupNext \/ OpNext \/ InfoNext \/ CtlNext \/ EnvNext

Spec == Init /\ [][Next]_vars

\* Tokio polls every task that can run, and its timers fire (CtlNext holds the
\* three timeouts); a loop that only polls its select is dropped when it has been
\* aborted.  A guest call ends whenever it is in the guest often enough:
\* its epoch deadline traps it.  A host function need never return, nobody is
\* obliged to send anything, and a handler need not return before it is told to.
Fairness ==
    /\ WF_vars(SetupNext)
    /\ WF_vars(OpProgress)
    /\ WF_vars(OpAborted)
    /\ SF_vars(GuestReturn \/ GuestTrap)
    /\ WF_vars(InfoNext)
    /\ WF_vars(InfoAborted)
    /\ WF_vars(CtlNext)
    /\ \A h \in Handlers : WF_vars(HandlerAnswers(h))

LiveSpec == Spec /\ Fairness

-----------------------------------------------------------------------------
(* Properties.                                                             *)

ShutdownAcked == <<"Shutdown", "Ok">> \in replies

\* stop_actor removes the actor from the registry once Shutdown has been
\* acknowledged: by then operation_loop, info_loop and the setup task have all
\* ended, no call holds the instance, and no caller is left waiting for an
\* answer - each has a result or a closed channel - whether the loops left by
\* themselves or had to be aborted.
AckMeansStopped ==
    ShutdownAcked =>
        /\ op \in Ended /\ info \in Ended /\ setup \in SetupOver
        /\ cur = None /\ opQ = <<>> /\ infoQ = <<>> /\ infoCur = None
        /\ \A o \in Ops : opRes[o] \notin {"queued", "running"}
        /\ \A i \in Infos : infoRes[i] # "queued"

\* An operation that fails pauses the actor, and the failure is reported before
\* the pause: until somebody resumes the actor no other operation is processed,
\* whatever Shutdown does to the phase between the report and the pause.  A
\* Shutdown after the pause can let one through: a select that has found the phase
\* Paused and not ShuttingDown finds it ShuttingDown and not Paused, and polls the
\* receiver.  While that one is processed the phase is ShuttingDown, so the loop
\* ends, or pauses for good, after it.
FailureStopsCalls ==
    "Resume" \notin Controls =>
        \A o \in reported :
            \/ cur \in {o, None} /\ (cur = None => op \notin Locked)
            \/ ctl # "recv" /\ phase = "ShuttingDown"

\* The chain of calls that replay re-executes is serial although two tasks write
\* it: each result and each error follows the call it belongs to with nothing but
\* stop_actor's event between the two, and no call is recorded twice.
LogIsSerial ==
    /\ \A i \in DOMAIN log : log[i].ev \in {"result", "error"} =>
          \E j \in DOMAIN log :
             /\ j < i
             /\ log[j] = [ev |-> "call", op |-> log[i].op]
             /\ \A k \in DOMAIN log : j < k /\ k < i => log[k] = StopEvent
    /\ \A i, j \in DOMAIN log :
          log[i].ev = "call" /\ log[j].ev = "call" /\ log[i].op = log[j].op => i = j

\* Except while a result has been recorded and not yet stored, and after an
\* abort, the actor's state is the one of the last WasmResult on its chain; so
\* that is what GetState, which waits for the instance lock, answers.  The chain
\* it is compared with is serial.
StateMatchesLog ==
    /\ LogIsSerial
    /\ op \notin {"recording", "aborted"} =>
        \A i \in DOMAIN log :
            /\ log[i].ev = "result"
            /\ \A j \in DOMAIN log : log[j].ev = "result" => j <= i
            => state = log[i].op

\* When start returns, no handler task of an actor that had been set up is
\* still running: each returned, or was aborted at the end.
HandlersStopped ==
    ctl = "exited" /\ ~EarlyControl =>
        \A h \in Handlers : hand[h] \notin Alive

\* After the acknowledgement of Shutdown the actor's own tasks record nothing on
\* its chain, store no state, report nothing and queue nothing: all that can still
\* happen to the chain is stop_actor's own event.
QuietAfterAck ==
    [][ShutdownAcked => /\ UNCHANGED <<state, reported, opQ, infoQ>>
                        /\ log' \in {log, Append(log, StopEvent)}]_vars

\* A Shutdown or Terminate the control loop has taken ends start, provided the
\* handlers answer their signal: the operation loop may be paused, inside a host
\* function that never returns, or wait for a full command queue.
ShutdownCompletes == (ctl \notin {"recv", "exited"}) ~> (ctl = "exited")

\* Once start has returned no caller waits for ever: the channels of what was
\* queued or running are closed.
CallersReleased ==
    (ctl = "exited") ~> (/\ \A o \in Ops : opRes[o] \notin {"queued", "running"}
                         /\ \A i \in Infos : infoRes[i] # "queued")

\* The owner's view of this actor.
Life ==
    IF ShutdownAcked THEN "stopped"
    ELSE IF ctl \in {"signal", "waitOp", "waitInfo", "waitSetup"} THEN "stopping"
    ELSE IF setup = "done" THEN "up"
    ELSE IF setup = "failed" THEN "failed" ELSE "starting"

\* A select that has looked for ShuttingDown before Shutdown set it, and will find
\* nothing that keeps it from the receiver.
PastLook == op = "recv" \/ (op = "poll" /\ phase # "Paused")

Lifecycle == INSTANCE ActorLifecycle
                 WITH life <- Life, call <- (op \in Locked),
                      late <- (Life = "stopping" /\ PastLook)

\* Owned the way the theater runtime owns it - Shutdown only, and only after
\* setup has reported - the actor keeps the lifecycle: whatever the loops, the
\* timeouts and the phase do, at most one call begins once Shutdown has been
\* taken, and only if the select was past its look at the phase when it was; none
\* is in progress, or can still begin, when it is acknowledged.
ImplementsLifecycle == Lifecycle!Spec

=============================================================================
