# Theater in TLA+

Theater runs WebAssembly actors. This directory holds TLA+ models of the parts
of it in which several tasks meet, the TLC runs that check them, and TLAPS
proofs about each of them. Paths are relative to the repository's root,
`src/` standing for it as in `PROJECT.json`; `src/crates/theater/src` is
written `theater/`.

## 1. Inventory

| component | state | operations | interacts with |
|---|---|---|---|
| actor runtime (`theater/actor/runtime.rs`, `handle.rs`, `shutdown.rs`) | phase (a watch channel), instance behind a RwLock, operation, info and control channels, handler tasks and their shutdown controller | setup, `CallFunctionPack`, info requests, `Shutdown`, `Terminate`, `Pause`, `Resume` | owner (control channel), callers (`ActorHandle`), handlers (shutdown signal), chain, theater command loop (`ActorError`) |
| event chain (`theater/chain/mod.rs`, `actor/store.rs`) | head hash, vector of bounded senders, a write lock around both | `add_typed_event`, `add_subscriber`, `remove_subscriber` | the actor's calls, the command loop, subscribers |
| theater runtime (`theater/theater_runtime.rs`) | map of actors, map of chains, one bounded command channel | `SpawnActor`, `SetupActor`, `ResumeActor`, `StopActor`, `TerminateActor`, `ShuttingDown`, `ActorShutdownComplete`, `ActorError`, queries, (un)subscribe, `ShutdownRuntime` | every actor (control and info channels), supervisors (bounded channel of child results) |
| supervisor handler (`theater-handler-supervisor`) | set of children, channel of child results, both shared by all clones; the receiver goes to the first actor set up | `spawn`, `spawn-and-wait`, `resume`, `stop-child`, queries; a task that calls `handle-child-*` and stops the children at the end | command loop, its own actor |
| runtime handler (`theater-handler-runtime`) | none | `shutdown` | command loop |
| message server (`theater-handler-message-server`) | router task: map of actors, map of channels; per actor a mailbox (100) and a task that reads it, `is_registered`, the actor handle | `register`, `send`, `request`, `open-channel`, `send-on-channel`, `close-channel` | router, mailbox tasks, the actors' operation loops |
| tcp handler (`theater-handler-tcp`) | one table of connections for all actors (owner, state, data mode), per connection a stream behind a lock of its own, accept loops, reader tasks | `connect`, `listen`, `activate`, `set-active`, `send`, `receive`, `transfer`, `transfer-async`, `upgrade-to-tls*`, `close`; accept, read, hand-off and clean-up tasks | its actors (`handle-connection`, `on-data`, `on-close`), peers |
| timer, loop and terminal handlers | names of timers with a cancel channel each; a running flag; shutdown receivers parked for tasks that are started on request | `set-interval`, `clear-interval`, `start-loop`, `stop-loop`, `enable-input`; tasks that call the actor again and again | the actor's operation queue, its shutdown |
| theater server (`theater-server/src/server.rs`) | map of subscriptions, map of channel subscriptions; per connection a response channel (32), its own lists, a reader and a writer task, a task per subscription | management commands | clients, command loop, chains, router |
| fragmenting codec (`theater-server/src/fragmenting_codec.rs`) | partial messages, id counter, time of last clean-up | encode, decode, clean-up | server and client connections |
| content store (`theater/store/mod.rs`, `theater-handler-store`) | a directory of content files and one of label files, no lock | store, get, label, remove, replace, list | actors, file system |
| replay (`theater/replay/handler.rs`, `interceptor.rs`) | recorded chain and the position in it, verified count | record a host call, answer one from the recording, repeat the calls, verify hashes | chain, actor runtime |
| rpc, podman and assembler handlers, permissions, bridge, CLI, formats | see `PROJECT.json` | I/O, translation, pure predicates | |

What is hard here:

* *Waiting in circles.* The command loop, the router, the supervisor handler and
  host functions inside calls all wait for each other over bounded channels.
* *Shutdown.* It races failing calls, running host functions, handlers that are
  busy, tasks that call the actor, the actor's own `shutdown`, and setup; three
  timeouts end in aborts.
* *Aborts.* A task is dropped at an await: a dispatch in the middle, a spawn
  whose answer nobody takes, a file that has been created and not written.
* *State used after an await.* The registry entry in `stop_actor`, the phase in
  `wait_for_ready_or_shutdown`, the set of children, the owner and mode of a tcp
  connection, the existence of a content file.
* *Detached tasks.* Init calls, waiters for self-shutdown, timers, loops, reader
  and forwarding tasks run beside everything and nobody holds their handles.

## 2. Modules

`ActorLifecycle` — what an owner may rely on: setup reports once, calls begin one
at a time while the actor is up, a taken `Shutdown` lets at most one more begin
(`late`: the select of the operation loop looks at the phase and at its receiver
in turn, `runtime.rs:846-861`), and it is acknowledged when none is in progress
and none to come.

`ActorRuntime` — one actor: the four tasks of `ActorRuntime::start` as program
counters (`setup`, `op`, `info`, `ctl`), the phase, the queues, the handlers'
tasks, what every caller has been told, and the log and state a call writes. A
step is what a task does between two awaits that can suspend it. Where the
selects of `operation_loop` can take either branch, so can the model; each look of
a select at the phase, and the look at its receiver, is a step of its own
(`OpNotStopped`, `OpNotPaused`, `OpCall`, `OpMiss`), with other tasks between. The
log has two writers: the calls, and `stop_actor`, which records a call of
"shutdown" from the command loop at any moment (`StopRecorded`). `abort()`
takes effect only where a task is suspended; inside the guest it is not, inside
a host function it is. Every step of `build_actor_resources` that can fail is
`SetupFail`. Refines `ActorLifecycle` (`ImplementsLifecycle`).

`StateChain` — one chain: the lock, a dispatch that goes from sender to sender
and may be suspended at a full channel, `closed_indices` and the eviction by
`swap_remove`, subscribers that read, lag and close, the command loop's three
uses of the lock, and the abort of a dispatch. A hash is the event's position.

`TheaterRuntime` — the command loop over the lifecycle above: every command is
the sequence of waits it really is (`loop.pc`), host functions block their
actor's call until answered, the supervisor handler and the detached tasks are
processes. Its actors are written after `ActorLifecycle`, the late call included;
that the loop copes with everything an `ActorRuntime` does rests on this reading
and is not proved. `Slow` are the actors on whose `Shutdown` the ten seconds may
run out. Ids are fresh ones from a finite set, `ClientSend` stands for the server
and the command line.

`MessageRouter` — the router task, mailboxes, mailbox tasks and operation
loops. A command the router cannot serve is `RouteRefused`; a full mailbox or
the answer to a channel request holds the router. The timeout of a handler call
is `TaskGiveUp`: the message counts as handled while its operation may still be
queued or running. Channel ids name their two participants (`party`), as
`ChannelId::new` makes an id of its own for each call.

`TcpHandler` — the table (`entry`), for every connection its stream, the
stream's lock and the tasks at work on it, for every actor its call, its
operation queue and its clean-up. The table's lock is held over no await that
can suspend, with one exception that the comment at `SetActive` discusses, so a
look at the table is one step; the use of the stream is another. A stream
delivers numbered chunks and an end. The handler's `setup` starts at any time
after its actor (`HandlerStarts`): before it there is no actor handle, and
`set-active` fails after it has split the stream.

`FragmentingCodec` — one direction of a connection: the encoder, the stream of
frames, and the decoder as `Framed` calls it. A message is the sequence of its
byte positions, so that a chunk says where it comes from. `Framed` and
`LengthDelimitedCodec` are external and modelled from how they are used: a read
brings any number of frames, whole or not. Time passes in units of ten seconds.

`TheaterServer` — connections with their three kinds of tasks, the two shared
maps and the connection's own lists, over a small picture of the command loop
and of a chain that hands out an event with its lock held. Commands that change
nothing in the server are a `query` (whose error ends the connection's function)
or a refused `open`.

`ContentStore` — two kinds of files; a call is the sequence of its file
operations, each with other calls between. tokio's file operations finish on a
thread of their own when their call is dropped, and bytes given to `write_all`
of a `tokio::fs::File` land later: `WriteLands`, `WriteFails`. A label is emptied
and then written, and the second may fail (`PutFails`). `Crash` restarts the
process with the files as they are. A content and its hash are one value.

`Replay` — recording and replay in one behaviour: the chain that the recording
phase produced, cut off wherever, is what the replay phase is given. A guest is
a table of steps that may depend on what host functions returned. Comparing
hashes is comparing prefixes.

`Drivers` — the timer, loop and terminal handlers of one actor, over the
operation queue and the shutdown of `ActorRuntime` reduced to what they see, the
late call behind a `Shutdown` (`slip`) included. `clear-interval` waits for room in
the cancel channel of its timer (`clearing`).

`MC*` modules declare model values, what each actor or client uses, and
symmetry. The proofs (section 4) are in `ActorRuntime_proofs`, `Chain_proofs`
(`StateChain` and `Replay`), `TheaterRuntime_proofs`, `MessageRouter_proofs`,
`TcpHandler_proofs`, `FragmentingCodec_proofs`, `TheaterServer_proofs` and
`Handlers_proofs` (`Drivers` and `ContentStore`). `Replay` and `ContentStore`
have `ReplaySpec`, `StoreSpec` and so on where the other modules have `Spec`, so
that a proof module can extend them together with another. Definitions named
"Mutant of ..." are wrong versions of the definition that follows, used to show
that a property can fail.

## 3. Runs

| run | bounds | distinct states |
|---|---|---|
| `ActorRuntime_theater` | 3 operations (one http), 2 requests, 1 handler, 2 control commands, owner as in `theater_runtime.rs` | 3 820 604 |
| `ActorRuntime_owner` | 1 operation, 1 request, 1 handler, any 2 control commands at any time | 562 367 |
| `StateChain_subscribers` | 3 subscribers, channels of 1, an actor event and the "shutdown" event | 227 114 |
| `TheaterRuntime_commands` | 2 actors, channels of 1, 2 client commands (spawn, terminate, query, end) | about 2 100 000 |
| `TheaterRuntime_live` | 2 actors, channels of 1, 2 client commands (setup, stop, query), one actor slow to stop | 137 454 |
| `MessageRouter_channels` | 2 actors, 1 channel, 3 and 2 host functions, mailboxes of 1 | 431 640 |
| `TcpHandler_table` | 2 actors with 2 host functions each, 1 connection, 2 chunks, 1 transfer | 412 577 |
| `FragmentingCodec_stream` | 3 messages of 1 to 3 frames, reads of any size, 50 seconds | 261 664 |
| `TheaterServer_clients` | 2 clients with 2 commands each, 1 actor, 1 subscription, 1 channel, channels of 1 | 200 895 |
| `ContentStore_files` | 2 actors with 2 calls each, 2 contents, 1 label, 2 faults | 659 328 |
| `Replay_chain` | 2 calls, up to 3 host functions each, 4 guests, 1 call from outside | 182 517 |
| `Drivers_tasks` | 2 timers of one name, 2 loop tasks, 3 host functions, 1 other call, 1 late call | 160 560 |

Symmetry is used only in `TheaterRuntime_commands`, whose properties are safety
(the number of states it leaves varies a little from run to run).
Deadlock is not checked: all of these systems may stop for good when the bounded
clients have nothing to send.

Why these bounds: a second operation is needed for one to be queued behind one
that fails or is cut off, a third for one that slips in behind both (the run under
any owner has one: that a queued caller is not forgotten is `Awaited`, proved for
any number); two control commands for a `Shutdown` after a
`Terminate` or twice; three subscribers for `swap_remove` to move one that is
neither first nor removed; two actors for a parent and a child, for two that
wait for each other, for an old and a new owner of a connection; two timers of
one name for a late failure of the first to meet the second; three messages for
one to expire between two others. Channels hold one element so that they are
full early: a larger channel only delays a wait. This holds for the channel of
child results too (`NoteCap`): the loop does come to wait there for a callback
that waits for the loop (section 6).
Where liveness rules symmetry out the two actors or clients have different
parts: one connects and hands over while the other serves, reads and closes;
one opens channels while the other answers and asks; one starts and stops while
the other subscribes and leaves; one reads what the other labels and removes.

What the properties say:

* `AckMeansStopped`, `QuietAfterAck`: the answer to `Shutdown` comes after all
  three tasks have ended and every caller has been answered or disconnected,
  and none of them records, stores or reports anything later; `stop_actor` itself
  may still record its event.
* `FailureStopsCalls`: a failed call is the last one until somebody resumes, but
  for one that a `Shutdown` after the pause lets through: the select that found
  the phase not `ShuttingDown` then finds it not `Paused`.
* `StateMatchesLog`: every result directly follows its call, but for the event of
  `stop_actor`, and no call is recorded twice (`LogIsSerial`); the state is the one
  of the last recorded result, except between recording and storing.
* `HandlersStopped`, `ShutdownCompletes`, `CallersReleased`: the end of `start`
  takes the handler tasks with it, comes, and leaves nobody waiting.
* `Completeness`, `AbortLosesOne`, `EvictionExact`, `LockReleased`: every
  subscriber gets every event after its registration once and in order; when a
  dispatch was aborted, one that is registered once (`Once`) lacks at most one of
  them; exactly the closed ones are evicted; and the lock is always given back if
  subscribers read, so that the loop's uses of the chain end.
* `RegistryAgrees`: the unwrap in `stop_actor` is safe (`StillRegistered`), a
  registered actor has its chain, and a stopped one is about to be removed
  (`NoZombie`). `StoppedBeforeRemoved`: what has left the registry has stopped.
  `ToldBeforeGone`: a supervisor hears of its child's end.
* `LoopServes`, `StopsComplete`: the command loop comes back from every command
  and answers host functions; an actor that asked to go is gone, and the
  children of one that ended are stopped. All four parts except `Tied`: a state
  query that waits, inside the loop, for a call that waits for the loop. The other
  circle, over a full channel of child results, is not excepted: it ends when the
  supervisor handler gives its callback up.
* `ChannelOrder`, `ChannelPrivate`: an open, then messages, then at most one
  close, from the other participant only. `RouterServes`: waiting host
  functions return and ended actors are forgotten.
* `StreamsAgree`: one actor at a time is at work on a stream, and it is the
  owner (`StreamExclusive`); mode, stream and reader task agree, or the read half
  was dropped by a `set-active` that came before the handler's `setup` (reader
  "lost", `StreamMatchesMode`). `DeliveredInOrder`: chunks reach guests in order, none
  twice, whoever reads and owns. `CleanupComplete`: nothing that was the actor's
  is left. `TasksSettle`: accept tasks end, the end of a stream removes its
  entry, a detached hand-off arrives or the connection is removed.
* `DecodedWasEncoded`, `LostOnlyByExpiry`, `EverythingDecoded`: what is decoded
  was encoded, whole, once and in order; what is missing at the end was refused
  (short messages only) or expired, and the table does not grow; every message
  comes to its end, unless the stream fails or the reader has stalled for good
  (`Stalled`, section 6).
* `EntriesTracked`: an entry of the server's maps belongs to a connection that
  will remove it, or to one whose function returned early. `ChainReleased`: an
  event is handed out to the end, with clients leaving at any point.
  `ClientAnswered`: a client that waits gets its answer, in order, or sees its
  connection close, except after an early return.
* `FilesAgree`: no label names content without a file, and an incomplete file is
  being written or was left so by a fault. `ContentSettles`: it is completed.
* `OkMeansSame`, `SameGuestSame`, `ReplaySettles`: success of a replay means the
  same chain; the same guest does what the recording says and executes host
  functions only beyond its end; every replay comes to a verdict, for the same
  guest alone success.
* `TableLive`, `TasksEnd`: a name in the timer table belongs to a live task;
  cleared timers, stopped loops and, when the actor has gone, all tasks end.
  `ShutdownSettles`: the handlers answer the shutdown signal, except on a parked
  receiver and from an input loop in a call of a paused actor.

Each module's `TypeOK` is checked as a part of its first invariant.

Fairness. Tasks that can run are run (tokio schedules every ready task), and
timeouts fire: weak fairness of each task. A call in the guest ends, by its
epoch deadline: strong fairness where other steps can disable it. In
`TheaterRuntime` a queued init call or callback is begun if it can be again and
again, because the operation channel is a queue, and the command loop gets on
if it can again and again (`SF(LoopNext)`): what disables it meanwhile is the
lock of an instance or room in a channel, both handed out in turn. A callback that
the supervisor handler waits for is given up after 3000 s. `Drivers` has
`SF(TimerEnds)`: `select!` polls its branches in random order, so a cancel that
is ready is not passed over for ever; and a tick behind a guest that waits in
`clear-interval` for its timer is given up (3000 s), without which that circle
would stay and `ShutdownSettles` fail. Subscribers read in `StateChain`, clients
read or leave in `TheaterServer`. A host function need never return in
`ActorRuntime`; handlers answer their shutdown signal there
(`WF(HandlerAnswers)`), which `Drivers` examines for the handlers that do it
least directly: it holds but for parked receivers (section 6). In
`MessageRouter` the timeout of `ActorHandle::call_function` (3000 s) is what ends
circular waits: `RouterServes` says they do end, not that they end soon. In
`TcpHandler` a handshake and a call into an actor end by their timeouts, peers
need do nothing. In `ContentStore` file operations end and accepted writes land
or fail. No client is obliged to send anything.

## 4. Proofs

A `_proofs` module extends the modules it is about (section 2) and holds their
theorems. They hold for all values of the constants that these modules'
assumptions allow, that is for any number of actors, connections, operations and
so on, and any capacities. Each has the same
plan: an invariant strong enough to be inductive, a lemma per part that every
action preserves it, and the property as a consequence. The invariants were
checked with TLC on the instances of section 3 first.

`ActorRuntime_proofs`, from `ConstantsAssumption`:

* `TypeCorrect`: `TypeOK`, with `CurrentOK` — an operation is current exactly
  while the loop is inside a call, and a request exactly while one is served.
* `ShutdownAckSound`: `AckMeansStopped`. It is not inductive. `Joined` adds how
  far the control loop has come and which tasks have ended by then; `Awaited`
  adds that a caller without an answer is in a queue of a loop that has not
  ended or is the one being served, so that ending a loop leaves nobody.
* `QuietAfterShutdown`: `QuietAfterAck` follows from both, action by action.
* `FailureIsLast`: `FailureStopsCalls`. `FailureInv` adds that, with no
  `Resume`, the phase becomes `Running` once, when setup ends; the order of
  report, phase change and release of the lock does the rest.
* `LifecycleRefinement`: with `Controls = {"Shutdown"}` and no early control,
  every behaviour is one of `ActorLifecycle`. `OwnedInv` adds that after a
  `Shutdown` was taken the phase is never `Running` again, so that only a select
  that had looked before (`PastLook`) still enters a call.
* `StateMatchesLogHolds`: `StateMatchesLog`. That no operation is recorded twice
  needs `QueuedOnce` (it is in the queue once, and not while it is current);
  `LogFits` says how much of the current call is in the log at each place in the
  loop, `stop_actor`'s event set aside, so that the next one can only continue it;
  `StateIsLast` says the same of the stored state.
* `HandlersStoppedHolds`: `HandlersStopped`. `HandlersInv`: an owner that waits
  for setup's result finds every handler spawned and its join handle stored, or
  none spawned.

`ShutdownAckSound` and `QuietAfterShutdown` hold for every owner, so
`ActorRuntime_owner` checks only what is out of the prover's reach there.

`TheaterRuntime_proofs`, from `TheaterAssumption`:

* `RegistryInvariant`: `RegistryInv` is invariant. Its parts: an actor in setup
  is new to everybody and the only one (`SetupAlone`); only one that was up is
  registered or asked to stop (`AskedFirst`); the chain goes before the registry
  entry (`ChainsKept`); somebody removes each actor that was asked (`Leaving`); a
  completion is sent by the task that waited (`Completions`); an end is announced
  before the actor is asked to stop (`ToldBeforeAsked`).
* `RegistryAgreesHolds`, `StoppedBeforeRemovedHolds`, `ToldBeforeGoneHolds`:
  the three invariants of the run follow from it.

`TcpHandler_proofs`, from `ConstantsAssumption` and `NoneAssumption`:

* `TcpInvariant`: `TcpInv` is invariant. A connection outside the table has no
  task and no history, and does not come back (`NewConns`); the call at work on a
  stream is its owner's, and the lock is its own (`Exclusive`); a whole stream,
  also one away for a handshake, has no read loop (`Whole`); a read half that was
  dropped for want of a handle stays dropped; what is queued for
  guests was read, comes after what they were given, and is in order (`Ordered`);
  a clean-up has removed what is no longer on its list (`CleanupInv`). The
  actions are first reduced to what they do to one connection (`ConnStep`), so
  that each part is shown over a dozen kinds of step and not over every action.
* `StreamsAgreeHolds`, `DeliveredInOrderHolds`, `CleanupCompleteHolds`.

`MessageRouter_proofs`, from `RouterAssumption`:

* `RouterInvariant`: `RouterInv` is invariant. What the properties say of the
  messages that guests have handled is said of `Line(a)`, these followed by the
  operation queue and the mailbox (`Conversations`): a message only moves along
  the line or drops out of it, and only the router lengthens it. For the router
  to keep the order, a channel that is asked for must be new (`Asked`), and one
  in its map must have its open, and no close, in the target's line (`Tracked`),
  or a target that is gone for good (`Registering`).
* `ChannelOrderHolds`, `ChannelPrivateHolds`.

`Handlers_proofs`, from `DriversAssumption` (nothing is no name, no number and no
operation) and from `StoreAssumption` (contents, labels and the states of a file
are different values):

* `DriversInvariant`: `DInv` is invariant. An operation on its way to the actor is
  one its caller gave up or the one it waits for, and no two are the same
  (`OnTheWay`), so that a late answer moves nobody who waits for another; a name
  in the timer table is the name of the task it leads to, which was started and
  not cancelled (`Table`); there is no input loop before `enable-input`
  (`Input`).
* `TableLiveHolds`: `TableLive`.
* `StoreInvariant`: `StoreInv` is invariant. A call is at a step that its function
  has (`CallsFit`), and whoever is past creating a file, or about to write a
  label, has made or seen the file of its content (`Prepared`).
* `FilesAgreeHolds`, and `ContentKept`: no step takes a content's file away,
  which is what makes the check before labelling good enough although it is old
  when the label is written.

`Chain_proofs`, from `ChainAssumption` and from `ReplayAssumption` (a guest has a
next step after whatever its host functions returned, and exports
nothing called "shutdown"):

* `ChainInvariant`: `Inv` is invariant. It counts, for the sender at a position of
  the `Vec`, what its channel was sent since it was registered: all events, less
  the one being dispatched if its turn has not come. It is stated at a position
  because `swap_remove` moves senders about. That the eviction removes the closed
  senders and no other one is shown on the recursive function that models the
  loop, by taking the first removal after which it would not be so.
* `CompletenessHolds`, `AbortLosesOneHolds`, and `EvictionExactHolds` for every
  step that ends a dispatch.
* `SameInvariant`: `SameInv` is invariant. What is verified is a common prefix
  (`VerifiedSame`). While recording, every event begins a call or is what the
  original guest does next in the one at work (`Explained`, `Recorded`). In an
  undisturbed replay of the same guest the two chains agree as far as both go,
  and neither the interceptor nor the handler is ahead of the chain or has passed
  what it still needs (`InStep`): the guest's next decision is the recorded one
  because it has seen the same outputs.
* `OkMeansSameHolds` needs the first part only, `SameGuestSameHolds` all of it.

`FragmentingCodec_proofs`, from `CodecAssumption` (a fragment in base64, with the
other fields of its frame, fits into a frame, as 8 MiB do into 32 MiB):

* `CodecInvariant`: `CodecInv` is invariant. Nothing in the code says which
  message a frame or a returned message stems from, so the invariant says that
  an assignment exists: of every frame on its way to a message sent and a
  fragment of it, in the order of sending (`Placed`), and of every returned
  message to one sent before those (`Returned`). An entry in the table of partial
  messages holds fragments of one message, all that came before what is on its
  way unless some were cleaned up (`Tabled`), and a message that is neither
  returned, refused nor expired has its end on its way (`Accounted`). What is
  made of a full entry is shown on the recursive function that puts the fragments
  together, by taking the first one after which it would not be a prefix of the
  message.
* `DecodedWasEncodedHolds`, `LostOnlyByExpiryHolds`.

`TheaterServer_proofs`, from `ServerAssumption` and `NoneAssumption`:

* `ServerInvariant`: `ServerInv` is invariant. A command in the runtime's channel
  is one its connection waits for, or a subscribe, and its subscription is open
  (`Requested`); events go only to subscriptions the runtime has been told of
  (`Logged`); an entry of a shared map is in its connection's list, or that
  connection has returned early (`SubsTracked`, `ChansTracked`). It is not enough
  that the entry is in some list: `UnsubscribeFromActor` with the wrong actor
  forgets nothing because the entry is under the actor of its subscription.
* `EntriesTrackedHolds`.
* `OrderInvariant`: `OrderInv` is invariant. It follows responses and events along
  their whole way. `Answered`: the numbers a client has seen, those in its
  response channel and that of the command in work increase, below the one it
  sends next. `Eventful`: each event of a subscription in the response channel
  comes after those before it there, or else after what the client has seen; the
  event channel goes on from there, and what the chain hands out next from that.
  Responses and events of other subscriptions in between do not matter, which is
  what the lemmas on `Flow` show. A subscription that the chain has not got yet
  has brought nothing, so the first event may have any number.
* `ClientSeesOrderHolds`: `ClientSeesOrder`, the safety half of `ClientAnswered`.

Only model-checked:

* all liveness (`ShutdownCompletes`, `CallersReleased`, `LockReleased`,
  `LoopServes`, `StopsComplete`, `RouterServes`, `TasksSettle`,
  `EverythingDecoded`, `ChainReleased`, `ClientAnswered`, `ContentSettles`,
  `ReplaySettles`, `TasksEnd`, `ShutdownSettles`): fairness and `ENABLED` are out
  of the prover's reach. Of `ClientAnswered` the safety half is proved.

Every invariant and action property of the runs, and the refinement, are proved.

## 5. Not modelled

* actor runtime: the two errors of `get_export_hashes` are one answer.
* `theater_runtime.rs`: the 3000 s after which the task of an init call gives it
  up (line 1001), `ResumeActor` (a spawn with a replay chain), queries
  that only read the registry, handler matching. `stop_actor`'s clean-up of
  `self.channels`: no command fills it. The handlers' shutdown controller that
  the theater runtime holds beside the actor's own has no receiver once
  `spawn_actor` has returned.
* `TcpHandler` and `MessageRouter` take the operation loop's look at the phase and
  the dequeue as one step. A call that slips in behind a `Shutdown` is there one
  that began just before it: nothing on its way depends on the signal. One that
  slips in behind a failed call has no counterpart in them.
* supervisor handler: `spawn-and-wait` (its child is in no set of children and
  reports to a channel of its own), `resume`, chain events of children.
* message server: the functions on outstanding requests (nothing fills the map)
  and external participants.
* tcp handler: `accept` and `close-listener` (nothing fills the map of
  listeners, both always fail), a limit of connections (never set).
* theater server: the forwarder of the child results of a `StartActor` with a
  parent, and the channel event task, which nothing feeds. A response that cannot
  be serialised, which is only logged (`server.rs:559-561`), is taken not to occur.
* content store: contents over 2 MiB, which tokio writes in several steps.
* replay: a replay from another initial state than the recording's. `ResumeActor`
  passes the default one (`theater_runtime.rs:490`) whatever the manifest says.
* terminal handler: raw mode, output and size.
* rpc: a handle lookup and `call_function` with a timeout; podman and
  assembler: one external program or library each.
* permissions (pure predicates that no code outside the deprecated crates asks),
  manifests, the bridge to the WebAssembly engine with its two caches, metrics,
  serialisation and chain file formats, the client library and the CLIs.
* `crates/deprecated`, `theater-replay-experimenting`, test actors, examples and
  bindings generated for guests, which are more than half of the repository's lines of Rust:
  none is part of the running system.

## 6. Seen while modelling

The models contain all of these; the properties are stated with exactly these
cases excepted, or hold in spite of them.

Runtime, chain and supervisor:

* `GetActorState` for an actor whose call waits for the command loop blocks the
  loop for good: the query waits for the instance lock inside the loop, without
  a timeout (`theater_runtime.rs:330`; the comment at 991 wants a spawn not to
  "hold the runtime command loop").
* A subscriber that does not read stalls the command loop, which takes the
  chain's lock to subscribe and to stop, although `chain/mod.rs:86` says that "A
  slow subscriber CANNOT stall the runtime command loop". The comments of
  `add_subscriber` (`chain/mod.rs:182-186`) and of global subscriptions
  (`theater_runtime.rs:275-278`) say delivery is "via `try_send`", so that a
  backed-up subscriber loses events and stalls nobody. The code is
  `send().await` (`chain/mod.rs:149`): it loses none and stalls. `Completeness`
  states the code's side; `try_send` is its mutant.
* The select of `operation_loop` looks at the phase twice and then at its receiver
  (`runtime.rs:846-861`): a `Shutdown` that is taken in between lets one more call
  begin, and one taken after a failed call has paused the actor can let a call
  through which the pause was to hold back. The phase is `ShuttingDown` then, so
  it is the last.
* `stop_actor` records its "shutdown" call from the command loop
  (`theater_runtime.rs:1130`), which may fall between a call and its result, and
  after the acknowledgement of an actor that has just shut itself down.
* A child whose `spawn` is in flight when its parent is stopped is in nobody's
  set of children and is not stopped, although `theater_runtime.rs:1102` says
  "stops an actor and all its children recursively".
* At a full channel of child results the command loop waits, in `ShuttingDown`,
  for a reader that may be inside a callback that waits for the loop; the
  callback's 3000 s timeout is what ends it.
* An abort in a dispatch leaves later subscribers without the event, after the
  head hash has advanced. It costs each at most that one event (`AbortLosesOne`).
* A call that fails after `Shutdown` was taken sets the phase from
  `ShuttingDown` to `Paused`; `info_loop` then answers requests until its
  timeout.
* The chain of an actor whose spawn failed after `theater_runtime.rs:868` stays in
  the map of chains, with the sender of the client that subscribed in the spawn,
  whose forwarder therefore does not end; a child that ends before `spawn` returns
  stays in the set of children.
* When the ten seconds for a `Shutdown` run out the actor is removed although it
  may still run. `ShutdownRuntime` ends the loop and leaves the actors running.
* `subscribe-to-child` twice delivers every event twice.

Message server:

* `close-channel` by an actor that is not a participant removes the channel
  before the sender is checked (`lib.rs:421`), and tells neither participant.
* `register()` called before the handler's task has run `setup()` fails and
  leaves `is_registered` set.

Tcp handler:

* The clean-up takes connections "by owner" (comment at `lib.rs:691`) when it
  begins: one that is transferred before its turn is closed under its new owner,
  and one connected or received after the collection stays in the table. The
  handler answers the shutdown signal first, so the clean-up itself may be cut
  off.
* `transfer` changes the owner before it resolves the target, and keeps mode and
  reader of the old owner. A failed `handle-connection` removes the entry
  whoever owns it by then, without a shutdown of the stream.
* `set-active` before the handler's task has run `setup` has split the stream and
  set the mode when it finds no actor handle (`lib.rs:1163`): it fails, the mode
  stays active or once, and nobody reads.
* After mode `once` the stream stays split: `receive` fails for good. Closing an
  actively read connection leaves its reader pushing data.

Server and codec:

* The error of a query leaves the connection's function past its clean-up
  (`server.rs:1380`): entries and forwarders stay, and as they hold senders the
  client sees neither an answer nor an end of stream.
* `UnsubscribeFromActor` does not stop the forwarder. Every client is the same
  "External" participant, so one may close another's channel; the channels of a
  client that has gone stay open in the router.
* `decode` returns nothing for a fragment that does not complete its message
  although further frames are in the buffer (`fragmenting_codec.rs:353`), and
  `Framed` then reads before it decodes again. A message that is complete in the
  buffer waits until something else is written; if the stream is closed instead,
  it ends with "bytes remaining on stream" and the message is lost.
* A message just under 8 MiB of three-digit bytes is sent whole and exceeds the
  frame limit. An expired message is lost without an error to anybody.

Store:

* `write_all` returns before the bytes are in the file and a failure is lost
  with the `File`; `tests/unit/store_tests.rs:22` expects the content at once. A
  second storer finds an empty file and takes it for the content; one that
  looked earlier empties a complete one. After an abort, a crash or a failed
  write the incomplete file stays for good.
* A label is empty for a moment while it is replaced, and reads as no label; it
  stays empty if the write fails.

Replay:

* `stop_actor` records a call of "shutdown", so the chain of a stopped actor
  never replays to a success; nor does a chain with a failed call. An empty
  chain is waited for without end. Events after the last expected one are not
  noticed. A host function that is not found in the rest of the recording is
  executed for real.

Timer, loop and terminal handlers:

* The loop and terminal handlers subscribe a second shutdown receiver and park
  it until `start-loop` or `enable-input`. If that never comes, `signal_shutdown`
  (`shutdown.rs:98`) waits for ever and only the ten seconds of the theater
  runtime end the stop. The message server handles this case, they do not.
* An input loop that waits in a call of a paused actor does not answer either.
* `clear-interval` of a timer that the shutdown has already cancelled waits for
  room in its one-slot cancel channel (`theater-handler-timer/src/lib.rs:265`). If
  the timer's tick is queued behind the guest that clears it, neither gets on
  before the tick's 3000 s are over or the operation loop is aborted, which it is
  only when every shutdown receiver has answered; an input loop whose call waits
  behind that guest does not.
* A late failing tick of an old timer removes its name from the table, and with
  it a new timer of that name. An interval of 0 leaves a dead name in the table.
* `stop-loop` and `start-loop` in one iteration make two loop tasks, one of them
  without a shutdown receiver; an error of one stops both.

## 7. Plan

Modelled: actor runtime, chain, command loop, router, tcp table, codec, server,
store, replay, drivers. What is left:

1. `spawn-and-wait` and `ResumeActor` in `TheaterRuntime`.
2. rpc calls as a composition of two `Drivers` queues.
