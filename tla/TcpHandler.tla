----------------------------- MODULE TcpHandler -----------------------------
(***************************************************************************)
(* The tcp handler: the table of connections that all actors share, the    *)
(* host functions on it, and the tasks beside them: accept loops, one task *)
(* for every accepted connection, read loops, detached hand-offs, and the  *)
(* clean-up of an actor that is stopped.                                   *)
(*                                                                         *)
(* A step is what a task does between two awaits that can suspend it.  The *)
(* lock of the table is never held over such an await, with one exception, *)
(* set-active, which is discussed at SetActive; the lock of a stream is    *)
(* held over reads, writes and handshakes.                                 *)
(*                                                                         *)
(* No operation puts an entry into the table of listeners: listen hands    *)
(* its socket to the accept loop.  The host functions accept and           *)
(* close-listener therefore always answer "Listener not found", and that   *)
(* table is left out, as is peer-address, which changes nothing.  The      *)
(* table of connections is created without a limit.                        *)
(***************************************************************************)
EXTENDS Naturals, Sequences, FiniteSets

CONSTANTS
    Actors,        \* the actors that have a tcp handler
    Conns,         \* connection ids, handed out once each
    None,          \* no actor, no entry, no call
    Uses,          \* Uses[a]: the host functions the guest of a uses
    Stopped,       \* the actors that may be stopped from outside
    Trapping,      \* the actors whose guest may fail
    ServerTls,     \* the actors with server_tls
    ClientTls,     \* the actors with client_tls
    AutoHandshake, \* the actors whose connect performs the handshake
    MaxCalls,      \* host function calls of one actor
    MaxChunks,     \* chunks a peer sends on one connection
    MaxTransfers   \* transfers, of either kind

ASSUME ConstantsAssumption ==
    /\ None \notin Actors /\ None \notin Conns
    /\ Uses \in [Actors -> SUBSET {"connect", "listen", "activate", "active", "once",
                                   "transfer", "transfer-async", "send", "receive",
                                   "close", "upgrade"}]
    /\ Stopped \subseteq Actors /\ Trapping \subseteq Actors
    /\ ServerTls \subseteq Actors /\ ClientTls \subseteq Actors
    /\ AutoHandshake \subseteq Actors
    /\ MaxCalls \in Nat /\ MaxChunks \in Nat /\ MaxTransfers \in Nat

VARIABLES
    \* the actors, as ActorLifecycle has them
    actor,      \* "up", "failed", "stopping", "ended" (no operation loop), "gone"
    call,       \* the call in progress: whose it is and the host function it is in
    queue,      \* the operations waiting in the actor's channel
    calls,      \* host functions called so far
    \* the shared table and the streams
    entry,      \* owner, state and data mode of a connection in the table
    stream,     \* "none", "plain", "tls" (both Full), "write", "closed"
    lock,       \* the actor whose call holds the lock of the stream
    closer,     \* the one that removed the entry, and how far it has come
    \* tasks
    listening,  \* the actors whose accept loop runs
    accept,     \* the task of an accepted connection
    reader,     \* the read loop of a connection
    xfer,       \* the transfers that have passed the change of owner
    clean,      \* the handler's task: setup, and the clean-up at its end
    \* the peers
    taken,      \* chunks that were read from the socket
    peer,       \* "open" or "closed"
    told        \* what guests were given of a connection: chunks and the close

actorVars  == <<actor, call, queue, calls>>
tableVars  == <<entry, stream, lock, closer>>
taskVars   == <<listening, accept, reader, xfer, clean>>
peerVars   == <<taken, peer, told>>
vars == <<actorVars, tableVars, taskVars, peerVars>>

-----------------------------------------------------------------------------
Transfers == 1..MaxTransfers

\* What a guest is given of a stream: a chunk, by its number, or its end.
End   == MaxChunks + 1
Items == 1..End

\* An operation in an actor's channel and the one that waits for its answer: a
\* client, handle-connection of an accepted connection, on-data or on-close of
\* a read loop, handle-connection-transfer.
Operations ==
    [by : {"client"}] \cup [by : {"accept"}, conn : Conns]
        \cup [by : {"reader"}, conn : Conns, item : Items]
        \cup [by : {"xfer"}, n : Transfers]

\* Who removes an entry and then shuts its stream down: close or the clean-up
\* of an actor, a read loop, a failed hand-off.
Closers ==
    ({"close", "clean"} \X Actors) \cup ({"reader"} \X Conns)
        \cup ({"xfer"} \X Transfers)

Entries == [owner : Actors, state : {"Pending", "Active"},
            mode : {"Passive", "Active", "Once"}]

\* StreamState::Full, by what is in it.
Full == {"plain", "tls"}

\* The host functions that are at work on a stream, by where they wait.
AtStream  == {"send", "sending", "receive", "reading", "upgrade", "upgrading"}
HoldsLock == {"sending", "reading", "upgrading"}
Suspended == AtStream \cup {"close", "transfer"}

\* What the tasks and the calls are doing.
CallStates    == [op : Operations, pc : {"guest"} \cup Suspended,
                  conn : Conns \cup {None}, n : {0} \cup Transfers]
CloserStates  == [pc : {"none", "lock", "shut", "done", "dropped"}, by : {None} \cup Closers]
AcceptStates  == [pc : {"none", "handshake", "wait", "drop", "done"}, by : {None} \cup Actors]
ReaderStates  == [pc : {"none", "read", "wait", "passive", "last", "remove", "done", "lost"},
                  by : {None} \cup Actors, once : BOOLEAN]
HandoffStates == [conn : Conns, to : Actors, async : BOOLEAN,
                  pc : {"wait", "remove", "ok", "done"}]
CleanStates   == [pc : {"new", "wait", "collect", "next", "done", "cut"},
                  todo : SUBSET Conns, mine : SUBSET Conns]

ASSUME NoneAssumption == None \notin CallStates \cup Entries \cup HandoffStates

TypeOK ==
    /\ actor \in [Actors -> {"up", "failed", "stopping", "ended", "gone"}]
    /\ call \in [Actors -> {None} \cup CallStates]
    /\ queue \in [Actors -> Seq(Operations)]
    /\ calls \in [Actors -> 0..MaxCalls]
    /\ entry \in [Conns -> {None} \cup Entries]
    /\ stream \in [Conns -> {"none", "write", "closed"} \cup Full]
    /\ lock \in [Conns -> {None} \cup Actors]
    /\ closer \in [Conns -> CloserStates]
    /\ listening \subseteq Actors
    /\ accept \in [Conns -> AcceptStates]
    /\ reader \in [Conns -> ReaderStates]
    /\ xfer \in [Transfers -> {None} \cup HandoffStates]
    /\ clean \in [Actors -> CleanStates]
    /\ taken \in [Conns -> 0..MaxChunks]
    /\ peer \in [Conns -> {"open", "closed"}]
    /\ told \in [Conns -> Seq(Items)]

Init ==
    /\ actor = [a \in Actors |-> "up"]
    /\ call = [a \in Actors |-> None]
    /\ queue = [a \in Actors |-> <<>>]
    /\ calls = [a \in Actors |-> 0]
    /\ entry = [c \in Conns |-> None]
    /\ stream = [c \in Conns |-> "none"]
    /\ lock = [c \in Conns |-> None]
    /\ closer = [c \in Conns |-> [pc |-> "none", by |-> None]]
    /\ listening = {}
    /\ accept = [c \in Conns |-> [pc |-> "none", by |-> None]]
    /\ reader = [c \in Conns |-> [pc |-> "none", by |-> None, once |-> FALSE]]
    /\ xfer = [n \in Transfers |-> None]
    /\ clean = [a \in Actors |-> [pc |-> "new", todo |-> {}, mine |-> {}]]
    /\ taken = [c \in Conns |-> 0]
    /\ peer = [c \in Conns |-> "open"]
    /\ told = [c \in Conns |-> <<>>]

-----------------------------------------------------------------------------
(* The actors: one call at a time, from a channel that ends with the loop. *)

Registered(a) == actor[a] # "gone"
TakesOps(a)   == actor[a] \in {"up", "failed", "stopping"}

\* setup stores the actor's handle when the handler's task first runs, which is
\* spawned but not waited for: calls may come before.
HasHandle(a) == clean[a].pc # "new"

\* cancel_token.is_cancelled(): the token goes with the shutdown signal.
Cancelled(a) == clean[a].pc \notin {"new", "wait"}

\* A next id of the shared counter: ids are used once.
Fresh(c) == stream[c] = "none" /\ accept[c].pc = "none"

\* The end of a read loop's on-data call, whatever its result.
DataDone(r) == [r EXCEPT !.pc = IF r.once THEN "passive" ELSE "read"]

HandoffDoneLogs(x, ok) ==   \* Mutant of HandoffDone: a failure is only logged
    [x EXCEPT !.pc = IF ok THEN "ok" ELSE "done"]

\* The end of handle-connection-transfer: transfer only logs a failure, the
\* detached task of transfer-async closes the connection.
HandoffDone(x, ok) ==
    [x EXCEPT !.pc = IF ok THEN "ok" ELSE IF x.async THEN "remove" ELSE "done"]

\* Those who still wait for one of the operations in ops get its result.
Answered(ops, ok) ==
    /\ accept' = [c \in Conns |->
         IF accept[c].pc = "wait" /\ [by |-> "accept", conn |-> c] \in ops
         THEN [accept[c] EXCEPT !.pc = IF ok THEN "done" ELSE "drop"]
         ELSE accept[c]]
    /\ reader' = [c \in Conns |->
         IF reader[c].pc = "wait"
               /\ [by |-> "reader", conn |-> c, item |-> taken[c]] \in ops
         THEN DataDone(reader[c])
         ELSE IF reader[c].pc = "last"
                    /\ [by |-> "reader", conn |-> c, item |-> End] \in ops
         THEN [reader[c] EXCEPT !.pc = "remove"]
         ELSE reader[c]]
    /\ xfer' = [n \in Transfers |->
         IF xfer[n] # None /\ [by |-> "xfer", n |-> n] \in ops
         THEN IF xfer[n].pc = "wait" THEN HandoffDone(xfer[n], ok) ELSE xfer[n]
         ELSE xfer[n]]

\* ActorHandle::call_function stops waiting after its timeout; the operation
\* stays where it is.
GiveUp(op) ==
    /\ Answered({op}, FALSE)
    /\ <<accept, reader, xfer>>' # <<accept, reader, xfer>>
    /\ UNCHANGED <<actorVars, tableVars, listening, clean, peerVars>>

\* An operation sent to an actor, or the failure to send it.  The channel is
\* taken to have room: a send that waits for it is an operation that is late.
Post(a, op) == queue' = IF TakesOps(a) THEN [queue EXCEPT ![a] = Append(@, op)] ELSE queue

ToGuest(a) == call' = [call EXCEPT ![a].pc = "guest", ![a].conn = None, ![a].n = 0]

BeginCall(a) ==
    /\ actor[a] = "up" /\ call[a] = None /\ queue[a] # <<>>
    /\ LET op == Head(queue[a])
       IN  /\ call' = [call EXCEPT ![a] =
                         [op |-> op, pc |-> "guest", conn |-> None, n |-> 0]]
           /\ told' = IF op.by = "reader"
                      THEN [told EXCEPT ![op.conn] = Append(@, op.item)]
                      ELSE told
    /\ queue' = [queue EXCEPT ![a] = Tail(@)]
    /\ UNCHANGED <<actor, calls, tableVars, taskVars, taken, peer>>

\* Any other operation of the actor.
ClientCall(a) ==
    /\ actor[a] = "up" /\ call[a] = None /\ calls[a] < MaxCalls
    /\ call' = [call EXCEPT ![a] =
                  [op |-> [by |-> "client"], pc |-> "guest", conn |-> None, n |-> 0]]
    /\ UNCHANGED <<actor, queue, calls, tableVars, taskVars, peerVars>>

InGuest(a) == call[a] # None /\ call[a].pc = "guest"

GuestReturns(a) ==
    /\ InGuest(a)
    /\ Answered({call[a].op}, TRUE)
    /\ call' = [call EXCEPT ![a] = None]
    /\ UNCHANGED <<actor, queue, calls, tableVars, listening, clean, peerVars>>

\* A call that fails pauses the actor; the theater runtime then stops it.
GuestFails(a) ==
    /\ a \in Trapping /\ InGuest(a)
    /\ Answered({call[a].op}, FALSE)
    /\ call' = [call EXCEPT ![a] = None]
    /\ actor' = [actor EXCEPT ![a] = IF @ = "up" THEN "failed" ELSE @]
    /\ UNCHANGED <<queue, calls, tableVars, listening, clean, peerVars>>

\* The handler's task runs for the first time.
HandlerStarts(a) ==
    /\ clean[a].pc = "new"
    /\ clean' = [clean EXCEPT ![a].pc = "wait"]
    /\ UNCHANGED <<actorVars, tableVars, listening, accept, reader, xfer, peerVars>>

\* The handler's task, at its first run or later, finds the signal: it answers at
\* once, cancels its token and goes on with the clean-up beside the end of the
\* operation loop.
Stop(a) ==
    /\ actor[a] = "failed" \/ (actor[a] = "up" /\ a \in Stopped)
    /\ actor' = [actor EXCEPT ![a] = "stopping"]
    /\ clean' = [clean EXCEPT ![a].pc = "collect"]
    /\ UNCHANGED <<call, queue, calls, tableVars, listening, accept, reader, xfer,
                   peerVars>>

\* The operation loop is left; whoever has an operation in its channel learns it.
OpLoopEnds(a) ==
    /\ actor[a] = "stopping" /\ call[a] = None
    /\ actor' = [actor EXCEPT ![a] = "ended"]
    /\ queue' = [queue EXCEPT ![a] = <<>>]
    /\ Answered({queue[a][i] : i \in 1..Len(queue[a])}, FALSE)
    /\ UNCHANGED <<call, calls, tableVars, listening, clean, peerVars>>

\* After five seconds the loop is aborted where it waits in a host function:
\* what the call holds is dropped with it.
Abort(a) ==
    /\ actor[a] = "stopping" /\ call[a] # None /\ call[a].pc \in Suspended
    /\ call' = [call EXCEPT ![a] = None]
    /\ Answered({call[a].op}, FALSE)
    /\ lock' = [c \in Conns |-> IF lock[c] = a THEN None ELSE lock[c]]
    /\ closer' = [c \in Conns |->
                    IF closer[c].by = <<"close", a>> /\ closer[c].pc \in {"lock", "shut"}
                    THEN [closer[c] EXCEPT !.pc = "dropped"] ELSE closer[c]]
    /\ UNCHANGED <<actor, queue, calls, entry, stream, listening, clean, peerVars>>

\* The end of the actor: its handler's task is aborted if it is still at work,
\* and the theater runtime forgets the actor.
Gone(a) ==
    /\ actor[a] = "ended"
    /\ actor' = [actor EXCEPT ![a] = "gone"]
    /\ clean' = [clean EXCEPT ![a].pc = IF @ = "done" THEN @ ELSE "cut"]
    /\ closer' = [c \in Conns |->
                    IF closer[c].by = <<"clean", a>> /\ closer[c].pc \in {"lock", "shut"}
                    THEN [closer[c] EXCEPT !.pc = "dropped"] ELSE closer[c]]
    /\ UNCHANGED <<call, queue, calls, entry, stream, lock, listening, accept, reader,
                   xfer, peerVars>>

-----------------------------------------------------------------------------
(* Closing: the entry is removed under the table's lock; its stream is     *)
(* taken out under its own, and shut down after that.                      *)

RemoveEntry(c, by) ==
    /\ entry' = [entry EXCEPT ![c] = None]
    /\ closer' = [closer EXCEPT ![c] = IF entry[c] = None THEN @
                                       ELSE [pc |-> "lock", by |-> by]]

CloserTakes(c) ==
    /\ closer[c].pc = "lock" /\ lock[c] = None
    /\ closer' = [closer EXCEPT ![c].pc = IF stream[c] = "closed" THEN "done" ELSE "shut"]
    /\ stream' = [stream EXCEPT ![c] = "closed"]
    /\ UNCHANGED <<actorVars, entry, lock, taskVars, peerVars>>

CloserShuts(c) ==
    /\ closer[c].pc = "shut"
    /\ closer' = [closer EXCEPT ![c].pc = "done"]
    /\ UNCHANGED <<actorVars, entry, stream, lock, taskVars, peerVars>>

-----------------------------------------------------------------------------
(* The host functions.  A refused one changes nothing and is left out, but *)
(* for a set-active that is refused too late.                              *)

Owned(a, c)  == entry[c] # None /\ entry[c].owner = a
Usable(a, c) == Owned(a, c) /\ entry[c].state = "Active"

\* The guest of a calls f, which returns to it or waits at pc.
HostFn(a, f) ==
    /\ f \in Uses[a] /\ InGuest(a) /\ calls[a] < MaxCalls
    /\ calls' = [calls EXCEPT ![a] = @ + 1]
WaitAt(a, pc, c) == call' = [call EXCEPT ![a].pc = pc, ![a].conn = c]

Connect(a) ==
    /\ HostFn(a, "connect")
    /\ \E c \in Conns :
         /\ Fresh(c)
         /\ entry' = [entry EXCEPT ![c] =
                        [owner |-> a, state |-> "Active", mode |-> "Passive"]]
         /\ stream' = [stream EXCEPT ![c] =
                         IF a \in ClientTls \cap AutoHandshake THEN "tls" ELSE "plain"]
    /\ UNCHANGED <<actor, call, queue, lock, closer, taskVars, peerVars>>

Listen(a) ==
    /\ HostFn(a, "listen") /\ HasHandle(a)
    /\ listening' = listening \cup {a}
    /\ UNCHANGED <<actor, call, queue, tableVars, accept, reader, xfer, clean, peerVars>>

Activate(a, c) ==
    /\ HostFn(a, "activate")
    /\ Owned(a, c) /\ entry[c].state = "Pending"
    /\ entry' = [entry EXCEPT ![c].state = "Active"]
    /\ UNCHANGED <<actor, call, queue, stream, lock, closer, taskVars, peerVars>>

SetActiveNoReader(a, c, f) ==   \* Mutant of SetActive: the read loop is not started
    /\ f \in {"active", "once"} /\ HostFn(a, f)
    /\ Usable(a, c) /\ entry[c].mode = "Passive"
    /\ lock[c] = None /\ stream[c] \in Full
    /\ stream' = [stream EXCEPT ![c] = "write"]
    /\ entry' = [entry EXCEPT ![c].mode = IF f = "once" THEN "Once" ELSE "Active"]
    /\ UNCHANGED <<actor, call, queue, lock, closer, taskVars, peerVars>>

\* set-active waits for the lock of the stream with the table's lock in its
\* hands, and would hold up every actor: StreamExclusive says that no other
\* call is at work on the stream then, so that it need not wait.  The handle that
\* the read loop calls is looked for last: without one the function fails, but the
\* stream is split, the mode set, and the half to read from dropped ("lost").
SetActive(a, c, f) ==
    /\ f \in {"active", "once"} /\ HostFn(a, f)
    /\ Usable(a, c) /\ entry[c].mode = "Passive"
    /\ lock[c] = None /\ stream[c] \in Full
    /\ stream' = [stream EXCEPT ![c] = "write"]
    /\ entry' = [entry EXCEPT ![c].mode = IF f = "once" THEN "Once" ELSE "Active"]
    /\ reader' = [reader EXCEPT ![c] = [pc |-> IF HasHandle(a) THEN "read" ELSE "lost",
                                       by |-> a, once |-> f = "once"]]
    /\ UNCHANGED <<actor, call, queue, lock, closer, listening, accept, xfer, clean,
                   peerVars>>

\* The change of owner, and the call of handle-connection-transfer that follows
\* it.
HandOver(c, b, async, n) ==
    /\ xfer[n] = None /\ \A m \in 1..(n - 1) : xfer[m] # None
    /\ entry' = [entry EXCEPT ![c].owner = b, ![c].state = "Active"]
    /\ Post(b, [by |-> "xfer", n |-> n])
    /\ LET x == [conn |-> c, to |-> b, async |-> async, pc |-> "wait"]
       IN  xfer' = [xfer EXCEPT ![n] = IF TakesOps(b) THEN x ELSE HandoffDone(x, FALSE)]

\* transfer changes the owner first, then looks for the target and waits for
\* the end of its handler.
Transfer(a, c, b) ==
    /\ HostFn(a, "transfer")
    /\ Owned(a, c)
    /\ \E n \in Transfers :
         /\ HandOver(c, b, FALSE, n)
         /\ call' = [call EXCEPT ![a].pc = "transfer", ![a].conn = c, ![a].n = n]
    /\ UNCHANGED <<actor, stream, lock, closer, listening, accept, reader, clean,
                   peerVars>>

TransferReturns(a) ==
    /\ call[a] # None /\ call[a].pc = "transfer"
    /\ xfer[call[a].n].pc \in {"ok", "done"}
    /\ ToGuest(a)
    /\ UNCHANGED <<actor, queue, calls, tableVars, taskVars, peerVars>>

\* transfer-async looks for the target first and does not wait for it.
TransferAsync(a, c, b) ==
    /\ HostFn(a, "transfer-async")
    /\ Registered(b)
    /\ Owned(a, c)
    /\ \E n \in Transfers : HandOver(c, b, TRUE, n)
    /\ UNCHANGED <<actor, call, stream, lock, closer, listening, accept, reader,
                   clean, peerVars>>

Send(a, c) ==
    /\ HostFn(a, "send")
    /\ Usable(a, c)
    /\ WaitAt(a, "send", c)
    /\ UNCHANGED <<actor, queue, tableVars, taskVars, peerVars>>

Receive(a, c) ==
    /\ HostFn(a, "receive")
    /\ Usable(a, c) /\ entry[c].mode = "Passive"
    /\ WaitAt(a, "receive", c)
    /\ UNCHANGED <<actor, queue, tableVars, taskVars, peerVars>>

Upgrade(a, c) ==
    /\ HostFn(a, "upgrade") /\ a \in ServerTls \cup ClientTls
    /\ Usable(a, c) /\ entry[c].mode = "Passive"
    /\ WaitAt(a, "upgrade", c)
    /\ UNCHANGED <<actor, queue, tableVars, taskVars, peerVars>>

At(a, pc, c) == call[a] # None /\ call[a].pc = pc /\ call[a].conn = c

\* The lock of the stream is taken; ok says what must be in it.
TakeLock(a, c, pc, held, ok) ==
    /\ At(a, pc, c) /\ lock[c] = None
    /\ IF stream[c] \in ok
       THEN WaitAt(a, held, c) /\ lock' = [lock EXCEPT ![c] = a]
       ELSE ToGuest(a) /\ lock' = lock

SendLocks(a, c) ==
    /\ TakeLock(a, c, "send", "sending", Full \cup {"write"})
    /\ UNCHANGED <<actor, queue, calls, entry, stream, closer, taskVars, peerVars>>

ReceiveSplit(a, c) ==   \* Mutant of ReceiveLocks: reads a stream that has a read loop
    /\ TakeLock(a, c, "receive", "reading", Full \cup {"write"})
    /\ UNCHANGED <<actor, queue, calls, entry, stream, closer, taskVars, peerVars>>

ReceiveLocks(a, c) ==
    /\ TakeLock(a, c, "receive", "reading", Full)
    /\ UNCHANGED <<actor, queue, calls, entry, stream, closer, taskVars, peerVars>>

\* The stream is moved out for the handshake.
UpgradeLocks(a, c) ==
    /\ TakeLock(a, c, "upgrade", "upgrading", {"plain"})
    /\ stream' = [stream EXCEPT ![c] = IF @ = "plain" THEN "closed" ELSE @]
    /\ UNCHANGED <<actor, queue, calls, entry, closer, taskVars, peerVars>>

Unlock(a, c) == ToGuest(a) /\ lock' = [lock EXCEPT ![c] = None]

SendReturns(a, c) ==
    /\ At(a, "sending", c)
    /\ Unlock(a, c)
    /\ UNCHANGED <<actor, queue, calls, entry, stream, closer, taskVars, peerVars>>

ReceiveChunk(a, c) ==
    /\ At(a, "reading", c) /\ taken[c] < MaxChunks
    /\ taken' = [taken EXCEPT ![c] = @ + 1]
    /\ told' = [told EXCEPT ![c] = Append(@, taken[c] + 1)]
    /\ Unlock(a, c)
    /\ UNCHANGED <<actor, queue, calls, entry, stream, closer, taskVars, peer>>

\* An empty result at the end of the stream, or an error.
ReceiveEnd(a, c) ==
    /\ At(a, "reading", c)
    /\ Cancelled(a) \/ peer[c] = "closed"
    /\ Unlock(a, c)
    /\ UNCHANGED <<actor, queue, calls, entry, stream, closer, taskVars, peerVars>>

UpgradeReturns(a, c, ok) ==
    /\ At(a, "upgrading", c)
    /\ Unlock(a, c)
    /\ stream' = [stream EXCEPT ![c] = IF ok THEN "tls" ELSE "closed"]
    /\ UNCHANGED <<actor, queue, calls, entry, closer, taskVars, peerVars>>

CloseConn(a, c) ==
    /\ HostFn(a, "close")
    /\ Owned(a, c)
    /\ RemoveEntry(c, <<"close", a>>)
    /\ WaitAt(a, "close", c)
    /\ UNCHANGED <<actor, queue, stream, lock, taskVars, peerVars>>

CloseReturns(a, c) ==
    /\ At(a, "close", c) /\ closer[c].pc = "done"
    /\ ToGuest(a)
    /\ UNCHANGED <<actor, queue, calls, tableVars, taskVars, peerVars>>

-----------------------------------------------------------------------------
(* run_accept_loop and handle_accepted_connection.                         *)

AcceptLoop(a, c) ==
    /\ a \in listening /\ Fresh(c)
    /\ accept' = [accept EXCEPT ![c] = [pc |-> "handshake", by |-> a]]
    /\ UNCHANGED <<actorVars, tableVars, listening, reader, xfer, clean, peerVars>>

AcceptLoopEnds(a) ==
    /\ a \in listening /\ Cancelled(a)
    /\ listening' = listening \ {a}
    /\ UNCHANGED <<actorVars, tableVars, accept, reader, xfer, clean, peerVars>>

\* A connection without a handshake, or with one that succeeds, goes into the
\* table before handle-connection is called.
AcceptInserts(c) ==
    /\ accept[c].pc = "handshake"
    /\ LET a == accept[c].by
       IN  /\ entry' = [entry EXCEPT ![c] =
                          [owner |-> a, state |-> "Pending", mode |-> "Passive"]]
           /\ stream' = [stream EXCEPT ![c] = IF a \in ServerTls THEN "tls" ELSE "plain"]
           /\ Post(a, [by |-> "accept", conn |-> c])
           /\ accept' = [accept EXCEPT ![c].pc = IF TakesOps(a) THEN "wait" ELSE "drop"]
    /\ UNCHANGED <<actor, call, calls, lock, closer, listening, reader, xfer, clean, peerVars>>

\* The handshake fails or takes longer than its timeout.
HandshakeFails(c) ==
    /\ accept[c].pc = "handshake" /\ accept[c].by \in ServerTls
    /\ accept' = [accept EXCEPT ![c].pc = "done"]
    /\ UNCHANGED <<actorVars, tableVars, listening, reader, xfer, clean, peerVars>>

\* handle-connection has failed: the entry is removed, whoever owns it by then,
\* and its stream is dropped as it is.
AcceptDrops(c) ==
    /\ accept[c].pc = "drop"
    /\ accept' = [accept EXCEPT ![c].pc = "done"]
    /\ entry' = [entry EXCEPT ![c] = None]
    /\ closer' = [closer EXCEPT ![c].pc = IF entry[c] = None THEN @ ELSE "dropped"]
    /\ UNCHANGED <<actorVars, stream, lock, listening, reader, xfer, clean, peerVars>>

-----------------------------------------------------------------------------
(* tcp_read_loop.                                                          *)

ReaderChunk(c) ==
    /\ reader[c].pc = "read" /\ taken[c] < MaxChunks
    /\ taken' = [taken EXCEPT ![c] = @ + 1]
    /\ Post(reader[c].by, [by |-> "reader", conn |-> c, item |-> taken[c] + 1])
    /\ reader' = [reader EXCEPT ![c] = IF TakesOps(reader[c].by)
                                       THEN [@ EXCEPT !.pc = "wait"] ELSE DataDone(@)]
    /\ UNCHANGED <<actor, call, calls, tableVars, listening, accept, xfer, clean,
                   peer, told>>

\* The end of the stream or an error: on-close, then the entry is removed.
ReaderEnd(c) ==
    /\ reader[c].pc = "read" /\ peer[c] = "closed"
    /\ Post(reader[c].by, [by |-> "reader", conn |-> c, item |-> End])
    /\ reader' = [reader EXCEPT ![c].pc = IF TakesOps(reader[c].by) THEN "last" ELSE "remove"]
    /\ UNCHANGED <<actor, call, calls, tableVars, listening, accept, xfer, clean, peerVars>>

ReaderCancelled(c) ==
    /\ reader[c].pc = "read" /\ Cancelled(reader[c].by)
    /\ reader' = [reader EXCEPT ![c].pc = "remove"]
    /\ UNCHANGED <<actorVars, tableVars, listening, accept, xfer, clean, peerVars>>

ReaderRemoves(c) ==
    /\ reader[c].pc = "remove"
    /\ RemoveEntry(c, <<"reader", c>>)
    /\ reader' = [reader EXCEPT ![c].pc = "done"]
    /\ UNCHANGED <<actorVars, stream, lock, listening, accept, xfer, clean, peerVars>>

\* "once" ends: the data mode is passive again, the stream stays split.
ReaderOnce(c) ==
    /\ reader[c].pc = "passive"
    /\ entry' = [entry EXCEPT ![c] = IF @ = None THEN @ ELSE [@ EXCEPT !.mode = "Passive"]]
    /\ reader' = [reader EXCEPT ![c].pc = "done"]
    /\ UNCHANGED <<actorVars, stream, lock, closer, listening, accept, xfer, clean, peerVars>>

-----------------------------------------------------------------------------
(* The detached task of transfer-async after a failed call.                *)

HandoffRemoves(n) ==
    /\ xfer[n] # None
    /\ xfer[n].pc = "remove"
    /\ RemoveEntry(xfer[n].conn, <<"xfer", n>>)
    /\ xfer' = [xfer EXCEPT ![n].pc = "done"]
    /\ UNCHANGED <<actorVars, stream, lock, listening, accept, reader, clean, peerVars>>

-----------------------------------------------------------------------------
(* The clean-up at the end of setup's future.                              *)

CleanCollects(a) ==
    /\ clean[a].pc = "collect"
    /\ LET mine == {c \in Conns : Owned(a, c)}
       IN  clean' = [clean EXCEPT ![a] = [pc |-> "next", todo |-> mine, mine |-> mine]]
    /\ UNCHANGED <<actorVars, tableVars, listening, accept, reader, xfer, peerVars>>

CleanSkipsBusy(a, c) ==   \* Mutant of CleanRemoves: a stream in use is passed over
    /\ clean[a].pc = "next" /\ c \in clean[a].todo
    /\ IF lock[c] = None THEN RemoveEntry(c, <<"clean", a>>) ELSE UNCHANGED <<entry, closer>>
    /\ clean' = [clean EXCEPT ![a].todo = @ \ {c}]
    /\ UNCHANGED <<actorVars, stream, lock, listening, accept, reader, xfer, peerVars>>

\* The next connection, once the one before is shut down.  That its owner is
\* still a is not looked at again.
CleanIdle(a) == \A c \in Conns : closer[c].by = <<"clean", a>> => closer[c].pc = "done"
CleanRemoves(a, c) ==
    /\ clean[a].pc = "next" /\ c \in clean[a].todo /\ CleanIdle(a)
    /\ RemoveEntry(c, <<"clean", a>>)
    /\ clean' = [clean EXCEPT ![a].todo = @ \ {c}]
    /\ UNCHANGED <<actorVars, stream, lock, listening, accept, reader, xfer, peerVars>>

CleanEnds(a) ==
    /\ clean[a].pc = "next" /\ clean[a].todo = {} /\ CleanIdle(a)
    /\ clean' = [clean EXCEPT ![a].pc = "done"]
    /\ UNCHANGED <<actorVars, tableVars, listening, accept, reader, xfer, peerVars>>

-----------------------------------------------------------------------------
(* The peers.  What they send arrives when it is read, up to MaxChunks; a  *)
(* stream that was closed may still hold some of it.                       *)

PeerCloses(c) ==
    /\ stream[c] # "none" /\ peer[c] = "open"
    /\ peer' = [peer EXCEPT ![c] = "closed"]
    /\ UNCHANGED <<actorVars, tableVars, taskVars, taken, told>>

-----------------------------------------------------------------------------
ActorNext(a) ==
    \/ BeginCall(a) \/ ClientCall(a) \/ GuestReturns(a) \/ GuestFails(a)
    \/ HandlerStarts(a) \/ Stop(a) \/ OpLoopEnds(a) \/ Abort(a) \/ Gone(a)
    \/ AcceptLoopEnds(a) \/ CleanCollects(a) \/ CleanEnds(a)

HostNext(a) ==
    \/ Connect(a) \/ Listen(a) \/ TransferReturns(a)
    \/ \E c \in Conns :
         \/ Activate(a, c) \/ Send(a, c) \/ Receive(a, c) \/ Upgrade(a, c)
         \/ CloseConn(a, c) \/ CloseReturns(a, c)
         \/ \E f \in {"active", "once"} : SetActive(a, c, f)
         \/ \E b \in Actors : Transfer(a, c, b) \/ TransferAsync(a, c, b)
         \/ SendLocks(a, c) \/ SendReturns(a, c)
         \/ ReceiveLocks(a, c) \/ ReceiveChunk(a, c) \/ ReceiveEnd(a, c)
         \/ UpgradeLocks(a, c) \/ \E ok \in BOOLEAN : UpgradeReturns(a, c, ok)
         \/ AcceptLoop(a, c) \/ CleanRemoves(a, c)

ConnNext(c) ==
    \/ CloserTakes(c) \/ CloserShuts(c)
    \/ AcceptInserts(c) \/ HandshakeFails(c) \/ AcceptDrops(c)
    \/ ReaderChunk(c) \/ ReaderEnd(c) \/ ReaderCancelled(c)
    \/ ReaderRemoves(c) \/ ReaderOnce(c)
    \/ PeerCloses(c)

Next ==
    \/ \E a \in Actors : ActorNext(a) \/ HostNext(a)
    \/ \E c \in Conns : ConnNext(c)
    \/ \E n \in Transfers : HandoffRemoves(n)
    \/ \E op \in Operations : GiveUp(op)

Spec == Init /\ [][Next]_vars

\* Tasks that can run do, and timeouts fire.  Nothing is asked of guests, peers,
\* handshakes, or of a shutdown that waits for the peer.  There are finitely
\* many of these steps, so that it is enough that one is taken if one can be.
TaskStep ==
    \/ \E a \in Actors :
         \/ actor[a] = "failed" /\ Stop(a)
         \/ HandlerStarts(a) \/ OpLoopEnds(a) \/ Abort(a) \/ Gone(a)
    \/ \E c \in Conns :
         \/ accept[c].by \notin ServerTls /\ AcceptInserts(c)
         \/ HandshakeFails(c) \/ AcceptDrops(c)
         \/ ReaderChunk(c) \/ ReaderEnd(c) \/ ReaderCancelled(c)
         \/ ReaderRemoves(c) \/ ReaderOnce(c)
    \/ \E n \in Transfers : HandoffRemoves(n)
    \/ \E op \in Operations : GiveUp(op)

LiveSpec == Spec /\ WF_vars(TaskStep)

-----------------------------------------------------------------------------
(* Safety.                                                                 *)

\* Only one call at a time is at work on a stream, that of its owner, and it is
\* the one that holds the lock: transfers never leave the old owner inside
\* send, receive or an upgrade.  So the wait of set-active, which has the lock
\* of the whole table, is for nobody, and no read meets another.
Working(a, c) == call[a] # None /\ call[a].conn = c /\ call[a].pc \in AtStream
StreamExclusive ==
    \A c \in Conns :
        /\ \A a, b \in Actors : Working(a, c) /\ Working(b, c) => a = b
        /\ \A a \in Actors : Working(a, c) /\ entry[c] # None => entry[c].owner = a
        /\ lock[c] # None => /\ Working(lock[c], c)
                             /\ call[lock[c]].pc \in HoldsLock

\* What the table says of a connection agrees with where its stream is: a mode
\* other than passive means that the stream is split and a read loop has the
\* other half, unless set-active came before the handler's task and lost it; a whole
\* stream has no read loop; a stream that is gone while its entry stays was lost in
\* an upgrade.
StreamMatchesMode ==
    \A c \in Conns : entry[c] # None =>
        /\ stream[c] # "none"
        /\ entry[c].mode # "Passive" =>
             /\ stream[c] = "write"
             /\ reader[c].pc \in {"read", "wait", "last", "passive", "remove", "lost"}
        /\ stream[c] \in Full => reader[c].pc = "none"
        /\ stream[c] = "write" /\ entry[c].mode = "Passive" =>
             reader[c].once /\ reader[c].pc = "done"
        /\ entry[c].state = "Pending" => reader[c].pc = "none" /\ told[c] = <<>>

\* Table, streams, locks and tasks agree on every connection, although the table
\* is unlocked between the check of an entry and the use of its stream.
StreamsAgree == TypeOK /\ StreamExclusive /\ StreamMatchesMode

\* Whoever reads, in whatever mode, and whoever owns the connection meanwhile:
\* guests are given the chunks of a stream in order, none twice, and nothing
\* after on-close.
DeliveredInOrder ==
    \A c \in Conns : \A i, j \in 1..Len(told[c]) : i < j => told[c][i] < told[c][j]

\* A clean-up that comes to its end has left none of the connections that were
\* the actor's when it began, whatever other task was closing them.
CleanupComplete ==
    \A a \in Actors : clean[a].pc = "done" => \A c \in clean[a].mine : entry[c] = None

(* Liveness.                                                               *)

\* The task of an accepted connection ends, however the peer, the handshake and
\* the actor behave.
AcceptSettles == \A c \in Conns : accept[c].pc = "handshake" ~> accept[c].pc = "done"

\* The end of an actively read stream removes its connection.
EndRemoves ==
    \A c \in Conns :
        (reader[c].pc = "read" /\ ~reader[c].once /\ peer[c] = "closed") ~> entry[c] = None

\* A detached hand-off reaches its target, or the connection is removed.
HandoffSettles ==
    \A n \in Transfers : \A c \in Conns :
        (xfer[n] # None /\ xfer[n].async /\ xfer[n].conn = c)
            ~> (xfer[n] # None /\ xfer[n].pc = "ok") \/ entry[c] = None

\* No task beside the host functions hangs, and none leaves a connection behind
\* that it was to remove.
TasksSettle == AcceptSettles /\ EndRemoves /\ HandoffSettles

=============================================================================
