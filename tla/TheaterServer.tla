--------------------------- MODULE TheaterServer ---------------------------
(***************************************************************************)
(* The management server: for every client a task that takes its commands  *)
(* one at a time, a task that writes what is in its response channel to    *)
(* the socket, and for every subscription a task that moves events from    *)
(* the chain's channel to that response channel.                           *)
(*                                                                         *)
(* The theater runtime is here as the server sees it: a queue of commands, *)
(* a loop that takes them in turn, and actors whose events are handed out  *)
(* to the subscribers of their chain one by one, with the chain's lock     *)
(* held (TheaterRuntime and StateChain have the details).  The router that *)
(* the channel commands go to is MessageRouter; here it answers.           *)
(*                                                                         *)
(* The other commands that the runtime or the router answers and that      *)
(* change nothing in the server (ListActors, GetActorMetrics, RestartActor,*)
(* SendActorMessage, SendOnChannel, NewStore ...) behave as "query" or as  *)
(* a refused "open"; TerminateActor is like StopActor.                     *)
(***************************************************************************)
EXTENDS Naturals, Sequences, FiniteSets, Functions

CONSTANTS
    Clients,    \* the clients, each with one connection
    Actors,     \* the actor ids
    Subs,       \* subscription ids, handed out once each
    Chans,      \* ids of the channels that clients open, handed out once each
    None,       \* nothing
    Commands,   \* Commands[c][n]: the kinds that the n-th command of c may have
    EventCap,   \* capacity of an event channel (32, and one in the forwarder)
    RespCap,    \* capacity of a response channel (32)
    Leavers,    \* the clients that may disconnect
    MaxEvents   \* events of one actor

Kinds == {"start", "follow", "stop", "query", "subscribe", "unsubscribe", "open", "close", "bad"}

ASSUME ServerAssumption ==
    /\ None \notin Clients \cup Actors \cup Subs \cup Chans
    /\ Commands \in [Clients -> Seq(SUBSET Kinds)]
    /\ Leavers \subseteq Clients
    /\ EventCap \in Nat \ {0} /\ RespCap \in Nat \ {0}
    /\ MaxEvents \in Nat

VARIABLES
    \* the clients
    up,        \* the clients that are connected and listen
    asked,     \* asked[c]: the number of commands c has sent
    inq,       \* inq[c]: those of them the server has not taken
    answers,   \* answers[c]: the numbers of the responses c has received
    seen,      \* seen[s]: the events that the client of s has received
    \* the tasks of a connection
    pc,        \* handle_management_connection
    cmd,       \* its current command
    resp,      \* the response channel
    writer,    \* the task that writes it to the socket: "none", "run" or "gone"
    \* what connections share and what they keep of their own
    subscriptions,          \* <<actor, subscription>> pairs
    channel_subscriptions,  \* ids of channels
    mySubs,    \* mySubs[c]: connection_subscriptions
    myChans,   \* myChans[c]: connection_channel_subscriptions
    \* subscriptions as event channels and their forwarders
    sub,       \* whose it is, its actor, queue, forwarder, and is its sender held?
    chan,      \* chan[k]: the client an id was generated for
    \* the runtime
    rq,        \* its command channel, with the command in work at its head
    actor,     \* "none", "up", "ending" or "gone"
    log,       \* log[a]: number of events in the chain
    todo       \* todo[a]: subscribers the event that is handed out has not reached

clientVars  == <<up, asked, inq, answers, seen>>
taskVars    == <<pc, cmd, resp, writer>>
tableVars   == <<subscriptions, channel_subscriptions, mySubs, myChans>>
runtimeVars == <<rq, actor, log, todo>>
vars == <<clientVars, taskVars, tableVars, sub, chan, runtimeVars>>

-----------------------------------------------------------------------------
\* A command with its number in its connection: the actor, subscription or
\* channel it is about.
Command == [kind : Kinds, n : Nat, actor : Actors \cup {None},
            sub : Subs \cup {None}, chan : Chans \cup {None}]

\* What is sent to a client: the response to the n-th command, the n-th event of
\* a subscription's actor.
Items == [kind : {"resp"}, n : Nat]
            \cup [kind : {"event"}, sub : Subs, n : 1..(MaxEvents + 1)]

\* An open subscription: for whom, of which actor, its event channel, its forwarder
\* and whether anybody holds the sender of its channel.
Subscription == [client : Clients, actor : Actors \cup {None}, q : Seq(1..(MaxEvents + 1)),
                 fwd : {"run", "gone"}, held : BOOLEAN]

ASSUME NoneAssumption == None \notin Command \cup Subscription

\* A command to the runtime.
Requests == [op : {"setup", "stop", "query", "subscribe"}, by : Clients,
             actor : Actors \cup {None}, sub : Subs \cup {None}]

TypeOK ==
    /\ up \subseteq Clients
    /\ asked \in [Clients -> Nat]
    /\ inq \in [Clients -> Seq(Command)]
    /\ answers \in [Clients -> Seq(Nat)]
    /\ seen \in [Subs -> Seq(1..(MaxEvents + 1))]
    /\ pc \in [Clients -> {"none", "read", "wait", "ok", "err", "tell", "respond", "leave",
                           "done", "failed"}]
    /\ cmd \in [Clients -> Command \cup {None}]
    /\ resp \in [Clients -> Seq(Items)] /\ \A c \in Clients : Len(resp[c]) <= RespCap
    /\ writer \in [Clients -> {"none", "run", "gone"}]
    /\ subscriptions \subseteq Actors \X Subs
    /\ channel_subscriptions \subseteq Chans
    /\ mySubs \in [Clients -> SUBSET Subs] /\ myChans \in [Clients -> SUBSET Chans]
    /\ sub \in [Subs -> Subscription \cup {None}]
    /\ \A s \in Subs : sub[s] # None => Len(sub[s].q) <= EventCap
    /\ chan \in [Chans -> Clients \cup {None}]
    /\ rq \in Seq(Requests)
    /\ actor \in [Actors -> {"none", "up", "ending", "gone"}]
    /\ log \in [Actors -> 0..(MaxEvents + 1)]
    /\ todo \in [Actors -> SUBSET Subs]

Init ==
    /\ up = {}
    /\ asked = [c \in Clients |-> 0]
    /\ inq = [c \in Clients |-> <<>>]
    /\ answers = [c \in Clients |-> <<>>]
    /\ seen = [s \in Subs |-> <<>>]
    /\ pc = [c \in Clients |-> "none"]
    /\ cmd = [c \in Clients |-> None]
    /\ resp = [c \in Clients |-> <<>>]
    /\ writer = [c \in Clients |-> "none"]
    /\ subscriptions = {} /\ channel_subscriptions = {}
    /\ mySubs = [c \in Clients |-> {}] /\ myChans = [c \in Clients |-> {}]
    /\ sub = [s \in Subs |-> None]
    /\ chan = [k \in Chans |-> None]
    /\ rq = <<>>
    /\ actor = [a \in Actors |-> "none"]
    /\ log = [a \in Actors |-> 0]
    /\ todo = [a \in Actors |-> {}]

-----------------------------------------------------------------------------
(* The clients.                                                            *)

\* run accepts the connection: its two tasks start.
Connect(c) ==
    /\ pc[c] = "none"
    /\ up' = up \cup {c}
    /\ pc' = [pc EXCEPT ![c] = "read"]
    /\ writer' = [writer EXCEPT ![c] = "run"]
    /\ UNCHANGED <<asked, inq, answers, seen, cmd, resp, tableVars, sub, chan, runtimeVars>>

\* The socket is closed when both of its halves are dropped.
HungUp(c) == writer[c] = "gone" /\ pc[c] \in {"done", "failed"}

\* Bound: commands that take a new id are sent while ids are left.
IdsLeft(k) ==
    LET Sent(ks) == Cardinality({x \in Clients : inq[x] # <<>> /\ Head(inq[x]).kind \in ks})
    IN  /\ k = "open" => Sent({"open"}) < Cardinality({ch \in Chans : chan[ch] = None})
        /\ k \in {"follow", "subscribe"} =>
             Sent({"follow", "subscribe"}) < Cardinality({s \in Subs : sub[s] = None})

\* A command with any actor, and with any subscription or channel that exists,
\* once the server has taken the last one.
ClientSends(c, k, a, s, ch) ==
    /\ c \in up /\ ~HungUp(c) /\ inq[c] = <<>> /\ asked[c] < Len(Commands[c])
    /\ k \in Commands[c][asked[c] + 1] /\ IdsLeft(k)
    /\ (a = None) <=> (k \in {"start", "follow", "open", "close", "bad"})
    /\ IF k = "unsubscribe" THEN s \in Subs /\ sub[s] # None ELSE s = None
    /\ IF k = "close" THEN ch \in Chans /\ chan[ch] # None ELSE ch = None
    /\ asked' = [asked EXCEPT ![c] = IF k = "bad" THEN @ ELSE @ + 1]
    /\ inq' = [inq EXCEPT ![c] = Append(@, [kind |-> k, n |-> asked'[c], actor |-> a,
                                            sub |-> s, chan |-> ch])]
    /\ UNCHANGED <<up, answers, seen, taskVars, tableVars, sub, chan, runtimeVars>>

\* What it has sent is still there to be taken; what it knows goes with it.
ClientLeaves(c) ==
    /\ c \in up \cap Leavers
    /\ up' = up \ {c}
    /\ asked' = [asked EXCEPT ![c] = 0]
    /\ answers' = [answers EXCEPT ![c] = <<>>]
    /\ seen' = [s \in Subs |-> IF sub[s] # None /\ sub[s].client = c THEN <<>> ELSE seen[s]]
    /\ UNCHANGED <<inq, taskVars, tableVars, sub, chan, runtimeVars>>

-----------------------------------------------------------------------------
(* The response task.  What it writes goes as far as the client reads.     *)

\* Responses are taken to be serialisable: one that is not is logged and passed over.
Written(c) ==
    /\ writer[c] = "run" /\ resp[c] # <<>> /\ c \in up
    /\ LET x == Head(resp[c])
       IN  IF x.kind = "resp"
           THEN answers' = [answers EXCEPT ![c] = Append(@, x.n)] /\ seen' = seen
           ELSE seen' = [seen EXCEPT ![x.sub] = Append(@, x.n)] /\ answers' = answers
    /\ resp' = [resp EXCEPT ![c] = Tail(@)]
    /\ UNCHANGED <<up, asked, inq, pc, cmd, writer, tableVars, sub, chan, runtimeVars>>

WriteFails(c) ==
    /\ writer[c] = "run" /\ resp[c] # <<>> /\ c \notin up
    /\ writer' = [writer EXCEPT ![c] = "gone"]
    /\ resp' = [resp EXCEPT ![c] = <<>>]
    /\ UNCHANGED <<clientVars, pc, cmd, tableVars, sub, chan, runtimeVars>>

\* The senders of a response channel: the connection, its subscriptions and
\* channels in the shared maps, its forwarders.
HasSender(c) ==
    \/ pc[c] \notin {"none", "done", "failed"}
    \/ \E p \in subscriptions : sub[p[2]].client = c
    \/ \E k \in channel_subscriptions : chan[k] = c
    \/ \E s \in Subs : sub[s] # None /\ sub[s].client = c /\ sub[s].fwd = "run"

WriterEnds(c) ==
    /\ writer[c] = "run" /\ resp[c] = <<>> /\ ~HasSender(c)
    /\ writer' = [writer EXCEPT ![c] = "gone"]
    /\ UNCHANGED <<clientVars, pc, cmd, resp, tableVars, sub, chan, runtimeVars>>

-----------------------------------------------------------------------------
(* handle_management_connection.                                           *)

\* A new uuid.
Fresh(s) ==
    /\ \E x \in Subs : sub[x] = None
    /\ s = CHOOSE x \in Subs : sub[x] = None

\* The next command, of one of the kinds ks.
Taken(c, ks) ==
    /\ pc[c] = "read" /\ inq[c] # <<>>
    /\ Head(inq[c]).kind \in ks
    /\ inq' = [inq EXCEPT ![c] = Tail(@)]
    /\ cmd' = [cmd EXCEPT ![c] = Head(inq[c])]

Request(c, o, a, s) == rq' = Append(rq, [op |-> o, by |-> c, actor |-> a, sub |-> s])

Opened(c, a) == [client |-> c, actor |-> a, q |-> <<>>, fwd |-> "run", held |-> TRUE]

\* A message that is not a command is logged and passed over; one that cannot be
\* decoded ends the connection.
TakeBad(c) ==
    /\ pc[c] = "read" /\ inq[c] # <<>> /\ Head(inq[c]).kind = "bad"
    /\ inq' = [inq EXCEPT ![c] = Tail(@)]
    /\ UNCHANGED <<up, asked, answers, seen, pc, cmd, resp, writer, tableVars, sub, chan, runtimeVars>>

TakeGarbled(c) ==
    /\ Taken(c, {"bad"})
    /\ pc' = [pc EXCEPT ![c] = "leave"]
    /\ UNCHANGED <<up, asked, answers, seen, resp, writer, tableVars, sub, chan, runtimeVars>>

\* StartActor, and with subscribe ("follow"): a forwarder that is in none of the maps.
TakeStart(c) ==
    /\ Taken(c, {"start"})
    /\ Request(c, "setup", None, None)
    /\ pc' = [pc EXCEPT ![c] = "wait"]
    /\ UNCHANGED <<up, asked, answers, seen, resp, writer, tableVars, sub, chan,
                   actor, log, todo>>

TakeFollow(c, s) ==
    /\ Taken(c, {"follow"}) /\ Fresh(s)
    /\ sub' = [sub EXCEPT ![s] = Opened(c, None)]
    /\ Request(c, "setup", None, s)
    /\ pc' = [pc EXCEPT ![c] = "wait"]
    /\ UNCHANGED <<up, asked, answers, seen, resp, writer, tableVars, chan, actor, log, todo>>

\* The manifest or the package cannot be loaded: the error is sent, and whether it
\* could be sent does not matter.
TakeStartFails(c) ==
    /\ Taken(c, {"start", "follow"})
    /\ pc' = [pc EXCEPT ![c] = "tell"]
    /\ UNCHANGED <<up, asked, answers, seen, resp, writer, tableVars, sub, chan, runtimeVars>>

TakeStopOrQuery(c) ==
    /\ Taken(c, {"stop", "query"})
    /\ Request(c, Head(inq[c]).kind, Head(inq[c]).actor, None)
    /\ pc' = [pc EXCEPT ![c] = "wait"]
    /\ UNCHANGED <<up, asked, answers, seen, resp, writer, tableVars, sub, chan,
                   actor, log, todo>>

\* SubscribeToActor: the map, the runtime, the connection's list, the forwarder;
\* the runtime does not answer.
TakeSubscribe(c, s) ==
    LET a == Head(inq[c]).actor IN
    /\ Taken(c, {"subscribe"}) /\ Fresh(s)
    /\ subscriptions' = subscriptions \cup {<<a, s>>}
    /\ mySubs' = [mySubs EXCEPT ![c] = @ \cup {s}]
    /\ sub' = [sub EXCEPT ![s] = Opened(c, a)]
    /\ Request(c, "subscribe", a, s)
    /\ pc' = [pc EXCEPT ![c] = "respond"]
    /\ UNCHANGED <<up, asked, answers, seen, resp, writer, channel_subscriptions, myChans,
                   chan, actor, log, todo>>

\* UnsubscribeFromActor: both lists forget the subscription if the actor is the
\* right one; its forwarder goes on.
TakeUnsubscribe(c) ==
    LET a == Head(inq[c]).actor
        s == Head(inq[c]).sub
    IN
    /\ Taken(c, {"unsubscribe"})
    /\ mySubs' = [mySubs EXCEPT ![c] = IF sub[s].actor = a THEN @ \ {s} ELSE @]
    /\ subscriptions' = subscriptions \ {<<a, s>>}
    /\ pc' = [pc EXCEPT ![c] = "respond"]
    /\ UNCHANGED <<up, asked, answers, seen, resp, writer, channel_subscriptions, myChans,
                   sub, chan, runtimeVars>>

TakeOpenSilently(c, k, ok) ==   \* Mutant of TakeOpen: a refused channel is not answered
    /\ Taken(c, {"open"}) /\ chan[k] = None
    /\ chan' = [chan EXCEPT ![k] = c]
    /\ channel_subscriptions' = IF ok THEN channel_subscriptions \cup {k} ELSE channel_subscriptions
    /\ myChans' = IF ok THEN [myChans EXCEPT ![c] = @ \cup {k}] ELSE myChans
    /\ pc' = [pc EXCEPT ![c] = IF ok THEN "respond" ELSE "read"]
    /\ UNCHANGED <<up, asked, answers, seen, resp, writer, subscriptions, mySubs, sub, runtimeVars>>

\* OpenChannel and CloseChannel: the router answers, and only its yes counts.
TakeOpen(c, k, ok) ==
    /\ Taken(c, {"open"}) /\ chan[k] = None
    /\ chan' = [chan EXCEPT ![k] = c]
    /\ channel_subscriptions' = IF ok THEN channel_subscriptions \cup {k} ELSE channel_subscriptions
    /\ myChans' = IF ok THEN [myChans EXCEPT ![c] = @ \cup {k}] ELSE myChans
    /\ pc' = [pc EXCEPT ![c] = "respond"]
    /\ UNCHANGED <<up, asked, answers, seen, resp, writer, subscriptions, mySubs, sub, runtimeVars>>

TakeClose(c, ok) ==
    LET k == Head(inq[c]).chan IN
    /\ Taken(c, {"close"})
    /\ channel_subscriptions' = IF ok THEN channel_subscriptions \ {k} ELSE channel_subscriptions
    /\ myChans' = IF ok THEN [myChans EXCEPT ![c] = @ \ {k}] ELSE myChans
    /\ pc' = [pc EXCEPT ![c] = "respond"]
    /\ UNCHANGED <<up, asked, answers, seen, resp, writer, subscriptions, mySubs, sub, chan,
                   runtimeVars>>

\* The function returns, its variables are dropped.
Returned(c, how) ==
    /\ pc' = [pc EXCEPT ![c] = how]
    /\ cmd' = [cmd EXCEPT ![c] = None]
    /\ mySubs' = [mySubs EXCEPT ![c] = {}]
    /\ myChans' = [myChans EXCEPT ![c] = {}]

\* StopActor has been answered with success: the actor's subscriptions are dropped.
Stopped(c) ==
    /\ pc[c] = "ok"
    /\ subscriptions' = {p \in subscriptions : p[1] # cmd[c].actor}
    /\ pc' = [pc EXCEPT ![c] = "respond"]
    /\ UNCHANGED <<clientVars, cmd, resp, writer, channel_subscriptions, mySubs, myChans,
                   sub, chan, runtimeVars>>

\* The queries hand an error to their caller: the function returns where it is.
ReturnsEarly(c) ==
    /\ pc[c] = "err"
    /\ Returned(c, "failed")
    /\ UNCHANGED <<clientVars, resp, writer, subscriptions, channel_subscriptions, sub, chan,
                   runtimeVars>>

Respond(c) ==
    /\ pc[c] \in {"tell", "respond"} /\ writer[c] = "run" /\ Len(resp[c]) < RespCap
    /\ resp' = [resp EXCEPT ![c] = Append(@, [kind |-> "resp", n |-> cmd[c].n])]
    /\ pc' = [pc EXCEPT ![c] = "read"]
    /\ cmd' = [cmd EXCEPT ![c] = None]
    /\ UNCHANGED <<clientVars, writer, tableVars, sub, chan, runtimeVars>>

\* The loop is left: the response cannot be sent, or the stream has ended.
RespondFails(c) ==
    /\ pc[c] \in {"tell", "respond"} /\ writer[c] = "gone"
    /\ pc' = [pc EXCEPT ![c] = IF @ = "tell" THEN "read" ELSE "leave"]
    /\ UNCHANGED <<clientVars, cmd, resp, writer, tableVars, sub, chan, runtimeVars>>

StreamEnds(c) ==
    /\ pc[c] = "read" /\ inq[c] = <<>> /\ c \notin up
    /\ pc' = [pc EXCEPT ![c] = "leave"]
    /\ UNCHANGED <<clientVars, cmd, resp, writer, tableVars, sub, chan, runtimeVars>>

CleanUpSubs(c) ==   \* Mutant of CleanUp: the channels are left
    /\ pc[c] = "leave"
    /\ subscriptions' = {p \in subscriptions : p[2] \notin mySubs[c]}
    /\ Returned(c, "done")
    /\ UNCHANGED <<clientVars, resp, writer, channel_subscriptions, sub, chan, runtimeVars>>

\* The end of the function.
CleanUp(c) ==
    /\ pc[c] = "leave"
    /\ subscriptions' = {p \in subscriptions : p[2] \notin mySubs[c]}
    /\ channel_subscriptions' = channel_subscriptions \ myChans[c]
    /\ Returned(c, "done")
    /\ UNCHANGED <<clientVars, resp, writer, sub, chan, runtimeVars>>

-----------------------------------------------------------------------------
(* The forwarders.                                                         *)

Running(s) == sub[s] # None /\ sub[s].fwd = "run"

Forward(s) ==
    /\ Running(s) /\ sub[s].q # <<>>
    /\ LET c == sub[s].client
       IN  /\ writer[c] = "run" /\ Len(resp[c]) < RespCap
           /\ resp' = [resp EXCEPT ![c] =
                         Append(@, [kind |-> "event", sub |-> s, n |-> Head(sub[s].q)])]
           /\ sub' = [sub EXCEPT ![s].q = Tail(@)]
    /\ UNCHANGED <<clientVars, pc, cmd, writer, tableVars, chan, runtimeVars>>

\* Mutant of ForwardEnds: a closed response channel is not noticed
ForwardKeepsOn(s) ==
    /\ Running(s) /\ sub[s].q = <<>> /\ ~sub[s].held
    /\ sub' = [sub EXCEPT ![s].fwd = "gone"]
    /\ UNCHANGED <<clientVars, taskVars, tableVars, chan, runtimeVars>>

\* The response channel is closed, or there are no more events.
ForwardEnds(s) ==
    /\ Running(s)
    /\ \/ sub[s].q # <<>> /\ writer[sub[s].client] = "gone"
       \/ sub[s].q = <<>> /\ ~sub[s].held
    /\ sub' = [sub EXCEPT ![s].fwd = "gone", ![s].q = <<>>]
    /\ UNCHANGED <<clientVars, taskVars, tableVars, chan, runtimeVars>>

-----------------------------------------------------------------------------
(* The runtime.                                                            *)

\* The command in work is the first one.
InWork(o) == rq # <<>> /\ Head(rq).op = o
Loop == Head(rq)

\* The connection that waits for the answer goes on, the command is done.
Reply(ans) ==
    /\ pc' = [pc EXCEPT ![Loop.by] = ans]
    /\ rq' = Tail(rq)

LoopSetup(a) ==
    /\ InWork("setup")
    /\ actor[a] = "none"
    /\ actor' = [actor EXCEPT ![a] = "up"]
    /\ sub' = [s \in Subs |-> IF s = Loop.sub THEN [sub[s] EXCEPT !.actor = a] ELSE sub[s]]
    /\ Reply("respond")
    /\ UNCHANGED <<clientVars, cmd, resp, writer, tableVars, chan, log, todo>>

\* A spawn that fails before its chain is made drops the sender; one that fails
\* later leaves the chain, with the sender, in the map of chains, where no command
\* reaches it.
LoopSetupFails(kept) ==
    /\ InWork("setup")
    /\ sub' = [s \in Subs |-> IF s = Loop.sub /\ ~kept THEN [sub[s] EXCEPT !.held = FALSE]
                              ELSE sub[s]]
    /\ Reply("respond")
    /\ UNCHANGED <<clientVars, cmd, resp, writer, tableVars, chan, actor, log, todo>>

\* add_subscriber waits for the chain's lock.
LoopSubscribe ==
    /\ InWork("subscribe")
    /\ IF actor[Loop.actor] = "up"
       THEN todo[Loop.actor] = {} /\ sub' = sub
       ELSE sub' = [sub EXCEPT ![Loop.sub].held = FALSE]
    /\ rq' = Tail(rq)
    /\ UNCHANGED <<clientVars, taskVars, tableVars, chan, actor, log, todo>>

\* A subscriber is in the chain once its command has been processed.
InChain(s, a) ==
    /\ sub[s] # None /\ sub[s].actor = a /\ sub[s].held
    /\ \A i \in DOMAIN rq : rq[i].sub # s

\* Another event of the chain: its lock is taken until everyone has it.
NextEvent(a) ==
    /\ todo[a] = {}
    /\ log' = [log EXCEPT ![a] = @ + 1]
    /\ todo' = [todo EXCEPT ![a] = {s \in Subs : InChain(s, a)}]

\* StopActor: the shutdown event, then the wait for the actor.  An unknown actor
\* counts as stopped.
LoopStop ==
    /\ InWork("stop") /\ actor[Loop.actor] = "up"
    /\ NextEvent(Loop.actor)
    /\ actor' = [actor EXCEPT ![Loop.actor] = "ending"]
    /\ UNCHANGED <<clientVars, taskVars, tableVars, sub, chan, rq>>

LoopStopped ==
    /\ InWork("stop") /\ actor[Loop.actor] # "up"
    /\ todo[Loop.actor] = {}
    /\ actor' = [actor EXCEPT ![Loop.actor] = IF @ = "ending" THEN "gone" ELSE @]
    /\ sub' = [s \in Subs |-> IF InChain(s, Loop.actor) THEN [sub[s] EXCEPT !.held = FALSE]
                              ELSE sub[s]]
    /\ Reply("ok")
    /\ UNCHANGED <<clientVars, cmd, resp, writer, tableVars, chan, log, todo>>

LoopQuery ==
    /\ InWork("query")
    /\ Reply(IF actor[Loop.actor] = "up" THEN "respond" ELSE "err")
    /\ UNCHANGED <<clientVars, cmd, resp, writer, tableVars, sub, chan,
                   actor, log, todo>>

\* An event of the actor itself.
Event(a) ==
    /\ actor[a] = "up" /\ log[a] < MaxEvents
    /\ NextEvent(a)
    /\ UNCHANGED <<clientVars, taskVars, tableVars, sub, chan, rq, actor>>

\* The event reaches one subscriber, or finds its receiver closed.
HandOut(a, s) ==
    /\ s \in todo[a]
    /\ todo' = [todo EXCEPT ![a] = @ \ {s}]
    /\ IF sub[s].fwd = "run"
       THEN Len(sub[s].q) < EventCap /\ sub' = [sub EXCEPT ![s].q = Append(@, log[a])]
       ELSE sub' = [sub EXCEPT ![s].held = FALSE]
    /\ UNCHANGED <<clientVars, taskVars, tableVars, chan, rq, actor, log>>

-----------------------------------------------------------------------------
ClientNext(c) ==
    \/ Connect(c) \/ ClientLeaves(c)
    \/ \E k \in Kinds, a \in Actors \cup {None}, s \in Subs \cup {None}, ch \in Chans \cup {None} :
         ClientSends(c, k, a, s, ch)

ConnectionNext(c) ==
    \/ TakeBad(c) \/ TakeGarbled(c) \/ TakeStart(c) \/ TakeStartFails(c) \/ TakeStopOrQuery(c) \/ TakeUnsubscribe(c)
    \/ \E s \in Subs : TakeFollow(c, s) \/ TakeSubscribe(c, s)
    \/ \E ok \in BOOLEAN : TakeClose(c, ok) \/ \E k \in Chans : TakeOpen(c, k, ok)
    \/ Stopped(c) \/ ReturnsEarly(c) \/ Respond(c) \/ RespondFails(c) \/ StreamEnds(c) \/ CleanUp(c)

WriterNext(c) == Written(c) \/ WriteFails(c) \/ WriterEnds(c)

RuntimeNext ==
    \/ \E kept \in BOOLEAN : LoopSetupFails(kept)
    \/ LoopSubscribe \/ LoopStop \/ LoopStopped \/ LoopQuery
    \/ \E a \in Actors : LoopSetup(a)

Next ==
    \/ \E c \in Clients : ClientNext(c) \/ ConnectionNext(c) \/ WriterNext(c)
    \/ \E s \in Subs : Forward(s) \/ ForwardEnds(s) \/ \E a \in Actors : HandOut(a, s)
    \/ \E a \in Actors : Event(a)
    \/ RuntimeNext

Spec == Init /\ [][Next]_vars

\* Every task is run, and clients read what is written to them until they leave.
\* They need not send or leave, and actors need not do anything.
Fairness ==
    /\ \A c \in Clients : WF_vars(ConnectionNext(c)) /\ WF_vars(WriterNext(c))
    /\ \A s \in Subs : WF_vars(Forward(s) \/ ForwardEnds(s))
    /\ \A a \in Actors : WF_vars(\E s \in Subs : HandOut(a, s))
    /\ WF_vars(RuntimeNext)

LiveSpec == Spec /\ Fairness

-----------------------------------------------------------------------------
(* Properties.                                                             *)

Owns(c, s) == sub[s] # None /\ sub[s].client = c

\* Responses come in the order of the commands and none twice, events of a
\* subscription in the order of the chain without a gap, however the two are
\* mixed in the response channel.
ClientSeesOrder ==
    /\ \A c \in Clients : \A i, j \in DOMAIN answers[c] : i < j => answers[c][i] < answers[c][j]
    /\ \A s \in Subs : \A i \in 1..(Len(seen[s]) - 1) : seen[s][i + 1] = seen[s][i] + 1

\* The shared map is what the connections keep of it: an entry belongs to a
\* connection that has it in its own list, so that its end removes it, except to
\* one whose task has returned early.  No channel holds more than its capacity
\* (TypeOK).
EntriesTracked ==
    /\ TypeOK
    /\ \A p \in subscriptions : \E c \in Clients :
         Owns(c, p[2]) /\ (p[2] \in mySubs[c] \/ pc[c] = "failed")
    /\ \A k \in channel_subscriptions : k \in myChans[chan[k]] \/ pc[chan[k]] = "failed"

\* An event that is being handed out reaches all subscribers, those of clients
\* that have gone included: the chain's lock is always released, as long as
\* clients read.
ChainReleased == \A a \in Actors : (todo[a] # {}) ~> (todo[a] = {})

\* A client that waits for an answer gets it, sees its connection closed, or has
\* gone itself.  It is left without any of them only after its task has ended: on
\* an error, while a forwarder or an entry of one of the maps still has a sender
\* of its response channel and so keeps the socket open.  What it gets is in order.
Owed(c) == Len(answers[c]) < asked[c] /\ c \in up /\ ~HungUp(c)
ClientAnswered ==
    /\ []ClientSeesOrder
    /\ \A c \in Clients : Owed(c) ~> (~Owed(c) \/ (pc[c] \in {"done", "failed"} /\ HasSender(c)))

=============================================================================
