--------------------------- MODULE MessageRouter ---------------------------
(***************************************************************************)
(* Messages and channels between actors: the router task and the handler   *)
(* of crates/theater-handler-message-server.                               *)
(*                                                                         *)
(* Host functions send a command to the router and wait for its answer.    *)
(* The router puts messages in the mailboxes of registered actors; it does *)
(* so for one command at a time, waits for room in a full mailbox, and for *)
(* OpenChannel waits for the target's decision.  Each registered actor has *)
(* a task that takes messages from its mailbox and calls the actor, whose  *)
(* operation loop does one call at a time.                                 *)
(*                                                                         *)
(* An actor has at most one host function under way, so the command        *)
(* channel (10000) is never full here.                                     *)
(***************************************************************************)
EXTENDS Naturals, Sequences

CONSTANTS
    Actors,    \* the actors
    Chans,     \* bound: the channel ids that may be generated
    HostCalls, \* HostCalls[a]: the host functions the guest of a uses
    MailCap,   \* capacity of a mailbox (100)
    MaxCalls,  \* bound: MaxCalls[a] is the number of host functions a calls
    None       \* no channel, no actor, no message

ASSUME RouterAssumption ==
    /\ HostCalls \in [Actors -> SUBSET {"register", "send", "request", "open", "msg", "close"}]
    /\ MailCap \in Nat \ {0}
    /\ MaxCalls \in [Actors -> Nat]
    /\ None \notin Actors \cup Chans

VARIABLES
    cmds,     \* the router's command channel
    waits,    \* the OpenChannel whose target the router waits for
    openRes,  \* that target's answer
    registry, \* the router's map of actors
    channels, \* the router's map of channels: the open ones
    party,    \* the participants an id was generated for
    box,      \* mailboxes
    ready,    \* actors whose handler's setup() has stored the actor handle
    task,     \* the mailbox tasks: none, starting, recv, call, leave, gone
    opq,      \* messages whose handler call is in the operation channel
    op,       \* what the operation loop is doing
    run,      \* the message being handled; None in any other call
    stopping, \* actors that are being shut down
    joined,   \* is_registered
    seen,     \* history: the channel messages each guest has handled
    calls     \* number of host functions called

actVars == <<opq, op, run, stopping, joined, seen, calls>>
vars    == <<cmds, waits, openRes, registry, channels, party, box, ready, task, actVars>>

Messages == [kind : {"send", "request", "open", "msg", "close"}, from : Actors,
             chan : Chans \cup {None}]
Commands == [op : {"register", "unregister", "send", "request", "open", "msg", "close"},
             by : Actors, to : Actors \cup {None}, chan : Chans \cup {None}]
NoParty == [ini |-> None, tgt |-> None]

TypeOK ==
    /\ cmds \in Seq(Commands)
    /\ waits \in Commands \cup {None}
    /\ openRes \in {"none", "accepted", "rejected", "err"}
    /\ registry \subseteq Actors
    /\ channels \subseteq Chans
    /\ party \in [Chans -> [ini : Actors \cup {None}, tgt : Actors \cup {None}]]
    /\ box \in [Actors -> Seq(Messages)] /\ \A a \in Actors : Len(box[a]) <= MailCap
    /\ ready \subseteq Actors
    /\ task \in [Actors -> {"none", "starting", "recv", "call", "leave", "gone"}]
    /\ opq \in [Actors -> Seq(Messages)]
    /\ op \in [Actors -> {"idle", "guest", "wait", "reply", "dead", "over"}]
    /\ run \in [Actors -> Messages \cup {None}]
    /\ stopping \subseteq Actors
    /\ joined \subseteq Actors
    /\ seen \in [Actors -> Seq(Messages)]
    /\ calls \in [Actors -> Nat] /\ \A a \in Actors : calls[a] <= MaxCalls[a]

Init ==
    /\ cmds = <<>>
    /\ waits = None
    /\ openRes = "none"
    /\ registry = {}
    /\ channels = {}
    /\ party = [c \in Chans |-> NoParty]
    /\ box = [a \in Actors |-> <<>>]
    /\ ready = {}
    /\ task = [a \in Actors |-> "none"]
    /\ opq = [a \in Actors |-> <<>>]
    /\ op = [a \in Actors |-> "idle"]
    /\ run = [a \in Actors |-> None]
    /\ stopping = {}
    /\ joined = {}
    /\ seen = [a \in Actors |-> <<>>]
    /\ calls = [a \in Actors |-> 0]

-----------------------------------------------------------------------------
(* The router task.                                                        *)

\* The answer to a host function, if its call still waits.
Answered(a) == [op EXCEPT ![a] = IF @ = "wait" THEN "guest" ELSE @]

\* The next command, once the router is not waiting for a channel's target.
Next1(o) == waits = None /\ cmds # <<>> /\ Head(cmds).op = o

\* A mailbox can be sent to: its actor is registered and its task holds the
\* receiver.
Reachable(b) == b \in registry /\ task[b] # "gone"

Put(b, m) ==
    /\ Len(box[b]) < MailCap
    /\ box' = [box EXCEPT ![b] = Append(@, m)]

\* RegisterActor; register() then starts the mailbox task.
RouteRegister ==
    LET a == Head(cmds).by IN
    /\ Next1("register")
    /\ cmds' = Tail(cmds)
    /\ registry' = registry \cup {a}
    /\ op' = Answered(a)
    /\ task' = [task EXCEPT ![a] = "recv"]
    /\ UNCHANGED <<ready, waits, openRes, channels, party, box, opq, run, stopping, joined, seen, calls>>

RouteUnregister ==
    /\ Next1("unregister")
    /\ cmds' = Tail(cmds)
    /\ registry' = registry \ {Head(cmds).by}
    /\ UNCHANGED <<ready, waits, openRes, channels, party, box, task, actVars>>

\* Mutant of Recipient: the participants are swapped.
RecipientSwapped(c) ==
    IF c.op \in {"send", "request", "open"} THEN c.to
    ELSE IF c.by = party[c.chan].ini THEN party[c.chan].ini ELSE party[c.chan].tgt

\* Whom a command's message is for: the target it names or, on a channel, the
\* other participant.
Recipient(c) ==
    IF c.op \in {"send", "request", "open"} THEN c.to
    ELSE IF c.by = party[c.chan].ini THEN party[c.chan].tgt ELSE party[c.chan].ini

IsParticipant(c) == c.by \in {party[c.chan].ini, party[c.chan].tgt}

\* The commands the router answers with an error: no such actor or channel, not
\* a participant, or a mailbox whose receiver is gone.
Refused(c) ==
    \/ c.op \in {"send", "request", "open"} /\ ~Reachable(c.to)
    \/ c.op = "msg" /\ (c.chan \notin channels \/ ~IsParticipant(c) \/ ~Reachable(Recipient(c)))
    \/ c.op = "close" /\ (c.chan \notin channels \/ ~IsParticipant(c))

RouteRefused ==
    LET c == Head(cmds) IN
    /\ \E o \in {"send", "request", "open", "msg", "close"} : Next1(o)
    /\ Refused(c)
    /\ cmds' = Tail(cmds)
    /\ channels' = IF c.op = "close" THEN channels \ {c.chan} ELSE channels
    /\ op' = Answered(c.by)
    /\ UNCHANGED <<ready, waits, openRes, registry, party, box, task, opq, run, stopping, joined,
                   seen, calls>>

\* SendMessage.  A request's host function then waits for the response.
RouteSend ==
    LET c == Head(cmds) IN
    /\ Next1("send") \/ Next1("request")
    /\ ~Refused(c)
    /\ Put(c.to, [kind |-> c.op, from |-> c.by, chan |-> None])
    /\ cmds' = Tail(cmds)
    /\ op' = IF c.op = "request" /\ op[c.by] = "wait"
             THEN [op EXCEPT ![c.by] = "reply"] ELSE Answered(c.by)
    /\ UNCHANGED <<ready, waits, openRes, registry, channels, party, task, opq, run, stopping,
                   joined, seen, calls>>

\* OpenChannel: the request goes to the target, and the router waits ...
RouteOpen ==
    LET c == Head(cmds) IN
    /\ Next1("open")
    /\ ~Refused(c)
    /\ Put(c.to, [kind |-> "open", from |-> c.by, chan |-> c.chan])
    /\ cmds' = Tail(cmds)
    /\ waits' = c
    /\ UNCHANGED <<ready, openRes, registry, channels, party, task, actVars>>

\* ... for its answer, and tracks the channel if it was accepted.
RouteOpened ==
    /\ waits # None
    /\ openRes # "none"
    /\ channels' = IF openRes = "accepted" THEN channels \cup {waits.chan} ELSE channels
    /\ op' = Answered(waits.by)
    /\ waits' = None
    /\ openRes' = "none"
    /\ UNCHANGED <<ready, cmds, registry, party, box, task, opq, run, stopping, joined, seen, calls>>

RouteMessage ==
    LET c == Head(cmds) IN
    /\ Next1("msg")
    /\ ~Refused(c)
    /\ Put(Recipient(c), [kind |-> "msg", from |-> c.by, chan |-> c.chan])
    /\ cmds' = Tail(cmds)
    /\ op' = Answered(c.by)
    /\ UNCHANGED <<ready, waits, openRes, registry, channels, party, task, opq, run, stopping,
                   joined, seen, calls>>

\* Mutant of RouteClose: the channel stays in the map.
RouteCloseKeeps ==
    LET c == Head(cmds)
        b == Recipient(c)
    IN
    /\ Next1("close")
    /\ ~Refused(c)
    /\ IF Reachable(b) THEN Put(b, [kind |-> "close", from |-> c.by, chan |-> c.chan])
       ELSE UNCHANGED box
    /\ cmds' = Tail(cmds)
    /\ op' = Answered(c.by)
    /\ UNCHANGED <<ready, waits, openRes, registry, channels, party, task, opq, run, stopping, joined,
                   seen, calls>>

\* ChannelClose: the channel is removed and the other participant told, if it
\* can be.
RouteClose ==
    LET c == Head(cmds)
        b == Recipient(c)
    IN
    /\ Next1("close")
    /\ ~Refused(c)
    /\ channels' = channels \ {c.chan}
    /\ IF Reachable(b) THEN Put(b, [kind |-> "close", from |-> c.by, chan |-> c.chan])
       ELSE UNCHANGED box
    /\ cmds' = Tail(cmds)
    /\ op' = Answered(c.by)
    /\ UNCHANGED <<ready, waits, openRes, registry, party, task, opq, run, stopping, joined,
                   seen, calls>>

RouterNext ==
    \/ RouteRegister \/ RouteUnregister \/ RouteRefused \/ RouteSend \/ RouteOpen
    \/ RouteOpened \/ RouteMessage \/ RouteClose

-----------------------------------------------------------------------------
(* A mailbox task, started by register().                                  *)

\* Take a message and have the actor called with it.
TaskTake(a) ==
    /\ task[a] = "recv"
    /\ box[a] # <<>>
    /\ box' = [box EXCEPT ![a] = Tail(@)]
    /\ opq' = [opq EXCEPT ![a] = Append(@, Head(box[a]))]
    /\ task' = [task EXCEPT ![a] = "call"]
    /\ UNCHANGED <<ready, cmds, waits, openRes, registry, channels, party, op, run, stopping, joined,
                   seen, calls>>

\* What those who wait for messages learn when the messages are given up: a
\* requester gets an empty answer or a closed channel, the router an error.
Release(o, ms) ==
    [x \in Actors |-> IF o[x] = "reply" /\ \E m \in ms : m.kind = "request" /\ m.from = x
                      THEN "guest" ELSE o[x]]
OpenGivenUp(ms) ==
    IF waits # None /\ \E m \in ms : m.kind = "open" /\ m.chan = waits.chan THEN "err" ELSE openRes

\* The last message this task queued: the one its call is about.
Current(a) == IF opq[a] # <<>> THEN opq[a][Len(opq[a])] ELSE run[a]

\* Mutant of TaskGiveUp: the message is dropped with no answer to its sender.
TaskGiveUpSilent(a) ==
    /\ task[a] = "call"
    /\ task' = [task EXCEPT ![a] = "recv"]
    /\ UNCHANGED <<ready, cmds, waits, openRes, registry, channels, party, box, actVars>>

\* call_function fails: its timeout, or the operation loop is gone.  What was
\* queued may still be executed.
TaskGiveUp(a) ==
    LET ms == {Current(a)} \ {None} IN
    /\ task[a] = "call"
    /\ task' = [task EXCEPT ![a] = "recv"]
    /\ op' = Release(op, ms)
    /\ openRes' = OpenGivenUp(ms)
    /\ UNCHANGED <<ready, cmds, waits, registry, channels, party, box, opq, run, stopping, joined,
                   seen, calls>>

\* The shutdown branch of the select.
TaskSignal(a) ==
    /\ task[a] = "recv"
    /\ a \in stopping
    /\ task' = [task EXCEPT ![a] = "leave"]
    /\ UNCHANGED <<ready, cmds, waits, openRes, registry, channels, party, box, actVars>>

\* Unregister; the receiver goes with what is in the mailbox.
TaskLeave(a) ==
    LET ms == {box[a][i] : i \in DOMAIN box[a]} IN
    /\ task[a] = "leave"
    /\ cmds' = Append(cmds, [op |-> "unregister", by |-> a, to |-> None, chan |-> None])
    /\ task' = [task EXCEPT ![a] = "gone"]
    /\ box' = [box EXCEPT ![a] = <<>>]
    /\ op' = Release(op, ms)
    /\ openRes' = OpenGivenUp(ms)
    /\ UNCHANGED <<ready, waits, registry, channels, party, opq, run, stopping, joined, seen, calls>>

TaskNext(a) == TaskTake(a) \/ TaskGiveUp(a) \/ TaskSignal(a) \/ TaskLeave(a)

-----------------------------------------------------------------------------
(* The actors' operation loops (see ActorRuntime).                         *)

\* The handler's own task runs setup().
HandlerSetup(a) ==
    /\ a \notin ready
    /\ ready' = ready \cup {a}
    /\ UNCHANGED <<cmds, waits, openRes, registry, channels, party, box, task, actVars>>

\* A call from elsewhere: init, a timer, another handler.
BeginOwn(a) ==
    /\ op[a] = "idle" /\ a \notin stopping
    /\ calls[a] < MaxCalls[a]
    /\ op' = [op EXCEPT ![a] = "guest"]
    /\ UNCHANGED <<ready, cmds, waits, openRes, registry, channels, party, box, task, opq, run,
                   stopping, joined, seen, calls>>

\* The handler of a message: handle-send, handle-request, handle-channel-open,
\* handle-channel-message, handle-channel-close.
BeginMessage(a) ==
    LET m == Head(opq[a]) IN
    /\ op[a] = "idle" /\ a \notin stopping
    /\ opq[a] # <<>>
    /\ op' = [op EXCEPT ![a] = "guest"]
    /\ run' = [run EXCEPT ![a] = m]
    /\ opq' = [opq EXCEPT ![a] = Tail(@)]
    /\ seen' = IF m.chan # None THEN [seen EXCEPT ![a] = Append(@, m)] ELSE seen
    /\ UNCHANGED <<ready, cmds, waits, openRes, registry, channels, party, box, task, stopping,
                   joined, calls>>

\* A guest uses host function o.
Uses(a, o) ==
    /\ o \in HostCalls[a]
    /\ op[a] = "guest"
    /\ calls[a] < MaxCalls[a]
    /\ calls' = [calls EXCEPT ![a] = @ + 1]

\* Its command is put in the router's channel, and it waits for the answer.
Issue(a, o, b, c) ==
    /\ cmds' = Append(cmds, [op |-> o, by |-> a, to |-> b, chan |-> c])
    /\ op' = [op EXCEPT ![a] = "wait"]

\* register(): fails at once the second time.  Otherwise the mailbox is given to
\* the router; the shutdown receiver is held until the mailbox task has it.
Register(a) ==
    /\ Uses(a, "register")
    /\ a \in ready \ joined
    /\ joined' = joined \cup {a}
    /\ task' = [task EXCEPT ![a] = "starting"]
    /\ Issue(a, "register", None, None)
    /\ UNCHANGED <<ready, waits, openRes, registry, channels, party, box, opq, run, stopping, seen>>

\* register() before setup() has stored the actor handle: it fails, the shutdown
\* receiver is gone and is_registered stays set.
RegisterEarly(a) ==
    /\ Uses(a, "register")
    /\ a \notin ready \cup joined
    /\ joined' = joined \cup {a}
    /\ UNCHANGED <<ready, cmds, waits, openRes, registry, channels, party, box, task, opq, op,
                   run, stopping, seen>>

\* send and request, to any address.
SendTo(a, o, b) ==
    /\ Uses(a, o)
    /\ Issue(a, o, b, None)
    /\ UNCHANGED <<ready, waits, openRes, registry, channels, party, box, task, opq, run,
                   stopping, joined, seen>>

\* open-channel: an id of its own for the two participants.
OpenChannel(a, b, c) ==
    /\ Uses(a, "open")
    /\ party[c] = NoParty
    /\ party' = [party EXCEPT ![c] = [ini |-> a, tgt |-> b]]
    /\ Issue(a, "open", b, c)
    /\ UNCHANGED <<ready, waits, openRes, registry, channels, box, task, opq, run, stopping,
                   joined, seen>>

\* send-on-channel and close-channel, with any id that exists, also by an actor
\* that has no business with it.
UseChannel(a, o, c) ==
    /\ Uses(a, o)
    /\ party[c] # NoParty
    /\ Issue(a, o, None, c)
    /\ UNCHANGED <<ready, waits, openRes, registry, channels, party, box, task, opq, run,
                   stopping, joined, seen>>

\* Is the call that ends the one the mailbox task waits for?
Awaited(a) == run[a] # None /\ opq[a] = <<>> /\ task[a] = "call"

\* The guest returns; the mailbox task answers what the message asked for.
GuestReturn(a, ans) ==
    /\ op[a] = "guest"
    /\ op' = IF Awaited(a) THEN Release([op EXCEPT ![a] = "idle"], {run[a]})
             ELSE [op EXCEPT ![a] = "idle"]
    /\ openRes' = IF Awaited(a) /\ run[a].kind = "open" THEN ans ELSE openRes
    /\ task' = IF Awaited(a) THEN [task EXCEPT ![a] = "recv"] ELSE task
    /\ run' = [run EXCEPT ![a] = None]
    /\ UNCHANGED <<ready, cmds, waits, registry, channels, party, box, opq, stopping, joined,
                   seen, calls>>

\* The guest traps: the call fails and the actor is paused for good.
GuestTrap(a) ==
    /\ op[a] = "guest"
    /\ op' = IF Awaited(a) THEN Release([op EXCEPT ![a] = "dead"], {run[a]})
             ELSE [op EXCEPT ![a] = "dead"]
    /\ openRes' = IF Awaited(a) /\ run[a].kind = "open" THEN "err" ELSE openRes
    /\ task' = IF Awaited(a) THEN [task EXCEPT ![a] = "recv"] ELSE task
    /\ run' = [run EXCEPT ![a] = None]
    /\ UNCHANGED <<ready, cmds, waits, registry, channels, party, box, opq, stopping, joined,
                   seen, calls>>

\* Shutdown is sent to the actor.
StopActor(a) ==
    /\ a \notin stopping
    /\ stopping' = stopping \cup {a}
    /\ UNCHANGED <<ready, cmds, waits, openRes, registry, channels, party, box, task, opq, op, run,
                   joined, seen, calls>>

\* operation_loop ends: by itself when it is idle; otherwise, once the mailbox
\* task (or register(), which holds its receiver) has dropped the signal, by
\* an abort.  A task that waits for a queued call learns it from TaskGiveUp.
OpEnds(a) ==
    /\ a \in stopping
    /\ \/ op[a] = "idle"
       \/ /\ op[a] \in {"wait", "reply", "dead"}
          /\ task[a] \in {"none", "leave", "gone"}
    /\ op' = [op EXCEPT ![a] = "over"]
    /\ UNCHANGED <<ready, cmds, waits, openRes, registry, channels, party, box, task, opq, run,
                   stopping, joined, seen, calls>>

ActorNext(a) ==
    \/ HandlerSetup(a) \/ BeginOwn(a) \/ BeginMessage(a)
    \/ Register(a) \/ RegisterEarly(a)
    \/ \E o \in {"send", "request"}, b \in Actors : SendTo(a, o, b)
    \/ \E b \in Actors, c \in Chans : OpenChannel(a, b, c)
    \/ \E o \in {"msg", "close"}, c \in Chans : UseChannel(a, o, c)
    \/ \E ans \in {"accepted", "rejected"} : GuestReturn(a, ans)
    \/ GuestTrap(a) \/ StopActor(a) \/ OpEnds(a)

Next == RouterNext \/ \E a \in Actors : TaskNext(a) \/ ActorNext(a)

Spec == Init /\ [][Next]_vars

\* The router and the mailbox tasks are run, the timeout of a handler call
\* fires, and guests return.
Fairness ==
    /\ WF_vars(RouterNext)
    /\ \A a \in Actors :
           /\ WF_vars(TaskNext(a))
           /\ WF_vars(\E ans \in {"accepted", "rejected"} : GuestReturn(a, ans))

LiveSpec == Spec /\ Fairness

-----------------------------------------------------------------------------
(* Properties.                                                             *)

\* A guest sees a channel as a conversation: the target handles the request to
\* open it before anything else on it, nobody is asked twice, and nothing is
\* handled after the close, although messages pass through the router, a
\* mailbox, a task that may give up and the operation queue.
ChannelOrder ==
    /\ TypeOK
    /\ \A a \in Actors : \A i \in DOMAIN seen[a] :
        LET m == seen[a][i]
            Others(is) == \A j \in is : seen[a][j].chan # m.chan
        IN
        /\ m.kind = "open" <=> a = party[m.chan].tgt /\ Others(1 .. i - 1)
        /\ m.kind = "close" => Others(i + 1 .. Len(seen[a]))

\* What is said on a channel reaches only its participants, and each only from
\* the other.
ChannelPrivate ==
    \A a \in Actors : \A i \in DOMAIN seen[a] :
        LET m == seen[a][i]
            p == party[m.chan]
        IN  <<m.from, a>> \in {<<p.ini, p.tgt>>, <<p.tgt, p.ini>>}

\* Every host function that waits for the router or for the answer to a request
\* comes back, also among actors that wait for each other: the mailbox task's
\* timeout answers for an actor that cannot.
HostCallsReturn == \A a \in Actors : (op[a] \in {"wait", "reply"}) ~> (op[a] \notin {"wait", "reply"})

\* An actor whose mailbox task has ended is taken out of the router's map.
Unregistered == \A a \in Actors : (task[a] = "gone") ~> (a \notin registry)

\* The router serves every actor and forgets those that have ended, although it
\* waits in its own loop for mailboxes and for answers to channel requests.
RouterServes == HostCallsReturn /\ Unregistered

=============================================================================
