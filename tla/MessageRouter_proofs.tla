------------------------ MODULE MessageRouter_proofs ------------------------
(***************************************************************************)
(* Proofs about MessageRouter: what ChannelOrder and ChannelPrivate say of *)
(* the messages a guest has handled holds of all messages on their way to  *)
(* it, in the order in which it will handle them, whatever actors and      *)
(* channels there are.                                                     *)
(***************************************************************************)
EXTENDS MessageRouter, SequenceTheorems, TLAPS

\* The channel messages a guest has handled and, behind them, all messages on their
\* way to it: in the operation queue and in the mailbox.
Line(a) == seen[a] \o opq[a] \o box[a]

\* Some message of w is on channel c; one of kind k.
Mentions(w, c) == \E i \in 1..Len(w) : w[i].chan = c
Holds(w, c, k) == \E i \in 1..Len(w) : w[i].chan = c /\ w[i].kind = k

\* Who may write to whom on a channel with participants p.
Members(p) == {<<p.ini, p.tgt>>, <<p.tgt, p.ini>>}

\* Each channel message in w, the line of a, is from the other participant.
Addressed(w, a, par) ==
    \A i \in 1..Len(w) : w[i].chan # None => <<w[i].from, a>> \in Members(par[w[i].chan])

\* On a channel nothing comes before an open and nothing after a close.
InTurn(w) ==
    \A i, j \in 1..Len(w) : i < j /\ w[i].chan = w[j].chan /\ w[i].chan # None
                                => w[i].kind # "close" /\ w[j].kind # "open"

\* An open is for the target, and comes before whatever else the target gets.
OpenFirst(w, a, par) ==
    \A i \in 1..Len(w) : w[i].chan # None =>
        /\ w[i].kind = "open" => a = par[w[i].chan].tgt
        /\ w[i].kind # "open" /\ a = par[w[i].chan].tgt =>
             \E j \in 1..Len(w) : j < i /\ w[j].chan = w[i].chan /\ w[j].kind = "open"

\* What ChannelOrder and ChannelPrivate say of the messages handled, said of the whole
\* line: only so does it survive the next step.
Conversations ==
    \A a \in Actors :
        /\ Addressed(Line(a), a, party) /\ InTurn(Line(a)) /\ OpenFirst(Line(a), a, party)
        /\ \A i \in 1..Len(seen[a]) : seen[a][i].chan # None

\* A channel id has both participants or none.
Paired == \A c \in Chans : party[c] = NoParty \/ {party[c].ini, party[c].tgt} \subseteq Actors

\* A channel for which an OpenChannel command is queued is new: nothing has been said
\* on it, it is not in the map, and no other such command is queued.
Asked ==
    /\ waits # None => waits.chan \in Chans
    /\ \A i \in 1..Len(cmds) : cmds[i].op = "open" =>
        LET c == cmds[i].chan IN
        /\ c \in Chans
        /\ party[c] = [ini |-> cmds[i].by, tgt |-> cmds[i].to]
        /\ c \notin channels
        /\ waits # None => waits.chan # c
        /\ \A a \in Actors : ~Mentions(Line(a), c)
        /\ \A j \in 1..Len(cmds) : j # i /\ cmds[j].op = "open" => cmds[j].chan # c

\* Channel c is in the router's map, or the router waits for the answer of its target.
InUse(c) == c \in channels \/ (waits # None /\ waits.chan = c)

\* On a channel in use no close has been sent, and the open is in the target's line,
\* unless the target's mailbox is gone, and then nothing can be sent to it any more.
Tracked ==
    \A c \in Chans : InUse(c) =>
        /\ party[c] # NoParty
        /\ \A a \in Actors :
              /\ ~Holds(Line(a), c, "close")
              /\ a = party[c].tgt => task[a] = "gone" \/ Holds(Line(a), c, "open")

\* An actor registers once, and its mailbox task begins only then: an ended one stays so.
Registering ==
    /\ \A a \in Actors : a \notin joined => task[a] = "none"
    /\ \A i \in 1..Len(cmds) : cmds[i].op = "register" =>
        /\ cmds[i].by \in joined
        /\ task[cmds[i].by] = "starting"
        /\ \A j \in 1..Len(cmds) : j # i /\ cmds[j].op = "register" => cmds[j].by # cmds[i].by

\* The inductive invariant.
RouterInv ==
    TypeOK /\ Conversations /\ Paired /\ Asked /\ Tracked /\ Registering

-----------------------------------------------------------------------------
(* Types.                                                                  *)

\* The next command, and those behind it.
LEMMA HeadIsCommand ==
    ASSUME TypeOK, cmds # <<>>
    PROVE  /\ Head(cmds) \in Commands /\ Head(cmds) = cmds[1] /\ Tail(cmds) \in Seq(Commands)
           /\ Head(cmds).by \in Actors
           /\ Len(cmds) \in Nat \ {0} /\ Len(Tail(cmds)) = Len(cmds) - 1
           /\ \A i \in 1..Len(Tail(cmds)) : Tail(cmds)[i] = cmds[i + 1] /\ i + 1 \in 1..Len(cmds)
<1>1. cmds \in Seq(Commands)
  BY DEF TypeOK
<1> HIDE DEF TypeOK
<1>2. Head(cmds) \in Commands
  BY <1>1
<1> QED
  BY <1>1, <1>2 DEF Commands

\* A message is put in one mailbox.
LEMMA PutTypes ==
    ASSUME TypeOK, NEW b \in Actors, NEW m \in Messages, Put(b, m)
    PROVE  /\ box' \in [Actors -> Seq(Messages)]
           /\ \A a \in Actors : Len(box'[a]) <= MailCap
           /\ \A a \in Actors : box'[a] = IF a = b THEN Append(box[b], m) ELSE box[a]
  BY RouterAssumption DEF TypeOK, Put

\* The states of an operation loop.
Ops == {"idle", "guest", "wait", "reply", "dead", "over"}

\* Loops are released and set to one of these states.
LEMMA OpTypes ==
    ASSUME NEW o \in [Actors -> Ops]
    PROVE  /\ \A ms : Release(o, ms) \in [Actors -> Ops]
           /\ \A a \in Actors, p \in Ops : [o EXCEPT ![a] = p] \in [Actors -> Ops]
<1>1. \A ms : Release(o, ms) \in [Actors -> Ops]
  BY DEF Release, Ops
<1> QED
  BY <1>1

\* So does an answer to a host function.
LEMMA AnsweredType ==
    ASSUME TypeOK, NEW a \in Actors PROVE Answered(a) \in [Actors -> Ops]
  BY DEF TypeOK, Answered, Ops

\* Whom a command that is not refused is for.
LEMMA RecipientIs ==
    ASSUME TypeOK, NEW c \in Commands, ~Refused(c)
    PROVE  /\ c.op \in {"send", "request", "open"} =>
                 c.to \in Actors /\ Recipient(c) = c.to /\ Reachable(c.to)
           /\ c.op \in {"msg", "close"} =>
                 /\ c.chan \in channels /\ c.chan \in Chans /\ c.chan # None
                 /\ <<c.by, Recipient(c)>> \in Members(party[c.chan])
           /\ c.op = "msg" => Reachable(Recipient(c))
           /\ Reachable(Recipient(c)) => Recipient(c) \in Actors /\ task[Recipient(c)] # "gone"
           /\ c.by \in Actors
  BY RouterAssumption DEF TypeOK, Refused, Recipient, Reachable, Commands, IsParticipant, Members

\* What a command sends is a message.
LEMMA MessageTypes ==
    ASSUME TypeOK, NEW c \in Commands
    PROVE  /\ c.op \in {"send", "request"} =>
                 [kind |-> c.op, from |-> c.by, chan |-> None] \in Messages
           /\ \A k \in {"open", "msg", "close"} :
                 [kind |-> k, from |-> c.by, chan |-> c.chan] \in Messages
  BY DEF Commands, Messages

\* The router keeps the types.
LEMMA RouterTypes ==
    ASSUME TypeOK, Asked, RouterNext PROVE TypeOK'
<1>1. cmds # <<>> \/ RouteOpened
  BY DEF RouterNext, RouteRegister, RouteUnregister, RouteRefused, RouteSend, RouteOpen,
         RouteMessage,
         RouteClose, Next1
<1>2. CASE RouteOpened
  <2>1. waits \in Commands
    BY <1>2 DEF RouteOpened, TypeOK
  <2>2. waits.by \in Actors /\ waits.chan \in Chans
    BY <1>2, <2>1 DEF Commands, Asked, RouteOpened
  <2>3. op' \in [Actors -> Ops]
    BY <1>2, <2>2, AnsweredType DEF RouteOpened
  <2> QED
    BY <1>2, <2>2, <2>3 DEF RouteOpened, TypeOK, Ops
<1>3. ASSUME cmds # <<>> PROVE TypeOK'
  <2>1. /\ Head(cmds) \in Commands /\ Tail(cmds) \in Seq(Commands) /\ Head(cmds).by \in Actors
    BY <1>3, HeadIsCommand
  <2>2. Answered(Head(cmds).by) \in [Actors -> Ops]
    BY <2>1, AnsweredType
  <2>3. CASE RouteRegister
    BY <2>1, <2>2, <2>3 DEF RouteRegister, TypeOK, Ops
  <2>4. CASE RouteUnregister
    BY <2>1, <2>2, <2>4 DEF RouteUnregister, TypeOK, Ops, actVars
  <2>5. CASE RouteRefused
    BY <2>1, <2>2, <2>5 DEF RouteRefused, TypeOK, Ops
  <2>6. CASE RouteSend
    <3>1. Head(cmds).op \in {"send", "request"} /\ Head(cmds).to \in Actors
      BY <2>1, <2>6, RecipientIs DEF RouteSend, Next1
    <3>2. box' \in [Actors -> Seq(Messages)] /\ \A a \in Actors : Len(box'[a]) <= MailCap
      BY <3>1, <2>1, <2>6, PutTypes, MessageTypes DEF RouteSend
    <3>3. op' \in [Actors -> Ops]
      BY <2>1, <2>2, <2>6, OpTypes DEF RouteSend, Ops, TypeOK
    <3> QED
      BY <2>1, <2>6, <3>2, <3>3 DEF RouteSend, TypeOK, Ops
  <2>7. CASE RouteOpen
    <3>1. Head(cmds).op = "open" /\ Head(cmds).to \in Actors
      BY <2>1, <2>7, RecipientIs DEF RouteOpen, Next1
    <3>2. box' \in [Actors -> Seq(Messages)] /\ \A a \in Actors : Len(box'[a]) <= MailCap
      BY <3>1, <2>1, <2>7, PutTypes, MessageTypes DEF RouteOpen
    <3> QED
      BY <2>1, <2>7, <3>2 DEF RouteOpen, TypeOK, Ops, actVars
  <2>8. CASE RouteMessage
    <3>1. Head(cmds).op = "msg" /\ Recipient(Head(cmds)) \in Actors
      BY <2>1, <2>8, RecipientIs DEF RouteMessage, Next1
    <3>2. box' \in [Actors -> Seq(Messages)] /\ \A a \in Actors : Len(box'[a]) <= MailCap
      BY <3>1, <2>1, <2>8, PutTypes, MessageTypes DEF RouteMessage
    <3> QED
      BY <2>1, <2>2, <2>8, <3>2 DEF RouteMessage, TypeOK, Ops
  <2>9. CASE RouteClose
    <3>1. /\ Head(cmds).op = "close"
          /\ Reachable(Recipient(Head(cmds))) => Recipient(Head(cmds)) \in Actors
      BY <2>1, <2>9, RecipientIs DEF RouteClose, Next1
    <3>2. box' \in [Actors -> Seq(Messages)] /\ \A a \in Actors : Len(box'[a]) <= MailCap
      <4>1. CASE Reachable(Recipient(Head(cmds)))
        BY <3>1, <2>1, <2>9, <4>1, PutTypes, MessageTypes DEF RouteClose
      <4>2. CASE box' = box
        BY <4>2 DEF TypeOK
      <4> QED
        BY <4>1, <4>2, <2>9 DEF RouteClose
    <3> QED
      BY <2>1, <2>2, <2>9, <3>2 DEF RouteClose, TypeOK, Ops
  <2> QED
    BY <2>3, <2>4, <2>5, <2>6, <2>7, <2>8, <2>9, <1>2 DEF RouterNext
<1> QED
  BY <1>1, <1>2, <1>3

\* Adding to and taking from one of the actors' queues.
LEMMA Queued ==
    ASSUME NEW S, NEW q \in [Actors -> Seq(S)], NEW a \in Actors
    PROVE  /\ \A m \in S : [q EXCEPT ![a] = Append(@, m)] \in [Actors -> Seq(S)]
           /\ q[a] # <<>> => Head(q[a]) \in S /\ [q EXCEPT ![a] = Tail(@)] \in [Actors -> Seq(S)]
           /\ q[a] # <<>> => Len(Tail(q[a])) = Len(q[a]) - 1
           /\ Len(q[a]) \in Nat
  OBVIOUS

\* The mailbox tasks keep the types.
LEMMA TaskTypes ==
    ASSUME TypeOK, NEW a \in Actors, TaskNext(a) PROVE TypeOK'
<1>0. \A ms : OpenGivenUp(ms) \in {"none", "accepted", "rejected", "err"}
  BY DEF TypeOK, OpenGivenUp
<1>1. CASE TaskTake(a)
  <2>1. Head(box[a]) \in Messages /\ box' \in [Actors -> Seq(Messages)]
        /\ opq' \in [Actors -> Seq(Messages)] /\ Len(box'[a]) <= Len(box[a])
        /\ Len(box'[a]) \in Nat /\ Len(box[a]) \in Nat
    BY <1>1, Queued DEF TaskTake, TypeOK
  <2>2. \A x \in Actors : Len(box'[x]) <= MailCap
    BY <1>1, <2>1, RouterAssumption DEF TaskTake, TypeOK
  <2> QED
    BY <1>1, <2>1, <2>2 DEF TaskTake, TypeOK
<1>2. CASE TaskGiveUp(a)
  <2>1. op' \in [Actors -> Ops]
    BY <1>2, OpTypes DEF TaskGiveUp, TypeOK, Ops
  <2> QED
    BY <1>0, <1>2, <2>1 DEF TaskGiveUp, TypeOK, Ops
<1>3. CASE TaskSignal(a)
  BY <1>3 DEF TaskSignal, TypeOK, actVars
<1>4. CASE TaskLeave(a)
  <2>1. op' \in [Actors -> Ops]
    BY <1>4, OpTypes DEF TaskLeave, TypeOK, Ops
  <2>2. cmds' \in Seq(Commands)
    BY <1>4 DEF TaskLeave, TypeOK, Commands
  <2>3. box' \in [Actors -> Seq(Messages)] /\ \A x \in Actors : Len(box'[x]) <= MailCap
    BY <1>4, RouterAssumption DEF TaskLeave, TypeOK
  <2> QED
    BY <1>0, <1>4, <2>1, <2>2, <2>3 DEF TaskLeave, TypeOK, Ops
<1> QED
  BY <1>1, <1>2, <1>3, <1>4 DEF TaskNext

\* A host function is counted.
LEMMA UsesTypes ==
    ASSUME TypeOK, NEW a \in Actors, NEW o, Uses(a, o)
    PROVE  calls' \in [Actors -> Nat] /\ \A x \in Actors : calls'[x] <= MaxCalls[x]
<1>1. calls \in [Actors -> Nat] /\ calls[a] < MaxCalls[a] /\ MaxCalls[a] \in Nat
  BY RouterAssumption DEF TypeOK, Uses
<1>2. calls' = [calls EXCEPT ![a] = calls[a] + 1] /\ calls[a] + 1 <= MaxCalls[a]
  BY <1>1 DEF Uses
<1>3. \A x \in Actors : calls[x] <= MaxCalls[x]
  BY DEF TypeOK
<1> HIDE DEF TypeOK
<1> QED
  BY <1>1, <1>2, <1>3

\* A host function's command comes last.
LEMMA IssueTypes ==
    ASSUME TypeOK, NEW a \in Actors, NEW b \in Actors \cup {None}, NEW c \in Chans \cup {None},
           NEW o, o \in {"register", "unregister", "send", "request", "open", "msg", "close"},
           Issue(a, o, b, c)
    PROVE  /\ cmds' \in Seq(Commands) /\ op' \in [Actors -> Ops]
           /\ [op |-> o, by |-> a, to |-> b, chan |-> c] \in Commands
           /\ Len(cmds') = Len(cmds) + 1 /\ Len(cmds) \in Nat
           /\ cmds'[Len(cmds) + 1] = [op |-> o, by |-> a, to |-> b, chan |-> c]
           /\ \A i \in 1..Len(cmds) : cmds'[i] = cmds[i]
<1>1. [op |-> o, by |-> a, to |-> b, chan |-> c] \in Commands
  BY DEF Commands
<1>2. op' \in [Actors -> Ops]
  BY OpTypes DEF Issue, TypeOK, Ops
<1>3. cmds \in Seq(Commands) /\ cmds' = Append(cmds, [op |-> o, by |-> a, to |-> b, chan |-> c])
  BY DEF TypeOK, Issue
<1> HIDE DEF TypeOK
<1> QED
  BY <1>1, <1>2, <1>3, AppendProperties

\* The actors' operation loops keep the types.
LEMMA ActorTypes ==
    ASSUME TypeOK, NEW a \in Actors, ActorNext(a) PROVE TypeOK'
<1>0. None \in Actors \cup {None} /\ None \in Chans \cup {None}
  OBVIOUS
<1>1. CASE HandlerSetup(a)
  BY <1>1 DEF HandlerSetup, TypeOK, actVars
<1>2. CASE BeginOwn(a)
  BY <1>2 DEF BeginOwn, TypeOK
<1>3. CASE BeginMessage(a)
  <2>1. Head(opq[a]) \in Messages /\ opq' \in [Actors -> Seq(Messages)]
    BY <1>3, Queued DEF BeginMessage, TypeOK
  <2>2. seen' \in [Actors -> Seq(Messages)]
    BY <1>3, <2>1, Queued DEF BeginMessage, TypeOK
  <2> QED
    BY <1>3, <2>1, <2>2 DEF BeginMessage, TypeOK
<1>4. CASE Register(a)
  <2>1. cmds' \in Seq(Commands) /\ op' \in [Actors -> Ops]
    BY <1>0, <1>4, IssueTypes DEF Register
  <2>2. calls' \in [Actors -> Nat] /\ \A x \in Actors : calls'[x] <= MaxCalls[x]
    BY <1>4, UsesTypes DEF Register
  <2> QED
    BY <1>4, <2>1, <2>2 DEF Register, TypeOK, Ops
<1>5. CASE RegisterEarly(a)
  <2>2. calls' \in [Actors -> Nat] /\ \A x \in Actors : calls'[x] <= MaxCalls[x]
    BY <1>5, UsesTypes DEF RegisterEarly
  <2> QED
    BY <1>5, <2>2 DEF RegisterEarly, TypeOK
<1>6. ASSUME NEW o \in {"send", "request"}, NEW b \in Actors, SendTo(a, o, b) PROVE TypeOK'
  <2>1. cmds' \in Seq(Commands) /\ op' \in [Actors -> Ops]
    BY <1>0, <1>6, IssueTypes DEF SendTo
  <2>2. calls' \in [Actors -> Nat] /\ \A x \in Actors : calls'[x] <= MaxCalls[x]
    BY <1>6, UsesTypes DEF SendTo
  <2> QED
    BY <1>6, <2>1, <2>2 DEF SendTo, TypeOK, Ops
<1>7. ASSUME NEW b \in Actors, NEW c \in Chans, OpenChannel(a, b, c) PROVE TypeOK'
  <2>1. cmds' \in Seq(Commands) /\ op' \in [Actors -> Ops]
    BY <1>7, IssueTypes DEF OpenChannel
  <2>2. calls' \in [Actors -> Nat] /\ \A x \in Actors : calls'[x] <= MaxCalls[x]
    BY <1>7, UsesTypes DEF OpenChannel
  <2> QED
    BY <1>7, <2>1, <2>2 DEF OpenChannel, TypeOK, Ops
<1>8. ASSUME NEW o \in {"msg", "close"}, NEW c \in Chans, UseChannel(a, o, c) PROVE TypeOK'
  <2>1. cmds' \in Seq(Commands) /\ op' \in [Actors -> Ops]
    BY <1>0, <1>8, IssueTypes DEF UseChannel
  <2>2. calls' \in [Actors -> Nat] /\ \A x \in Actors : calls'[x] <= MaxCalls[x]
    BY <1>8, UsesTypes DEF UseChannel
  <2> QED
    BY <1>8, <2>1, <2>2 DEF UseChannel, TypeOK, Ops
<1>9. ASSUME NEW ans \in {"accepted", "rejected"}, GuestReturn(a, ans) PROVE TypeOK'
  <2>1. op' \in [Actors -> Ops]
    BY <1>9, OpTypes DEF GuestReturn, TypeOK, Ops
  <2> QED
    BY <1>9, <2>1 DEF GuestReturn, TypeOK, Ops
<1>10. CASE GuestTrap(a)
  <2>1. op' \in [Actors -> Ops]
    BY <1>10, OpTypes DEF GuestTrap, TypeOK, Ops
  <2> QED
    BY <1>10, <2>1 DEF GuestTrap, TypeOK, Ops
<1>11. CASE StopActor(a)
  BY <1>11 DEF StopActor, TypeOK
<1>12. CASE OpEnds(a)
  BY <1>12 DEF OpEnds, TypeOK
<1> QED
  BY <1>1, <1>2, <1>3, <1>4, <1>5, <1>6, <1>7, <1>8, <1>9, <1>10, <1>11, <1>12 DEF ActorNext

\* Every step keeps the types.
LEMMA TypeStep == TypeOK /\ Asked /\ [Next]_vars => TypeOK'
<1>1. ASSUME TypeOK, UNCHANGED vars PROVE TypeOK'
  BY <1>1 DEF vars, actVars, TypeOK
<1> QED
  BY <1>1, RouterTypes, TaskTypes, ActorTypes DEF Next

-----------------------------------------------------------------------------
(* Lines and what steps do to them.                                        *)

\* v is w without some of its messages: what is left keeps its order, and of what comes
\* before something left only messages on no channel are missing.
Thinned(v, w) ==
    \E f \in [1..Len(v) -> 1..Len(w)] :
        /\ \A i \in 1..Len(v) : v[i] = w[f[i]]
        /\ \A i, j \in 1..Len(v) : i < j => f[i] < f[j]
        /\ \A i \in 1..Len(v), k \in 1..Len(w) :
              k < f[i] /\ w[k].chan # None => \E j \in 1..Len(v) : j < i /\ f[j] = k

\* No open is missing.
Kept(v, w) == \A c \in Chans : Holds(w, c, "open") => Holds(v, c, "open")

\* A line has three parts ...
LEMMA Concatenated ==
    ASSUME NEW S, NEW s \in Seq(S), NEW t \in Seq(S), NEW u \in Seq(S)
    PROVE  /\ s \o t \o u \in Seq(S)
           /\ Len(s \o t \o u) = Len(s) + Len(t) + Len(u)
           /\ \A i \in 1..Len(s) : (s \o t \o u)[i] = s[i]
           /\ \A i \in 1..Len(t) : (s \o t \o u)[Len(s) + i] = t[i]
           /\ \A i \in 1..Len(u) : (s \o t \o u)[Len(s) + Len(t) + i] = u[i]
           /\ Len(s) \in Nat /\ Len(t) \in Nat /\ Len(u) \in Nat
<1>1. s \o t \in Seq(S) /\ Len(s \o t) = Len(s) + Len(t)
  OBVIOUS
<1>2. /\ Len(s) \in Nat /\ Len(t) \in Nat /\ Len(u) \in Nat
  OBVIOUS
<1>3. /\ s \o t \o u \in Seq(S)
      /\ Len(s \o t \o u) = Len(s) + Len(t) + Len(u)
  BY <1>1
<1>4. \A i \in 1..Len(s) : (s \o t)[i] = s[i]
  OBVIOUS
<1>5. \A i \in 1..Len(t) : (s \o t)[Len(s) + i] = t[i]
  OBVIOUS
<1>6. \A i \in 1..Len(s \o t) : (s \o t \o u)[i] = (s \o t)[i]
  BY <1>1
<1>7. \A i \in 1..Len(u) : (s \o t \o u)[Len(s) + Len(t) + i] = u[i]
  BY <1>1
<1> QED
  BY <1>1, <1>2, <1>3, <1>4, <1>5, <1>6, <1>7

\* ... and each of its messages is in one of them.
LEMMA Parts ==
    ASSUME NEW S, NEW s \in Seq(S), NEW t \in Seq(S), NEW u \in Seq(S),
           NEW i \in 1..Len(s \o t \o u)
    PROVE  (s \o t \o u)[i] = IF i <= Len(s) THEN s[i]
                              ELSE IF i <= Len(s) + Len(t) THEN t[i - Len(s)]
                              ELSE u[i - Len(s) - Len(t)]
<1>1. /\ Len(s \o t \o u) = Len(s) + Len(t) + Len(u)
      /\ Len(s) \in Nat /\ Len(t) \in Nat /\ Len(u) \in Nat
  BY Concatenated
<1>2. CASE i <= Len(s)
  BY <1>1, <1>2, Concatenated
<1>3. CASE i > Len(s) /\ i <= Len(s) + Len(t)
  <2>1. i - Len(s) \in 1..Len(t) /\ Len(s) + (i - Len(s)) = i
    BY <1>1, <1>3
  <2>2. (s \o t \o u)[Len(s) + (i - Len(s))] = t[i - Len(s)]
    BY <2>1, Concatenated
  <2> QED
    BY <1>1, <1>3, <2>1, <2>2
<1>4. CASE i > Len(s) + Len(t)
  <2>1. i - Len(s) - Len(t) \in 1..Len(u) /\ Len(s) + Len(t) + (i - Len(s) - Len(t)) = i
    BY <1>1, <1>4
  <2>2. (s \o t \o u)[Len(s) + Len(t) + (i - Len(s) - Len(t))] = u[i - Len(s) - Len(t)]
    BY <2>1, Concatenated, SMTT(30)
  <2> QED
    BY <1>1, <1>4, <2>1, <2>2
<1> QED
  BY <1>1, <1>2, <1>3, <1>4

\* A sequence that is not empty is its head and its tail.
LEMMA HeadTail ==
    ASSUME NEW S, NEW s \in Seq(S), s # <<>>
    PROVE  /\ Head(s) \in S /\ Head(s) = s[1] /\ Tail(s) \in Seq(S)
           /\ Len(s) \in Nat \ {0} /\ Len(Tail(s)) = Len(s) - 1
           /\ \A i \in 1..Len(Tail(s)) : Tail(s)[i] = s[i + 1]
  OBVIOUS

\* A message that moves from the mailbox to the operation queue stays where it is in the
\* line ...
LEMMA TakenOver ==
    ASSUME NEW s \in Seq(Messages), NEW t \in Seq(Messages), NEW u \in Seq(Messages), u # <<>>
    PROVE  s \o Append(t, Head(u)) \o Tail(u) = s \o t \o u
<1> DEFINE t2 == Append(t, Head(u))
           u2 == Tail(u)
<1>1. /\ t2 \in Seq(Messages) /\ Len(t2) = Len(t) + 1 /\ t2[Len(t) + 1] = u[1]
      /\ \A i \in 1..Len(t) : t2[i] = t[i]
  BY HeadTail, AppendProperties
<1>2. /\ u2 \in Seq(Messages) /\ Len(u) \in Nat \ {0} /\ Len(u2) = Len(u) - 1
      /\ \A i \in 1..Len(u2) : u2[i] = u[i + 1]
  BY HeadTail
<1>3. Len(s) \in Nat /\ Len(t) \in Nat
  OBVIOUS
<1> HIDE DEF t2, u2
<1>8. s \o t2 \o u2 \in Seq(Messages) /\ Len(s \o t2 \o u2) = Len(s) + Len(t2) + Len(u2)
  <2>1. t2 \in Seq(Messages) /\ u2 \in Seq(Messages)
    BY <1>1, <1>2
  <2> QED
    BY <2>1, Concatenated
<1>9. s \o t \o u \in Seq(Messages) /\ Len(s \o t \o u) = Len(s) + Len(t) + Len(u)
  BY Concatenated
<1>4. Len(u2) \in Nat
  BY <1>2
<1>5. Len(s \o t2 \o u2) = Len(s \o t \o u)
  BY <1>1, <1>2, <1>3, <1>8, <1>9
<1>6. ASSUME NEW i \in 1..Len(s \o t2 \o u2) PROVE (s \o t2 \o u2)[i] = (s \o t \o u)[i]
  <2>1. (s \o t2 \o u2)[i] = IF i <= Len(s) THEN s[i]
                             ELSE IF i <= Len(s) + Len(t2) THEN t2[i - Len(s)]
                             ELSE u2[i - Len(s) - Len(t2)]
    BY <1>1, <1>2, Parts, SMTT(30)
  <2>2. (s \o t \o u)[i] = IF i <= Len(s) THEN s[i]
                           ELSE IF i <= Len(s) + Len(t) THEN t[i - Len(s)]
                           ELSE u[i - Len(s) - Len(t)]
    BY <1>5, Parts
  <2>3. CASE i <= Len(s)
    BY <2>1, <2>2, <2>3
  <2>4. CASE i > Len(s) /\ i <= Len(s) + Len(t)
    <3>1. i - Len(s) \in 1..Len(t) /\ i <= Len(s) + Len(t2)
      BY <1>1, <1>3, <2>4
    <3> QED
      BY <2>1, <2>2, <2>4, <3>1, <1>1, <1>3
  <2>5. CASE i = Len(s) + Len(t) + 1
    BY <2>1, <2>2, <2>5, <1>1, <1>3
  <2>6. CASE i > Len(s) + Len(t) + 1
    <3>1. i - Len(s) - Len(t2) \in 1..Len(u2) /\ (i - Len(s) - Len(t2)) + 1 = i - Len(s) - Len(t)
      BY <1>1, <1>3, <1>4, <1>8, <2>6
    <3>2. ~(i <= Len(s)) /\ ~(i <= Len(s) + Len(t)) /\ ~(i <= Len(s) + Len(t2))
      BY <1>1, <1>3, <2>6
    <3> QED
      BY <2>1, <2>2, <3>1, <3>2, <1>2
  <2>7. i \in Nat
    BY <1>3, <1>4, <1>8
  <2>8. \/ i <= Len(s)
        \/ i > Len(s) /\ i <= Len(s) + Len(t)
        \/ i = Len(s) + Len(t) + 1
        \/ i > Len(s) + Len(t) + 1
    BY <2>7, <1>3
  <2> QED
    BY <2>3, <2>4, <2>5, <2>6, <2>8, Zenon
<1>7. s \o t2 \o u2 = s \o t \o u
  BY <1>8, <1>9, <1>5, <1>6, SeqEqual
<1> QED
  BY <1>7 DEF t2, u2

\* ... and so does one that is then handled.
LEMMA Handled ==
    ASSUME NEW s \in Seq(Messages), NEW t \in Seq(Messages), NEW u \in Seq(Messages), t # <<>>
    PROVE  Append(s, Head(t)) \o Tail(t) \o u = s \o t \o u
<1> DEFINE s2 == Append(s, Head(t))
           t2 == Tail(t)
<1>1. /\ s2 \in Seq(Messages) /\ Len(s2) = Len(s) + 1 /\ s2[Len(s) + 1] = t[1]
      /\ \A i \in 1..Len(s) : s2[i] = s[i]
  BY HeadTail, AppendProperties
<1>2. /\ t2 \in Seq(Messages) /\ Len(t) \in Nat \ {0} /\ Len(t2) = Len(t) - 1
      /\ \A i \in 1..Len(t2) : t2[i] = t[i + 1]
  BY HeadTail
<1>3. Len(s) \in Nat /\ Len(u) \in Nat
  OBVIOUS
<1> HIDE DEF s2, t2
<1>8. s2 \o t2 \o u \in Seq(Messages) /\ Len(s2 \o t2 \o u) = Len(s2) + Len(t2) + Len(u)
  <2>1. s2 \in Seq(Messages) /\ t2 \in Seq(Messages)
    BY <1>1, <1>2
  <2> QED
    BY <2>1, Concatenated
<1>9. s \o t \o u \in Seq(Messages) /\ Len(s \o t \o u) = Len(s) + Len(t) + Len(u)
  BY Concatenated
<1>4. Len(t2) \in Nat
  BY <1>2
<1>5. Len(s2 \o t2 \o u) = Len(s \o t \o u)
  BY <1>1, <1>2, <1>3, <1>8, <1>9
<1>6. ASSUME NEW i \in 1..Len(s2 \o t2 \o u) PROVE (s2 \o t2 \o u)[i] = (s \o t \o u)[i]
  <2>1. (s2 \o t2 \o u)[i] = IF i <= Len(s2) THEN s2[i]
                             ELSE IF i <= Len(s2) + Len(t2) THEN t2[i - Len(s2)]
                             ELSE u[i - Len(s2) - Len(t2)]
    BY <1>1, <1>2, Parts, SMTT(30)
  <2>2. (s \o t \o u)[i] = IF i <= Len(s) THEN s[i]
                           ELSE IF i <= Len(s) + Len(t) THEN t[i - Len(s)]
                           ELSE u[i - Len(s) - Len(t)]
    BY <1>5, Parts
  <2>3. CASE i <= Len(s)
    BY <2>1, <2>2, <2>3, <1>1, <1>3
  <2>4. CASE i = Len(s) + 1
    BY <2>1, <2>2, <2>4, <1>1, <1>2, <1>3
  <2>5. CASE i > Len(s) + 1 /\ i <= Len(s) + Len(t)
    <3>1. i - Len(s2) \in 1..Len(t2) /\ (i - Len(s2)) + 1 = i - Len(s) /\ i <= Len(s2) + Len(t2)
      BY <1>1, <1>2, <1>3, <2>5
    <3>2. ~(i <= Len(s)) /\ ~(i <= Len(s2))
      BY <1>1, <1>3, <2>5
    <3> QED
      BY <2>1, <2>2, <2>5, <3>1, <3>2, <1>2
  <2>6. CASE i > Len(s) + Len(t)
    <3>1. i - Len(s2) - Len(t2) = i - Len(s) - Len(t)
      BY <1>1, <1>2, <1>3, <2>6
    <3>2. ~(i <= Len(s)) /\ ~(i <= Len(s2)) /\ ~(i <= Len(s) + Len(t)) /\ ~(i <= Len(s2) + Len(t2))
      BY <1>1, <1>2, <1>3, <2>6
    <3> QED
      BY <2>1, <2>2, <3>1, <3>2
  <2>7. i \in Nat
    BY <1>3, <1>4, <1>8
  <2>8. \/ i <= Len(s)
        \/ i = Len(s) + 1
        \/ i > Len(s) + 1 /\ i <= Len(s) + Len(t)
        \/ i > Len(s) + Len(t)
    BY <2>7, <1>2, <1>3
  <2> QED
    BY <2>3, <2>4, <2>5, <2>6, <2>8, Zenon
<1>7. s2 \o t2 \o u = s \o t \o u
  BY <1>8, <1>9, <1>5, <1>6, SeqEqual
<1> QED
  BY <1>7 DEF s2, t2

\* A line that stays as it is, ...
LEMMA ThinSame ==
    ASSUME NEW w \in Seq(Messages) PROVE Thinned(w, w) /\ Kept(w, w)
<1> DEFINE f == [i \in 1..Len(w) |-> i]
<1>1. f \in [1..Len(w) -> 1..Len(w)] /\ \A i \in 1..Len(w) : f[i] = i
  OBVIOUS
<1>2. Kept(w, w)
  BY DEF Kept
<1>3. Thinned(w, w)
  <2> HIDE DEF f
  <2> QED
    BY <1>1 DEF Thinned
<1> QED
  BY <1>2, <1>3

\* ... one that loses its mailbox, ...
LEMMA ThinCut ==
    ASSUME NEW s \in Seq(Messages), NEW t \in Seq(Messages), NEW u \in Seq(Messages)
    PROVE  Thinned(s \o t \o <<>>, s \o t \o u)
<1> DEFINE v == s \o t \o <<>>
           w == s \o t \o u
           f == [i \in 1..Len(v) |-> i]
<1>1. /\ v \in Seq(Messages) /\ w \in Seq(Messages) /\ Len(v) = Len(s) + Len(t)
      /\ Len(w) = Len(s) + Len(t) + Len(u) /\ Len(s) \in Nat /\ Len(t) \in Nat /\ Len(u) \in Nat
  BY Concatenated
<1>2. \A i \in 1..Len(v) : v[i] = w[i]
  BY <1>1, Parts
<1> HIDE DEF v, w
<1>3. f \in [1..Len(v) -> 1..Len(w)] /\ \A i \in 1..Len(v) : f[i] = i
  BY <1>1
<1> HIDE DEF f
<1>4. Thinned(v, w)
  <2>1. \A i \in 1..Len(v) : v[i] = w[f[i]]
    BY <1>2, <1>3
  <2>2. \A i, j \in 1..Len(v) : i < j => f[i] < f[j]
    BY <1>3
  <2>3. \A i \in 1..Len(v), k \in 1..Len(w) :
           k < f[i] /\ w[k].chan # None => \E j \in 1..Len(v) : j < i /\ f[j] = k
    <3> SUFFICES ASSUME NEW i \in 1..Len(v), NEW k \in 1..Len(w), k < f[i]
                 PROVE  \E j \in 1..Len(v) : j < i /\ f[j] = k
      OBVIOUS
    <3>1. k \in 1..Len(v) /\ k < i
      BY <1>1, <1>3
    <3> QED
      BY <1>3, <3>1
  <2> QED
    BY <1>3, <2>1, <2>2, <2>3 DEF Thinned
<1> QED
  BY <1>4 DEF v, w

\* ... and one from which a message on no channel is handled are thinned.
LEMMA ThinDropped ==
    ASSUME NEW s \in Seq(Messages), NEW t \in Seq(Messages), NEW u \in Seq(Messages), t # <<>>,
           Head(t).chan = None
    PROVE  Thinned(s \o Tail(t) \o u, s \o t \o u) /\ Kept(s \o Tail(t) \o u, s \o t \o u)
<1> DEFINE t2 == Tail(t)
           v == s \o t2 \o u
           w == s \o t \o u
           n == Len(s)
           f == [i \in 1..Len(v) |-> IF i <= n THEN i ELSE i + 1]
           g == [i \in 1..Len(w) |-> IF i <= n THEN i ELSE i - 1]
<1>1. /\ t2 \in Seq(Messages) /\ Len(t) \in Nat \ {0} /\ Len(t2) = Len(t) - 1
      /\ \A i \in 1..Len(t2) : t2[i] = t[i + 1]
      /\ Head(t) = t[1]
  BY HeadTail
<1> HIDE DEF t2
<1>2. /\ v \in Seq(Messages) /\ w \in Seq(Messages) /\ Len(v) = n + Len(t2) + Len(u)
      /\ Len(w) = n + Len(t) + Len(u) /\ n \in Nat /\ Len(u) \in Nat
  BY <1>1, Concatenated
<1>3. w[n + 1].chan = None
  <2>1. n + 1 \in 1..Len(w)
    BY <1>1, <1>2
  <2>2. w[n + 1] = t[1]
    BY <1>1, <1>2, <2>1, Parts
  <2> QED
    BY <1>1, <2>2
<1>4. ASSUME NEW i \in 1..Len(v) PROVE v[i] = w[IF i <= n THEN i ELSE i + 1]
  <2> DEFINE k == IF i <= n THEN i ELSE i + 1
  <2>1. k \in 1..Len(w)
    BY <1>1, <1>2
  <2>2. w[k] = IF k <= n THEN s[k] ELSE IF k <= n + Len(t) THEN t[k - n] ELSE u[k - n - Len(t)]
    BY <2>1, Parts
  <2>3. v[i] = IF i <= n THEN s[i] ELSE IF i <= n + Len(t2) THEN t2[i - n] ELSE u[i - n - Len(t2)]
    BY <1>1, Parts, SMTT(30)
  <2>4. i \in Nat
    BY <1>1, <1>2
  <2> HIDE DEF v, w, n
  <2>5. CASE i <= n
    BY <1>2, <2>2, <2>3, <2>4, <2>5
  <2>6. CASE i > n /\ i <= n + Len(t2)
    <3>1. i - n \in 1..Len(t2) /\ k = i + 1 /\ (i - n) + 1 = k - n /\ ~(k <= n) /\ k <= n + Len(t)
      BY <1>1, <1>2, <2>4, <2>6
    <3> QED
      BY <1>1, <1>2, <2>2, <2>3, <2>4, <2>6, <3>1
  <2>7. CASE i > n + Len(t2)
    <3>1. k = i + 1 /\ k - n - Len(t) = i - n - Len(t2) /\ ~(k <= n) /\ ~(k <= n + Len(t)) /\ ~(i <= n)
      BY <1>1, <1>2, <2>4, <2>7
    <3> QED
      BY <1>1, <1>2, <2>2, <2>3, <2>4, <2>7, <3>1
  <2> QED
    BY <1>1, <1>2, <2>4, <2>5, <2>6, <2>7
<1> HIDE DEF v, w, n
<1>5. f \in [1..Len(v) -> 1..Len(w)] /\ \A i \in 1..Len(v) : f[i] = IF i <= n THEN i ELSE i + 1
  BY <1>1, <1>2
<1> HIDE DEF f
<1>6. \A k \in 1..Len(w) : w[k].chan # None =>
         \E j \in 1..Len(v) : f[j] = k /\ j = IF k <= n THEN k ELSE k - 1
  <2> SUFFICES ASSUME NEW k \in 1..Len(w), w[k].chan # None
               PROVE  \E j \in 1..Len(v) : f[j] = k /\ j = IF k <= n THEN k ELSE k - 1
    OBVIOUS
  <2>1. k # n + 1
    BY <1>3
  <2> DEFINE j == IF k <= n THEN k ELSE k - 1
  <2>2. j \in 1..Len(v) /\ f[j] = k
    BY <1>1, <1>2, <1>5, <2>1
  <2> QED
    BY <2>2
<1>7. Thinned(v, w)
  <2>1. \A i \in 1..Len(v) : v[i] = w[f[i]]
    BY <1>4, <1>5
  <2>2. ASSUME NEW i \in 1..Len(v), NEW j \in 1..Len(v), i < j PROVE f[i] < f[j]
    <3>1. i \in Nat /\ j \in Nat /\ n \in Nat
      BY <1>2
    <3>2. f[i] = (IF i <= n THEN i ELSE i + 1) /\ f[j] = (IF j <= n THEN j ELSE j + 1)
      BY <1>5
    <3> QED
      BY <2>2, <3>1, <3>2
  <2>3. ASSUME NEW i \in 1..Len(v), NEW k \in 1..Len(w), k < f[i], w[k].chan # None
        PROVE  \E j \in 1..Len(v) : j < i /\ f[j] = k
    <3>1. PICK j \in 1..Len(v) : f[j] = k
      BY <1>6, <2>3
    <3>2. j < i
      BY <1>2, <1>5, <3>1, <2>3
    <3> QED
      BY <3>1, <3>2
  <2> QED
    BY <1>5, <2>1, <2>2, <2>3 DEF Thinned
<1>8. Kept(v, w)
  <2> SUFFICES ASSUME NEW c \in Chans, Holds(w, c, "open") PROVE Holds(v, c, "open")
    BY DEF Kept
  <2>1. PICK i \in 1..Len(w) : w[i].chan = c /\ w[i].kind = "open"
    BY DEF Holds
  <2>2. PICK j \in 1..Len(v) : f[j] = i
    BY <1>6, <2>1, RouterAssumption
  <2>3. v[j] = w[i]
    BY <1>4, <1>5, <2>2
  <2> QED
    BY <2>1, <2>3 DEF Holds
<1> QED
  BY <1>7, <1>8 DEF v, w, t2

\* A message put in the mailbox comes last in the line.
LEMMA Posted ==
    ASSUME NEW s \in Seq(Messages), NEW t \in Seq(Messages), NEW u \in Seq(Messages),
           NEW m \in Messages
    PROVE  s \o t \o Append(u, m) = Append(s \o t \o u, m)
<1>1. s \o t \in Seq(Messages)
  OBVIOUS
<1> QED
  BY <1>1

\* What was true of a line is true of the thinned one.
LEMMA ThinKeeps ==
    ASSUME NEW v \in Seq(Messages), NEW w \in Seq(Messages), Thinned(v, w)
    PROVE  /\ \A a, par : Addressed(w, a, par) => Addressed(v, a, par)
           /\ InTurn(w) => InTurn(v)
           /\ \A a, par : OpenFirst(w, a, par) => OpenFirst(v, a, par)
           /\ \A c : Mentions(v, c) => Mentions(w, c)
           /\ \A c, k : Holds(v, c, k) => Holds(w, c, k)
<1>1. PICK f \in [1..Len(v) -> 1..Len(w)] :
        /\ \A i \in 1..Len(v) : v[i] = w[f[i]]
        /\ \A i, j \in 1..Len(v) : i < j => f[i] < f[j]
        /\ \A i \in 1..Len(v), k \in 1..Len(w) :
              k < f[i] /\ w[k].chan # None => \E j \in 1..Len(v) : j < i /\ f[j] = k
  BY DEF Thinned
<1>2. \A i \in 1..Len(v) : f[i] \in 1..Len(w) /\ v[i] = w[f[i]]
  BY <1>1
<1>3. \A a, par : Addressed(w, a, par) => Addressed(v, a, par)
  BY <1>2 DEF Addressed
<1>4. ASSUME InTurn(w) PROVE InTurn(v)
  <2> SUFFICES ASSUME NEW i \in 1..Len(v), NEW j \in 1..Len(v), i < j, v[i].chan = v[j].chan,
                      v[i].chan # None
               PROVE  v[i].kind # "close" /\ v[j].kind # "open"
    BY DEF InTurn
  <2>1. f[i] \in 1..Len(w) /\ f[j] \in 1..Len(w) /\ f[i] < f[j] /\ v[i] = w[f[i]] /\ v[j] = w[f[j]]
    BY <1>1, <1>2
  <2> QED
    BY <1>4, <2>1 DEF InTurn
<1>5. ASSUME NEW a, NEW par, OpenFirst(w, a, par) PROVE OpenFirst(v, a, par)
  <2> SUFFICES ASSUME NEW i \in 1..Len(v), v[i].chan # None
               PROVE  /\ v[i].kind = "open" => a = par[v[i].chan].tgt
                      /\ v[i].kind # "open" /\ a = par[v[i].chan].tgt =>
                           \E j \in 1..Len(v) : j < i /\ v[j].chan = v[i].chan /\ v[j].kind = "open"
    BY DEF OpenFirst
  <2>1. v[i].kind = "open" => a = par[v[i].chan].tgt
    BY <1>2, <1>5 DEF OpenFirst
  <2>2. ASSUME v[i].kind # "open", a = par[v[i].chan].tgt
        PROVE  \E j \in 1..Len(v) : j < i /\ v[j].chan = v[i].chan /\ v[j].kind = "open"
    <3>1. PICK k \in 1..Len(w) : k < f[i] /\ w[k].chan = w[f[i]].chan /\ w[k].kind = "open"
      BY <1>2, <1>5, <2>2 DEF OpenFirst
    <3>2. w[k].chan # None
      BY <3>1, <1>2
    <3>3. PICK j \in 1..Len(v) : j < i /\ f[j] = k
      BY <1>1, <3>1, <3>2
    <3> QED
      BY <3>1, <3>3, <1>2
  <2> QED
    BY <2>1, <2>2
<1>6. \A c : Mentions(v, c) => Mentions(w, c)
  BY <1>2 DEF Mentions
<1>7. \A c, k : Holds(v, c, k) => Holds(w, c, k)
  BY <1>2 DEF Holds
<1> QED
  BY <1>3, <1>4, <1>5, <1>6, <1>7

\* A line consists of messages.
LEMMA LineType ==
    ASSUME TypeOK, NEW x \in Actors PROVE Line(x) \in Seq(Messages)
<1>1. seen[x] \in Seq(Messages) /\ opq[x] \in Seq(Messages) /\ box[x] \in Seq(Messages)
  BY DEF TypeOK
<1> HIDE DEF TypeOK
<1> QED
  BY <1>1, Concatenated DEF Line

\* What was true of a line is true of the longer one if the message fits.
LEMMA PostKeeps ==
    ASSUME NEW w \in Seq(Messages), NEW m \in Messages
    PROVE  /\ \A a, par : /\ Addressed(w, a, par)
                          /\ m.chan # None => <<m.from, a>> \in Members(par[m.chan])
                          => Addressed(Append(w, m), a, par)
           /\ /\ InTurn(w)
              /\ m.chan # None => ~Holds(w, m.chan, "close")
              /\ m.chan # None /\ m.kind = "open" => ~Mentions(w, m.chan)
              => InTurn(Append(w, m))
           /\ \A a, par : /\ OpenFirst(w, a, par)
                          /\ m.chan # None /\ m.kind = "open" => a = par[m.chan].tgt
                          /\ m.chan # None /\ m.kind # "open" /\ a = par[m.chan].tgt
                                => Holds(w, m.chan, "open")
                          => OpenFirst(Append(w, m), a, par)
           /\ \A c : Mentions(Append(w, m), c) => Mentions(w, c) \/ m.chan = c
           /\ \A c, k : Holds(Append(w, m), c, k) <=> Holds(w, c, k) \/ (m.chan = c /\ m.kind = k)
<1> DEFINE v == Append(w, m)
           n == Len(w)
<1>1. /\ n \in Nat /\ v \in Seq(Messages) /\ Len(v) = n + 1 /\ v[n + 1] = m
      /\ \A i \in 1..n : v[i] = w[i]
  BY AppendProperties
<1>2. \A i \in 1..Len(v) : i \in 1..n \/ i = n + 1
  BY <1>1
<1>3. \A i \in 1..n : i \in 1..Len(v) /\ i < n + 1
  BY <1>1
<1>4. n + 1 \in 1..Len(v)
  BY <1>1
<1>5. \A i, j \in 1..Len(v) : i < j => i \in 1..n
  BY <1>1
<1> HIDE DEF v
<1>6. ASSUME NEW a, NEW par, Addressed(w, a, par),
             m.chan # None => <<m.from, a>> \in Members(par[m.chan])
      PROVE  Addressed(v, a, par)
  BY <1>1, <1>2, <1>6 DEF Addressed
<1>7. ASSUME InTurn(w), m.chan # None => ~Holds(w, m.chan, "close"),
             m.chan # None /\ m.kind = "open" => ~Mentions(w, m.chan)
      PROVE  InTurn(v)
  <2> SUFFICES ASSUME NEW i \in 1..Len(v), NEW j \in 1..Len(v), i < j, v[i].chan = v[j].chan,
                      v[i].chan # None
               PROVE  v[i].kind # "close" /\ v[j].kind # "open"
    BY DEF InTurn
  <2>1. i \in 1..n /\ v[i] = w[i]
    BY <1>1, <1>5
  <2>2. CASE j \in 1..n
    BY <1>1, <1>7, <2>1, <2>2 DEF InTurn
  <2>3. CASE j = n + 1
    <3>1. m.chan # None /\ w[i].chan = m.chan
      BY <1>1, <2>1, <2>3
    <3> QED
      BY <1>1, <1>7, <2>1, <2>3, <3>1 DEF Holds, Mentions
  <2> QED
    BY <1>2, <2>2, <2>3
<1>8. ASSUME NEW a, NEW par, OpenFirst(w, a, par),
             m.chan # None /\ m.kind = "open" => a = par[m.chan].tgt,
             m.chan # None /\ m.kind # "open" /\ a = par[m.chan].tgt => Holds(w, m.chan, "open")
      PROVE  OpenFirst(v, a, par)
  <2> SUFFICES ASSUME NEW i \in 1..Len(v), v[i].chan # None
               PROVE  /\ v[i].kind = "open" => a = par[v[i].chan].tgt
                      /\ v[i].kind # "open" /\ a = par[v[i].chan].tgt =>
                           \E j \in 1..Len(v) : j < i /\ v[j].chan = v[i].chan /\ v[j].kind = "open"
    BY DEF OpenFirst
  <2>1. CASE i \in 1..n
    <3>1. v[i].kind = "open" => a = par[v[i].chan].tgt
      BY <1>1, <1>8, <2>1 DEF OpenFirst
    <3>2. ASSUME v[i].kind # "open", a = par[v[i].chan].tgt
          PROVE  \E j \in 1..Len(v) : j < i /\ v[j].chan = v[i].chan /\ v[j].kind = "open"
      <4>1. PICK j \in 1..n : j < i /\ w[j].chan = w[i].chan /\ w[j].kind = "open"
        BY <1>1, <1>8, <2>1, <3>2 DEF OpenFirst
      <4> QED
        BY <1>1, <1>3, <2>1, <4>1
    <3> QED
      BY <3>1, <3>2
  <2>2. CASE i = n + 1
    <3>1. ASSUME m.kind # "open", a = par[m.chan].tgt
          PROVE  \E j \in 1..Len(v) : j < i /\ v[j].chan = m.chan /\ v[j].kind = "open"
      <4>1. PICK j \in 1..n : w[j].chan = m.chan /\ w[j].kind = "open"
        BY <1>1, <1>8, <2>2, <3>1 DEF Holds
      <4> QED
        BY <1>1, <1>3, <2>2, <4>1
    <3> QED
      BY <1>1, <1>8, <2>2, <3>1
  <2> QED
    BY <1>2, <2>1, <2>2
<1>9. \A c : Mentions(v, c) => Mentions(w, c) \/ m.chan = c
  BY <1>1, <1>2 DEF Mentions
<1>10. ASSUME NEW c, NEW k PROVE Holds(v, c, k) <=> Holds(w, c, k) \/ (m.chan = c /\ m.kind = k)
  BY <1>1, <1>2, <1>3, <1>4 DEF Holds
<1> QED
  BY <1>6, <1>7, <1>8, <1>9, <1>10 DEF v

\* A step that adds nothing to the line of x.
Lesser(x) ==
    /\ Thinned(Line(x)', Line(x))
    /\ task'[x] = "gone" \/ Kept(Line(x)', Line(x))

\* The steps of the router that put a message in a mailbox, or could.
Lengthens == RouteSend \/ RouteOpen \/ RouteMessage \/ RouteClose

\* A step that leaves the three parts alone.
LEMMA LineUnchanged ==
    ASSUME TypeOK, NEW x \in Actors, seen'[x] = seen[x], opq'[x] = opq[x], box'[x] = box[x]
    PROVE  Line(x)' = Line(x) /\ Lesser(x)
<1>1. Line(x)' = Line(x)
  BY DEF Line
<1> QED
  BY <1>1, LineType, ThinSame DEF Lesser

\* Every other step only thins the lines.
LEMMA QuietStep ==
    ASSUME TypeOK, [Next]_vars, ~Lengthens, NEW x \in Actors
    PROVE  Lesser(x)
<1>1. CASE UNCHANGED <<seen, opq, box>>
  BY <1>1, LineUnchanged
<1>2. ASSUME NEW a \in Actors, TaskTake(a) PROVE Lesser(x)
  <2>1. CASE x # a
    <3>1. seen'[x] = seen[x] /\ opq'[x] = opq[x] /\ box'[x] = box[x]
      BY <1>2, <2>1 DEF TaskTake, TypeOK
    <3> QED
      BY <3>1, LineUnchanged
  <2>2. CASE x = a
    <3>1. /\ box[a] # <<>> /\ seen'[a] = seen[a] /\ opq'[a] = Append(opq[a], Head(box[a]))
          /\ box'[a] = Tail(box[a]) /\ seen[a] \in Seq(Messages) /\ opq[a] \in Seq(Messages)
          /\ box[a] \in Seq(Messages)
      BY <1>2 DEF TaskTake, TypeOK
    <3>2. Line(a)' = Line(a)
      <4>1. seen[a] \o Append(opq[a], Head(box[a])) \o Tail(box[a]) = seen[a] \o opq[a] \o box[a]
        <5>1. \A s, t, u \in Seq(Messages) :
                 u # <<>> => s \o Append(t, Head(u)) \o Tail(u) = s \o t \o u
          BY TakenOver
        <5> QED
          BY <3>1, <5>1
      <4> QED
        BY <3>1, <4>1 DEF Line
    <3> QED
      BY <2>2, <3>2, LineType, ThinSame DEF Lesser
  <2> QED
    BY <2>1, <2>2
<1>3. ASSUME NEW a \in Actors, TaskLeave(a) PROVE Lesser(x)
  <2>1. CASE x # a
    <3>1. seen'[x] = seen[x] /\ opq'[x] = opq[x] /\ box'[x] = box[x]
      BY <1>3, <2>1 DEF TaskLeave, TypeOK
    <3> QED
      BY <3>1, LineUnchanged
  <2>2. CASE x = a
    <3>1. /\ seen'[a] = seen[a] /\ opq'[a] = opq[a]
          /\ box'[a] = <<>> /\ seen[a] \in Seq(Messages) /\ opq[a] \in Seq(Messages)
          /\ box[a] \in Seq(Messages) /\ task'[a] = "gone"
      BY <1>3 DEF TaskLeave, TypeOK
    <3>2. Thinned(Line(a)', Line(a))
      BY <3>1, ThinCut DEF Line
    <3> QED
      BY <2>2, <3>1, <3>2 DEF Lesser
  <2> QED
    BY <2>1, <2>2
<1>4. ASSUME NEW a \in Actors, BeginMessage(a) PROVE Lesser(x)
  <2>1. CASE x # a
    <3>1. seen'[x] = seen[x] /\ opq'[x] = opq[x] /\ box'[x] = box[x]
      BY <1>4, <2>1 DEF BeginMessage, TypeOK
    <3> QED
      BY <3>1, LineUnchanged
  <2>2. CASE x = a
    <3>1. /\ opq[a] # <<>> /\ opq'[a] = Tail(opq[a])
          /\ box'[a] = box[a] /\ seen[a] \in Seq(Messages) /\ opq[a] \in Seq(Messages)
          /\ box[a] \in Seq(Messages)
          /\ seen'[a] = IF Head(opq[a]).chan # None THEN Append(seen[a], Head(opq[a])) ELSE seen[a]
      BY <1>4 DEF BeginMessage, TypeOK
    <3>2. CASE Head(opq[a]).chan # None
      <4>1. Line(a)' = Line(a)
        <5>1. Append(seen[a], Head(opq[a])) \o Tail(opq[a]) \o box[a] = seen[a] \o opq[a] \o box[a]
          <6>1. \A s, t, u \in Seq(Messages) :
                   t # <<>> => Append(s, Head(t)) \o Tail(t) \o u = s \o t \o u
            BY Handled
          <6> QED
            BY <3>1, <6>1
        <5> QED
          BY <3>1, <3>2, <5>1 DEF Line
      <4> QED
        BY <2>2, <4>1, LineType, ThinSame DEF Lesser
    <3>3. CASE Head(opq[a]).chan = None
      <4>1. Thinned(Line(a)', Line(a)) /\ Kept(Line(a)', Line(a))
        BY <3>1, <3>3, ThinDropped DEF Line
      <4> QED
        BY <2>2, <4>1 DEF Lesser
    <3> QED
      BY <3>2, <3>3
  <2> QED
    BY <2>1, <2>2
<1>5. RouterNext => UNCHANGED <<seen, opq, box>>
  BY DEF RouterNext, RouteRegister, RouteUnregister, RouteRefused, RouteOpened, Lengthens, actVars
<1>6. ASSUME NEW a \in Actors, TaskNext(a)
      PROVE  UNCHANGED <<seen, opq, box>> \/ TaskTake(a) \/ TaskLeave(a)
  BY <1>6 DEF TaskNext, TaskGiveUp, TaskSignal, actVars
<1>7. ASSUME NEW a \in Actors, ActorNext(a)
      PROVE  UNCHANGED <<seen, opq, box>> \/ BeginMessage(a)
  BY <1>7 DEF ActorNext, HandlerSetup, BeginOwn, Register, RegisterEarly, SendTo, OpenChannel,
              UseChannel, GuestReturn, GuestTrap, StopActor, OpEnds, actVars
<1> QED
  BY <1>1, <1>2, <1>3, <1>4, <1>5, <1>6, <1>7 DEF Next, vars, actVars

\* The router's step puts m in the line of b: a message on no channel, the request to
\* open a new channel, or what a participant of an open one sends.
Posts(b, m) ==
    LET c == Head(cmds) IN
    /\ \A x \in Actors : Line(x)' = IF x = b THEN Append(Line(b), m) ELSE Line(x)
    /\ task[b] # "gone" /\ m.from = c.by
    /\ \/ m.chan = None /\ c.op \in {"send", "request"}
       \/ m.chan = c.chan /\ m.kind = "open" /\ c.op = "open" /\ b = c.to
       \/ /\ m.chan = c.chan /\ m.kind = c.op /\ c.op \in {"msg", "close"}
          /\ c.chan \in channels /\ <<m.from, b>> \in Members(party[m.chan])

\* Put lengthens one line.
LEMMA LinePut ==
    ASSUME TypeOK, NEW b \in Actors, NEW m \in Messages, Put(b, m), UNCHANGED <<seen, opq>>
    PROVE  \A x \in Actors : Line(x)' = IF x = b THEN Append(Line(b), m) ELSE Line(x)
<1> TAKE x \in Actors
<1>1. CASE x # b
  <2>1. box'[x] = box[x] /\ seen'[x] = seen[x] /\ opq'[x] = opq[x]
    BY <1>1, PutTypes
  <2> QED
    BY <1>1, <2>1, LineUnchanged
<1>2. CASE x = b
  <2>1. box'[b] = Append(box[b], m) /\ seen'[b] = seen[b] /\ opq'[b] = opq[b]
        /\ seen[b] \in Seq(Messages) /\ opq[b] \in Seq(Messages) /\ box[b] \in Seq(Messages)
    BY PutTypes DEF TypeOK
  <2>2. seen[b] \o opq[b] \o Append(box[b], m) = Append(seen[b] \o opq[b] \o box[b], m)
    BY <2>1, Posted
  <2> QED
    BY <1>2, <2>1, <2>2 DEF Line
<1> QED
  BY <1>1, <1>2

\* What the steps of Lengthens do.
LEMMA LoudStep ==
    ASSUME TypeOK, Lengthens
    PROVE  /\ cmds # <<>> /\ waits = None /\ cmds' = Tail(cmds)
           /\ UNCHANGED <<party, task, joined, seen>>
           /\ \/ \E b \in Actors, m \in Messages : Posts(b, m)
              \/ RouteClose /\ \A x \in Actors : Line(x)' = Line(x)
           /\ \/ RouteOpen /\ waits' = Head(cmds) /\ Head(cmds).op = "open" /\ channels' = channels
              \/ waits' = None /\ channels' = channels /\ Head(cmds).op \notin {"close", "open"}
              \/ waits' = None /\ channels' = channels \ {Head(cmds).chan} /\ Head(cmds).op = "close"
<1> DEFINE c == Head(cmds)
<1>1. /\ cmds # <<>> /\ waits = None /\ cmds' = Tail(cmds) /\ ~Refused(c)
      /\ UNCHANGED <<party, task, joined, seen, opq>>
  BY DEF Lengthens, RouteSend, RouteOpen, RouteMessage, RouteClose, Next1, actVars
<1>2. c \in Commands /\ c.by \in Actors
  BY <1>1, HeadIsCommand
<1>3. CASE RouteSend
  <2> DEFINE m == [kind |-> c.op, from |-> c.by, chan |-> None]
  <2>1. c.op \in {"send", "request"} /\ waits' = None /\ channels' = channels
    BY <1>1, <1>3 DEF RouteSend, Next1
  <2>2. m \in Messages /\ c.to \in Actors /\ task[c.to] # "gone" /\ Put(c.to, m)
    BY <1>1, <1>2, <1>3, <2>1, RecipientIs, MessageTypes DEF RouteSend
  <2>3. \A x \in Actors : Line(x)' = IF x = c.to THEN Append(Line(c.to), m) ELSE Line(x)
    BY <1>1, <2>2, LinePut
  <2>4. Posts(c.to, m)
    BY <2>1, <2>2, <2>3 DEF Posts
  <2> QED
    BY <1>1, <2>1, <2>2, <2>4
<1>4. CASE RouteOpen
  <2> DEFINE m == [kind |-> "open", from |-> c.by, chan |-> c.chan]
  <2>1. c.op = "open" /\ waits' = c /\ channels' = channels
    BY <1>1, <1>4 DEF RouteOpen, Next1
  <2>2. m \in Messages /\ c.to \in Actors /\ task[c.to] # "gone" /\ Put(c.to, m)
    BY <1>1, <1>2, <1>4, <2>1, RecipientIs, MessageTypes DEF RouteOpen
  <2>3. \A x \in Actors : Line(x)' = IF x = c.to THEN Append(Line(c.to), m) ELSE Line(x)
    BY <1>1, <2>2, LinePut
  <2>4. Posts(c.to, m)
    BY <2>1, <2>2, <2>3 DEF Posts
  <2> QED
    BY <1>1, <1>4, <2>1, <2>2, <2>4
<1>5. CASE RouteMessage
  <2> DEFINE m == [kind |-> "msg", from |-> c.by, chan |-> c.chan]
             b == Recipient(c)
  <2>1. c.op = "msg" /\ waits' = None /\ channels' = channels
    BY <1>1, <1>5 DEF RouteMessage, Next1
  <2>2. m \in Messages /\ Put(b, m)
    BY <1>1, <1>2, <1>5, <2>1, MessageTypes DEF RouteMessage
  <2>5. /\ b \in Actors /\ task[b] # "gone"
        /\ c.chan \in channels /\ <<c.by, b>> \in Members(party[c.chan])
    BY <1>1, <1>2, <2>1, RecipientIs
  <2> HIDE DEF b
  <2>3. \A x \in Actors : Line(x)' = IF x = b THEN Append(Line(b), m) ELSE Line(x)
    BY <1>1, <2>2, <2>5, LinePut
  <2>4. Posts(b, m)
    BY <2>1, <2>2, <2>3, <2>5 DEF Posts
  <2> QED
    BY <1>1, <2>1, <2>2, <2>4, <2>5
<1>6. CASE RouteClose
  <2> DEFINE m == [kind |-> "close", from |-> c.by, chan |-> c.chan]
             b == Recipient(c)
  <2>1. c.op = "close" /\ waits' = None /\ channels' = channels \ {c.chan}
    BY <1>1, <1>6 DEF RouteClose, Next1
  <2>2. m \in Messages /\ (IF Reachable(b) THEN Put(b, m) ELSE UNCHANGED box)
    BY <1>1, <1>2, <1>6, <2>1, MessageTypes DEF RouteClose
  <2>5. /\ Reachable(b) => b \in Actors /\ task[b] # "gone"
        /\ c.chan \in channels /\ <<c.by, b>> \in Members(party[c.chan])
    BY <1>1, <1>2, <2>1, RecipientIs
  <2> HIDE DEF b
  <2>6. CASE Reachable(b)
    <3>1. \A x \in Actors : Line(x)' = IF x = b THEN Append(Line(b), m) ELSE Line(x)
      BY <1>1, <2>2, <2>5, <2>6, LinePut
    <3>2. Posts(b, m)
      BY <2>1, <2>2, <2>5, <2>6, <3>1 DEF Posts
    <3> QED
      BY <1>1, <2>1, <2>2, <2>5, <2>6, <3>2
  <2>7. CASE ~Reachable(b)
    <3>1. \A x \in Actors : Line(x)' = Line(x)
      BY <1>1, <2>2, <2>7 DEF Line
    <3> QED
      BY <1>1, <1>6, <2>1, <3>1
  <2> QED
    BY <2>6, <2>7
<1> QED
  BY <1>3, <1>4, <1>5, <1>6 DEF Lengthens

-----------------------------------------------------------------------------
(* Conversations.                                                          *)

\* Nothing is said on a channel that has no participants yet.
LEMMA Unmentioned ==
    ASSUME TypeOK, Conversations, NEW c \in Chans, party[c] = NoParty, NEW x \in Actors
    PROVE  ~Mentions(Line(x), c)
<1> SUFFICES ASSUME Mentions(Line(x), c) PROVE FALSE
  OBVIOUS
<1>1. PICK i \in 1..Len(Line(x)) : Line(x)[i].chan = c
  BY DEF Mentions
<1>2. Line(x)[i] \in Messages
  BY LineType
<1>3. Line(x)[i].from \in Actors
  BY <1>2 DEF Messages
<1>4. <<Line(x)[i].from, x>> \in Members(party[c])
  BY <1>1, RouterAssumption DEF Conversations, Addressed
<1> QED
  BY <1>3, <1>4, RouterAssumption DEF Members, NoParty

\* Only open-channel names participants ...
LEMMA PartyStep ==
    ASSUME TypeOK, [Next]_vars
    PROVE  \/ party' = party
           \/ \E a, b \in Actors, c \in Chans : OpenChannel(a, b, c)
<1>1. RouterNext => party' = party
  BY DEF RouterNext, RouteRegister, RouteUnregister, RouteRefused, RouteSend, RouteOpen,
         RouteOpened,
         RouteMessage, RouteClose
<1>2. \A a \in Actors : TaskNext(a) => party' = party
  BY DEF TaskNext, TaskTake, TaskGiveUp, TaskSignal, TaskLeave
<1>3. \A a \in Actors : ActorNext(a) =>
         party' = party \/ \E b \in Actors, c \in Chans : OpenChannel(a, b, c)
  BY DEF ActorNext, HandlerSetup, BeginOwn, BeginMessage, Register, RegisterEarly, SendTo,
         UseChannel, GuestReturn, GuestTrap, StopActor, OpEnds
<1> QED
  BY <1>1, <1>2, <1>3 DEF Next, vars

\* ... and only once.
LEMMA PartyKept ==
    ASSUME TypeOK, [Next]_vars, NEW c \in Chans, party[c] # NoParty
    PROVE  party'[c] = party[c]
<1>1. ASSUME NEW a \in Actors, NEW b \in Actors, NEW d \in Chans, OpenChannel(a, b, d)
      PROVE  party'[c] = party[c]
  BY <1>1 DEF OpenChannel, TypeOK
<1> QED
  BY <1>1, PartyStep

\* Participants are actors.
LEMMA PairedStep ==
    ASSUME TypeOK, Paired, [Next]_vars PROVE Paired'
<1>1. ASSUME NEW a \in Actors, NEW b \in Actors, NEW d \in Chans, OpenChannel(a, b, d)
      PROVE  Paired'
  BY <1>1 DEF OpenChannel, TypeOK, Paired
<1>2. CASE party' = party
  BY <1>2 DEF Paired
<1> QED
  BY <1>1, <1>2, PartyStep

\* Naming the participants of a new channel does not touch what is said of the others.
LEMMA PartyMatters ==
    ASSUME TypeOK, Conversations, [Next]_vars, NEW x \in Actors, NEW w \in Seq(Messages),
           \A c \in Chans : Mentions(w, c) => party[c] # NoParty
    PROVE  /\ Addressed(w, x, party) => Addressed(w, x, party')
           /\ OpenFirst(w, x, party) => OpenFirst(w, x, party')
<1>1. \A i \in 1..Len(w) : w[i].chan \in Chans \cup {None}
  <2> TAKE i \in 1..Len(w)
  <2>1. w[i] \in Messages
    OBVIOUS
  <2> QED
    BY <2>1 DEF Messages
<1>2. \A i \in 1..Len(w) : w[i].chan # None => party'[w[i].chan] = party[w[i].chan]
  BY <1>1, PartyKept DEF Mentions
<1>3. Addressed(w, x, party) => Addressed(w, x, party')
  BY <1>2 DEF Addressed
<1>4. OpenFirst(w, x, party) => OpenFirst(w, x, party')
  BY <1>2 DEF OpenFirst
<1> QED
  BY <1>3, <1>4

\* The history holds channel messages only.
LEMMA SeenStep ==
    ASSUME TypeOK, Conversations, [Next]_vars, NEW x \in Actors
    PROVE  \A i \in 1..Len(seen'[x]) : seen'[x][i].chan # None
<1>1. \A i \in 1..Len(seen[x]) : seen[x][i].chan # None
  BY DEF Conversations
<1>2. ASSUME NEW a \in Actors, BeginMessage(a)
      PROVE  \A i \in 1..Len(seen'[x]) : seen'[x][i].chan # None
  <2>1. \/ seen'[x] = seen[x]
        \/ \E m \in Messages : m.chan # None /\ seen'[x] = Append(seen[x], m)
    BY <1>2, Queued DEF BeginMessage, TypeOK
  <2>2. ASSUME NEW m \in Messages, m.chan # None, seen'[x] = Append(seen[x], m)
        PROVE  \A i \in 1..Len(seen'[x]) : seen'[x][i].chan # None
    <3>1. seen[x] \in Seq(Messages)
      BY DEF TypeOK
    <3>2. /\ Len(seen'[x]) = Len(seen[x]) + 1 /\ Len(seen[x]) \in Nat
          /\ seen'[x][Len(seen[x]) + 1] = m
          /\ \A i \in 1..Len(seen[x]) : seen'[x][i] = seen[x][i]
      BY <2>2, <3>1, AppendProperties
    <3> TAKE i \in 1..Len(seen'[x])
    <3>3. i \in 1..Len(seen[x]) \/ i = Len(seen[x]) + 1
      BY <3>2
    <3> QED
      BY <1>1, <2>2, <3>2, <3>3
  <2> QED
    BY <1>1, <2>1, <2>2
<1>3. UNCHANGED seen \/ \E a \in Actors : BeginMessage(a)
  <2>1. RouterNext => UNCHANGED seen
    BY DEF RouterNext, RouteRegister, RouteUnregister, RouteRefused, RouteSend, RouteOpen,
           RouteOpened,
         RouteMessage, RouteClose, actVars
  <2>2. \A a \in Actors : TaskNext(a) => UNCHANGED seen
    BY DEF TaskNext, TaskTake, TaskGiveUp, TaskSignal, TaskLeave, actVars
  <2>3. \A a \in Actors : ActorNext(a) => UNCHANGED seen \/ BeginMessage(a)
    BY DEF ActorNext, HandlerSetup, BeginOwn, Register, RegisterEarly, SendTo, OpenChannel,
         UseChannel, GuestReturn, GuestTrap, StopActor, OpEnds, actVars
  <2> QED
    BY <2>1, <2>2, <2>3 DEF Next, vars, actVars
<1> QED
  BY <1>1, <1>2, <1>3

\* What is said is said on a channel that has participants.
LEMMA Spoken ==
    ASSUME TypeOK, Conversations, NEW x \in Actors, NEW c \in Chans, Mentions(Line(x), c)
    PROVE  party[c] # NoParty
  BY Unmentioned

\* A message that the router puts in a line fits: it is from the other participant, an
\* open is the first on its channel, and nothing follows a close.
LEMMA PostFits ==
    ASSUME TypeOK, Conversations, Paired, Asked, Tracked, cmds # <<>>,
           NEW b \in Actors, NEW m \in Messages, Posts(b, m)
    PROVE  /\ m.chan # None => /\ m.chan \in Chans /\ party[m.chan] # NoParty
                               /\ <<m.from, b>> \in Members(party[m.chan])
                               /\ \A x \in Actors : ~Holds(Line(x), m.chan, "close")
           /\ m.chan # None /\ m.kind = "open" => /\ \A x \in Actors : ~Mentions(Line(x), m.chan)
                                                  /\ b = party[m.chan].tgt
           /\ m.chan # None /\ m.kind # "open" /\ b = party[m.chan].tgt =>
                 Holds(Line(b), m.chan, "open")
<1> DEFINE c == Head(cmds)
<1>1. c = cmds[1] /\ c \in Commands /\ 1 \in 1..Len(cmds) /\ c.by \in Actors
  BY HeadIsCommand
<1>2. m.chan \in Chans \cup {None}
  BY DEF Messages
<1>3. CASE m.chan = None
  BY <1>3
<1>4. CASE m.chan = c.chan /\ m.kind = "open" /\ c.op = "open" /\ b = c.to
  <2>1. /\ c.chan \in Chans /\ party[c.chan] = [ini |-> c.by, tgt |-> c.to]
        /\ \A x \in Actors : ~Mentions(Line(x), c.chan)
    BY <1>1, <1>4 DEF Asked
  <2>2. m.from = c.by
    BY DEF Posts
  <2>3. /\ party[m.chan].tgt = b /\ party[m.chan].ini = m.from
    BY <1>4, <2>1, <2>2
  <2>4. party[m.chan] # NoParty
    BY <2>3, RouterAssumption DEF NoParty
  <2>5. <<m.from, b>> \in Members(party[m.chan])
    BY <2>3 DEF Members
  <2>6. \A x \in Actors : ~Holds(Line(x), m.chan, "close")
    BY <1>4, <2>1 DEF Holds, Mentions
  <2> QED
    BY <1>4, <2>1, <2>3, <2>4, <2>5, <2>6
<1>5. CASE /\ m.chan = c.chan /\ m.kind = c.op /\ c.op \in {"msg", "close"}
           /\ c.chan \in channels /\ <<m.from, b>> \in Members(party[m.chan])
  <2>1. m.chan \in Chans /\ m.chan \in channels
    BY <1>5 DEF TypeOK
  <2>2. /\ party[m.chan] # NoParty
        /\ \A x \in Actors : ~Holds(Line(x), m.chan, "close")
        /\ b = party[m.chan].tgt => task[b] = "gone" \/ Holds(Line(b), m.chan, "open")
    BY <2>1 DEF Tracked, InUse
  <2>3. task[b] # "gone"
    BY DEF Posts
  <2> QED
    BY <1>5, <2>1, <2>2, <2>3
<1> QED
  BY <1>3, <1>4, <1>5 DEF Posts

\* A line consists of messages after a step, too.
LEMMA LineTypeAfter ==
    ASSUME TypeOK', NEW x \in Actors PROVE Line(x)' \in Seq(Messages)
<1>1. seen'[x] \in Seq(Messages) /\ opq'[x] \in Seq(Messages) /\ box'[x] \in Seq(Messages)
  BY DEF TypeOK
<1> HIDE DEF TypeOK
<1> QED
  BY <1>1, Concatenated DEF Line

\* Every step keeps the lines in order.
LEMMA ConversationsStep ==
    ASSUME RouterInv, [Next]_vars, TypeOK' PROVE Conversations'
<1> USE DEF RouterInv
<1> SUFFICES ASSUME NEW x \in Actors
             PROVE  /\ Addressed(Line(x)', x, party') /\ InTurn(Line(x)')
                    /\ OpenFirst(Line(x)', x, party')
                    /\ \A i \in 1..Len(seen'[x]) : seen'[x][i].chan # None
  BY DEF Conversations
<1>1. \A i \in 1..Len(seen'[x]) : seen'[x][i].chan # None
  BY SeenStep
<1>2. /\ Line(x) \in Seq(Messages) /\ Addressed(Line(x), x, party) /\ InTurn(Line(x))
      /\ OpenFirst(Line(x), x, party)
  BY LineType DEF Conversations
<1>3. Line(x)' \in Seq(Messages)
  BY LineTypeAfter
<1>4. CASE ~Lengthens
  <2>1. PICK v : v = Line(x)'
    OBVIOUS
  <2>2. v \in Seq(Messages) /\ Thinned(v, Line(x))
    BY <1>3, <1>4, <2>1, QuietStep DEF Lesser
  <2>3. Addressed(v, x, party) /\ InTurn(v) /\ OpenFirst(v, x, party)
    BY <1>2, <2>2, ThinKeeps
  <2>4. \A c \in Chans : Mentions(v, c) => party[c] # NoParty
    BY <1>2, <2>2, ThinKeeps, Spoken
  <2>5. Addressed(v, x, party') /\ OpenFirst(v, x, party')
    BY <2>2, <2>3, <2>4, PartyMatters
  <2> QED
    BY <1>1, <2>1, <2>3, <2>5
<1>5. CASE Lengthens
  <2>1. UNCHANGED party /\ cmds # <<>>
    BY <1>5, LoudStep
  <2>2. CASE Line(x)' = Line(x)
    BY <1>1, <1>2, <2>1, <2>2
  <2>3. ASSUME NEW b \in Actors, NEW m \in Messages, Posts(b, m)
        PROVE  /\ Addressed(Line(x)', x, party') /\ InTurn(Line(x)')
               /\ OpenFirst(Line(x)', x, party')
    <3>1. Line(x)' = IF x = b THEN Append(Line(b), m) ELSE Line(x)
      BY <2>3 DEF Posts
    <3>2. CASE x # b
      BY <1>2, <2>1, <3>1, <3>2
    <3>3. CASE x = b
      <4>1. Addressed(Append(Line(x), m), x, party)
        BY <1>2, <2>1, <2>3, <3>3, PostFits, PostKeeps
      <4>2. InTurn(Append(Line(x), m))
        BY <1>2, <2>1, <2>3, <3>3, PostFits, PostKeeps
      <4>3. OpenFirst(Append(Line(x), m), x, party)
        BY <1>2, <2>1, <2>3, <3>3, PostFits, PostKeeps
      <4> QED
        BY <2>1, <3>1, <3>3, <4>1, <4>2, <4>3
    <3> QED
      BY <3>2, <3>3
  <2> QED
    BY <1>1, <1>5, <2>2, <2>3, LoudStep
<1> QED
  BY <1>4, <1>5

-----------------------------------------------------------------------------
(* Commands, channels in use and mailbox tasks.                            *)

\* What happens to the router's command channel.
LEMMA CommandsStep ==
    ASSUME TypeOK, [Next]_vars
    PROVE  \/ cmds' = cmds
           \/ cmds # <<>> /\ cmds' = Tail(cmds)
           \/ \E a \in Actors : TaskLeave(a) \/ Register(a)
           \/ \E a, b \in Actors, o \in {"send", "request"} : SendTo(a, o, b)
           \/ \E a, b \in Actors, c \in Chans : OpenChannel(a, b, c)
           \/ \E a \in Actors, o \in {"msg", "close"}, c \in Chans : UseChannel(a, o, c)
<1>1. RouterNext => cmds' = cmds \/ (cmds # <<>> /\ cmds' = Tail(cmds))
  BY DEF RouterNext, RouteRegister, RouteUnregister, RouteRefused, RouteSend, RouteOpen,
         RouteOpened,
         RouteMessage, RouteClose, Next1
<1>2. \A a \in Actors : TaskNext(a) => cmds' = cmds \/ TaskLeave(a)
  BY DEF TaskNext, TaskTake, TaskGiveUp, TaskSignal
<1>3. \A a \in Actors : ActorNext(a) =>
         \/ cmds' = cmds \/ Register(a)
         \/ \E b \in Actors, o \in {"send", "request"} : SendTo(a, o, b)
         \/ \E b \in Actors, c \in Chans : OpenChannel(a, b, c)
         \/ \E o \in {"msg", "close"}, c \in Chans : UseChannel(a, o, c)
  BY DEF ActorNext, HandlerSetup, BeginOwn, BeginMessage, RegisterEarly, GuestReturn, GuestTrap,
         StopActor, OpEnds
<1> QED
  BY <1>1, <1>2, <1>3 DEF Next, vars

\* Command k has come last.
Issued(k) ==
    /\ Len(cmds') = Len(cmds) + 1 /\ cmds'[Len(cmds) + 1] = k
    /\ \A i \in 1..Len(cmds) : cmds'[i] = cmds[i]

\* The commands after a step are those of before, those without the first, or those with
\* one more, which a host function or a mailbox task has issued.
LEMMA CommandOrigin ==
    ASSUME TypeOK, [Next]_vars
    PROVE  \/ cmds' = cmds
           \/ cmds # <<>> /\ cmds' = Tail(cmds)
           \/ \E k \in Commands :
                 /\ Issued(k)
                 /\ k.op = "register" => \E a \in Actors : Register(a) /\ k.by = a
                 /\ k.op = "open" => \E a, b \in Actors, c \in Chans :
                       OpenChannel(a, b, c) /\ k = [op |-> "open", by |-> a, to |-> b, chan |-> c]
<1>0. None \in Actors \cup {None} /\ None \in Chans \cup {None}
  OBVIOUS
<1> DEFINE Origin(k) ==
        /\ Issued(k)
        /\ k.op = "register" => \E a \in Actors : Register(a) /\ k.by = a
        /\ k.op = "open" => \E a, b \in Actors, c \in Chans :
              OpenChannel(a, b, c) /\ k = [op |-> "open", by |-> a, to |-> b, chan |-> c]
<1>1. ASSUME NEW a \in Actors, TaskLeave(a) PROVE \E k \in Commands : Origin(k)
  <2> DEFINE k == [op |-> "unregister", by |-> a, to |-> None, chan |-> None]
  <2>1. k \in Commands
    BY DEF Commands
  <2>2. cmds \in Seq(Commands) /\ cmds' = Append(cmds, k)
    BY <1>1 DEF TypeOK, TaskLeave
  <2>3. Issued(k)
    BY <2>1, <2>2, AppendProperties DEF Issued
  <2> QED
    BY <2>1, <2>3
<1>2. ASSUME NEW a \in Actors, Register(a) PROVE \E k \in Commands : Origin(k)
  <2> DEFINE k == [op |-> "register", by |-> a, to |-> None, chan |-> None]
  <2>1. k \in Commands /\ Issued(k)
    BY <1>0, <1>2, IssueTypes DEF Register, Issued
  <2> QED
    BY <1>2, <2>1
<1>3. ASSUME NEW a \in Actors, NEW b \in Actors, NEW o \in {"send", "request"}, SendTo(a, o, b)
      PROVE  \E k \in Commands : Origin(k)
  <2> DEFINE k == [op |-> o, by |-> a, to |-> b, chan |-> None]
  <2>1. k \in Commands /\ Issued(k)
    BY <1>0, <1>3, IssueTypes DEF SendTo, Issued
  <2> QED
    BY <2>1
<1>4. ASSUME NEW a \in Actors, NEW b \in Actors, NEW c \in Chans, OpenChannel(a, b, c)
      PROVE  \E k \in Commands : Origin(k)
  <2> DEFINE k == [op |-> "open", by |-> a, to |-> b, chan |-> c]
  <2>1. k \in Commands /\ Issued(k)
    BY <1>4, IssueTypes DEF OpenChannel, Issued
  <2> QED
    BY <1>4, <2>1
<1>5. ASSUME NEW a \in Actors, NEW o \in {"msg", "close"}, NEW c \in Chans, UseChannel(a, o, c)
      PROVE  \E k \in Commands : Origin(k)
  <2> DEFINE k == [op |-> o, by |-> a, to |-> None, chan |-> c]
  <2>1. k \in Commands /\ Issued(k)
    BY <1>0, <1>5, IssueTypes, SMTT(30) DEF UseChannel, Issued
  <2> QED
    BY <2>1
<1> QED
  BY <1>1, <1>2, <1>3, <1>4, <1>5, CommandsStep

\* What happens to the map of channels and to the open channel waited for.
LEMMA WaitsStep ==
    ASSUME TypeOK, [Next]_vars
    PROVE  /\ \/ waits' = waits /\ channels' \subseteq channels
              \/ waits' = None /\ channels' \subseteq channels \cup {waits.chan} /\ waits # None
              \/ RouteOpen /\ waits' = Head(cmds) /\ channels' = channels /\ cmds # <<>>
                 /\ Head(cmds).op = "open"
<1>1. CASE RouteOpen
  BY <1>1 DEF RouteOpen, Next1
<1>2. CASE RouteOpened
  BY <1>2 DEF RouteOpened
<1>3. CASE UNCHANGED <<waits, channels>>
  BY <1>3
<1>4. RouterNext => \/ UNCHANGED <<waits, channels>>
                    \/ RouteOpen \/ RouteOpened \/ RouteRefused \/ RouteClose
  BY DEF RouterNext, RouteRegister, RouteUnregister, RouteSend, RouteMessage
<1>5. RouteRefused \/ RouteClose => waits' = waits /\ channels' \subseteq channels
  BY DEF RouteRefused, RouteClose
<1>6. \A a \in Actors : TaskNext(a) => UNCHANGED <<waits, channels>>
  BY DEF TaskNext, TaskTake, TaskGiveUp, TaskSignal, TaskLeave
<1>7. \A a \in Actors : ActorNext(a) => UNCHANGED <<waits, channels>>
  BY DEF ActorNext, HandlerSetup, BeginOwn, BeginMessage, Register, RegisterEarly, SendTo,
         OpenChannel,
         UseChannel, GuestReturn, GuestTrap, StopActor, OpEnds
<1> QED
  BY <1>1, <1>2, <1>3, <1>4, <1>5, <1>6, <1>7 DEF Next, vars

\* A channel comes into use when its open is sent.
LEMMA InUseStep ==
    ASSUME TypeOK, [Next]_vars, NEW c \in Chans, InUse(c)'
    PROVE  InUse(c) \/ (RouteOpen /\ cmds # <<>> /\ Head(cmds).op = "open" /\ Head(cmds).chan = c)
  BY WaitsStep DEF InUse

\* A mailbox task that has ended stays so; one begins when its actor is registered.
LEMMA TaskStep ==
    ASSUME TypeOK, Registering, [Next]_vars, NEW x \in Actors
    PROVE  /\ task[x] = "gone" => task'[x] = "gone"
           /\ task[x] = "starting" => task'[x] = "starting" \/ (RouteRegister /\ Head(cmds).by = x)
           /\ task[x] = "none" => \/ task'[x] = "none"
                                  \/ Register(x)
<1> USE DEF TypeOK
<1>0. RouteRegister => cmds # <<>> /\ Head(cmds).op = "register" /\ task[Head(cmds).by] = "starting"
  <2> SUFFICES ASSUME RouteRegister
               PROVE  cmds # <<>> /\ Head(cmds).op = "register" /\ task[Head(cmds).by] = "starting"
    OBVIOUS
  <2>1. cmds # <<>> /\ Head(cmds).op = "register"
    BY DEF RouteRegister, Next1
  <2>2. Head(cmds) = cmds[1] /\ 1 \in 1..Len(cmds)
    BY <2>1
  <2> QED
    BY <2>1, <2>2 DEF Registering
<1>1. CASE RouteRegister
  BY <1>0, <1>1 DEF RouteRegister
<1>2. CASE UNCHANGED task
  BY <1>2
<1>3. ASSUME NEW a \in Actors, TaskNext(a)
      PROVE  /\ task[a] \in {"recv", "call", "leave"}
             /\ \A y \in Actors : y # a => task'[y] = task[y]
  BY <1>3 DEF TaskNext, TaskTake, TaskGiveUp, TaskSignal, TaskLeave
<1>4. ASSUME NEW a \in Actors, Register(a)
      PROVE  task[a] = "none" /\ \A y \in Actors : y # a => task'[y] = task[y]
  BY <1>4 DEF Register, Registering
<1>5. ASSUME NEW a \in Actors,
             GuestTrap(a) \/ \E ans \in {"accepted", "rejected"} : GuestReturn(a, ans)
      PROVE  UNCHANGED task \/ (task[a] = "call" /\ \A y \in Actors : y # a => task'[y] = task[y])
  BY <1>5 DEF GuestTrap, GuestReturn, Awaited
<1> HIDE DEF TypeOK
<1>6. RouterNext => UNCHANGED task \/ RouteRegister
  BY DEF RouterNext, RouteUnregister, RouteRefused, RouteSend, RouteOpen, RouteOpened,
         RouteMessage, RouteClose
<1>7. \A a \in Actors : ActorNext(a) => \/ UNCHANGED task \/ Register(a) \/ GuestTrap(a)
                                        \/ \E ans \in {"accepted", "rejected"} : GuestReturn(a, ans)
  BY DEF ActorNext, HandlerSetup, BeginOwn, BeginMessage, RegisterEarly, SendTo, OpenChannel,
         UseChannel, StopActor, OpEnds, actVars
<1> QED
  BY <1>1, <1>2, <1>3, <1>4, <1>5, <1>6, <1>7 DEF Next, vars

\* is_registered stays set.
LEMMA JoinedStep ==
    ASSUME [Next]_vars PROVE joined \subseteq joined'
<1>1. RouterNext => UNCHANGED joined
  BY DEF RouterNext, RouteRegister, RouteUnregister, RouteRefused, RouteSend, RouteOpen,
         RouteOpened,
         RouteMessage, RouteClose, actVars
<1>2. \A a \in Actors : TaskNext(a) => UNCHANGED joined
  BY DEF TaskNext, TaskTake, TaskGiveUp, TaskSignal, TaskLeave, actVars
<1>3. \A a \in Actors : ActorNext(a) => joined \subseteq joined'
  BY DEF ActorNext, HandlerSetup, BeginOwn, BeginMessage, Register, RegisterEarly, SendTo,
         OpenChannel,
         UseChannel, GuestReturn, GuestTrap, StopActor, OpEnds, actVars
<1> QED
  BY <1>1, <1>2, <1>3 DEF Next, vars, actVars

\* Every step keeps Registering.
LEMMA RegisteringStep ==
    ASSUME TypeOK, Registering, [Next]_vars PROVE Registering'
<1>1. ASSUME NEW a \in Actors, a \notin joined' PROVE task'[a] = "none"
  <2>1. a \notin joined /\ task[a] = "none" /\ ~Register(a)
    BY <1>1, JoinedStep DEF Registering, Register
  <2> QED
    BY <2>1, TaskStep
<1> DEFINE Ok(i) == /\ cmds'[i].by \in joined' /\ task'[cmds'[i].by] = "starting"
                    /\ \A j \in 1..Len(cmds') : j # i /\ cmds'[j].op = "register" =>
                          cmds'[j].by # cmds'[i].by
<1>2. cmds \in Seq(Commands) /\ \A i \in 1..Len(cmds) : cmds[i].by \in Actors
  <2>1. cmds \in Seq(Commands)
    BY DEF TypeOK
  <2>2. \A i \in 1..Len(cmds) : cmds[i] \in Commands
    BY <2>1
  <2> QED
    BY <2>1, <2>2 DEF Commands
<1>3. \A i \in 1..Len(cmds) : cmds[i].op = "register" =>
         /\ cmds[i].by \in joined'
         /\ task'[cmds[i].by] = "starting" \/ (RouteRegister /\ Head(cmds).by = cmds[i].by)
  BY <1>2, JoinedStep, TaskStep DEF Registering
<1>4. CASE cmds' = cmds
  <2>1. ~RouteRegister
    <3> SUFFICES ASSUME RouteRegister PROVE FALSE
      OBVIOUS
    <3>1. cmds # <<>> /\ cmds' = Tail(cmds)
      BY DEF RouteRegister, Next1
    <3>2. Len(Tail(cmds)) = Len(cmds) - 1 /\ Len(cmds) \in Nat
      BY <1>2, <3>1
    <3> QED
      BY <1>4, <3>1, <3>2
  <2>2. \A i \in 1..Len(cmds') : cmds'[i].op = "register" => Ok(i)
    BY <1>3, <1>4, <2>1 DEF Registering
  <2> QED
    BY <1>1, <2>2 DEF Registering
<1>5. CASE cmds # <<>> /\ cmds' = Tail(cmds)
  <2>1. /\ Len(cmds') = Len(cmds) - 1 /\ Len(cmds) \in Nat
        /\ Head(cmds) = cmds[1] /\ 1 \in 1..Len(cmds)
        /\ \A i \in 1..Len(cmds') : cmds'[i] = cmds[i + 1] /\ i + 1 \in 1..Len(cmds) /\ i + 1 # 1
    BY <1>2, <1>5
  <2>2. RouteRegister => cmds[1].op = "register"
    BY <2>1 DEF RouteRegister, Next1
  <2>3. ASSUME NEW i \in 1..Len(cmds'), cmds'[i].op = "register" PROVE Ok(i)
    <3>1. /\ cmds'[i] = cmds[i + 1] /\ i + 1 \in 1..Len(cmds) /\ i + 1 # 1
          /\ cmds[i + 1].op = "register"
      BY <2>1, <2>3
    <3>2. ~(RouteRegister /\ Head(cmds).by = cmds[i + 1].by)
      BY <2>1, <2>2, <3>1 DEF Registering
    <3>3. cmds'[i].by \in joined' /\ task'[cmds'[i].by] = "starting"
      BY <1>3, <3>1, <3>2
    <3>4. ASSUME NEW j \in 1..Len(cmds'), j # i, cmds'[j].op = "register"
          PROVE  cmds'[j].by # cmds'[i].by
      <4>1. cmds'[j] = cmds[j + 1] /\ j + 1 \in 1..Len(cmds) /\ j + 1 # i + 1
        BY <2>1, <3>4
      <4> QED
        BY <3>1, <3>4, <4>1 DEF Registering
    <3> QED
      BY <3>3, <3>4
  <2> QED
    BY <1>1, <2>3 DEF Registering
<1>6. ASSUME NEW k \in Commands, Issued(k),
             k.op = "register" => \E a \in Actors : Register(a) /\ k.by = a
      PROVE  Registering'
  <2>1. /\ Len(cmds) \in Nat /\ Len(cmds') = Len(cmds) + 1 /\ cmds'[Len(cmds) + 1] = k
        /\ \A i \in 1..Len(cmds) : cmds'[i] = cmds[i]
        /\ \A i \in 1..Len(cmds') : i \in 1..Len(cmds) \/ i = Len(cmds) + 1
    BY <1>2, <1>6 DEF Issued
  <2>2. ~RouteRegister
    <3> SUFFICES ASSUME RouteRegister PROVE FALSE
      OBVIOUS
    <3>1. cmds # <<>> /\ cmds' = Tail(cmds)
      BY DEF RouteRegister, Next1
    <3>2. Len(cmds') = Len(cmds) - 1
      BY <1>2, <3>1
    <3> QED
      BY <2>1, <3>2
  <2>3. k.op = "register" =>
           /\ k.by \in joined' /\ task'[k.by] = "starting"
           /\ \A i \in 1..Len(cmds) : cmds[i].op = "register" => cmds[i].by # k.by
    BY <1>6 DEF Register, Registering, TypeOK
  <2>4. ASSUME NEW i \in 1..Len(cmds'), cmds'[i].op = "register" PROVE Ok(i)
    <3>1. CASE i \in 1..Len(cmds)
      <4>1. cmds'[i].by \in joined' /\ task'[cmds'[i].by] = "starting"
        BY <1>3, <2>1, <2>2, <2>4, <3>1
      <4>2. ASSUME NEW j \in 1..Len(cmds'), j # i, cmds'[j].op = "register"
            PROVE  cmds'[j].by # cmds'[i].by
        BY <2>1, <2>3, <2>4, <3>1, <4>2 DEF Registering
      <4> QED
        BY <4>1, <4>2
    <3>2. CASE i = Len(cmds) + 1
      <4>1. cmds'[i].by \in joined' /\ task'[cmds'[i].by] = "starting"
        BY <2>1, <2>3, <2>4, <3>2
      <4>2. ASSUME NEW j \in 1..Len(cmds'), j # i, cmds'[j].op = "register"
            PROVE  cmds'[j].by # cmds'[i].by
        BY <2>1, <2>3, <2>4, <3>2, <4>2
      <4> QED
        BY <4>1, <4>2
    <3> QED
      BY <2>1, <3>1, <3>2
  <2> QED
    BY <1>1, <2>4 DEF Registering
<1> HIDE DEF Ok
<1> QED
  BY <1>4, <1>5, <1>6, CommandOrigin

-----------------------------------------------------------------------------
(* The other parts of the invariant.                                       *)

\* Every step keeps Tracked.
LEMMA TrackedStep ==
    ASSUME RouterInv, [Next]_vars, TypeOK' PROVE Tracked'
<1> USE DEF RouterInv
<1> SUFFICES ASSUME NEW c \in Chans, InUse(c)'
             PROVE  /\ party'[c] # NoParty
                    /\ \A a \in Actors :
                          /\ ~Holds(Line(a)', c, "close")
                          /\ a = party'[c].tgt => task'[a] = "gone" \/ Holds(Line(a)', c, "open")
  BY DEF Tracked
<1>1. c # None
  BY RouterAssumption
<1>2. ASSUME InUse(c)
      PROVE  /\ party[c] # NoParty /\ party'[c] = party[c]
             /\ \A a \in Actors :
                   /\ ~Holds(Line(a), c, "close")
                   /\ a = party[c].tgt => task[a] = "gone" \/ Holds(Line(a), c, "open")
  BY <1>2, PartyKept DEF Tracked
<1>3. CASE ~Lengthens
  <2>1. InUse(c)
    BY <1>3, InUseStep DEF Lengthens
  <2>2. ASSUME NEW a \in Actors
        PROVE  /\ ~Holds(Line(a)', c, "close")
               /\ a = party[c].tgt => task'[a] = "gone" \/ Holds(Line(a)', c, "open")
    <3>1. PICK v : v = Line(a)'
      OBVIOUS
    <3>2. Thinned(v, Line(a)) /\ (task'[a] = "gone" \/ Kept(v, Line(a)))
      BY <1>3, <3>1, QuietStep DEF Lesser
    <3>3. Line(a) \in Seq(Messages) /\ v \in Seq(Messages)
      BY <3>1, LineType, LineTypeAfter
    <3>4. ~Holds(v, c, "close")
      BY <1>2, <2>1, <3>2, <3>3, ThinKeeps
    <3>5. task[a] = "gone" => task'[a] = "gone"
      BY TaskStep
    <3>6. a = party[c].tgt => task'[a] = "gone" \/ Holds(v, c, "open")
      BY <1>2, <2>1, <3>2, <3>5 DEF Kept
    <3> QED
      BY <3>1, <3>4, <3>6
  <2> QED
    BY <1>2, <2>1, <2>2
<1>4. CASE Lengthens
  <2>1. cmds # <<>> /\ waits = None /\ UNCHANGED <<party, task>>
    BY <1>4, LoudStep
  <2>2. CASE RouteClose /\ \A x \in Actors : Line(x)' = Line(x)
    <3>1. c \in channels
      BY <2>1, <2>2 DEF RouteClose, InUse
    <3> QED
      BY <1>2, <2>1, <2>2, <3>1 DEF InUse
  <2>3. ASSUME NEW b \in Actors, NEW m \in Messages, Posts(b, m), NEW a \in Actors
        PROVE  /\ party'[c] # NoParty
               /\ ~Holds(Line(a)', c, "close")
               /\ a = party'[c].tgt => task'[a] = "gone" \/ Holds(Line(a)', c, "open")
    <3>1. Line(a)' = IF a = b THEN Append(Line(b), m) ELSE Line(a)
      BY <2>3 DEF Posts
    <3>2. Line(b) \in Seq(Messages)
      BY LineType
    <3>3. \A k : Holds(Line(a)', c, k)
                     <=> Holds(Line(a), c, k) \/ (a = b /\ m.chan = c /\ m.kind = k)
      BY <3>1, <3>2, PostKeeps
    <3>4. CASE InUse(c)
      <4>1. ~(m.chan = c /\ m.kind = "close")
        <5> SUFFICES ASSUME m.chan = c, m.kind = "close" PROVE FALSE
          OBVIOUS
        <5>1. Head(cmds).op = "close" /\ Head(cmds).chan = c
          BY <1>1, <2>3 DEF Posts
        <5>2. waits' = None /\ channels' = channels \ {c}
          BY <1>4, <5>1, LoudStep
        <5> QED
          BY <5>2 DEF InUse
      <4> QED
        BY <1>2, <2>1, <3>3, <3>4, <4>1
    <3>5. CASE RouteOpen /\ Head(cmds).op = "open" /\ Head(cmds).chan = c
      <4>1. m.chan = c /\ m.kind = "open"
        BY <2>3, <3>5 DEF Posts
      <4>2. /\ party[c] # NoParty /\ ~Holds(Line(a), c, "close") /\ b = party[c].tgt
        BY <1>1, <2>1, <2>3, <4>1, PostFits
      <4> QED
        BY <2>1, <3>3, <4>1, <4>2
    <3> QED
      BY <3>4, <3>5, InUseStep
  <2>5. CASE \E b \in Actors, m \in Messages : Posts(b, m)
    BY <2>3, <2>5
  <2> QED
    BY <1>4, <2>2, <2>5, LoudStep
<1> QED
  BY <1>3, <1>4

\* Every step keeps Asked: what a step does is about other channels than those that are
\* still to be opened.
LEMMA AskedStep ==
    ASSUME RouterInv, [Next]_vars, TypeOK' PROVE Asked'
<1> USE DEF RouterInv
<1>1. waits' # None => waits'.chan \in Chans
  <2>1. CASE cmds # <<>> /\ Head(cmds).op = "open" /\ waits' = Head(cmds)
    <3>1. Head(cmds) = cmds[1] /\ 1 \in 1..Len(cmds)
      BY <2>1, HeadIsCommand
    <3> QED
      BY <2>1, <3>1 DEF Asked
  <2> QED
    BY <2>1, WaitsStep DEF Asked
<1> DEFINE Fresh(k) == /\ k.chan \in Chans
                       /\ party'[k.chan] = [ini |-> k.by, tgt |-> k.to]
                       /\ k.chan \notin channels'
                       /\ waits' # None => waits'.chan # k.chan
                       /\ \A a \in Actors : ~Mentions(Line(a)', k.chan)
<1>2. ASSUME NEW i \in 1..Len(cmds), cmds[i].op = "open",
             cmds # <<>> /\ cmds' = Tail(cmds) => i # 1
      PROVE  Fresh(cmds[i])
  <2> DEFINE k == cmds[i]
             c == cmds[i].chan
  <2>1. /\ c \in Chans /\ party[c] = [ini |-> k.by, tgt |-> k.to] /\ c \notin channels
        /\ waits # None => waits.chan # c
        /\ \A a \in Actors : ~Mentions(Line(a), c)
        /\ \A j \in 1..Len(cmds) : j # i /\ cmds[j].op = "open" => cmds[j].chan # c
    BY <1>2 DEF Asked
  <2>2. k \in Commands /\ k.by \in Actors
    <3>1. cmds \in Seq(Commands)
      BY DEF TypeOK
    <3>2. k \in Commands
      BY <3>1
    <3> QED
      BY <3>2 DEF Commands
  <2> HIDE DEF k, c
  <2>3. party[c] # NoParty
    BY <2>1, <2>2, RouterAssumption DEF NoParty
  <2>4. party'[c] = party[c]
    BY <2>1, <2>3, PartyKept
  <2>5. ASSUME Lengthens \/ RouteOpen
        PROVE  /\ cmds # <<>> /\ cmds' = Tail(cmds) /\ Head(cmds) = cmds[1] /\ 1 \in 1..Len(cmds)
               /\ Head(cmds).op = "open" => Head(cmds).chan # c
    <3>1. cmds # <<>> /\ cmds' = Tail(cmds)
      BY <2>5, LoudStep DEF Lengthens
    <3>2. Head(cmds) = cmds[1] /\ 1 \in 1..Len(cmds)
      BY <3>1, HeadIsCommand
    <3> QED
      BY <1>2, <2>1, <3>1, <3>2
  <2>6. c \notin channels' /\ (waits' # None => waits'.chan # c)
    BY <2>1, <2>5, WaitsStep
  <2>7. ASSUME NEW a \in Actors PROVE ~Mentions(Line(a)', c)
    <3>1. CASE ~Lengthens
      <4>1. PICK v : v = Line(a)'
        OBVIOUS
      <4>2. Thinned(v, Line(a)) /\ Line(a) \in Seq(Messages) /\ v \in Seq(Messages)
        BY <3>1, <4>1, QuietStep, LineType, LineTypeAfter DEF Lesser
      <4> QED
        BY <2>1, <4>1, <4>2, ThinKeeps
    <3>2. ASSUME Lengthens, NEW b \in Actors, NEW m \in Messages, Posts(b, m)
          PROVE  ~Mentions(Line(a)', c)
      <4>1. Line(a)' = IF a = b THEN Append(Line(b), m) ELSE Line(a)
        BY <3>2 DEF Posts
      <4>2. m.chan # c
        BY <2>1, <2>5, <3>2, RouterAssumption DEF Posts
      <4>3. Line(b) \in Seq(Messages)
        BY LineType
      <4> QED
        BY <2>1, <4>1, <4>2, <4>3, PostKeeps
    <3>3. CASE Lengthens
      BY <2>1, <3>2, <3>3, LoudStep
    <3> QED
      BY <3>1, <3>3
  <2> QED
    BY <2>1, <2>4, <2>6, <2>7 DEF k, c
<1>3. ASSUME NEW a \in Actors, NEW b \in Actors, NEW c \in Chans, OpenChannel(a, b, c)
      PROVE  /\ Fresh([op |-> "open", by |-> a, to |-> b, chan |-> c])
             /\ \A i \in 1..Len(cmds) : cmds[i].op = "open" => cmds[i].chan # c
  <2>1. /\ party[c] = NoParty /\ party'[c] = [ini |-> a, tgt |-> b]
        /\ UNCHANGED <<waits, channels, seen, opq, box>>
    BY <1>3 DEF OpenChannel, TypeOK
  <2>2. ~InUse(c)
    BY <2>1 DEF Tracked
  <2>3. \A x \in Actors : ~Mentions(Line(x)', c)
    BY <2>1, Unmentioned DEF Line
  <2>4. ASSUME NEW i \in 1..Len(cmds), cmds[i].op = "open" PROVE cmds[i].chan # c
    <3>1. cmds \in Seq(Commands)
      BY DEF TypeOK
    <3>2. cmds[i] \in Commands
      BY <3>1
    <3>3. cmds[i].by \in Actors
      BY <3>2 DEF Commands
    <3>4. party[cmds[i].chan] = [ini |-> cmds[i].by, tgt |-> cmds[i].to]
      BY <2>4 DEF Asked
    <3> QED
      BY <2>1, <3>3, <3>4, RouterAssumption DEF NoParty
  <2> QED
    BY <2>1, <2>2, <2>3, <2>4 DEF InUse
<1> HIDE DEF Fresh
<1>4. ASSUME \A i \in 1..Len(cmds') : cmds'[i].op = "open" =>
                /\ Fresh(cmds'[i])
                /\ \A j \in 1..Len(cmds') : j # i /\ cmds'[j].op = "open" =>
                      cmds'[j].chan # cmds'[i].chan
      PROVE  Asked'
  BY <1>1, <1>4 DEF Asked, Fresh
<1>5. cmds \in Seq(Commands)
  BY DEF TypeOK
<1>9. \A i, j \in 1..Len(cmds) : j # i /\ cmds[i].op = "open" /\ cmds[j].op = "open" =>
         cmds[j].chan # cmds[i].chan
  BY DEF Asked
<1> HIDE DEF RouterInv
<1>6. CASE cmds' = cmds
  <2>1. ~(cmds # <<>> /\ cmds' = Tail(cmds))
    <3> SUFFICES ASSUME cmds # <<>>, cmds' = Tail(cmds) PROVE FALSE
      OBVIOUS
    <3>1. Len(Tail(cmds)) = Len(cmds) - 1 /\ Len(cmds) \in Nat
      BY <1>5
    <3> QED
      BY <1>6, <3>1
  <2> QED
    BY <1>2, <1>4, <1>6, <1>9, <2>1
<1>7. CASE cmds # <<>> /\ cmds' = Tail(cmds)
  <2>1. \A i \in 1..Len(cmds') : cmds'[i] = cmds[i + 1] /\ i + 1 \in 1..Len(cmds) /\ i + 1 # 1
    BY <1>5, <1>7
  <2>2. ASSUME NEW i \in 1..Len(cmds'), cmds'[i].op = "open"
        PROVE  Fresh(cmds'[i])
    BY <1>2, <2>1, <2>2
  <2>3. ASSUME NEW i \in 1..Len(cmds'), cmds'[i].op = "open",
               NEW j \in 1..Len(cmds'), j # i, cmds'[j].op = "open"
        PROVE  cmds'[j].chan # cmds'[i].chan
    <3>1. i + 1 # j + 1
      BY <2>3
    <3>2. /\ cmds'[i] = cmds[i + 1] /\ i + 1 \in 1..Len(cmds)
          /\ cmds'[j] = cmds[j + 1] /\ j + 1 \in 1..Len(cmds)
      BY <2>1, <2>3
    <3> QED
      BY <1>9, <2>3, <3>1, <3>2
  <2> QED
    BY <1>4, <2>2, <2>3
<1>8. ASSUME NEW k \in Commands, Issued(k),
             k.op = "open" => \E a, b \in Actors, c \in Chans :
                   OpenChannel(a, b, c) /\ k = [op |-> "open", by |-> a, to |-> b, chan |-> c]
      PROVE  Asked'
  <2>1. /\ Len(cmds) \in Nat /\ Len(cmds') = Len(cmds) + 1 /\ cmds'[Len(cmds) + 1] = k
        /\ \A i \in 1..Len(cmds) : cmds'[i] = cmds[i]
        /\ \A i \in 1..Len(cmds') : i \in 1..Len(cmds) \/ i = Len(cmds) + 1
    BY <1>5, <1>8 DEF Issued
  <2>2. ~(cmds # <<>> /\ cmds' = Tail(cmds))
    <3> SUFFICES ASSUME cmds # <<>>, cmds' = Tail(cmds) PROVE FALSE
      OBVIOUS
    <3>1. Len(cmds') = Len(cmds) - 1
      BY <1>5
    <3> QED
      BY <2>1, <3>1
  <2>3. k.op = "open" => /\ Fresh(k)
                         /\ \A i \in 1..Len(cmds) : cmds[i].op = "open" => cmds[i].chan # k.chan
    BY <1>3, <1>8
  <2>4. ASSUME NEW i \in 1..Len(cmds'), cmds'[i].op = "open" PROVE Fresh(cmds'[i])
    BY <1>2, <2>1, <2>2, <2>3, <2>4
  <2>5. ASSUME NEW i \in 1..Len(cmds'), cmds'[i].op = "open",
               NEW j \in 1..Len(cmds'), j # i, cmds'[j].op = "open"
        PROVE  cmds'[j].chan # cmds'[i].chan
    BY <1>9, <2>1, <2>3, <2>5
  <2> QED
    BY <1>4, <2>4, <2>5
<1> QED
  BY <1>6, <1>7, <1>8, CommandOrigin DEF RouterInv

-----------------------------------------------------------------------------
(* The theorems.                                                           *)

\* For any actors, channels and capacity of a mailbox, the lines, the commands, the map of
\* channels and the mailbox tasks agree.
THEOREM RouterInvariant == Spec => []RouterInv
<1>1. Init => RouterInv
  <2> SUFFICES ASSUME Init PROVE RouterInv
    OBVIOUS
  <2>1. TypeOK
    BY RouterAssumption DEF Init, TypeOK, NoParty
  <2>2. \A a \in Actors : seen[a] = <<>> /\ opq[a] = <<>> /\ box[a] = <<>>
    BY DEF Init
  <2>3. ASSUME NEW a \in Actors PROVE 1..Len(Line(a)) = {} /\ 1..Len(seen[a]) = {}
    <3>1. <<>> \in Seq(Messages) /\ Len(<<>>) = 0 /\ Line(a) = <<>> \o <<>> \o <<>>
      BY <2>2 DEF Line
    <3>2. Len(Line(a)) = 0
      BY <3>1, Concatenated
    <3> QED
      BY <2>2, <3>1, <3>2
  <2>4. Conversations
    BY <2>3 DEF Conversations, Addressed, InTurn, OpenFirst
  <2> QED
    BY <2>1, <2>4 DEF Init, RouterInv, Paired, Asked, Tracked, Registering, InUse
<1>2. ASSUME RouterInv, [Next]_vars PROVE RouterInv'
  <2>1. TypeOK'
    BY <1>2, TypeStep DEF RouterInv
  <2>2. Conversations' /\ Tracked' /\ Asked'
    BY <1>2, <2>1, ConversationsStep, TrackedStep, AskedStep
  <2>3. Paired' /\ Registering'
    BY <1>2, PairedStep, RegisteringStep DEF RouterInv
  <2> QED
    BY <2>1, <2>2, <2>3 DEF RouterInv
<1> QED
  BY <1>1, <1>2, PTL DEF Spec

\* The first part of a line, ...
LEMMA FirstPart ==
    ASSUME NEW s \in Seq(Messages), NEW t \in Seq(Messages), NEW u \in Seq(Messages)
    PROVE  \A i \in 1..Len(s) : i \in 1..Len(s \o t \o u) /\ (s \o t \o u)[i] = s[i]
<1>1. /\ Len(s \o t \o u) = Len(s) + Len(t) + Len(u)
      /\ Len(s) \in Nat /\ Len(t) \in Nat /\ Len(u) \in Nat
  BY Concatenated
<1>2. \A i \in 1..Len(s) : i \in 1..Len(s \o t \o u)
  BY <1>1
<1> QED
  BY <1>2, Concatenated

\* ... which is what has been handled.
LEMMA SeenFirst ==
    ASSUME RouterInv, NEW a \in Actors
    PROVE  /\ Len(seen[a]) \in Nat /\ DOMAIN seen[a] = 1..Len(seen[a])
           /\ \A i \in 1..Len(seen[a]) :
                 i \in 1..Len(Line(a)) /\ Line(a)[i] = seen[a][i] /\ seen[a][i].chan # None
<1>1. seen[a] \in Seq(Messages) /\ opq[a] \in Seq(Messages) /\ box[a] \in Seq(Messages)
  BY DEF RouterInv, TypeOK
<1>2. Len(seen[a]) \in Nat /\ DOMAIN seen[a] = 1..Len(seen[a])
  BY <1>1
<1>3. \A i \in 1..Len(seen[a]) : i \in 1..Len(Line(a)) /\ Line(a)[i] = seen[a][i]
  BY <1>1, FirstPart DEF Line
<1>4. \A i \in 1..Len(seen[a]) : seen[a][i].chan # None
  BY DEF RouterInv, Conversations
<1> QED
  BY <1>2, <1>3, <1>4

\* What is said on a channel reaches only its participants, each from the other.
THEOREM ChannelPrivateHolds == Spec => []ChannelPrivate
<1>1. ASSUME RouterInv PROVE ChannelPrivate
  <2> SUFFICES ASSUME NEW a \in Actors, NEW i \in 1..Len(seen[a])
               PROVE  <<seen[a][i].from, a>> \in Members(party[seen[a][i].chan])
    BY <1>1, SeenFirst DEF ChannelPrivate, Members
  <2>1. Addressed(Line(a), a, party)
    BY <1>1 DEF RouterInv, Conversations
  <2> QED
    BY <1>1, <2>1, SeenFirst DEF Addressed
<1> QED
  BY <1>1, RouterInvariant, PTL

\* A guest sees a channel as a conversation, for any number of actors and channels: the
\* target's open first and once, and nothing after a close.
THEOREM ChannelOrderHolds == Spec => []ChannelOrder
<1>1. ASSUME RouterInv PROVE ChannelOrder
  <2> DEFINE Others(a, i, is) == \A j \in is : seen[a][j].chan # seen[a][i].chan
  <2> SUFFICES ASSUME NEW a \in Actors, NEW i \in 1..Len(seen[a])
               PROVE  LET m == seen[a][i] IN
                      /\ m.kind = "open" <=> a = party[m.chan].tgt /\ Others(a, i, 1 .. i - 1)
                      /\ m.kind = "close" => Others(a, i, i + 1 .. Len(seen[a]))
    BY <1>1, SeenFirst DEF RouterInv, ChannelOrder
  <2> DEFINE m == seen[a][i]
             w == Line(a)
  <2>1. /\ InTurn(w) /\ OpenFirst(w, a, party)
    BY <1>1 DEF RouterInv, Conversations
  <2>2. /\ Len(seen[a]) \in Nat
        /\ \A j \in 1..Len(seen[a]) :
              j \in 1..Len(w) /\ w[j] = seen[a][j] /\ w[j].chan # None
    BY <1>1, SeenFirst
  <2> HIDE DEF w
  <2>3. ASSUME m.kind = "open" PROVE a = party[m.chan].tgt /\ Others(a, i, 1 .. i - 1)
    <3>1. a = party[m.chan].tgt
      BY <2>1, <2>2, <2>3 DEF OpenFirst
    <3>2. ASSUME NEW j \in 1 .. i - 1 PROVE seen[a][j].chan # m.chan
      <4>1. j \in 1..Len(seen[a]) /\ j < i
        BY <2>2
      <4> QED
        BY <2>1, <2>2, <2>3, <4>1 DEF InTurn
    <3> QED
      BY <3>1, <3>2
  <2>4. ASSUME a = party[m.chan].tgt, Others(a, i, 1 .. i - 1) PROVE m.kind = "open"
    <3> SUFFICES ASSUME m.kind # "open" PROVE FALSE
      OBVIOUS
    <3>1. PICK j \in 1..Len(w) : j < i /\ w[j].chan = m.chan
      BY <2>1, <2>2, <2>4 DEF OpenFirst
    <3>2. j \in 1 .. i - 1 /\ j \in 1..Len(seen[a])
      BY <2>2, <3>1
    <3> QED
      BY <2>2, <2>4, <3>1, <3>2
  <2>5. ASSUME m.kind = "close", NEW j \in i + 1 .. Len(seen[a]) PROVE seen[a][j].chan # m.chan
    <3>1. j \in 1..Len(seen[a]) /\ i < j
      BY <2>2
    <3> QED
      BY <2>1, <2>2, <2>5, <3>1 DEF InTurn
  <2> QED
    BY <2>3, <2>4, <2>5
<1> QED
  BY <1>1, RouterInvariant, PTL

=============================================================================
