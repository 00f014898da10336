------------------------ MODULE TheaterServer_proofs ------------------------
(***************************************************************************)
(* Proofs about TheaterServer, for any clients, commands, actors,          *)
(* subscriptions, channels and capacities: what a connection leaves in the *)
(* shared maps, and the order in which clients see responses and events.   *)
(***************************************************************************)
EXTENDS TheaterServer, TLAPS

\* A command about an actor names one.
Addressed ==
    \A c \in Clients : \A i \in 1..Len(inq[c]) :
        inq[c][i].kind \in {"stop", "query", "subscribe"} => inq[c][i].actor \in Actors

\* A connection that will answer knows what.
Working(c)  == pc[c] \in {"wait", "ok", "tell", "respond"}
AnswerKnown == \A c \in Clients : Working(c) => cmd[c] # None

\* A command in the runtime's channel: its connection waits for it and for no other,
\* unless it is a subscribe, and its subscription is open.  That of a StartActor is in
\* nobody's list.
Pending(i) ==
    /\ rq[i].op # "subscribe" =>
         /\ pc[rq[i].by] = "wait"
         /\ \A j \in 1..Len(rq) : j # i /\ rq[j].op # "subscribe" => rq[j].by # rq[i].by
    /\ rq[i].op # "setup" => rq[i].actor \in Actors
    /\ rq[i].op = "subscribe" => rq[i].sub # None
    /\ rq[i].sub # None => sub[rq[i].sub] # None
    /\ rq[i].op = "setup" => \A p \in subscriptions : p[2] # rq[i].sub

Requested == \A i \in 1..Len(rq) : Pending(i)

\* The last event of an actor is the one of its stop.  Only what has been recorded is
\* handed out, and only to subscriptions of the actor that it has been told of.
Told(s) == \A i \in 1..Len(rq) : rq[i].sub # s

Logged ==
    \A a \in Actors :
        /\ actor[a] \in {"none", "up"} => log[a] <= MaxEvents
        /\ \A s \in todo[a] : log[a] >= 1 /\ sub[s] # None /\ sub[s].actor = a /\ Told(s)

\* An entry of the map is under the actor of its subscription, and in the list of the
\* connection, unless this has returned early.
SubsTracked ==
    \A p \in subscriptions :
        /\ sub[p[2]] # None /\ sub[p[2]].actor = p[1]
        /\ p[2] \in mySubs[sub[p[2]].client] \/ pc[sub[p[2]].client] = "failed"

ChansTracked ==
    \A k \in channel_subscriptions :
        /\ chan[k] # None
        /\ k \in myChans[chan[k]] \/ pc[chan[k]] = "failed"

ServerInv ==
    /\ TypeOK /\ Addressed /\ AnswerKnown /\ Requested /\ Logged
    /\ SubsTracked /\ ChansTracked

-----------------------------------------------------------------------------
\* The numbers of the responses that a client has seen (ans), of those in the response
\* channel (rs) and, where w, of the command in work (m): each is greater than those
\* before it, and none greater than top.
IsResp(rs, i) == rs[i].kind = "resp"

Numbers(ans, rs, w, m, top) ==
    /\ \A i, j \in 1..Len(ans) : i < j => ans[i] < ans[j]
    /\ \A i \in 1..Len(ans), j \in 1..Len(rs) : IsResp(rs, j) => ans[i] < rs[j].n
    /\ \A i, j \in 1..Len(rs) : i < j /\ IsResp(rs, i) /\ IsResp(rs, j) => rs[i].n < rs[j].n
    /\ w => /\ \A i \in 1..Len(ans) : ans[i] < m
            /\ \A i \in 1..Len(rs) : IsResp(rs, i) => rs[i].n < m
            /\ m <= top
    /\ \A i \in 1..Len(ans) : ans[i] <= top
    /\ \A i \in 1..Len(rs) : IsResp(rs, i) => rs[i].n <= top

\* The number of the last command that the server has taken, if it was one.
Top(c) == IF inq[c] = <<>> \/ inq[c][1].kind = "bad" THEN asked[c] ELSE asked[c] - 1

\* While a client listens, its answers are in order, through the response channel and up
\* to the command it has sent last.
Answered ==
    \A c \in up :
        /\ Numbers(answers[c], resp[c], Working(c), cmd[c].n, Top(c))
        /\ Len(inq[c]) <= 1
        /\ inq[c] # <<>> => inq[c][1].n = asked[c]

\* A client that does not listen has nothing, and before it connects nothing is there.
Apart ==
    \A c \in Clients :
        /\ c \notin up => answers[c] = <<>>
        /\ pc[c] = "none" =>
             c \notin up /\ resp[c] = <<>> /\ inq[c] = <<>> /\ writer[c] = "none"

-----------------------------------------------------------------------------
\* The i-th item of a response channel is an event of subscription s.
IsEvent(rs, i, s) == rs[i].kind = "event" /\ rs[i].sub = s

\* Event n is the next one of s after those among the first k items of a response
\* channel, or, if there is none, after those that the client has seen (sn), if any.
AfterSent(sn, rs, k, s, n) ==
    /\ \A i \in 1..k : IsEvent(rs, i, s) => rs[i].n < n
    /\ \/ \E i \in 1..k : IsEvent(rs, i, s) /\ rs[i].n + 1 = n
       \/ (\A i \in 1..k : ~IsEvent(rs, i, s)) /\ (sn # <<>> => sn[Len(sn)] + 1 = n)

Gapless(q) == \A i \in 1..(Len(q) - 1) : q[i + 1] = q[i] + 1

\* What is on its way to the client of s comes next, in order: in the response channel,
\* in the event channel (q), and in the chain, whose next event is n.
InResp(sn, rs, s) == \A i \in 1..Len(rs) : IsEvent(rs, i, s) => AfterSent(sn, rs, i - 1, s, rs[i].n)

InQueue(sn, rs, q, s) == Gapless(q) /\ (q # <<>> => AfterSent(sn, rs, Len(rs), s, q[1]))

NextOut(sn, rs, q, s, n) ==
    IF q # <<>> THEN q[Len(q)] + 1 = n ELSE AfterSent(sn, rs, Len(rs), s, n)

\* While the forwarder runs (run), and while it is fed (fed).
Flow(sn, rs, q, run, fed, n, s) ==
    /\ InResp(sn, rs, s)
    /\ run => InQueue(sn, rs, q, s)
    /\ fed => NextOut(sn, rs, q, s, n)

\* The next event that the chain has for s, which it will hand out.
Due(s) == IF s \in todo[sub[s].actor] THEN log[sub[s].actor] ELSE log[sub[s].actor] + 1
Fed(s) == /\ sub[s].fwd = "run" /\ sub[s].actor # None
          /\ sub[s].held \/ s \in todo[sub[s].actor]

\* A subscription that is not in the chain yet has brought nothing.
Outside(s) == sub[s] = None \/ sub[s].actor = None \/ ~Told(s)

Absent(c, s) == \A i \in 1..Len(resp[c]) : ~IsEvent(resp[c], i, s)

Untouched(s) ==
    /\ seen[s] = <<>> /\ \A c \in Clients : Absent(c, s)
    /\ sub[s] # None => sub[s].q = <<>>

Flowing(s) ==
    LET c == sub[s].client IN
    /\ \A d \in Clients : d # c => Absent(d, s)
    /\ writer[c] # "gone" =>
         Flow(seen[s], resp[c], sub[s].q, sub[s].fwd = "run", Fed(s), Due(s), s)

EventsOf(s) ==
    /\ Gapless(seen[s])
    /\ Outside(s) => Untouched(s)
    /\ sub[s] # None => Flowing(s)

Eventful == \A s \in Subs : EventsOf(s)

OrderInv == Answered /\ Apart /\ Eventful

-----------------------------------------------------------------------------
(* Types.                                                                  *)

\* A sequence without its first element.
LEMMA WithoutFirst ==
    ASSUME NEW S, NEW q \in Seq(S), q # <<>>
    PROVE  /\ Head(q) \in S /\ Head(q) = q[1] /\ Tail(q) \in Seq(S)
           /\ Len(q) \in Nat \ {0} /\ Len(Tail(q)) = Len(q) - 1
           /\ \A i \in 1..Len(Tail(q)) : Tail(q)[i] = q[i + 1] /\ i + 1 \in 1..Len(q)
  OBVIOUS

\* A sequence with one more.
LEMMA WithOneMore ==
    ASSUME NEW S, NEW q \in Seq(S), NEW x \in S
    PROVE  /\ Append(q, x) \in Seq(S) /\ Append(q, x) # <<>>
           /\ Len(q) \in Nat /\ Len(Append(q, x)) = Len(q) + 1
           /\ \A i \in 1..Len(q) : Append(q, x)[i] = q[i]
           /\ Append(q, x)[Len(q) + 1] = x
  OBVIOUS

\* The fields of an open subscription, and what becomes of it when one changes.
LEMMA SubscriptionFields ==
    ASSUME NEW x \in Subscription
    PROVE  /\ x # None
           /\ x.client \in Clients /\ x.actor \in Actors \cup {None}
           /\ x.q \in Seq(1..(MaxEvents + 1)) /\ x.fwd \in {"run", "gone"} /\ x.held \in BOOLEAN
           /\ \A a \in Actors : LET y == [x EXCEPT !.actor = a] IN
                /\ y \in Subscription /\ y.client = x.client /\ y.actor = a
                /\ y.q = x.q /\ y.fwd = x.fwd /\ y.held = x.held
           /\ \A q \in Seq(1..(MaxEvents + 1)) : LET y == [x EXCEPT !.q = q] IN
                /\ y \in Subscription /\ y.client = x.client /\ y.actor = x.actor
                /\ y.q = q /\ y.fwd = x.fwd /\ y.held = x.held
           /\ LET y == [x EXCEPT !.held = FALSE] IN
                /\ y \in Subscription /\ y.client = x.client /\ y.actor = x.actor
                /\ y.q = x.q /\ y.fwd = x.fwd /\ y.held = FALSE
           /\ LET y == [x EXCEPT !.fwd = "gone", !.q = <<>>] IN
                /\ y \in Subscription /\ y.client = x.client /\ y.actor = x.actor
                /\ y.q = <<>> /\ y.fwd = "gone" /\ y.held = x.held
<1>1. <<>> \in Seq(1..(MaxEvents + 1))
  OBVIOUS
<1> QED
  BY <1>1, NoneAssumption DEF Subscription

\* A new subscription.
LEMMA OpenedFields ==
    ASSUME NEW c \in Clients, NEW a \in Actors \cup {None}
    PROVE  LET y == Opened(c, a) IN
           /\ y \in Subscription /\ y.client = c /\ y.actor = a
           /\ y.q = <<>> /\ y.fwd = "run" /\ y.held = TRUE
<1>1. <<>> \in Seq(1..(MaxEvents + 1))
  OBVIOUS
<1> QED
  BY <1>1 DEF Opened, Subscription

\* The command in work, and those behind it.
LEMMA LoopCommand ==
    ASSUME TypeOK, rq # <<>>
    PROVE  /\ Loop \in Requests /\ Loop = rq[1] /\ Len(rq) \in Nat \ {0}
           /\ Loop.op \in {"setup", "stop", "query", "subscribe"} /\ Loop.by \in Clients
           /\ Loop.actor \in Actors \cup {None} /\ Loop.sub \in Subs \cup {None}
           /\ Tail(rq) \in Seq(Requests) /\ Len(Tail(rq)) = Len(rq) - 1
           /\ \A i \in 1..Len(Tail(rq)) : Tail(rq)[i] = rq[i + 1] /\ i + 1 \in 1..Len(rq)
<1>1. rq \in Seq(Requests)
  BY DEF TypeOK
<1>2. Loop \in Requests /\ Loop = rq[1]
  BY <1>1 DEF Loop
<1> QED
  BY <1>1, <1>2 DEF Requests

\* A command more for the runtime.
LEMMA RequestAdded ==
    ASSUME TypeOK, NEW c \in Clients, NEW o \in {"setup", "stop", "query", "subscribe"},
           NEW a \in Actors \cup {None}, NEW s \in Subs \cup {None}, Request(c, o, a, s)
    PROVE  /\ rq' \in Seq(Requests) /\ Len(rq') = Len(rq) + 1 /\ Len(rq) \in Nat
           /\ \A i \in 1..Len(rq) : rq'[i] = rq[i]
           /\ LET r == rq'[Len(rq')] IN r.op = o /\ r.by = c /\ r.actor = a /\ r.sub = s
<1> DEFINE r == [op |-> o, by |-> c, actor |-> a, sub |-> s]
<1>1. r \in Requests /\ r.op = o /\ r.by = c /\ r.actor = a /\ r.sub = s
  BY DEF Requests
<1>2. rq \in Seq(Requests) /\ rq' = Append(rq, r)
  BY DEF TypeOK, Request
<1> HIDE DEF r
<1> QED
  BY <1>1, <1>2

\* The next command of a connection.
LEMMA CommandTaken ==
    ASSUME TypeOK, NEW c \in Clients, inq[c] # <<>>
    PROVE  /\ Head(inq[c]) \in Command /\ Head(inq[c]) = inq[c][1] /\ 1 \in 1..Len(inq[c])
           /\ Head(inq[c]) # None /\ Head(inq[c]).n \in Nat /\ Head(inq[c]).kind \in Kinds
           /\ Head(inq[c]).actor \in Actors \cup {None}
           /\ Tail(inq[c]) \in Seq(Command) /\ Len(Tail(inq[c])) = Len(inq[c]) - 1
           /\ Len(inq[c]) \in Nat
           /\ \A i \in 1..Len(Tail(inq[c])) : Tail(inq[c])[i] = inq[c][i + 1] /\ i + 1 \in 1..Len(inq[c])
<1>1. inq[c] \in Seq(Command)
  BY DEF TypeOK
<1>2. Head(inq[c]) \in Command
  BY <1>1
<1> QED
  BY <1>1, <1>2, NoneAssumption DEF Command

\* What the response channel carries.
LEMMA ItemFields ==
    /\ \A x \in Items : \/ x.kind = "resp" /\ x.n \in Nat
                        \/ x.kind = "event" /\ x.sub \in Subs /\ x.n \in 1..(MaxEvents + 1)
    /\ \A n \in Nat : LET x == [kind |-> "resp", n |-> n] IN x \in Items /\ x.kind = "resp" /\ x.n = n
    /\ \A s \in Subs, n \in 1..(MaxEvents + 1) :
         LET x == [kind |-> "event", sub |-> s, n |-> n]
         IN  x \in Items /\ x.kind = "event" /\ x.sub = s /\ x.n = n
  BY DEF Items

\* What clients and response tasks leave alone.
LEMMA ClientFrame ==
    ASSUME NEW c \in Clients, ClientNext(c) \/ WriterNext(c)
    PROVE  /\ UNCHANGED <<cmd, tableVars, sub, chan, runtimeVars>>
           /\ ClientLeaves(c) \/ Written(c) \/ (UNCHANGED <<answers, seen>> /\ up \subseteq up')
           /\ Written(c) \/ WriteFails(c) \/ UNCHANGED resp
<1> USE DEF clientVars, taskVars
<1>1. CASE Connect(c) \/ ClientLeaves(c)
  BY <1>1 DEF Connect, ClientLeaves
<1>2. ASSUME NEW k \in Kinds, NEW a \in Actors \cup {None}, NEW s \in Subs \cup {None},
             NEW ch \in Chans \cup {None}, ClientSends(c, k, a, s, ch)
      PROVE  UNCHANGED <<up, answers, seen, cmd, resp, tableVars, sub, chan, runtimeVars>>
  BY <1>2 DEF ClientSends
<1>3. CASE WriterNext(c)
  BY <1>3 DEF WriterNext, Written, WriteFails, WriterEnds
<1> QED
  BY <1>1, <1>2, <1>3 DEF ClientNext

\* Clients and the response task.
LEMMA ClientTypes ==
    ASSUME TypeOK, NEW c \in Clients, ClientNext(c) \/ WriterNext(c)
    PROVE  TypeOK'
<1> USE DEF TypeOK, clientVars, taskVars, tableVars, runtimeVars
<1>1. CASE Connect(c)
  BY <1>1 DEF Connect
<1>2. CASE ClientLeaves(c)
  <2>1. asked' \in [Clients -> Nat] /\ answers' \in [Clients -> Seq(Nat)]
    BY <1>2 DEF ClientLeaves
  <2>2. seen' \in [Subs -> Seq(1..(MaxEvents + 1))]
    <3> DEFINE S == Seq(1..(MaxEvents + 1))
    <3>1. <<>> \in S /\ seen \in [Subs -> S]
      OBVIOUS
    <3>2. seen' = [s \in Subs |-> IF sub[s] # None /\ sub[s].client = c THEN <<>> ELSE seen[s]]
      BY <1>2 DEF ClientLeaves
    <3> HIDE DEF S
    <3>3. seen' \in [Subs -> S]
      BY <3>1, <3>2
    <3> QED
      BY <3>3 DEF S
  <2> QED
    BY <1>2, <2>1, <2>2 DEF ClientLeaves
<1>3. ASSUME NEW k \in Kinds, NEW a \in Actors \cup {None}, NEW s \in Subs \cup {None},
             NEW ch \in Chans \cup {None}, ClientSends(c, k, a, s, ch)
      PROVE  TypeOK'
  <2> DEFINE x == [kind |-> k, n |-> asked'[c], actor |-> a, sub |-> s, chan |-> ch]
  <2>1. asked' \in [Clients -> Nat]
    BY <1>3 DEF ClientSends
  <2>2. x \in Command
    BY <2>1 DEF Command
  <2>3. inq' = [inq EXCEPT ![c] = Append(@, x)]
    BY <1>3 DEF ClientSends
  <2> HIDE DEF x
  <2>4. inq' \in [Clients -> Seq(Command)]
    BY <2>2, <2>3
  <2> QED
    BY <1>3, <2>1, <2>4 DEF ClientSends
<1>4. CASE Written(c)
  <2>1. Head(resp[c]) \in Items /\ Tail(resp[c]) \in Seq(Items) /\ Len(Tail(resp[c])) = Len(resp[c]) - 1
    BY <1>4 DEF Written
  <2>2. resp' \in [Clients -> Seq(Items)] /\ \A b \in Clients : Len(resp'[b]) <= RespCap
    BY <1>4, <2>1, ServerAssumption DEF Written
  <2>3. answers' \in [Clients -> Seq(Nat)] /\ seen' \in [Subs -> Seq(1..(MaxEvents + 1))]
    <3> DEFINE x == Head(resp[c])
    <3>1. x \in Items
      BY <2>1
    <3>2. CASE x.kind = "resp"
      <4>1. answers' = [answers EXCEPT ![c] = Append(@, x.n)] /\ seen' = seen
        BY <1>4, <3>2 DEF Written
      <4>2. x.n \in Nat
        BY <3>1, <3>2, ItemFields
      <4> HIDE DEF x
      <4> QED
        BY <4>1, <4>2
    <3>3. CASE x.kind # "resp"
      <4>1. seen' = [seen EXCEPT ![x.sub] = Append(@, x.n)] /\ answers' = answers
        BY <1>4, <3>3 DEF Written
      <4>2. x.sub \in Subs /\ x.n \in 1..(MaxEvents + 1)
        BY <3>1, <3>3, ItemFields
      <4> HIDE DEF x
      <4> QED
        BY <4>1, <4>2
    <3> QED
      BY <3>2, <3>3
  <2> QED
    BY <1>4, <2>2, <2>3 DEF Written
<1>5. CASE WriteFails(c)
  BY <1>5, ServerAssumption DEF WriteFails
<1>6. CASE WriterEnds(c)
  BY <1>6 DEF WriterEnds
<1> QED
  BY <1>1, <1>2, <1>3, <1>4, <1>5, <1>6 DEF ClientNext, WriterNext

\* The state of a subscription changes.
LEMMA SubTypes ==
    ASSUME TypeOK, NEW s \in Subs, NEW x \in Subscription, Len(x.q) <= EventCap,
           sub' = [sub EXCEPT ![s] = x]
    PROVE  /\ sub' \in [Subs -> Subscription \cup {None}]
           /\ \A t \in Subs : sub'[t] # None => Len(sub'[t].q) <= EventCap
  BY DEF TypeOK

\* The connections.
LEMMA ConnectionTypes ==
    ASSUME TypeOK, Addressed, AnswerKnown, NEW c \in Clients, ConnectionNext(c)
    PROVE  TypeOK'
<1> USE DEF TypeOK, clientVars, taskVars, tableVars, runtimeVars
<1>1. ASSUME NEW ks, Taken(c, ks)
      PROVE  inq' \in [Clients -> Seq(Command)] /\ cmd' \in [Clients -> Command \cup {None}]
  <2>1. inq[c] # <<>> /\ inq' = [inq EXCEPT ![c] = Tail(@)] /\ cmd' = [cmd EXCEPT ![c] = Head(inq[c])]
    BY <1>1 DEF Taken
  <2>2. Head(inq[c]) \in Command /\ Tail(inq[c]) \in Seq(Command)
    BY <2>1, CommandTaken
  <2> QED
    BY <2>1, <2>2
<1>2. ASSUME NEW s \in Subs, Fresh(s), NEW a \in Actors \cup {None}, sub' = [sub EXCEPT ![s] = Opened(c, a)]
      PROVE  /\ sub' \in [Subs -> Subscription \cup {None}]
             /\ \A t \in Subs : sub'[t] # None => Len(sub'[t].q) <= EventCap
  <2>1. Opened(c, a) \in Subscription /\ Opened(c, a).q = <<>>
    <3> HIDE DEF TypeOK
    <3> QED
      BY OpenedFields
  <2>2. Len(Opened(c, a).q) <= EventCap
    BY <2>1, ServerAssumption
  <2> QED
    BY <1>2, <2>1, <2>2, SubTypes
<1>3. CASE TakeBad(c)
  <2>1. inq' \in [Clients -> Seq(Command)]
    BY <1>3, CommandTaken DEF TakeBad
  <2> QED
    BY <1>3, <2>1 DEF TakeBad
<1>4. CASE TakeGarbled(c)
  BY <1>1, <1>4 DEF TakeGarbled
<1>5. CASE TakeStart(c)
  <2>1. rq' \in Seq(Requests)
    BY <1>5, RequestAdded DEF TakeStart
  <2> QED
    BY <1>1, <1>5, <2>1 DEF TakeStart
<1>6. ASSUME NEW s \in Subs, TakeFollow(c, s) PROVE TypeOK'
  <2>1. rq' \in Seq(Requests)
    BY <1>6, RequestAdded DEF TakeFollow
  <2>2. inq' \in [Clients -> Seq(Command)] /\ cmd' \in [Clients -> Command \cup {None}]
    BY <1>1, <1>6 DEF TakeFollow
  <2>3. /\ sub' \in [Subs -> Subscription \cup {None}]
        /\ \A t \in Subs : sub'[t] # None => Len(sub'[t].q) <= EventCap
    BY <1>2, <1>6 DEF TakeFollow
  <2> QED
    BY <1>6, <2>1, <2>2, <2>3 DEF TakeFollow
<1>7. CASE TakeStartFails(c)
  BY <1>1, <1>7 DEF TakeStartFails
<1>8. CASE TakeStopOrQuery(c)
  <2> DEFINE o == Head(inq[c]).kind
             a == Head(inq[c]).actor
  <2>1. inq[c] # <<>> /\ o \in {"stop", "query"}
    BY <1>8 DEF TakeStopOrQuery, Taken
  <2>2. a \in Actors \cup {None}
    BY <2>1, CommandTaken
  <2>3. rq' \in Seq(Requests)
    <3>1. Request(c, o, a, None)
      BY <1>8 DEF TakeStopOrQuery
    <3> HIDE DEF o, a, TypeOK
    <3>2. o \in {"setup", "stop", "query", "subscribe"}
      BY <2>1
    <3> QED
      BY <2>2, <3>1, <3>2, RequestAdded
  <2> QED
    BY <1>1, <1>8, <2>3 DEF TakeStopOrQuery
<1>9. CASE TakeUnsubscribe(c)
  BY <1>1, <1>9 DEF TakeUnsubscribe
<1>10. ASSUME NEW s \in Subs, TakeSubscribe(c, s) PROVE TypeOK'
  <2> DEFINE a == Head(inq[c]).actor
  <2>1. inq[c] # <<>> /\ Head(inq[c]).kind = "subscribe"
    BY <1>10 DEF TakeSubscribe, Taken
  <2>2. a \in Actors
    BY <2>1, CommandTaken DEF Addressed
  <2>3. rq' \in Seq(Requests)
    BY <1>10, <2>2, RequestAdded DEF TakeSubscribe
  <2>4. inq' \in [Clients -> Seq(Command)] /\ cmd' \in [Clients -> Command \cup {None}]
    BY <1>1, <1>10 DEF TakeSubscribe
  <2>5. /\ sub' \in [Subs -> Subscription \cup {None}]
        /\ \A t \in Subs : sub'[t] # None => Len(sub'[t].q) <= EventCap
    BY <1>2, <1>10, <2>2 DEF TakeSubscribe
  <2>6. subscriptions' \subseteq Actors \X Subs
    BY <1>10, <2>2 DEF TakeSubscribe
  <2> HIDE DEF a
  <2> QED
    BY <1>10, <2>3, <2>4, <2>5, <2>6 DEF TakeSubscribe
<1>11. ASSUME NEW ok \in BOOLEAN, TakeClose(c, ok) PROVE TypeOK'
  BY <1>1, <1>11 DEF TakeClose
<1>12. ASSUME NEW ok \in BOOLEAN, NEW k \in Chans, TakeOpen(c, k, ok) PROVE TypeOK'
  BY <1>1, <1>12 DEF TakeOpen
<1>13. CASE Stopped(c)
  BY <1>13 DEF Stopped
<1>14. CASE ReturnsEarly(c)
  BY <1>14 DEF ReturnsEarly, Returned
<1>15. CASE Respond(c)
  <2> DEFINE x == [kind |-> "resp", n |-> cmd[c].n]
  <2>1. cmd[c] \in Command
    BY <1>15 DEF AnswerKnown, Working, Respond
  <2>2. x \in Items
    BY <2>1, ItemFields DEF Command
  <2>3. resp' = [resp EXCEPT ![c] = Append(@, x)] /\ Len(resp[c]) < RespCap
    BY <1>15 DEF Respond
  <2> HIDE DEF x
  <2>4. resp' \in [Clients -> Seq(Items)] /\ \A b \in Clients : Len(resp'[b]) <= RespCap
    BY <2>2, <2>3, ServerAssumption
  <2> QED
    BY <1>15, <2>4 DEF Respond
<1>16. CASE RespondFails(c)
  BY <1>16 DEF RespondFails
<1>17. CASE StreamEnds(c)
  BY <1>17 DEF StreamEnds
<1>18. CASE CleanUp(c)
  BY <1>18 DEF CleanUp, Returned
<1> HIDE DEF TypeOK
<1> QED
  BY <1>3, <1>4, <1>5, <1>6, <1>7, <1>8, <1>9, <1>10, <1>11, <1>12, <1>13, <1>14, <1>15, <1>16,
     <1>17, <1>18 DEF ConnectionNext

\* An open subscription.
LEMMA OpenSub ==
    ASSUME TypeOK, NEW s \in Subs, sub[s] # None
    PROVE  /\ sub[s] \in Subscription /\ sub[s].client \in Clients
           /\ sub[s].q \in Seq(1..(MaxEvents + 1))
           /\ Len(sub[s].q) <= EventCap /\ Len(sub[s].q) \in Nat
<1>1. sub[s] \in Subscription /\ Len(sub[s].q) <= EventCap
  BY DEF TypeOK
<1>2. sub[s].client \in Clients /\ sub[s].q \in Seq(1..(MaxEvents + 1))
  BY <1>1 DEF Subscription
<1> QED
  BY <1>1, <1>2

\* The forwarders and the chains.
LEMMA ForwarderTypes ==
    ASSUME TypeOK, Logged, NEW s \in Subs,
           Forward(s) \/ ForwardEnds(s) \/ \E a \in Actors : HandOut(a, s)
    PROVE  TypeOK'
<1> USE DEF TypeOK, clientVars, taskVars, tableVars, runtimeVars
<1> DEFINE x == sub[s]
           N == 1..(MaxEvents + 1)
<1>1. ASSUME x # None
      PROVE  /\ x \in Subscription /\ x.client \in Clients /\ x.q \in Seq(N)
             /\ Len(x.q) <= EventCap /\ Len(x.q) \in Nat
  <2> HIDE DEF TypeOK
  <2> QED
    BY <1>1, OpenSub
<1>2. CASE Forward(s)
  <2> DEFINE c == x.client
             y == [x EXCEPT !.q = Tail(x.q)]
             e == [kind |-> "event", sub |-> s, n |-> Head(x.q)]
  <2>1. x # None /\ x.q # <<>>
    BY <1>2 DEF Forward, Running
  <2>2. Head(x.q) \in N /\ Tail(x.q) \in Seq(N) /\ Len(Tail(x.q)) <= EventCap
    <3> HIDE DEF TypeOK, N, x
    <3>1. x.q \in Seq(N) /\ x.q # <<>> /\ Len(x.q) <= EventCap
      BY <1>1, <2>1
    <3> QED
      BY <3>1, ServerAssumption
  <2>3. y \in Subscription /\ y.q = Tail(x.q)
    <3> HIDE DEF TypeOK, x
    <3> QED
      BY <1>1, <2>1, <2>2, SubscriptionFields
  <2>4. sub' = [sub EXCEPT ![s] = y]
    BY <1>2 DEF Forward
  <2>5. e \in Items
    BY <2>2, ItemFields
  <2>6. resp' = [resp EXCEPT ![c] = Append(@, e)] /\ Len(resp[c]) < RespCap /\ c \in Clients
    BY <1>1, <1>2, <2>1 DEF Forward
  <2>7. /\ sub' \in [Subs -> Subscription \cup {None}]
        /\ \A t \in Subs : sub'[t] # None => Len(sub'[t].q) <= EventCap
    <3> HIDE DEF y
    <3> QED
      BY <2>2, <2>3, <2>4, SubTypes
  <2>8. resp' \in [Clients -> Seq(Items)] /\ \A b \in Clients : Len(resp'[b]) <= RespCap
    <3> HIDE DEF e, c
    <3> QED
      BY <2>5, <2>6, ServerAssumption
  <2> QED
    BY <1>2, <2>7, <2>8 DEF Forward
<1>3. CASE ForwardEnds(s)
  <2> DEFINE y == [x EXCEPT !.fwd = "gone", !.q = <<>>]
  <2>1. sub' = [sub EXCEPT ![s] = y] /\ x # None
    BY <1>3 DEF ForwardEnds, Running
  <2>2. y \in Subscription /\ y.q = <<>>
    BY <1>1, <2>1, SubscriptionFields
  <2>3. Len(y.q) <= EventCap
    BY <2>2, ServerAssumption
  <2>4. /\ sub' \in [Subs -> Subscription \cup {None}]
        /\ \A t \in Subs : sub'[t] # None => Len(sub'[t].q) <= EventCap
    <3> HIDE DEF y
    <3> QED
      BY <2>1, <2>2, <2>3, SubTypes
  <2> QED
    BY <1>3, <2>4 DEF ForwardEnds
<1>4. ASSUME NEW a \in Actors, HandOut(a, s) PROVE TypeOK'
  <2>1. x # None /\ log[a] >= 1 /\ log[a] \in N
    BY <1>4, ServerAssumption DEF HandOut, Logged
  <2>2. /\ sub' \in [Subs -> Subscription \cup {None}]
        /\ \A t \in Subs : sub'[t] # None => Len(sub'[t].q) <= EventCap
    <3>1. CASE x.fwd = "run"
      <4> DEFINE q == Append(x.q, log[a])
                 y == [x EXCEPT !.q = q]
      <4>1. sub' = [sub EXCEPT ![s] = y] /\ Len(x.q) < EventCap
        BY <1>4, <3>1 DEF HandOut
      <4>2. q \in Seq(N) /\ Len(q) <= EventCap
        BY <1>1, <2>1, <4>1, ServerAssumption
      <4>3. y \in Subscription /\ y.q = q
        <5> HIDE DEF q, x, TypeOK
        <5> QED
          BY <1>1, <2>1, <4>2, SubscriptionFields
      <4> HIDE DEF y, q
      <4> QED
        BY <4>1, <4>2, <4>3, SubTypes
    <3>2. CASE x.fwd # "run"
      <4> DEFINE y == [x EXCEPT !.held = FALSE]
      <4>1. sub' = [sub EXCEPT ![s] = y]
        BY <1>4, <3>2 DEF HandOut
      <4>2. y \in Subscription /\ y.q = x.q
        BY <1>1, <2>1, SubscriptionFields
      <4> HIDE DEF y
      <4> QED
        BY <1>1, <2>1, <4>1, <4>2, SubTypes
    <3> QED
      BY <3>1, <3>2
  <2> QED
    BY <1>4, <2>2 DEF HandOut
<1> QED
  BY <1>2, <1>3, <1>4

\* The command in work is one that was made.
LEMMA LoopPending ==
    ASSUME TypeOK, Requested, rq # <<>>
    PROVE  /\ Pending(1) /\ Loop = rq[1]
           /\ Loop.op # "subscribe" => pc[Loop.by] = "wait"
           /\ Loop.op # "setup" => Loop.actor \in Actors
           /\ Loop.op = "subscribe" => Loop.sub \in Subs
           /\ Loop.sub # None => Loop.sub \in Subs /\ sub[Loop.sub] # None
           /\ Loop.op = "setup" => \A p \in subscriptions : p[2] # Loop.sub
<1>1. Pending(1) /\ Loop = rq[1] /\ Loop.sub \in Subs \cup {None}
  BY LoopCommand DEF Requested
<1> QED
  BY <1>1 DEF Pending

\* What each step of the runtime makes of the subscriptions: at most their actor or
\* whether their sender is held.
LEMMA RuntimeSubs ==
    ASSUME TypeOK, Requested, RuntimeNext
    PROVE  /\ sub' \in [Subs -> Subscription \cup {None}]
           /\ \A s \in Subs :
                /\ (sub'[s] = None) <=> (sub[s] = None)
                /\ sub[s] # None =>
                     /\ sub'[s].client = sub[s].client /\ sub'[s].q = sub[s].q
                     /\ sub'[s].fwd = sub[s].fwd
                     /\ sub'[s].held => sub[s].held
                     /\ \/ sub'[s].actor = sub[s].actor
                        \/ InWork("setup") /\ Loop.sub = s /\ sub'[s].actor \in Actors
<1> USE DEF clientVars, taskVars, tableVars, runtimeVars
<1> DEFINE Same(s) == sub'[s] = sub[s]
           Drop(s) == sub[s] # None /\ sub'[s] = [sub[s] EXCEPT !.held = FALSE]
           Named(s) == /\ sub[s] # None /\ InWork("setup") /\ Loop.sub = s
                       /\ \E a \in Actors : sub'[s] = [sub[s] EXCEPT !.actor = a]
<1>0. sub \in [Subs -> Subscription \cup {None}]
  BY DEF TypeOK
<1>1. DOMAIN sub' = Subs /\ sub' = [s \in Subs |-> sub'[s]] /\ \A s \in Subs : Same(s) \/ Drop(s) \/ Named(s)
  <2>1. ASSUME NEW a \in Actors, LoopSetup(a)
        PROVE  DOMAIN sub' = Subs /\ sub' = [s \in Subs |-> sub'[s]] /\ \A s \in Subs : Same(s) \/ Named(s)
    <3>1. /\ rq # <<>> /\ InWork("setup") /\ (Loop.sub # None => sub[Loop.sub] # None)
          /\ sub' = [s \in Subs |-> IF s = Loop.sub THEN [sub[s] EXCEPT !.actor = a] ELSE sub[s]]
      BY <2>1, LoopPending DEF LoopSetup, InWork
    <3> QED
      BY <3>1, ServerAssumption
  <2>2. ASSUME NEW kept \in BOOLEAN, LoopSetupFails(kept)
        PROVE  DOMAIN sub' = Subs /\ sub' = [s \in Subs |-> sub'[s]] /\ \A s \in Subs : Same(s) \/ Drop(s)
    <3>1. /\ (Loop.sub # None => sub[Loop.sub] # None)
          /\ sub' = [s \in Subs |-> IF s = Loop.sub /\ ~kept THEN [sub[s] EXCEPT !.held = FALSE]
                                    ELSE sub[s]]
      BY <2>2, LoopPending DEF LoopSetupFails, InWork
    <3> QED
      BY <3>1, ServerAssumption
  <2>3. CASE LoopSubscribe
    <3>1. /\ sub[Loop.sub] # None /\ Loop.sub \in Subs
          /\ sub' = sub \/ sub' = [sub EXCEPT ![Loop.sub].held = FALSE]
      BY <2>3, LoopPending, ServerAssumption DEF LoopSubscribe, InWork
    <3> QED
      BY <1>0, <3>1
  <2>4. CASE LoopStopped
    <3>1. sub' = [s \in Subs |-> IF InChain(s, Loop.actor) THEN [sub[s] EXCEPT !.held = FALSE] ELSE sub[s]]
      BY <2>4 DEF LoopStopped
    <3>2. \A s \in Subs : InChain(s, Loop.actor) => sub[s] # None
      BY DEF InChain
    <3> QED
      BY <3>1, <3>2
  <2>5. CASE LoopStop \/ LoopQuery
    BY <1>0, <2>5 DEF LoopStop, LoopQuery
  <2> QED
    BY <2>1, <2>2, <2>3, <2>4, <2>5 DEF RuntimeNext
<1>2. ASSUME NEW s \in Subs
      PROVE  /\ sub'[s] \in Subscription \cup {None}
             /\ (sub'[s] = None) <=> (sub[s] = None)
             /\ sub[s] # None =>
                  /\ sub'[s].client = sub[s].client /\ sub'[s].q = sub[s].q
                  /\ sub'[s].fwd = sub[s].fwd
                  /\ sub'[s].held => sub[s].held
                  /\ \/ sub'[s].actor = sub[s].actor
                     \/ InWork("setup") /\ Loop.sub = s /\ sub'[s].actor \in Actors
  <2>1. CASE Same(s)
    BY <1>0, <2>1
  <2>2. CASE Drop(s)
    <3>1. sub[s] \in Subscription
      BY <1>0, <2>2
    <3>2. /\ sub'[s] \in Subscription /\ sub'[s].client = sub[s].client
          /\ sub'[s].actor = sub[s].actor /\ sub'[s].q = sub[s].q
          /\ sub'[s].fwd = sub[s].fwd /\ sub'[s].held = FALSE
      BY <2>2, <3>1 DEF Subscription
    <3>3. sub'[s] # None /\ sub[s] # None
      BY <2>2, <3>2, NoneAssumption
    <3> QED
      BY <3>2, <3>3
  <2>3. CASE Named(s)
    <3>1. sub[s] \in Subscription
      BY <1>0, <2>3
    <3>2. /\ sub'[s] \in Subscription /\ sub'[s].client = sub[s].client
          /\ sub'[s].actor \in Actors /\ sub'[s].q = sub[s].q
          /\ sub'[s].fwd = sub[s].fwd /\ sub'[s].held = sub[s].held
      BY <2>3, <3>1 DEF Subscription
    <3>3. sub'[s] # None /\ sub[s] # None
      BY <2>3, <3>2, NoneAssumption
    <3> QED
      BY <2>3, <3>2, <3>3
  <2> QED
    BY <1>1, <2>1, <2>2, <2>3
<1> HIDE DEF Same, Drop, Named
<1> QED
  BY <1>1, <1>2

\* The steps of the runtime keep the types.
LEMMA RuntimeTypes ==
    ASSUME TypeOK, Requested, Logged, RuntimeNext
    PROVE  TypeOK'
<1> USE DEF clientVars, taskVars, tableVars, runtimeVars
<1>1. /\ sub' \in [Subs -> Subscription \cup {None}]
      /\ \A s \in Subs : sub'[s] # None => Len(sub'[s].q) <= EventCap
  BY RuntimeSubs DEF TypeOK
<1>2. \/ rq' = rq /\ pc' = pc
      \/ rq # <<>> /\ rq' = Tail(rq)
         /\ (pc' = pc \/ \E p \in {"respond", "ok", "err"} : pc' = [pc EXCEPT ![Loop.by] = p])
  BY DEF RuntimeNext, LoopSetup, LoopSetupFails, LoopSubscribe, LoopStop, LoopStopped, LoopQuery,
     Reply, InWork
<1>3. /\ rq' \in Seq(Requests)
      /\ pc' \in [Clients -> {"none", "read", "wait", "ok", "err", "tell", "respond", "leave",
                              "done", "failed"}]
  <2>1. rq' \in Seq(Requests)
    BY <1>2, LoopCommand DEF TypeOK
  <2>2. ASSUME NEW p \in {"respond", "ok", "err"}, pc' = [pc EXCEPT ![Loop.by] = p]
        PROVE  pc' \in [Clients -> {"none", "read", "wait", "ok", "err", "tell", "respond", "leave",
                                    "done", "failed"}]
    BY <2>2 DEF TypeOK
  <2>3. CASE pc' = pc
    BY <2>1, <2>3 DEF TypeOK
  <2> QED
    BY <1>2, <2>1, <2>2, <2>3
<1>4. /\ UNCHANGED <<clientVars, cmd, resp, writer, tableVars, chan>>
      /\ actor' \in [Actors -> {"none", "up", "ending", "gone"}]
  <2>1. UNCHANGED <<clientVars, cmd, resp, writer, tableVars, chan>>
    BY DEF RuntimeNext, LoopSetup, LoopSetupFails, LoopSubscribe, LoopStop, LoopStopped, LoopQuery
  <2>2. \/ actor' = actor
        \/ \E a \in Actors : actor' = [actor EXCEPT ![a] = "up"]
        \/ actor' = [actor EXCEPT ![Loop.actor] = "ending"]
        \/ actor' = [actor EXCEPT ![Loop.actor] = IF @ = "ending" THEN "gone" ELSE @]
    BY DEF RuntimeNext, LoopSetup, LoopSetupFails, LoopSubscribe, LoopStop, LoopStopped, LoopQuery
  <2> QED
    BY <2>1, <2>2 DEF TypeOK
<1>5. log' \in [Actors -> 0..(MaxEvents + 1)] /\ todo' \in [Actors -> SUBSET Subs]
  <2>1. CASE LoopStop
    <3>1. rq # <<>> /\ Loop.op = "stop" /\ actor[Loop.actor] = "up" /\ NextEvent(Loop.actor)
      BY <2>1 DEF LoopStop, InWork, Loop
    <3>2. Loop.actor \in Actors
      BY <3>1, LoopPending
    <3>3. log[Loop.actor] <= MaxEvents
      BY <3>1, <3>2 DEF Logged
    <3> QED
      BY <3>1, <3>2, <3>3, ServerAssumption DEF NextEvent, TypeOK
  <2>2. CASE ~LoopStop
    BY <2>2 DEF RuntimeNext, LoopSetup, LoopSetupFails, LoopSubscribe, LoopStopped, LoopQuery,
       TypeOK
  <2> QED
    BY <2>1, <2>2
<1> QED
  BY <1>1, <1>3, <1>4, <1>5 DEF TypeOK

\* Every step keeps the types.
LEMMA TypeStep ==
    ASSUME TypeOK, Addressed, AnswerKnown, Requested, Logged, [Next]_vars
    PROVE  TypeOK'
<1>1. ASSUME NEW a \in Actors, Event(a) PROVE TypeOK'
  <2>1. log[a] < MaxEvents /\ NextEvent(a)
    BY <1>1 DEF Event
  <2> QED
    BY <1>1, <2>1, ServerAssumption DEF Event, NextEvent, TypeOK, clientVars, taskVars, tableVars
<1>2. CASE UNCHANGED vars
  BY <1>2 DEF TypeOK, vars, clientVars, taskVars, tableVars, runtimeVars
<1> QED
  BY <1>1, <1>2, ClientTypes, ConnectionTypes, ForwarderTypes, RuntimeTypes DEF Next

-----------------------------------------------------------------------------
(* What is in the maps.                                                    *)

\* The commands of a client: one is added, or the first one taken.
LEMMA InqStep ==
    ASSUME TypeOK, [Next]_vars, NEW c \in Clients
    PROVE  \/ inq'[c] = inq[c]
           \/ inq[c] # <<>> /\ inq'[c] = Tail(inq[c]) /\ pc[c] = "read"
           \/ /\ inq[c] = <<>> /\ c \in up
              /\ \E k \in Kinds, a \in Actors \cup {None}, s \in Subs \cup {None},
                   ch \in Chans \cup {None} : ClientSends(c, k, a, s, ch)
<1> USE DEF clientVars, taskVars, tableVars, runtimeVars
<1>0. inq \in [Clients -> Seq(Command)]
  BY DEF TypeOK
<1>1. ASSUME NEW d \in Clients, NEW k \in Kinds, NEW a \in Actors \cup {None},
             NEW s \in Subs \cup {None}, NEW ch \in Chans \cup {None}, ClientSends(d, k, a, s, ch)
      PROVE  inq'[c] = inq[c] \/ (c = d /\ inq[c] = <<>> /\ c \in up)
  BY <1>0, <1>1 DEF ClientSends
<1>2. ASSUME NEW d \in Clients, ClientNext(d)
      PROVE  inq'[c] = inq[c] \/
             /\ inq[c] = <<>> /\ c \in up
             /\ \E k \in Kinds, a \in Actors \cup {None}, s \in Subs \cup {None},
                  ch \in Chans \cup {None} : ClientSends(c, k, a, s, ch)
  BY <1>1, <1>2 DEF ClientNext, Connect, ClientLeaves
<1>3. ASSUME NEW d \in Clients, ConnectionNext(d)
      PROVE  \/ inq' = inq
             \/ inq[d] # <<>> /\ inq' = [inq EXCEPT ![d] = Tail(@)] /\ pc[d] = "read"
  BY <1>3 DEF ConnectionNext, TakeBad, TakeGarbled, TakeStart, TakeStartFails, TakeStopOrQuery,
     TakeUnsubscribe, TakeFollow, TakeSubscribe, TakeClose, TakeOpen, Stopped, ReturnsEarly,
     Respond, RespondFails, StreamEnds, CleanUp, Taken
<1>4. ASSUME NEW d \in Clients, WriterNext(d) PROVE inq' = inq
  BY <1>4 DEF WriterNext, Written, WriteFails, WriterEnds
<1>5. ASSUME NEW s \in Subs, Forward(s) \/ ForwardEnds(s) \/ \E a \in Actors : HandOut(a, s)
      PROVE  inq' = inq
  BY <1>5 DEF Forward, ForwardEnds, HandOut
<1>6. ASSUME RuntimeNext \/ \E a \in Actors : Event(a) PROVE inq' = inq
  BY <1>6 DEF RuntimeNext, LoopSetup, LoopSetupFails, LoopSubscribe, LoopStop, LoopStopped,
     LoopQuery, Event
<1>7. ASSUME UNCHANGED vars PROVE inq' = inq
  BY <1>7 DEF vars
<1>8. ASSUME NEW d \in Clients, ConnectionNext(d)
      PROVE  inq'[c] = inq[c] \/ (inq[c] # <<>> /\ inq'[c] = Tail(inq[c]) /\ pc[c] = "read")
  BY <1>0, <1>3, <1>8
<1> QED
  BY <1>2, <1>4, <1>5, <1>6, <1>7, <1>8 DEF Next

\* What a client sends.
LEMMA SentCommand ==
    ASSUME TypeOK, NEW c \in Clients, NEW k \in Kinds, NEW a \in Actors \cup {None},
           NEW s \in Subs \cup {None}, NEW ch \in Chans \cup {None}, ClientSends(c, k, a, s, ch)
    PROVE  /\ asked' = [asked EXCEPT ![c] = IF k = "bad" THEN @ ELSE @ + 1]
           /\ Len(inq'[c]) = 1 /\ inq'[c] # <<>>
           /\ inq'[c][1].kind = k /\ inq'[c][1].n = asked'[c] /\ inq'[c][1].actor = a
           /\ (a = None) <=> (k \in {"start", "follow", "open", "close", "bad"})
           /\ inq[c] = <<>> /\ \A d \in Clients : d # c => inq'[d] = inq[d] /\ asked'[d] = asked[d]
           /\ UNCHANGED <<up, answers, seen, taskVars, tableVars, sub, chan, runtimeVars>>
<1> DEFINE x == [kind |-> k, n |-> asked'[c], actor |-> a, sub |-> s, chan |-> ch]
<1>1. inq' = [inq EXCEPT ![c] = Append(@, x)] /\ inq[c] = <<>>
  BY DEF ClientSends
<1>2. x.kind = k /\ x.n = asked'[c] /\ x.actor = a
  OBVIOUS
<1> HIDE DEF x
<1>3. inq'[c] = Append(<<>>, x) /\ \A d \in Clients : d # c => inq'[d] = inq[d]
  BY <1>1 DEF TypeOK
<1>4. inq'[c] = <<x>>
  BY <1>3
<1>5. Len(inq'[c]) = 1 /\ inq'[c][1] = x /\ inq'[c] # <<>>
  BY <1>4
<1> QED
  BY <1>1, <1>2, <1>3, <1>5 DEF ClientSends, TypeOK

\* A client names the actor of a command that is about one.
LEMMA AddressedStep ==
    ASSUME TypeOK, Addressed, [Next]_vars
    PROVE  Addressed'
<1> SUFFICES ASSUME NEW c \in Clients, NEW i \in 1..Len(inq'[c]),
                    inq'[c][i].kind \in {"stop", "query", "subscribe"}
             PROVE  inq'[c][i].actor \in Actors
  BY DEF Addressed
<1>1. CASE inq'[c] = inq[c]
  BY <1>1 DEF Addressed
<1>2. CASE inq[c] # <<>> /\ inq'[c] = Tail(inq[c])
  <2>1. i \in 1..Len(Tail(inq[c])) /\ inq'[c][i] = inq[c][i + 1] /\ i + 1 \in 1..Len(inq[c])
    BY <1>2, CommandTaken
  <2> QED
    BY <2>1 DEF Addressed
<1>3. ASSUME NEW k \in Kinds, NEW a \in Actors \cup {None}, NEW s \in Subs \cup {None},
             NEW ch \in Chans \cup {None}, ClientSends(c, k, a, s, ch)
      PROVE  inq'[c][i].actor \in Actors
  <2>0. Len(inq'[c]) = 1 /\ inq'[c][1].kind = k /\ inq'[c][1].actor = a
    BY <1>3, SentCommand
  <2>1. i = 1 /\ inq'[c][1].kind = k /\ inq'[c][1].actor = a
    BY <2>0
  <2>2. (a = None) <=> (k \in {"start", "follow", "open", "close", "bad"})
    BY <1>3, SentCommand
  <2> QED
    BY <2>1, <2>2
<1> QED
  BY <1>1, <1>2, <1>3, InqStep

\* The course of a connection: nothing of it changes, it takes a command, it goes on to
\* where it answers nothing, it goes on from the end of a stop, or it is answered.
Takes(c) ==
    /\ pc[c] = "read" /\ inq[c] # <<>> /\ inq'[c] = Tail(inq[c]) /\ cmd'[c] = Head(inq[c])
    /\ pc'[c] \in {"leave", "wait", "tell", "respond"}
    /\ Head(inq[c]).kind = "bad" => pc'[c] = "leave"

Leaves(c) == pc[c] \notin {"wait", "failed"} /\ pc'[c] \in {"read", "leave", "done", "failed"}

Replied(c) ==
    /\ pc[c] = "wait" /\ pc'[c] \in {"respond", "ok", "err"} /\ cmd'[c] = cmd[c]
    /\ rq # <<>> /\ Loop.by = c /\ Loop.op # "subscribe" /\ rq' = Tail(rq)

Course(c) ==
    \/ pc'[c] = pc[c] /\ cmd'[c] = cmd[c]
    \/ Takes(c)
    \/ Leaves(c)
    \/ pc[c] = "ok" /\ pc'[c] = "respond" /\ cmd'[c] = cmd[c]
    \/ Replied(c)

\* Every step takes a connection along its course.
LEMMA CourseStep ==
    ASSUME TypeOK, Requested, [Next]_vars, NEW c \in Clients
    PROVE  Course(c)
<1> USE DEF clientVars, taskVars, tableVars, runtimeVars
<1>0. /\ inq \in [Clients -> Seq(Command)] /\ cmd \in [Clients -> Command \cup {None}]
      /\ DOMAIN pc = Clients
  BY DEF TypeOK
<1>1. ASSUME NEW d \in Clients, ClientNext(d) \/ WriterNext(d) PROVE Course(c)
  <2>1. (pc' = pc \/ (pc[d] = "none" /\ pc' = [pc EXCEPT ![d] = "read"])) /\ cmd' = cmd
    BY <1>1 DEF ClientNext, WriterNext, Connect, ClientLeaves, ClientSends, Written, WriteFails,
       WriterEnds
  <2> QED
    BY <1>0, <2>1 DEF Course, Leaves
<1>2. ASSUME NEW d \in Clients, NEW ks \in SUBSET Kinds, NEW p \in {"leave", "wait", "tell", "respond"},
             Taken(d, ks), pc' = [pc EXCEPT ![d] = p], "bad" \in ks => p = "leave"
      PROVE  Course(c)
  BY <1>0, <1>2 DEF Taken, Course, Takes
<1>3. ASSUME NEW d \in Clients, ConnectionNext(d) PROVE Course(c)
  <2>1. CASE TakeBad(d)
    BY <2>1 DEF TakeBad, Course
  <2>2. CASE TakeGarbled(d)
    BY <1>2, <2>2 DEF TakeGarbled, Kinds
  <2>3. CASE TakeStart(d)
    BY <1>2, <2>3 DEF TakeStart, Kinds
  <2>4. ASSUME NEW s \in Subs, TakeFollow(d, s) PROVE Course(c)
    BY <1>2, <2>4 DEF TakeFollow, Kinds
  <2>5. CASE TakeStartFails(d)
    BY <1>2, <2>5 DEF TakeStartFails, Kinds
  <2>6. CASE TakeStopOrQuery(d)
    BY <1>2, <2>6 DEF TakeStopOrQuery, Kinds
  <2>7. CASE TakeUnsubscribe(d)
    BY <1>2, <2>7 DEF TakeUnsubscribe, Kinds
  <2>8. ASSUME NEW s \in Subs, TakeSubscribe(d, s) PROVE Course(c)
    BY <1>2, <2>8 DEF TakeSubscribe, Kinds
  <2>9. ASSUME NEW ok \in BOOLEAN, TakeClose(d, ok) PROVE Course(c)
    BY <1>2, <2>9 DEF TakeClose, Kinds
  <2>10. ASSUME NEW ok \in BOOLEAN, NEW k \in Chans, TakeOpen(d, k, ok) PROVE Course(c)
    BY <1>2, <2>10 DEF TakeOpen, Kinds
  <2>11. CASE Stopped(d)
    BY <1>0, <2>11 DEF Stopped, Course
  <2>12. CASE ReturnsEarly(d) \/ CleanUp(d)
    BY <1>0, <2>12 DEF ReturnsEarly, CleanUp, Returned, Course, Leaves
  <2>13. CASE Respond(d) \/ RespondFails(d) \/ StreamEnds(d)
    BY <1>0, <2>13 DEF Respond, RespondFails, StreamEnds, Course, Leaves
  <2> QED
    BY <1>3, <2>1, <2>2, <2>3, <2>4, <2>5, <2>6, <2>7, <2>8, <2>9, <2>10, <2>11, <2>12, <2>13
       DEF ConnectionNext
<1>4. ASSUME NEW s \in Subs, Forward(s) \/ ForwardEnds(s) \/ \E a \in Actors : HandOut(a, s)
      PROVE  Course(c)
  BY <1>4 DEF Forward, ForwardEnds, HandOut, Course
<1>5. ASSUME RuntimeNext PROVE Course(c)
  <2>1. CASE pc' = pc /\ cmd' = cmd
    BY <2>1 DEF Course
  <2>2. ASSUME NEW p \in {"respond", "ok", "err"}, InWork("setup") \/ InWork("stop") \/ InWork("query"),
               Reply(p), cmd' = cmd
        PROVE  Course(c)
    <3>1. rq # <<>> /\ Loop.op # "subscribe" /\ rq' = Tail(rq) /\ pc' = [pc EXCEPT ![Loop.by] = p]
      BY <2>2 DEF InWork, Loop, Reply
    <3>2. pc[Loop.by] = "wait"
      BY <3>1, LoopPending
    <3> QED
      BY <1>0, <2>2, <3>1, <3>2 DEF Course, Replied
  <2> QED
    BY <1>5, <2>1, <2>2 DEF RuntimeNext, LoopSetup, LoopSetupFails, LoopSubscribe, LoopStop,
       LoopStopped, LoopQuery
<1>6. ASSUME NEW a \in Actors, Event(a) PROVE Course(c)
  BY <1>6 DEF Event, Course
<1>7. ASSUME UNCHANGED vars PROVE Course(c)
  BY <1>7 DEF vars, Course
<1> QED
  BY <1>1, <1>3, <1>4, <1>5, <1>6, <1>7 DEF Next

\* A command stays known until it is answered.
LEMMA AnswerKnownStep ==
    ASSUME TypeOK, AnswerKnown, Requested, [Next]_vars
    PROVE  AnswerKnown'
<1> SUFFICES ASSUME NEW c \in Clients, Working(c)' PROVE cmd'[c] # None
  BY DEF AnswerKnown
<1>1. Course(c)
  BY CourseStep
<1>2. CASE Takes(c)
  BY <1>2, CommandTaken DEF Takes
<1> QED
  BY <1>1, <1>2 DEF Course, Leaves, Replied, AnswerKnown, Working

\* A subscription stays open and its client's, and its actor is given once, by the
\* setup that it came with.
LEMMA SubsStep ==
    ASSUME TypeOK, Requested, Logged, [Next]_vars, NEW s \in Subs, sub[s] # None
    PROVE  /\ sub'[s] # None /\ sub'[s].client = sub[s].client
           /\ \/ sub'[s].actor = sub[s].actor
              \/ RuntimeNext /\ InWork("setup") /\ Loop.sub = s
           /\ sub'[s].held => sub[s].held
           /\ sub'[s].fwd = "run" => sub[s].fwd = "run"
<1> USE DEF clientVars, taskVars, tableVars, runtimeVars
<1>0. sub \in [Subs -> Subscription \cup {None}] /\ sub[s] \in Subscription
  BY DEF TypeOK
<1> DEFINE Goal == /\ sub'[s] # None /\ sub'[s].client = sub[s].client
                   /\ \/ sub'[s].actor = sub[s].actor
                      \/ RuntimeNext /\ InWork("setup") /\ Loop.sub = s
                   /\ sub'[s].held => sub[s].held
                   /\ sub'[s].fwd = "run" => sub[s].fwd = "run"
<1>1. CASE RuntimeNext
  BY <1>1, RuntimeSubs
<1>2. CASE sub' = sub
  BY <1>2
<1>3. ASSUME NEW t \in Subs, NEW x, sub' = [sub EXCEPT ![t] = x],
             sub[t] = None \/ /\ x \in Subscription /\ x.client = sub[t].client
                              /\ x.actor = sub[t].actor
                              /\ x.held => sub[t].held
                              /\ x.fwd = "run" => sub[t].fwd = "run"
      PROVE  Goal
  <2>1. CASE t = s
    <3>1. sub'[s] = x /\ x \in Subscription
      BY <1>0, <1>3, <2>1
    <3> QED
      BY <1>3, <2>1, <3>1, NoneAssumption
  <2>2. CASE t # s
    BY <1>0, <1>3, <2>2
  <2> QED
    BY <2>1, <2>2
<1>4. ASSUME NEW t \in Subs, NEW c, NEW a, Fresh(t), sub' = [sub EXCEPT ![t] = Opened(c, a)]
      PROVE  Goal
  <2>1. sub[t] = None
    BY <1>4 DEF Fresh
  <2> QED
    BY <1>3, <1>4, <2>1
<1>5. ASSUME NEW c \in Clients, ClientNext(c) \/ WriterNext(c) \/ ConnectionNext(c) PROVE Goal
  <2>1. ASSUME NEW t \in Subs, TakeFollow(c, t) \/ TakeSubscribe(c, t) PROVE Goal
    <3>1. CASE TakeFollow(c, t)
      BY <1>4, <3>1 DEF TakeFollow
    <3>2. CASE TakeSubscribe(c, t)
      BY <1>4, <3>2 DEF TakeSubscribe
    <3> QED
      BY <2>1, <3>1, <3>2
  <2>2. CASE ~\E t \in Subs : TakeFollow(c, t) \/ TakeSubscribe(c, t)
    <3>1. sub' = sub
      BY <1>5, <2>2 DEF ClientNext, WriterNext, ConnectionNext, Connect, ClientLeaves, ClientSends,
         Written, WriteFails, WriterEnds, TakeBad, TakeGarbled, TakeStart, TakeStartFails,
         TakeStopOrQuery, TakeUnsubscribe, TakeClose, TakeOpen, Stopped, ReturnsEarly, Respond,
         RespondFails, StreamEnds, CleanUp
    <3> QED
      BY <1>2, <3>1
  <2> QED
    BY <2>1, <2>2
<1>6. ASSUME NEW t \in Subs, Forward(t) PROVE Goal
  <2> DEFINE x == [sub[t] EXCEPT !.q = Tail(sub[t].q)]
  <2>1. sub[t] \in Subscription /\ sub[t].q # <<>> /\ sub' = [sub EXCEPT ![t] = x]
    BY <1>0, <1>6 DEF Forward, Running
  <2>2. Tail(sub[t].q) \in Seq(1..(MaxEvents + 1))
    <3>1. sub[t].q \in Seq(1..(MaxEvents + 1))
      BY <2>1, SubscriptionFields
    <3> QED
      BY <2>1, <3>1, WithoutFirst
  <2>3. /\ x \in Subscription /\ x.client = sub[t].client /\ x.actor = sub[t].actor
        /\ x.held = sub[t].held /\ x.fwd = sub[t].fwd
    BY <2>1, <2>2 DEF Subscription
  <2> HIDE DEF x
  <2> QED
    BY <1>3, <2>1, <2>3
<1>7. ASSUME NEW t \in Subs, ForwardEnds(t) PROVE Goal
  <2> DEFINE x == [sub[t] EXCEPT !.fwd = "gone", !.q = <<>>]
  <2>1. sub[t] \in Subscription /\ sub' = [sub EXCEPT ![t] = x]
    BY <1>0, <1>7 DEF ForwardEnds, Running
  <2>2. /\ x \in Subscription /\ x.client = sub[t].client /\ x.actor = sub[t].actor
        /\ x.held = sub[t].held /\ x.fwd = "gone"
    BY <2>1, SubscriptionFields
  <2> HIDE DEF x
  <2> QED
    BY <1>3, <2>1, <2>2
<1>8. ASSUME NEW t \in Subs, NEW a \in Actors, HandOut(a, t) PROVE Goal
  <2>1. sub[t] \in Subscription
    BY <1>0, <1>8 DEF HandOut, Logged, TypeOK
  <2>2. CASE sub[t].fwd = "run"
    <3> DEFINE q == Append(sub[t].q, log[a])
               x == [sub[t] EXCEPT !.q = q]
    <3>1. sub' = [sub EXCEPT ![t] = x]
      BY <1>8, <2>2 DEF HandOut
    <3>2. q \in Seq(1..(MaxEvents + 1))
      <4>1. sub[t].q \in Seq(1..(MaxEvents + 1)) /\ log[a] \in 0..(MaxEvents + 1) /\ log[a] >= 1
        BY <1>8, <2>1, SubscriptionFields DEF HandOut, Logged, TypeOK
      <4>2. log[a] \in 1..(MaxEvents + 1)
        BY <4>1, ServerAssumption
      <4> QED
        BY <4>1, <4>2
    <3> HIDE DEF q
    <3>3. /\ x \in Subscription /\ x.client = sub[t].client /\ x.actor = sub[t].actor
          /\ x.held = sub[t].held /\ x.fwd = sub[t].fwd
      BY <2>1, <3>2 DEF Subscription
    <3> HIDE DEF x
    <3> QED
      BY <1>3, <3>1, <3>3
  <2>3. CASE sub[t].fwd # "run"
    <3> DEFINE x == [sub[t] EXCEPT !.held = FALSE]
    <3>1. sub' = [sub EXCEPT ![t] = x]
      BY <1>8, <2>3 DEF HandOut
    <3>2. /\ x \in Subscription /\ x.client = sub[t].client /\ x.actor = sub[t].actor
          /\ x.held = FALSE /\ x.fwd = sub[t].fwd
      BY <2>1 DEF Subscription
    <3> HIDE DEF x
    <3> QED
      BY <1>3, <3>1, <3>2
  <2> QED
    BY <2>2, <2>3
<1>9. ASSUME NEW a \in Actors, Event(a) PROVE Goal
  BY <1>2, <1>9 DEF Event
<1>10. CASE UNCHANGED vars
  BY <1>2, <1>10 DEF vars
<1> QED
  BY <1>1, <1>5, <1>6, <1>7, <1>8, <1>9, <1>10 DEF Next

\* A connection asks the runtime for something, with a new subscription if that is it.
Asks(c) ==
    \E o \in {"setup", "stop", "query", "subscribe"}, a \in Actors \cup {None}, s \in Subs \cup {None} :
        /\ pc[c] = "read" /\ Request(c, o, a, s) /\ \A d \in Clients : d # c => pc'[d] = pc[d]
        /\ (a = None) <=> (o = "setup")
        /\ IF o = "subscribe"
           THEN /\ s \in Subs /\ sub[s] = None /\ sub'[s] = Opened(c, a) /\ pc'[c] = "respond"
                /\ subscriptions' = subscriptions \cup {<<a, s>>}
                /\ mySubs' = [mySubs EXCEPT ![c] = @ \cup {s}]
           ELSE /\ pc'[c] = "wait" /\ subscriptions' = subscriptions
                /\ s # None => sub[s] = None /\ sub'[s] = Opened(c, a)

\* The runtime's commands: one is done, one is added, or nothing changes; entries of the
\* map of subscriptions are added with it only.
LEMMA RequestStep ==
    ASSUME TypeOK, Addressed, [Next]_vars
    PROVE  \/ rq' = rq /\ subscriptions' \subseteq subscriptions
           \/ rq # <<>> /\ rq' = Tail(rq) /\ subscriptions' = subscriptions
           \/ \E c \in Clients : Asks(c)
<1> USE DEF clientVars, taskVars, tableVars, runtimeVars
<1>0. DOMAIN pc = Clients /\ sub \in [Subs -> Subscription \cup {None}]
  BY DEF TypeOK
<1>1. ASSUME NEW c \in Clients, TakeStart(c) PROVE Asks(c)
  BY <1>0, <1>1 DEF TakeStart, Taken, Asks
<1>2. ASSUME NEW c \in Clients, NEW s \in Subs, TakeFollow(c, s) PROVE Asks(c)
  <2>1. sub[s] = None /\ sub'[s] = Opened(c, None)
    BY <1>0, <1>2 DEF TakeFollow, Fresh
  <2>2. /\ pc[c] = "read" /\ Request(c, "setup", None, s) /\ \A d \in Clients : d # c => pc'[d] = pc[d]
        /\ pc'[c] = "wait" /\ subscriptions' = subscriptions
    BY <1>0, <1>2 DEF TakeFollow, Taken
  <2> QED
    BY <2>1, <2>2 DEF Asks
<1>3. ASSUME NEW c \in Clients, TakeStopOrQuery(c) PROVE Asks(c)
  <2> DEFINE o == Head(inq[c]).kind
             a == Head(inq[c]).actor
  <2>1. inq[c] # <<>> /\ o \in {"stop", "query"}
    BY <1>3 DEF TakeStopOrQuery, Taken
  <2>2. a \in Actors
    BY <2>1, CommandTaken DEF Addressed
  <2>3. /\ pc[c] = "read" /\ Request(c, o, a, None) /\ \A d \in Clients : d # c => pc'[d] = pc[d]
        /\ pc'[c] = "wait" /\ subscriptions' = subscriptions
    BY <1>0, <1>3 DEF TakeStopOrQuery, Taken
  <2> HIDE DEF o, a
  <2> QED
    BY <2>1, <2>2, <2>3, ServerAssumption DEF Asks
<1>4. ASSUME NEW c \in Clients, NEW s \in Subs, TakeSubscribe(c, s) PROVE Asks(c)
  <2> DEFINE a == Head(inq[c]).actor
  <2>1. inq[c] # <<>> /\ Head(inq[c]).kind = "subscribe"
    BY <1>4 DEF TakeSubscribe, Taken
  <2>2. a \in Actors
    BY <2>1, CommandTaken DEF Addressed
  <2>3. sub[s] = None /\ sub'[s] = Opened(c, a)
    BY <1>0, <1>4 DEF TakeSubscribe, Fresh
  <2>4. /\ pc[c] = "read" /\ Request(c, "subscribe", a, s) /\ \A d \in Clients : d # c => pc'[d] = pc[d]
        /\ pc'[c] = "respond" /\ subscriptions' = subscriptions \cup {<<a, s>>}
        /\ mySubs' = [mySubs EXCEPT ![c] = @ \cup {s}]
    BY <1>0, <1>4 DEF TakeSubscribe, Taken
  <2> HIDE DEF a
  <2> QED
    BY <2>2, <2>3, <2>4, ServerAssumption DEF Asks
<1>5. ASSUME NEW c \in Clients, ConnectionNext(c)
      PROVE  Asks(c) \/ (rq' = rq /\ subscriptions' \subseteq subscriptions)
  <2>1. \/ TakeStart(c) \/ TakeStopOrQuery(c) \/ \E s \in Subs : TakeFollow(c, s) \/ TakeSubscribe(c, s)
        \/ rq' = rq /\ subscriptions' \subseteq subscriptions
    BY <1>5 DEF ConnectionNext, TakeBad, TakeGarbled, TakeStartFails, TakeUnsubscribe, TakeClose,
       TakeOpen, Stopped, ReturnsEarly, Respond, RespondFails, StreamEnds, CleanUp
  <2> QED
    BY <1>1, <1>2, <1>3, <1>4, <2>1
<1>6. ASSUME NEW c \in Clients, ClientNext(c) \/ WriterNext(c)
      PROVE  rq' = rq /\ subscriptions' = subscriptions
  BY <1>6 DEF ClientNext, WriterNext, Connect, ClientLeaves, ClientSends, Written, WriteFails,
     WriterEnds
<1>7. ASSUME NEW s \in Subs, Forward(s) \/ ForwardEnds(s) \/ \E a \in Actors : HandOut(a, s)
      PROVE  rq' = rq /\ subscriptions' = subscriptions
  BY <1>7 DEF Forward, ForwardEnds, HandOut
<1>8. ASSUME RuntimeNext
      PROVE  (rq' = rq \/ (rq # <<>> /\ rq' = Tail(rq))) /\ subscriptions' = subscriptions
  BY <1>8 DEF RuntimeNext, LoopSetup, LoopSetupFails, LoopSubscribe, LoopStop, LoopStopped,
     LoopQuery, Reply, InWork
<1>9. ASSUME UNCHANGED vars \/ \E a \in Actors : Event(a)
      PROVE  rq' = rq /\ subscriptions' = subscriptions
  BY <1>9 DEF vars, Event
<1> QED
  BY <1>5, <1>6, <1>7, <1>8, <1>9 DEF Next

\* A connection waits for at most one command, and its subscription stays open.
LEMMA RequestedStep ==
    ASSUME TypeOK, Addressed, Requested, Logged, SubsTracked, [Next]_vars
    PROVE  Requested'
<1>0. /\ rq \in Seq(Requests) /\ Len(rq) \in Nat
      /\ \A i \in 1..Len(rq) : /\ rq[i].by \in Clients /\ rq[i].sub \in Subs \cup {None}
                               /\ rq[i].actor \in Actors \cup {None}
  <2>1. rq \in Seq(Requests)
    BY DEF TypeOK
  <2>2. \A i \in 1..Len(rq) : rq[i] \in Requests
    BY <2>1
  <2> QED
    BY <2>1, <2>2 DEF Requests
<1>1. \A s \in Subs : sub[s] # None => sub'[s] # None
  BY SubsStep
<1>2. \A c \in Clients : pc[c] = "wait" => pc'[c] = "wait" \/ Replied(c)
  BY CourseStep DEF Course, Takes, Leaves
<1>3. CASE rq' = rq /\ subscriptions' \subseteq subscriptions
  <2>1. \A c \in Clients : ~Replied(c)
    <3>1. rq # <<>> => Len(Tail(rq)) # Len(rq)
      BY <1>0, WithoutFirst
    <3> QED
      BY <1>3, <3>1 DEF Replied
  <2>2. ASSUME NEW i \in 1..Len(rq) PROVE Pending(i)'
    <3>1. Pending(i)
      BY DEF Requested
    <3> QED
      BY <1>0, <1>1, <1>2, <1>3, <2>1, <3>1, ServerAssumption DEF Pending
  <2> QED
    BY <1>3, <2>2 DEF Requested
<1>4. CASE rq # <<>> /\ rq' = Tail(rq) /\ subscriptions' = subscriptions
  <2>1. /\ Loop = rq[1] /\ 1 \in 1..Len(rq) /\ Len(rq') = Len(rq) - 1
        /\ \A i \in 1..Len(rq') : rq'[i] = rq[i + 1] /\ i + 1 \in 1..Len(rq) /\ i + 1 # 1
    BY <1>0, <1>4, WithoutFirst DEF Loop
  <2>2. ASSUME NEW i \in 1..Len(rq') PROVE Pending(i)'
    <3>1. Pending(i + 1) /\ rq'[i] = rq[i + 1] /\ i + 1 \in 1..Len(rq) /\ i + 1 # 1
      BY <2>1 DEF Requested
    <3>2. rq'[i].op # "subscribe" => pc'[rq'[i].by] = "wait"
      <4> SUFFICES ASSUME rq[i + 1].op # "subscribe" PROVE pc'[rq[i + 1].by] = "wait"
        BY <3>1
      <4>1. pc[rq[i + 1].by] = "wait" /\ (rq[1].op # "subscribe" => rq[1].by # rq[i + 1].by)
        BY <2>1, <3>1 DEF Pending
      <4>2. ~Replied(rq[i + 1].by)
        BY <2>1, <4>1 DEF Replied
      <4> QED
        BY <1>0, <1>2, <3>1, <4>1, <4>2
    <3>3. ASSUME NEW j \in 1..Len(rq'), j # i, rq'[j].op # "subscribe", rq'[i].op # "subscribe"
          PROVE  rq'[j].by # rq'[i].by
      <4>1. rq'[j] = rq[j + 1] /\ j + 1 \in 1..Len(rq) /\ j + 1 # i + 1
        BY <2>1, <3>3
      <4> QED
        BY <3>1, <3>3, <4>1 DEF Pending
    <3>4. /\ rq'[i].op # "setup" => rq'[i].actor \in Actors
          /\ rq'[i].op = "subscribe" => rq'[i].sub # None
          /\ rq'[i].op = "setup" => \A p \in subscriptions' : p[2] # rq'[i].sub
      BY <1>4, <3>1 DEF Pending
    <3>5. rq'[i].sub # None => sub'[rq'[i].sub] # None
      BY <1>0, <1>1, <3>1 DEF Pending
    <3> QED
      BY <3>2, <3>3, <3>4, <3>5 DEF Pending
  <2> QED
    BY <2>2 DEF Requested
<1>5. ASSUME NEW c \in Clients, Asks(c) PROVE Requested'
  <2>1. PICK o \in {"setup", "stop", "query", "subscribe"}, a \in Actors \cup {None}, s \in Subs \cup {None} :
          /\ pc[c] = "read" /\ Request(c, o, a, s) /\ \A d \in Clients : d # c => pc'[d] = pc[d]
          /\ (a = None) <=> (o = "setup")
          /\ IF o = "subscribe"
             THEN /\ s \in Subs /\ sub[s] = None /\ sub'[s] = Opened(c, a) /\ pc'[c] = "respond"
                  /\ subscriptions' = subscriptions \cup {<<a, s>>}
                  /\ mySubs' = [mySubs EXCEPT ![c] = @ \cup {s}]
             ELSE /\ pc'[c] = "wait" /\ subscriptions' = subscriptions
                  /\ s # None => sub[s] = None /\ sub'[s] = Opened(c, a)
    BY <1>5 DEF Asks
  <2>2. /\ Len(rq') = Len(rq) + 1
        /\ \A i \in 1..Len(rq) : rq'[i] = rq[i]
        /\ LET r == rq'[Len(rq) + 1] IN r.op = o /\ r.by = c /\ r.actor = a /\ r.sub = s
    <3>1. Request(c, o, a, s)
      BY <2>1
    <3> QED
      BY <3>1, RequestAdded
  <2>3. Opened(c, a) # None
    <3>1. Opened(c, a) \in Subscription
      BY OpenedFields
    <3> QED
      BY <3>1, NoneAssumption
  <2>4. \A i \in 1..Len(rq) : rq[i].op # "subscribe" => pc[rq[i].by] = "wait" /\ rq[i].by # c
    BY <2>1 DEF Requested, Pending
  <2>5. \A p \in subscriptions : p[2] \in Subs /\ sub[p[2]] # None
    BY DEF SubsTracked, TypeOK
  <2>6. ASSUME NEW i \in 1..Len(rq) PROVE Pending(i)'
    <3>1. Pending(i) /\ rq'[i] = rq[i]
      BY <2>2 DEF Requested
    <3>2. rq[i].op # "subscribe" => pc'[rq[i].by] = "wait"
      BY <1>0, <2>1, <2>4
    <3>3. ASSUME NEW j \in 1..Len(rq'), j # i, rq'[j].op # "subscribe", rq[i].op # "subscribe"
          PROVE  rq'[j].by # rq[i].by
      <4>1. CASE j \in 1..Len(rq)
        BY <2>2, <3>1, <3>3, <4>1 DEF Pending
      <4>2. CASE j = Len(rq) + 1
        BY <2>2, <2>4, <3>3, <4>2
      <4> QED
        BY <1>0, <2>2, <4>1, <4>2
    <3>4. rq[i].sub # None => sub[rq[i].sub] # None /\ sub'[rq[i].sub] # None
      BY <1>0, <1>1, <3>1 DEF Pending
    <3>5. ASSUME rq[i].op = "setup", NEW p \in subscriptions' PROVE p[2] # rq[i].sub
      <4>1. CASE p \in subscriptions
        BY <3>1, <3>5, <4>1 DEF Pending
      <4>2. CASE p = <<a, s>> /\ s \in Subs /\ sub[s] = None
        BY <3>4, <4>2, ServerAssumption
      <4> QED
        BY <2>1, <3>5, <4>1, <4>2
    <3> QED
      BY <3>1, <3>2, <3>3, <3>4, <3>5 DEF Pending
  <2>7. ASSUME NEW n \in Nat, n = Len(rq) + 1 PROVE Pending(n)'
    <3>1. rq'[n].op = o /\ rq'[n].by = c /\ rq'[n].actor = a /\ rq'[n].sub = s
      BY <2>2, <2>7
    <3>2. ASSUME NEW j \in 1..Len(rq'), j # n, rq'[j].op # "subscribe" PROVE rq'[j].by # c
      <4>1. j \in 1..Len(rq)
        BY <1>0, <2>2, <2>7, <3>2
      <4> QED
        BY <2>2, <2>4, <3>2, <4>1
    <3>3. o = "setup" => \A p \in subscriptions' : p[2] # s
      BY <2>1, <2>5, ServerAssumption
    <3>4. /\ o # "subscribe" => pc'[c] = "wait"
          /\ o # "setup" => a \in Actors
          /\ o = "subscribe" => s # None
          /\ s # None => sub'[s] # None
      BY <2>1, <2>3, ServerAssumption
    <3> QED
      BY <3>1, <3>2, <3>3, <3>4 DEF Pending
  <2> QED
    BY <1>0, <2>2, <2>6, <2>7 DEF Requested
<1> QED
  BY <1>3, <1>4, <1>5, RequestStep

\* What the runtime has been told of stays as it is: open, and of its actor.
LEMMA ToldStep ==
    ASSUME TypeOK, Addressed, Requested, Logged, [Next]_vars, NEW s \in Subs, sub[s] # None, Told(s)
    PROVE  sub'[s] # None /\ sub'[s].actor = sub[s].actor /\ Told(s)'
<1>1. rq \in Seq(Requests) /\ Len(rq) \in Nat
  BY DEF TypeOK
<1>2. Told(s)'
  <2>1. CASE rq' = rq
    BY <2>1 DEF Told
  <2>2. CASE rq # <<>> /\ rq' = Tail(rq)
    <3>1. \A i \in 1..Len(rq') : rq'[i] = rq[i + 1] /\ i + 1 \in 1..Len(rq)
      BY <1>1, <2>2, WithoutFirst
    <3> QED
      BY <3>1 DEF Told
  <2>3. ASSUME NEW c \in Clients, Asks(c) PROVE Told(s)'
    <3>1. PICK o \in {"setup", "stop", "query", "subscribe"}, a \in Actors \cup {None}, t \in Subs \cup {None} :
            Request(c, o, a, t) /\ (t # None => sub[t] = None)
      BY <2>3, ServerAssumption DEF Asks
    <3>2. /\ Len(rq') = Len(rq) + 1 /\ \A i \in 1..Len(rq) : rq'[i] = rq[i]
          /\ rq'[Len(rq) + 1].sub = t
      BY <3>1, RequestAdded
    <3>3. t # s
      BY <3>1, ServerAssumption
    <3>4. ASSUME NEW i \in 1..Len(rq') PROVE rq'[i].sub # s
      <4>1. i \in 1..Len(rq) \/ i = Len(rq) + 1
        BY <1>1, <3>2
      <4> QED
        BY <3>2, <3>3, <4>1 DEF Told
    <3> QED
      BY <3>4 DEF Told
  <2> QED
    BY <2>1, <2>2, <2>3, RequestStep
<1>3. sub'[s] # None /\ sub'[s].actor = sub[s].actor
  <2>1. rq # <<>> => Loop = rq[1] /\ 1 \in 1..Len(rq)
    BY <1>1, WithoutFirst DEF Loop
  <2>2. ~(InWork("setup") /\ Loop.sub = s)
    BY <2>1 DEF Told, InWork
  <2> QED
    BY <2>2, SubsStep
<1> QED
  BY <1>2, <1>3

\* A chain: its event reaches some of those it has to reach, or another one is recorded.
LEMMA ChainStep ==
    ASSUME TypeOK, Requested, [Next]_vars, NEW a \in Actors
    PROVE  \/ /\ UNCHANGED <<log[a], actor[a]>> /\ todo'[a] \subseteq todo[a]
              /\ \A s \in todo[a] : s \in todo'[a] \/ HandOut(a, s)
           \/ UNCHANGED <<log[a], todo[a]>> /\ (actor[a] = "none" \/ actor'[a] = "gone")
           \/ /\ actor[a] = "up" /\ NextEvent(a)
              /\ actor'[a] = "ending" \/ (actor'[a] = "up" /\ log[a] < MaxEvents)
<1> USE DEF clientVars, taskVars, tableVars, runtimeVars
<1>0. /\ actor \in [Actors -> {"none", "up", "ending", "gone"}] /\ log \in [Actors -> 0..(MaxEvents + 1)]
      /\ todo \in [Actors -> SUBSET Subs]
  BY DEF TypeOK
<1>1. ASSUME NEW c \in Clients, ClientNext(c) \/ WriterNext(c) \/ ConnectionNext(c)
      PROVE  UNCHANGED <<log, actor, todo>>
  BY <1>1 DEF ClientNext, WriterNext, ConnectionNext, Connect, ClientLeaves, ClientSends,
     Written, WriteFails, WriterEnds, TakeBad, TakeGarbled, TakeStart, TakeFollow, TakeStartFails,
     TakeStopOrQuery, TakeUnsubscribe, TakeSubscribe, TakeClose, TakeOpen, Stopped, ReturnsEarly,
     Respond, RespondFails, StreamEnds, CleanUp
<1>2. ASSUME NEW t \in Subs, Forward(t) \/ ForwardEnds(t) \/ \E b \in Actors : HandOut(b, t)
      PROVE  /\ UNCHANGED <<log, actor>> /\ todo'[a] \subseteq todo[a]
             /\ \A s \in todo[a] : s \in todo'[a] \/ HandOut(a, s)
  <2>1. CASE Forward(t) \/ ForwardEnds(t)
    BY <2>1 DEF Forward, ForwardEnds
  <2>2. ASSUME NEW b \in Actors, HandOut(b, t)
        PROVE  UNCHANGED <<log, actor>> /\ (todo'[a] = todo[a] \/ (b = a /\ todo'[a] = todo[a] \ {t}))
    BY <1>0, <2>2 DEF HandOut
  <2> QED
    BY <1>2, <2>1, <2>2
<1>3. ASSUME NEW b \in Actors, actor[b] = "up", NextEvent(b)
      PROVE  a = b \/ UNCHANGED <<log[a], todo[a]>>
  BY <1>0, <1>3 DEF NextEvent
<1>4. ASSUME NEW b \in Actors, Event(b)
      PROVE  \/ UNCHANGED <<log[a], actor[a], todo[a]>>
             \/ actor[a] = "up" /\ NextEvent(a) /\ actor'[a] = "up" /\ log[a] < MaxEvents
  BY <1>3, <1>4 DEF Event
<1>5. CASE LoopStop
  <2>1. rq # <<>> /\ Loop.op = "stop" /\ actor[Loop.actor] = "up" /\ NextEvent(Loop.actor)
        /\ actor' = [actor EXCEPT ![Loop.actor] = "ending"]
    BY <1>5 DEF LoopStop, InWork, Loop
  <2>2. Loop.actor \in Actors
    BY <2>1, LoopPending
  <2> QED
    BY <1>0, <1>3, <2>1, <2>2
<1>6. CASE RuntimeNext /\ ~LoopStop
  BY <1>0, <1>6 DEF RuntimeNext, LoopSetup, LoopSetupFails, LoopSubscribe, LoopStopped, LoopQuery
<1>7. CASE UNCHANGED vars
  BY <1>7 DEF vars
<1> QED
  BY <1>1, <1>2, <1>4, <1>5, <1>6, <1>7 DEF Next

\* The subscribers of a chain.
LEMMA ChainSubs ==
    ASSUME TypeOK
    PROVE  \A s \in Subs, a \in Actors :
             InChain(s, a) <=> sub[s] # None /\ sub[s].actor = a /\ sub[s].held /\ Told(s)
<1>1. DOMAIN rq = 1..Len(rq)
  BY DEF TypeOK
<1> QED
  BY <1>1 DEF InChain, Told

\* An event goes only to subscriptions that the runtime has been told of.
LEMMA LoggedStep ==
    ASSUME TypeOK, Addressed, Requested, Logged, [Next]_vars
    PROVE  Logged'
<1>0. /\ actor \in [Actors -> {"none", "up", "ending", "gone"}] /\ log \in [Actors -> 0..(MaxEvents + 1)]
      /\ todo \in [Actors -> SUBSET Subs]
  BY DEF TypeOK
<1> SUFFICES ASSUME NEW a \in Actors
             PROVE  /\ actor'[a] \in {"none", "up"} => log'[a] <= MaxEvents
                    /\ \A s \in todo'[a] : /\ log'[a] >= 1 /\ sub'[s] # None
                                           /\ sub'[s].actor = a /\ Told(s)'
  BY DEF Logged
<1>1. ASSUME NEW s \in Subs, s \in todo[a] \/ InChain(s, a)
      PROVE  sub'[s] # None /\ sub'[s].actor = a /\ Told(s)'
  <2>1. sub[s] # None /\ sub[s].actor = a /\ Told(s)
    BY <1>1, ChainSubs DEF Logged
  <2> QED
    BY <2>1, ToldStep
<1>2. CASE todo'[a] \subseteq todo[a] /\ UNCHANGED <<log[a], actor[a]>>
  BY <1>0, <1>1, <1>2 DEF Logged
<1>3. CASE UNCHANGED <<log[a], todo[a]>> /\ (actor[a] = "none" \/ actor'[a] = "gone")
  BY <1>0, <1>1, <1>3 DEF Logged
<1>4. CASE /\ actor[a] = "up" /\ NextEvent(a)
           /\ actor'[a] = "ending" \/ (actor'[a] = "up" /\ log[a] < MaxEvents)
  <2>1. log'[a] = log[a] + 1 /\ todo'[a] = {s \in Subs : InChain(s, a)}
    BY <1>0, <1>4 DEF NextEvent
  <2> QED
    BY <1>0, <1>1, <1>4, <2>1, ServerAssumption
<1> QED
  BY <1>2, <1>3, <1>4, ChainStep

\* What leaves a connection's lists leaves the maps, unless the connection returns early.
LEMMA ListsStep ==
    ASSUME TypeOK, [Next]_vars, NEW c \in Clients
    PROVE  /\ \A p \in subscriptions' :
                p[2] \in mySubs[c] /\ sub[p[2]].actor = p[1] => p[2] \in mySubs'[c] \/ pc'[c] = "failed"
           /\ \A k \in channel_subscriptions' : k \in myChans[c] => k \in myChans'[c] \/ pc'[c] = "failed"
<1> USE DEF clientVars, taskVars, tableVars, runtimeVars
<1>0. /\ mySubs \in [Clients -> SUBSET Subs] /\ myChans \in [Clients -> SUBSET Chans]
      /\ subscriptions \subseteq Actors \X Subs /\ DOMAIN pc = Clients
  BY DEF TypeOK
<1> DEFINE Goal == /\ \A p \in subscriptions' :
                         p[2] \in mySubs[c] /\ sub[p[2]].actor = p[1] => p[2] \in mySubs'[c] \/ pc'[c] = "failed"
                   /\ \A k \in channel_subscriptions' : k \in myChans[c] => k \in myChans'[c] \/ pc'[c] = "failed"
<1>1. ASSUME UNCHANGED <<mySubs, myChans>> PROVE Goal
  BY <1>1
<1>2. ASSUME NEW d \in Clients, TakeUnsubscribe(d) PROVE Goal
  <2> DEFINE a == Head(inq[d]).actor
             s == Head(inq[d]).sub
  <2>1. /\ mySubs' = [mySubs EXCEPT ![d] = IF sub[s].actor = a THEN @ \ {s} ELSE @]
        /\ subscriptions' = subscriptions \ {<<a, s>>} /\ myChans' = myChans
    BY <1>2 DEF TakeUnsubscribe
  <2> HIDE DEF a, s
  <2>2. ASSUME NEW p \in subscriptions', p[2] \in mySubs[c], sub[p[2]].actor = p[1]
        PROVE  p[2] \in mySubs'[c]
    <3>1. p \in subscriptions /\ p # <<a, s>> /\ p = <<p[1], p[2]>>
      BY <1>0, <2>1, <2>2
    <3>2. CASE d = c /\ sub[s].actor = a
      <4>1. p[2] # s
        BY <2>2, <3>1, <3>2
      <4> QED
        BY <1>0, <2>1, <2>2, <3>2, <4>1
    <3>3. CASE d # c \/ sub[s].actor # a
      BY <1>0, <2>1, <2>2, <3>3
    <3> QED
      BY <3>2, <3>3
  <2> QED
    BY <2>1, <2>2
<1>3. ASSUME NEW d \in Clients, ReturnsEarly(d) PROVE Goal
  BY <1>0, <1>3 DEF ReturnsEarly, Returned
<1>4. ASSUME NEW d \in Clients, CleanUp(d) PROVE Goal
  BY <1>0, <1>4 DEF CleanUp, Returned
<1>5. ASSUME NEW d \in Clients, NEW ok \in BOOLEAN, TakeClose(d, ok) PROVE Goal
  BY <1>0, <1>5 DEF TakeClose
<1>6. ASSUME NEW d \in Clients, NEW ok \in BOOLEAN, NEW k \in Chans, TakeOpen(d, k, ok) PROVE Goal
  BY <1>0, <1>6 DEF TakeOpen
<1>7. ASSUME NEW d \in Clients, NEW s \in Subs, TakeSubscribe(d, s) PROVE Goal
  BY <1>0, <1>7 DEF TakeSubscribe
<1>8. ASSUME NEW d \in Clients, ClientNext(d) \/ WriterNext(d) \/ ConnectionNext(d)
      PROVE  \/ UNCHANGED <<mySubs, myChans>>
             \/ TakeUnsubscribe(d) \/ ReturnsEarly(d) \/ CleanUp(d)
             \/ \E ok \in BOOLEAN : TakeClose(d, ok) \/ \E k \in Chans : TakeOpen(d, k, ok)
             \/ \E s \in Subs : TakeSubscribe(d, s)
  <2>1. CASE ClientNext(d) \/ WriterNext(d)
    BY <2>1, ClientFrame
  <2>2. CASE ConnectionNext(d)
    BY <2>2 DEF ConnectionNext, TakeBad, TakeGarbled, TakeStart, TakeFollow, TakeStartFails,
       TakeStopOrQuery, Stopped, Respond, RespondFails, StreamEnds
  <2> QED
    BY <1>8, <2>1, <2>2
<1>9. ASSUME NEW s \in Subs, Forward(s) \/ ForwardEnds(s) \/ \E a \in Actors : HandOut(a, s)
      PROVE  UNCHANGED <<mySubs, myChans>>
  BY <1>9 DEF Forward, ForwardEnds, HandOut
<1>10. ASSUME RuntimeNext \/ UNCHANGED vars \/ \E a \in Actors : Event(a)
       PROVE  UNCHANGED <<mySubs, myChans>>
  BY <1>10 DEF RuntimeNext, LoopSetup, LoopSetupFails, LoopSubscribe, LoopStop, LoopStopped,
     LoopQuery,
     Event, vars
<1> HIDE DEF Goal
<1>11. Goal
  BY <1>1, <1>2, <1>3, <1>4, <1>5, <1>6, <1>7, <1>8, <1>9, <1>10 DEF Next
<1> QED
  BY <1>11 DEF Goal

\* A connection that has returned early stays so.
LEMMA FailedStays ==
    ASSUME TypeOK, Requested, [Next]_vars, NEW c \in Clients, pc[c] = "failed"
    PROVE  pc'[c] = "failed"
  BY CourseStep DEF Course, Takes, Leaves, Replied

\* A connection removes from the map what it forgets.
LEMMA SubsTrackedStep ==
    ASSUME TypeOK, Addressed, Requested, Logged, SubsTracked, [Next]_vars
    PROVE  SubsTracked'
<1> SUFFICES ASSUME NEW p \in subscriptions'
             PROVE  /\ sub'[p[2]] # None /\ sub'[p[2]].actor = p[1]
                    /\ p[2] \in mySubs'[sub'[p[2]].client] \/ pc'[sub'[p[2]].client] = "failed"
  BY DEF SubsTracked
<1>1. CASE p \in subscriptions
  <2> DEFINE s == p[2]
             c == sub[s].client
  <2>1. s \in Subs /\ sub[s] # None /\ sub[s].actor = p[1] /\ (s \in mySubs[c] \/ pc[c] = "failed")
    BY <1>1 DEF SubsTracked, TypeOK
  <2>2. c \in Clients
    BY <2>1, OpenSub
  <2>3. ~(InWork("setup") /\ Loop.sub = s)
    BY <1>1, LoopPending DEF InWork, Loop
  <2>4. sub'[s] # None /\ sub'[s].client = c /\ sub'[s].actor = p[1]
    BY <2>1, <2>3, SubsStep
  <2>5. s \in mySubs'[c] \/ pc'[c] = "failed"
    BY <2>1, <2>2, ListsStep, FailedStays
  <2> QED
    BY <2>4, <2>5
<1>2. ASSUME NEW c \in Clients, Asks(c), p \notin subscriptions
      PROVE  /\ sub'[p[2]] # None /\ sub'[p[2]].actor = p[1]
             /\ p[2] \in mySubs'[sub'[p[2]].client]
  <2>1. PICK a \in Actors \cup {None}, s \in Subs :
          p = <<a, s>> /\ sub'[s] = Opened(c, a) /\ mySubs' = [mySubs EXCEPT ![c] = @ \cup {s}]
    BY <1>2 DEF Asks
  <2>2. Opened(c, a) # None /\ Opened(c, a).client = c /\ Opened(c, a).actor = a
    <3>1. Opened(c, a) \in Subscription /\ Opened(c, a).client = c /\ Opened(c, a).actor = a
      BY OpenedFields
    <3> QED
      BY <3>1, NoneAssumption
  <2>3. s \in mySubs'[c]
    BY <2>1 DEF TypeOK
  <2> QED
    BY <2>1, <2>2, <2>3
<1> QED
  BY <1>1, <1>2, RequestStep

\* The same for channels.
LEMMA ChansTrackedStep ==
    ASSUME TypeOK, Requested, ChansTracked, [Next]_vars
    PROVE  ChansTracked'
<1> USE DEF clientVars, taskVars, tableVars, runtimeVars
<1>0. /\ chan \in [Chans -> Clients \cup {None}] /\ channel_subscriptions \subseteq Chans
      /\ myChans \in [Clients -> SUBSET Chans]
  BY DEF TypeOK
<1>1. ASSUME NEW k \in channel_subscriptions, k \in channel_subscriptions', chan'[k] = chan[k]
      PROVE  chan'[k] # None /\ (k \in myChans'[chan'[k]] \/ pc'[chan'[k]] = "failed")
  BY <1>0, <1>1, ListsStep, FailedStays DEF ChansTracked
<1>2. ASSUME NEW d \in Clients, NEW k \in Chans, NEW ok \in BOOLEAN, TakeOpen(d, k, ok)
      PROVE  ChansTracked'
  <2>1. /\ chan[k] = None /\ chan' = [chan EXCEPT ![k] = d]
        /\ channel_subscriptions' \subseteq channel_subscriptions \cup {k}
        /\ k \in channel_subscriptions' => k \in myChans'[d]
    BY <1>0, <1>2 DEF TakeOpen, ChansTracked
  <2>2. k \notin channel_subscriptions
    BY <2>1 DEF ChansTracked
  <2>3. ASSUME NEW j \in channel_subscriptions'
        PROVE  chan'[j] # None /\ (j \in myChans'[chan'[j]] \/ pc'[chan'[j]] = "failed")
    <3>1. CASE j = k
      BY <1>0, <2>1, <2>3, <3>1, ServerAssumption
    <3>2. CASE j # k
      BY <1>0, <1>1, <2>1, <2>3, <3>2
    <3> QED
      BY <3>1, <3>2
  <2> QED
    BY <2>3 DEF ChansTracked
<1>3. CASE chan' = chan /\ channel_subscriptions' \subseteq channel_subscriptions
  BY <1>1, <1>3 DEF ChansTracked
<1>4. ASSUME NEW d \in Clients, ClientNext(d) \/ WriterNext(d) \/ ConnectionNext(d)
      PROVE  \/ chan' = chan /\ channel_subscriptions' \subseteq channel_subscriptions
             \/ \E ok \in BOOLEAN, k \in Chans : TakeOpen(d, k, ok)
  <2>1. CASE ClientNext(d) \/ WriterNext(d)
    BY <2>1, ClientFrame
  <2>2. CASE ConnectionNext(d)
    BY <2>2 DEF ConnectionNext, TakeBad, TakeGarbled, TakeStart, TakeFollow, TakeStartFails,
       TakeStopOrQuery, TakeUnsubscribe, TakeSubscribe, TakeClose, Stopped, ReturnsEarly, Respond,
       RespondFails, StreamEnds, CleanUp
  <2> QED
    BY <1>4, <2>1, <2>2
<1>5. ASSUME NEW s \in Subs, Forward(s) \/ ForwardEnds(s) \/ \E a \in Actors : HandOut(a, s)
      PROVE  chan' = chan /\ channel_subscriptions' = channel_subscriptions
  BY <1>5 DEF Forward, ForwardEnds, HandOut
<1>6. ASSUME RuntimeNext \/ UNCHANGED vars \/ \E a \in Actors : Event(a)
      PROVE  chan' = chan /\ channel_subscriptions' = channel_subscriptions
  BY <1>6 DEF RuntimeNext, LoopSetup, LoopSetupFails, LoopSubscribe, LoopStop, LoopStopped,
     LoopQuery,
     Event, vars
<1> QED
  BY <1>2, <1>3, <1>4, <1>5, <1>6 DEF Next

\* The inductive invariant behind EntriesTracked.
THEOREM ServerInvariant == Spec => []ServerInv
<1>1. Init => ServerInv
  <2> SUFFICES ASSUME Init PROVE ServerInv
    OBVIOUS
  <2>1. TypeOK
    BY ServerAssumption DEF Init, TypeOK
  <2> QED
    BY <2>1, ServerAssumption DEF Init, ServerInv, Addressed, AnswerKnown, Working, Requested,
       Logged,
       SubsTracked, ChansTracked
<1>2. ServerInv /\ [Next]_vars => ServerInv'
  BY TypeStep, AddressedStep, AnswerKnownStep, RequestedStep, LoggedStep, SubsTrackedStep,
     ChansTrackedStep DEF ServerInv
<1> QED
  BY <1>1, <1>2, PTL DEF Spec

\* Every entry of the two shared maps belongs to a connection that has it in its own list
\* and removes it when it ends, except to one whose task has returned early, for any
\* number of clients and whatever they ask of each other's subscriptions and channels.
THEOREM EntriesTrackedHolds == Spec => []EntriesTracked
<1>1. ServerInv => EntriesTracked
  <2> SUFFICES ASSUME ServerInv PROVE EntriesTracked
    OBVIOUS
  <2>1. ASSUME NEW p \in subscriptions
        PROVE  \E c \in Clients : Owns(c, p[2]) /\ (p[2] \in mySubs[c] \/ pc[c] = "failed")
    <3>1. p[2] \in Subs /\ sub[p[2]] # None
      BY DEF ServerInv, SubsTracked, TypeOK
    <3>2. sub[p[2]].client \in Clients
      BY <3>1, OpenSub DEF ServerInv
    <3> QED
      BY <3>1, <3>2 DEF Owns, ServerInv, SubsTracked
  <2> QED
    BY <2>1 DEF EntriesTracked, ServerInv, ChansTracked
<1> QED
  BY <1>1, ServerInvariant, PTL

-----------------------------------------------------------------------------
(* The order of the responses.                                             *)

\* The command in work ends, or another one begins whose number is above all.
LEMMA NumbersGoOn ==
    ASSUME NEW ans \in Seq(Nat), NEW rs \in Seq(Items), NEW w \in BOOLEAN, NEW v \in BOOLEAN,
           NEW m, NEW l, NEW top \in Int, NEW top2 \in Int, Numbers(ans, rs, w, m, top), top <= top2,
           v => (w /\ l = m /\ m \in Nat) \/ (l \in Nat /\ l > top /\ l <= top2)
    PROVE  Numbers(ans, rs, v, l, top2)
<1>1. \A i \in 1..Len(rs) : IsResp(rs, i) => rs[i].n \in Nat
  BY ItemFields DEF IsResp
<1>2. \A i \in 1..Len(ans) : ans[i] \in Nat
  OBVIOUS
<1>3. \A i \in 1..Len(ans) : ans[i] <= top2
  BY <1>2 DEF Numbers
<1>4. \A i \in 1..Len(rs) : IsResp(rs, i) => rs[i].n <= top2
  BY <1>1 DEF Numbers
<1>5. v => /\ \A i \in 1..Len(ans) : ans[i] < l
           /\ \A i \in 1..Len(rs) : IsResp(rs, i) => rs[i].n < l
           /\ l <= top2
  BY <1>1, <1>2 DEF Numbers
<1> QED
  BY <1>3, <1>4, <1>5 DEF Numbers

\* The first item is written.
LEMMA NumbersWritten ==
    ASSUME NEW ans \in Seq(Nat), NEW rs \in Seq(Items), rs # <<>>, NEW w \in BOOLEAN, NEW m,
           NEW top \in Int, Numbers(ans, rs, w, m, top)
    PROVE  Numbers(IF IsResp(rs, 1) THEN Append(ans, rs[1].n) ELSE ans, Tail(rs), w, m, top)
<1> DEFINE new == IF IsResp(rs, 1) THEN Append(ans, rs[1].n) ELSE ans
           ts == Tail(rs)
<1>1. /\ 1 \in 1..Len(rs) /\ \A i \in 1..Len(ts) : ts[i] = rs[i + 1] /\ i + 1 \in 1..Len(rs) /\ 1 < i + 1
  BY WithoutFirst
<1>2. \A i \in 1..Len(ts) : IsResp(ts, i) <=> IsResp(rs, i + 1)
  BY <1>1 DEF IsResp
<1>3. CASE ~IsResp(rs, 1)
  BY <1>1, <1>2, <1>3 DEF Numbers
<1>4. CASE IsResp(rs, 1)
  <2>0. rs[1].n \in Nat
    BY <1>1, <1>4, ItemFields DEF IsResp
  <2>1. /\ Len(new) = Len(ans) + 1 /\ Len(ans) \in Nat /\ new[Len(ans) + 1] = rs[1].n
        /\ \A i \in 1..Len(ans) : new[i] = ans[i]
    BY <1>4, <2>0, WithOneMore
  <2>2. \A i \in 1..Len(new) : i \in 1..Len(ans) \/ i = Len(ans) + 1
    BY <2>1
  <2> HIDE DEF new, ts
  <2>3. \A i, j \in 1..Len(new) : i < j => new[i] < new[j]
    <3> TAKE i, j \in 1..Len(new)
    <3> HAVE i < j
    <3>1. i \in 1..Len(ans)
      BY <2>1, <2>2
    <3> QED
      BY <1>1, <1>4, <2>1, <2>2, <3>1 DEF Numbers
  <2>4. \A i \in 1..Len(new), j \in 1..Len(ts) : IsResp(ts, j) => new[i] < ts[j].n
    BY <1>1, <1>2, <1>4, <2>1, <2>2 DEF Numbers
  <2>5. \A i, j \in 1..Len(ts) : i < j /\ IsResp(ts, i) /\ IsResp(ts, j) => ts[i].n < ts[j].n
    <3> TAKE i, j \in 1..Len(ts)
    <3> HAVE i < j /\ IsResp(ts, i) /\ IsResp(ts, j)
    <3>1. i + 1 \in 1..Len(rs) /\ j + 1 \in 1..Len(rs) /\ i + 1 < j + 1
      BY <1>1
    <3>2. IsResp(rs, i + 1) /\ IsResp(rs, j + 1) /\ ts[i] = rs[i + 1] /\ ts[j] = rs[j + 1]
      BY <1>1, <1>2
    <3> QED
      BY <3>1, <3>2 DEF Numbers
  <2>6. w => /\ \A i \in 1..Len(new) : new[i] < m
             /\ \A i \in 1..Len(ts) : IsResp(ts, i) => ts[i].n < m
             /\ m <= top
    BY <1>1, <1>2, <1>4, <2>1, <2>2 DEF Numbers
  <2>7. /\ \A i \in 1..Len(new) : new[i] <= top
        /\ \A i \in 1..Len(ts) : IsResp(ts, i) => ts[i].n <= top
    BY <1>1, <1>2, <1>4, <2>1, <2>2 DEF Numbers
  <2>8. Numbers(new, ts, w, m, top)
    BY <2>3, <2>4, <2>5, <2>6, <2>7 DEF Numbers
  <2> QED
    BY <2>8 DEF new, ts
<1> QED
  BY <1>3, <1>4

\* An item is added: an event, or the response to the command in work.
LEMMA NumbersSent ==
    ASSUME NEW ans \in Seq(Nat), NEW rs \in Seq(Items), NEW x \in Items, NEW w \in BOOLEAN, NEW v \in BOOLEAN,
           NEW m, NEW top \in Int, Numbers(ans, rs, w, m, top),
           v => w, x.kind = "resp" => w /\ ~v /\ x.n = m
    PROVE  Numbers(ans, Append(rs, x), v, m, top)
<1> DEFINE ts == Append(rs, x)
<1>1. /\ Len(ts) = Len(rs) + 1 /\ Len(rs) \in Nat /\ ts[Len(rs) + 1] = x
      /\ \A i \in 1..Len(rs) : ts[i] = rs[i]
  BY WithOneMore
<1>2. \A i \in 1..Len(ts) : i \in 1..Len(rs) \/ i = Len(rs) + 1
  BY <1>1
<1>3. /\ \A i \in 1..Len(rs) : IsResp(ts, i) <=> IsResp(rs, i)
      /\ IsResp(ts, Len(rs) + 1) => w /\ ~v /\ ts[Len(rs) + 1].n = m
  BY <1>1 DEF IsResp
<1> HIDE DEF ts
<1>4. \A i, j \in 1..Len(ts) : i < j /\ IsResp(ts, i) /\ IsResp(ts, j) => ts[i].n < ts[j].n
  <2> TAKE i, j \in 1..Len(ts)
  <2> HAVE i < j /\ IsResp(ts, i) /\ IsResp(ts, j)
  <2>1. i \in 1..Len(rs)
    BY <1>1, <1>2
  <2> QED
    BY <1>1, <1>2, <1>3, <2>1 DEF Numbers
<1>5. /\ \A i \in 1..Len(ans), j \in 1..Len(ts) : IsResp(ts, j) => ans[i] < ts[j].n
      /\ \A i \in 1..Len(ts) : IsResp(ts, i) => ts[i].n <= top
      /\ v => \A i \in 1..Len(ts) : IsResp(ts, i) => ts[i].n < m
  BY <1>1, <1>2, <1>3 DEF Numbers
<1>6. Numbers(ans, ts, v, m, top)
  BY <1>4, <1>5 DEF Numbers
<1> QED
  BY <1>6 DEF ts

\* The way of a client's answers: nothing changes, the first item is written, an event is
\* added, or the response to the command in work.
Way(c) ==
    \/ UNCHANGED <<answers[c], resp[c]>>
    \/ /\ resp[c] # <<>> /\ resp'[c] = Tail(resp[c]) /\ UNCHANGED <<pc[c], cmd[c], inq[c], asked[c]>>
       /\ answers'[c] = IF IsResp(resp[c], 1) THEN Append(answers[c], resp[c][1].n) ELSE answers[c]
    \/ /\ UNCHANGED <<answers[c], pc[c], cmd[c], inq[c], asked[c]>>
       /\ \E x \in Items : x.kind = "event" /\ resp'[c] = Append(resp[c], x)
    \/ /\ UNCHANGED <<answers[c], inq[c], asked[c]>> /\ Working(c) /\ pc'[c] = "read"
       /\ resp'[c] = Append(resp[c], [kind |-> "resp", n |-> cmd[c].n])

\* An event is forwarded.
LEMMA ForwardedEvent ==
    ASSUME TypeOK, NEW s \in Subs, Forward(s)
    PROVE  /\ sub[s] # None /\ sub[s].fwd = "run" /\ sub[s].q # <<>>
           /\ writer[sub[s].client] = "run"
           /\ \E x \in Items :
                /\ x.kind = "event" /\ x.sub = s /\ x.n = sub[s].q[1]
                /\ resp' = [resp EXCEPT ![sub[s].client] = Append(@, x)]
           /\ sub' = [sub EXCEPT ![s] = [sub[s] EXCEPT !.q = Tail(sub[s].q)]]
           /\ UNCHANGED <<clientVars, pc, cmd, writer, tableVars, chan, runtimeVars>>
<1>1. sub[s] # None /\ sub[s].fwd = "run" /\ sub[s].q # <<>>
  BY DEF Forward, Running
<1>2. Head(sub[s].q) \in 1..(MaxEvents + 1) /\ Head(sub[s].q) = sub[s].q[1]
  BY <1>1, OpenSub, WithoutFirst
<1> DEFINE x == [kind |-> "event", sub |-> s, n |-> Head(sub[s].q)]
<1>3. x \in Items /\ x.kind = "event" /\ x.sub = s /\ x.n = sub[s].q[1]
  BY <1>2, ItemFields
<1>4. /\ resp' = [resp EXCEPT ![sub[s].client] = Append(@, x)]
      /\ sub' = [sub EXCEPT ![s] = [sub[s] EXCEPT !.q = Tail(sub[s].q)]]
      /\ writer[sub[s].client] = "run"
      /\ UNCHANGED <<clientVars, pc, cmd, writer, tableVars, chan, runtimeVars>>
  BY DEF Forward
<1> HIDE DEF x
<1> QED
  BY <1>1, <1>3, <1>4

\* Every step takes the answers of a client that listens along their way.
LEMMA WayStep ==
    ASSUME TypeOK, [Next]_vars, NEW c \in up, c \in up'
    PROVE  Way(c)
<1> USE DEF clientVars, taskVars, tableVars, runtimeVars
<1>0. /\ c \in Clients /\ answers \in [Clients -> Seq(Nat)] /\ resp \in [Clients -> Seq(Items)]
      /\ DOMAIN pc = Clients
  BY DEF TypeOK
<1>1. ASSUME NEW d \in Clients, Written(d) PROVE Way(c)
  <2>1. /\ resp[d] # <<>> /\ resp' = [resp EXCEPT ![d] = Tail(@)] /\ UNCHANGED <<pc, cmd, inq, asked>>
        /\ \/ Head(resp[d]).kind = "resp" /\ answers' = [answers EXCEPT ![d] = Append(@, Head(resp[d]).n)]
           \/ Head(resp[d]).kind # "resp" /\ answers' = answers
    BY <1>1 DEF Written
  <2>2. Head(resp[d]) = resp[d][1]
    BY <1>0, <2>1, WithoutFirst
  <2>3. CASE d = c
    BY <1>0, <2>1, <2>2, <2>3 DEF Way, IsResp
  <2>4. CASE d # c
    BY <1>0, <2>1, <2>4 DEF Way
  <2> QED
    BY <2>3, <2>4
<1>2. ASSUME NEW d \in Clients, WriteFails(d) PROVE Way(c)
  <2>1. d # c /\ resp' = [resp EXCEPT ![d] = <<>>] /\ answers' = answers
    BY <1>2 DEF WriteFails
  <2> QED
    BY <1>0, <2>1 DEF Way
<1>3. ASSUME NEW d \in Clients, ClientLeaves(d) PROVE Way(c)
  BY <1>0, <1>3 DEF ClientLeaves, Way
<1>4. ASSUME NEW d \in Clients, Respond(d) PROVE Way(c)
  BY <1>0, <1>4 DEF Respond, Way, Working
<1>5. ASSUME NEW s \in Subs, Forward(s) PROVE Way(c)
  <2>1. PICK x \in Items : /\ x.kind = "event"
                           /\ resp' = [resp EXCEPT ![sub[s].client] = Append(@, x)]
    BY <1>5, ForwardedEvent
  <2>2. UNCHANGED <<answers, pc, cmd, inq, asked>>
    BY <1>5, ForwardedEvent
  <2>3. resp'[c] = Append(resp[c], x) \/ resp'[c] = resp[c]
    BY <1>0, <2>1
  <2> QED
    BY <2>1, <2>2, <2>3 DEF Way
<1>6. CASE UNCHANGED <<answers, resp>>
  BY <1>6 DEF Way
<1>7. ASSUME NEW d \in Clients, ClientNext(d) \/ WriterNext(d)
      PROVE  ClientLeaves(d) \/ Written(d) \/ WriteFails(d) \/ UNCHANGED <<answers, resp>>
  BY <1>7, ClientFrame
<1>8. ASSUME NEW d \in Clients, ConnectionNext(d) PROVE Respond(d) \/ UNCHANGED <<answers, resp>>
  BY <1>8 DEF ConnectionNext, TakeBad, TakeGarbled, TakeStart, TakeFollow, TakeStartFails,
     TakeStopOrQuery, TakeUnsubscribe, TakeSubscribe, TakeClose, TakeOpen, Stopped, ReturnsEarly,
     RespondFails, StreamEnds, CleanUp
<1>9. ASSUME NEW s \in Subs, ForwardEnds(s) \/ \E a \in Actors : HandOut(a, s)
      PROVE  UNCHANGED <<answers, resp>>
  BY <1>9 DEF ForwardEnds, HandOut
<1>10. ASSUME RuntimeNext \/ UNCHANGED vars \/ \E a \in Actors : Event(a)
       PROVE  UNCHANGED <<answers, resp>>
  BY <1>10 DEF RuntimeNext, LoopSetup, LoopSetupFails, LoopSubscribe, LoopStop, LoopStopped,
     LoopQuery,
     Event, vars
<1> QED
  BY <1>1, <1>2, <1>3, <1>4, <1>5, <1>6, <1>7, <1>8, <1>9, <1>10 DEF Next

\* Who listens, and what it has asked.
LEMMA UpStep ==
    ASSUME TypeOK, [Next]_vars, NEW c \in up'
    PROVE  /\ c \in Clients
           /\ \/ c \notin up /\ Connect(c)
              \/ c \in up /\ asked'[c] = asked[c]
              \/ c \in up /\ \E k \in Kinds, a \in Actors \cup {None}, s \in Subs \cup {None},
                               ch \in Chans \cup {None} : ClientSends(c, k, a, s, ch)
<1> USE DEF clientVars, taskVars, tableVars, runtimeVars
<1>0. asked \in [Clients -> Nat] /\ up \subseteq Clients
  BY DEF TypeOK
<1> DEFINE Goal == /\ c \in Clients
                   /\ \/ c \notin up /\ Connect(c)
                      \/ c \in up /\ asked'[c] = asked[c]
                      \/ c \in up /\ \E k \in Kinds, a \in Actors \cup {None}, s \in Subs \cup {None},
                                       ch \in Chans \cup {None} : ClientSends(c, k, a, s, ch)
<1>1. ASSUME NEW d \in Clients, ClientNext(d) PROVE Goal
  <2>1. CASE Connect(d)
    BY <1>0, <2>1 DEF Connect
  <2>2. CASE ClientLeaves(d)
    BY <1>0, <2>2 DEF ClientLeaves
  <2>3. ASSUME NEW k \in Kinds, NEW a \in Actors \cup {None}, NEW s \in Subs \cup {None},
               NEW ch \in Chans \cup {None}, ClientSends(d, k, a, s, ch)
        PROVE  Goal
    <3>1. c \in up /\ (c # d => asked'[c] = asked[c])
      BY <1>0, <2>3 DEF ClientSends
    <3> QED
      BY <1>0, <2>3, <3>1
  <2> QED
    BY <1>1, <2>1, <2>2, <2>3 DEF ClientNext
<1>2. CASE UNCHANGED <<up, asked>>
  BY <1>0, <1>2
<1>3. ASSUME NEW d \in Clients, ConnectionNext(d) \/ WriterNext(d) PROVE UNCHANGED <<up, asked>>
  BY <1>3 DEF WriterNext, ConnectionNext, Written, WriteFails, WriterEnds, TakeBad, TakeGarbled,
     TakeStart, TakeFollow, TakeStartFails, TakeStopOrQuery, TakeUnsubscribe, TakeSubscribe, TakeClose,
     TakeOpen, Stopped, ReturnsEarly, Respond, RespondFails, StreamEnds, CleanUp
<1>4. ASSUME NEW s \in Subs, Forward(s) \/ ForwardEnds(s) \/ \E a \in Actors : HandOut(a, s)
      PROVE  UNCHANGED <<up, asked>>
  BY <1>4 DEF Forward, ForwardEnds, HandOut
<1>5. ASSUME RuntimeNext \/ UNCHANGED vars \/ \E a \in Actors : Event(a)
      PROVE  UNCHANGED <<up, asked>>
  BY <1>5 DEF RuntimeNext, LoopSetup, LoopSetupFails, LoopSubscribe, LoopStop, LoopStopped,
     LoopQuery,
     Event, vars
<1> QED
  BY <1>1, <1>2, <1>3, <1>4, <1>5 DEF Next

\* The only command.
LEMMA OnlyOne ==
    ASSUME NEW S, NEW q \in Seq(S), q # <<>>, Len(q) <= 1
    PROVE  Tail(q) = <<>>
<1>1. Tail(q) \in Seq(S) /\ Len(q) \in Nat \ {0} /\ Len(Tail(q)) = Len(q) - 1
  BY WithoutFirst
<1>2. Len(Tail(q)) = 0
  BY <1>1
<1> QED
  BY <1>1, <1>2

\* The answers stay in order: a number is given out once, to the command in work next.
LEMMA AnsweredStep ==
    ASSUME TypeOK, AnswerKnown, Requested, Answered, Apart, [Next]_vars
    PROVE  Answered'
<1> SUFFICES ASSUME NEW c \in up'
             PROVE  /\ Numbers(answers'[c], resp'[c], Working(c)', cmd'[c].n, Top(c)')
                    /\ Len(inq'[c]) <= 1
                    /\ inq'[c] # <<>> => inq'[c][1].n = asked'[c]
  BY DEF Answered
<1> DEFINE Goal == /\ Numbers(answers'[c], resp'[c], Working(c)', cmd'[c].n, Top(c)')
                   /\ Len(inq'[c]) <= 1
                   /\ inq'[c] # <<>> => inq'[c][1].n = asked'[c]
<1>0. /\ c \in Clients /\ inq[c] \in Seq(Command) /\ asked[c] \in Nat
      /\ answers[c] \in Seq(Nat) /\ resp[c] \in Seq(Items)
  BY UpStep DEF TypeOK
<1>1. ASSUME c \notin up, Connect(c) PROVE Goal
  <2>1. answers'[c] = <<>> /\ resp'[c] = <<>> /\ inq'[c] = <<>>
    BY <1>0, <1>1 DEF Connect, Apart
  <2>2. ~Working(c)'
    BY <1>0, <1>1 DEF Connect, Working, TypeOK
  <2> QED
    BY <2>1, <2>2 DEF Numbers
<1>2. ASSUME c \in up
      PROVE  /\ Numbers(answers[c], resp[c], Working(c), cmd[c].n, Top(c))
             /\ Len(inq[c]) <= 1 /\ (inq[c] # <<>> => inq[c][1].n = asked[c])
  BY <1>2 DEF Answered
<1>3. ASSUME c \in up, NEW k \in Kinds, NEW a \in Actors \cup {None}, NEW s \in Subs \cup {None},
             NEW ch \in Chans \cup {None}, ClientSends(c, k, a, s, ch)
      PROVE  Goal
  <2>1. /\ Len(inq'[c]) = 1 /\ inq'[c] # <<>> /\ inq'[c][1].kind = k /\ inq'[c][1].n = asked'[c]
        /\ inq[c] = <<>> /\ asked' = [asked EXCEPT ![c] = IF k = "bad" THEN @ ELSE @ + 1]
        /\ UNCHANGED <<up, answers, seen, taskVars, tableVars, sub, chan, runtimeVars>>
    BY <1>0, <1>3, SentCommand
  <2>2. Top(c)' = Top(c)
    BY <1>0, <2>1 DEF Top, TypeOK
  <2>3. answers'[c] = answers[c] /\ resp'[c] = resp[c] /\ Working(c)' = Working(c) /\ cmd'[c].n = cmd[c].n
    BY <2>1 DEF taskVars, Working
  <2> QED
    BY <1>2, <1>3, <2>1, <2>2, <2>3
<1>4. ASSUME c \in up, asked'[c] = asked[c],
             inq'[c] = inq[c] \/ (inq[c] # <<>> /\ inq'[c] = Tail(inq[c]))
      PROVE  Goal
  <2>1. Top(c) \in Int /\ Top(c) <= asked[c]
    BY <1>0 DEF Top
  <2>2. inq'[c] = inq[c] \/ inq'[c] = <<>>
    <3>1. inq[c] # <<>> => Tail(inq[c]) = <<>>
      BY <1>0, <1>2, <1>4, OnlyOne
    <3> QED
      BY <1>4, <3>1
  <2>3. /\ Top(c)' = Top(c) \/ Top(c)' = asked[c]
        /\ inq'[c] = <<>> => Top(c)' = asked[c]
        /\ Len(inq'[c]) <= 1
        /\ inq'[c] # <<>> => inq'[c][1].n = asked'[c]
    BY <1>2, <1>4, <2>2 DEF Top
  <2>4. Top(c)' \in Int /\ Top(c) <= Top(c)'
    BY <1>0, <2>1, <2>3
  <2>5. Working(c) \in BOOLEAN /\ Working(c)' \in BOOLEAN /\ (Working(c) => cmd[c].n \in Nat)
    <3>1. Working(c) => cmd[c] \in Command
      BY <1>0 DEF AnswerKnown, TypeOK
    <3> QED
      BY <3>1 DEF Command, Working
  <2>6. Way(c)
    BY <1>4, WayStep
  <2>7. CASE UNCHANGED <<answers[c], resp[c]>>
    <3>1. Working(c)' => \/ Working(c) /\ cmd'[c].n = cmd[c].n /\ cmd[c].n \in Nat
                         \/ cmd'[c].n \in Nat /\ cmd'[c].n > Top(c) /\ cmd'[c].n <= Top(c)'
      <4> SUFFICES ASSUME Working(c)'
                   PROVE  \/ Working(c) /\ cmd'[c].n = cmd[c].n /\ cmd[c].n \in Nat
                          \/ cmd'[c].n \in Nat /\ cmd'[c].n > Top(c) /\ cmd'[c].n <= Top(c)'
        OBVIOUS
      <4>1. Course(c)
        BY <1>0, CourseStep
      <4>2. CASE Takes(c)
        <5>1. inq[c] # <<>> /\ cmd'[c] = inq[c][1] /\ inq[c][1].kind # "bad" /\ inq'[c] = Tail(inq[c])
          BY <1>0, <4>2, CommandTaken DEF Takes, Working
        <5>3. inq'[c] = <<>>
          BY <1>0, <1>2, <1>4, <5>1, OnlyOne
        <5>4. Top(c) = asked[c] - 1 /\ Top(c)' = asked[c] /\ cmd'[c].n = asked[c]
          BY <1>2, <1>4, <2>3, <5>1, <5>3 DEF Top
        <5> QED
          BY <1>0, <5>4
      <4>3. CASE Working(c) /\ cmd'[c] = cmd[c]
        BY <2>5, <4>3
      <4> QED
        BY <4>1, <4>2, <4>3 DEF Course, Leaves, Replied, Working
    <3>2. Numbers(answers[c], resp[c], Working(c)', cmd'[c].n, Top(c)')
      <4> DEFINE v == Working(c)'
                 w == Working(c)
                 m == cmd[c].n
                 l == cmd'[c].n
                 top == Top(c)
                 new == Top(c)'
      <4>1. /\ w \in BOOLEAN /\ v \in BOOLEAN /\ top \in Int /\ new \in Int /\ top <= new
            /\ Numbers(answers[c], resp[c], w, m, top)
            /\ v => (w /\ l = m /\ m \in Nat) \/ (l \in Nat /\ l > top /\ l <= new)
        BY <1>2, <1>4, <2>1, <2>4, <2>5, <3>1
      <4> HIDE DEF v, w, m, l, top, new
      <4>2. Numbers(answers[c], resp[c], v, l, new)
        BY <1>0, <4>1, NumbersGoOn
      <4> QED
        BY <4>2 DEF v, l, new
    <3> QED
      BY <2>3, <2>7, <3>2
  <2>8. CASE /\ resp[c] # <<>> /\ resp'[c] = Tail(resp[c]) /\ UNCHANGED <<pc[c], cmd[c], inq[c], asked[c]>>
             /\ answers'[c] = IF IsResp(resp[c], 1) THEN Append(answers[c], resp[c][1].n) ELSE answers[c]
    <3>1. Numbers(answers'[c], resp'[c], Working(c), cmd[c].n, Top(c))
      BY <1>0, <1>2, <1>4, <2>1, <2>5, <2>8, NumbersWritten
    <3>2. Working(c)' = Working(c) /\ Top(c)' = Top(c)
      BY <2>8 DEF Working, Top
    <3> QED
      BY <2>3, <2>8, <3>1, <3>2
  <2>9. ASSUME UNCHANGED <<answers[c], pc[c], cmd[c], inq[c], asked[c]>>, NEW x \in Items,
               x.kind = "event", resp'[c] = Append(resp[c], x)
        PROVE  Goal
    <3>1. Numbers(answers[c], Append(resp[c], x), Working(c), cmd[c].n, Top(c))
      BY <1>0, <1>2, <1>4, <2>1, <2>5, <2>9, NumbersSent
    <3>2. Working(c)' = Working(c) /\ Top(c)' = Top(c)
      BY <2>9 DEF Working, Top
    <3> QED
      BY <2>3, <2>9, <3>1, <3>2
  <2>10. CASE /\ UNCHANGED <<answers[c], inq[c], asked[c]>> /\ Working(c) /\ pc'[c] = "read"
              /\ resp'[c] = Append(resp[c], [kind |-> "resp", n |-> cmd[c].n])
    <3> DEFINE x == [kind |-> "resp", n |-> cmd[c].n]
    <3>1. x \in Items /\ x.n = cmd[c].n
      BY <2>5, <2>10, ItemFields
    <3>2. resp'[c] = Append(resp[c], x)
      BY <2>10
    <3> HIDE DEF x
    <3>3. Numbers(answers[c], Append(resp[c], x), FALSE, cmd[c].n, Top(c))
      BY <1>0, <1>2, <1>4, <2>1, <2>5, <2>10, <3>1, NumbersSent
    <3>4. ~Working(c)' /\ Top(c)' = Top(c)
      BY <2>10 DEF Working, Top
    <3> QED
      BY <2>3, <2>10, <3>2, <3>3, <3>4 DEF Numbers
  <2> QED
    BY <2>6, <2>7, <2>8, <2>9, <2>10 DEF Way
<1> HIDE DEF Goal
<1>5. Goal
  BY <1>0, <1>1, <1>3, <1>4, UpStep, InqStep
<1> QED
  BY <1>5 DEF Goal

\* A writer that has gone does not come back.
LEMMA WriterStep ==
    ASSUME TypeOK, Apart, [Next]_vars, NEW c \in Clients
    PROVE  /\ \/ writer'[c] = writer[c]
              \/ pc[c] = "none" /\ Connect(c)
              \/ writer[c] = "run" /\ writer'[c] = "gone"
           /\ writer'[c] # "gone" => writer[c] # "gone"
<1> USE DEF clientVars, taskVars, tableVars, runtimeVars
<1>0. DOMAIN writer = Clients
  BY DEF TypeOK
<1> DEFINE Goal == \/ writer'[c] = writer[c]
                   \/ pc[c] = "none" /\ Connect(c)
                   \/ writer[c] = "run" /\ writer'[c] = "gone"
<1>1. ASSUME NEW d \in Clients, ClientNext(d) \/ WriterNext(d) PROVE Goal
  <2>1. \/ writer' = writer
        \/ pc[d] = "none" /\ Connect(d) /\ writer' = [writer EXCEPT ![d] = "run"]
        \/ writer[d] = "run" /\ writer' = [writer EXCEPT ![d] = "gone"]
    BY <1>1 DEF ClientNext, WriterNext, Connect, ClientLeaves, ClientSends, Written, WriteFails,
       WriterEnds
  <2> QED
    BY <1>0, <2>1
<1>2. ASSUME NEW d \in Clients, ConnectionNext(d) PROVE writer' = writer
  BY <1>2 DEF ConnectionNext, TakeBad, TakeGarbled,
     TakeStart, TakeFollow, TakeStartFails, TakeStopOrQuery, TakeUnsubscribe, TakeSubscribe, TakeClose,
     TakeOpen, Stopped, ReturnsEarly, Respond, RespondFails, StreamEnds, CleanUp
<1>3. ASSUME NEW s \in Subs, Forward(s) \/ ForwardEnds(s) \/ \E a \in Actors : HandOut(a, s)
      PROVE  writer' = writer
  BY <1>3 DEF Forward, ForwardEnds, HandOut
<1>4. ASSUME RuntimeNext \/ UNCHANGED vars \/ \E a \in Actors : Event(a) PROVE writer' = writer
  BY <1>4 DEF RuntimeNext, LoopSetup, LoopSetupFails, LoopSubscribe, LoopStop, LoopStopped,
     LoopQuery,
     Event, vars
<1>5. Goal
  BY <1>1, <1>2, <1>3, <1>4 DEF Next
<1> QED
  BY <1>5 DEF Apart

\* The forwarder of t sends x, the first event of its channel, to client d.
Forwards(t, d, x) ==
    /\ Forward(t) /\ d = sub[t].client
    /\ x.kind = "event" /\ x.sub = t /\ x.n = sub[t].q[1]

\* A response channel: its first item is written, it is closed, or an item is added.
LEMMA RespStep ==
    ASSUME TypeOK, AnswerKnown, [Next]_vars, NEW d \in Clients
    PROVE  \/ resp'[d] = resp[d]
           \/ Written(d) /\ resp[d] # <<>> /\ resp'[d] = Tail(resp[d])
           \/ WriteFails(d) /\ resp'[d] = <<>> /\ writer'[d] = "gone"
           \/ \E x \in Items :
                /\ resp'[d] = Append(resp[d], x) /\ writer[d] = "run"
                /\ \/ Respond(d) /\ x.kind = "resp"
                   \/ \E t \in Subs : Forwards(t, d, x)
<1> USE DEF clientVars, taskVars, tableVars, runtimeVars
<1>0. resp \in [Clients -> Seq(Items)] /\ DOMAIN writer = Clients
  BY DEF TypeOK
<1> DEFINE Goal == \/ resp'[d] = resp[d]
                   \/ Written(d) /\ resp[d] # <<>> /\ resp'[d] = Tail(resp[d])
                   \/ WriteFails(d) /\ resp'[d] = <<>> /\ writer'[d] = "gone"
                   \/ \E x \in Items :
                        /\ resp'[d] = Append(resp[d], x) /\ writer[d] = "run"
                        /\ \/ Respond(d) /\ x.kind = "resp"
                           \/ \E t \in Subs : Forwards(t, d, x)
<1>1. ASSUME NEW e \in Clients, Written(e) \/ WriteFails(e) PROVE Goal
  <2>1. CASE d = e
    BY <1>0, <1>1, <2>1 DEF Written, WriteFails
  <2>2. CASE d # e
    BY <1>0, <1>1, <2>2 DEF Written, WriteFails
  <2> QED
    BY <2>1, <2>2
<1>2. ASSUME NEW e \in Clients, Respond(e) PROVE Goal
  <2> DEFINE x == [kind |-> "resp", n |-> cmd[e].n]
  <2>1. resp' = [resp EXCEPT ![e] = Append(@, x)] /\ writer[e] = "run"
    BY <1>2 DEF Respond
  <2>2. x \in Items /\ x.kind = "resp"
    <3>1. Working(e)
      BY <1>2 DEF Respond, Working
    <3>2. cmd[e] \in Command
      BY <3>1 DEF AnswerKnown, TypeOK
    <3>3. cmd[e].n \in Nat
      BY <3>2 DEF Command
    <3> QED
      BY <3>3, ItemFields
  <2> HIDE DEF x
  <2>3. CASE d = e
    BY <1>0, <1>2, <2>1, <2>2, <2>3
  <2>4. CASE d # e
    BY <1>0, <2>1, <2>4
  <2> QED
    BY <2>3, <2>4
<1>3. ASSUME NEW t \in Subs, Forward(t) PROVE Goal
  <2>1. PICK x \in Items : /\ x.kind = "event" /\ x.sub = t /\ x.n = sub[t].q[1]
                           /\ resp' = [resp EXCEPT ![sub[t].client] = Append(@, x)]
    BY <1>3, ForwardedEvent
  <2>2. writer[sub[t].client] = "run"
    BY <1>3, ForwardedEvent
  <2>3. CASE d = sub[t].client
    BY <1>0, <1>3, <2>1, <2>2, <2>3 DEF Forwards
  <2>4. CASE d # sub[t].client
    BY <1>0, <2>1, <2>4
  <2> QED
    BY <2>3, <2>4
<1>4. ASSUME NEW e \in Clients, ClientNext(e) \/ WriterEnds(e) PROVE resp' = resp
  BY <1>4 DEF ClientNext, Connect, ClientLeaves, ClientSends, WriterEnds
<1>5. ASSUME NEW e \in Clients, ConnectionNext(e) PROVE Respond(e) \/ resp' = resp
  BY <1>5 DEF ConnectionNext, TakeBad, TakeGarbled, TakeStart, TakeFollow, TakeStartFails,
     TakeStopOrQuery, TakeUnsubscribe, TakeSubscribe, TakeClose, TakeOpen, Stopped, ReturnsEarly,
     RespondFails, StreamEnds, CleanUp
<1>6. ASSUME NEW s \in Subs, ForwardEnds(s) \/ \E a \in Actors : HandOut(a, s) PROVE resp' = resp
  BY <1>6 DEF ForwardEnds, HandOut
<1>7. ASSUME RuntimeNext \/ UNCHANGED vars \/ \E a \in Actors : Event(a) PROVE resp' = resp
  BY <1>7 DEF RuntimeNext, LoopSetup, LoopSetupFails, LoopSubscribe, LoopStop, LoopStopped,
     LoopQuery,
     Event, vars
<1> QED
  BY <1>1, <1>2, <1>3, <1>4, <1>5, <1>6, <1>7 DEF Next, WriterNext

\* Nothing comes to a client that does not listen.
LEMMA ApartStep ==
    ASSUME TypeOK, AnswerKnown, Requested, Apart, [Next]_vars
    PROVE  Apart'
<1> USE DEF clientVars, taskVars, tableVars, runtimeVars
<1> SUFFICES ASSUME NEW c \in Clients
             PROVE  /\ c \notin up' => answers'[c] = <<>>
                    /\ pc'[c] = "none" => /\ c \notin up' /\ resp'[c] = <<>>
                                          /\ inq'[c] = <<>> /\ writer'[c] = "none"
  BY DEF Apart
<1>0. DOMAIN answers = Clients /\ DOMAIN pc = Clients
  BY DEF TypeOK
<1>1. c \notin up' => answers'[c] = <<>>
  <2> DEFINE Goal == c \notin up' => answers'[c] = <<>>
  <2>1. ASSUME NEW d \in Clients, ClientLeaves(d) PROVE Goal
    BY <1>0, <2>1 DEF ClientLeaves, Apart
  <2>2. ASSUME NEW d \in Clients, Written(d) PROVE Goal
    BY <1>0, <2>2 DEF Written, Apart
  <2>3. ASSUME up \subseteq up', answers' = answers PROVE Goal
    BY <2>3 DEF Apart
  <2>4. ASSUME NEW d \in Clients, ClientNext(d) \/ WriterNext(d)
        PROVE  ClientLeaves(d) \/ Written(d) \/ (up \subseteq up' /\ answers' = answers)
    BY <2>4, ClientFrame
  <2>5. ASSUME NEW d \in Clients, ConnectionNext(d) PROVE UNCHANGED <<up, answers>>
    BY <2>5 DEF ConnectionNext, TakeBad, TakeGarbled, TakeStart, TakeFollow, TakeStartFails,
       TakeStopOrQuery, TakeUnsubscribe, TakeSubscribe, TakeClose, TakeOpen, Stopped, ReturnsEarly,
       Respond, RespondFails, StreamEnds, CleanUp
  <2>6. ASSUME NEW s \in Subs, Forward(s) \/ ForwardEnds(s) \/ \E a \in Actors : HandOut(a, s)
        PROVE  UNCHANGED <<up, answers>>
    BY <2>6 DEF Forward, ForwardEnds, HandOut
  <2>7. ASSUME RuntimeNext \/ UNCHANGED vars \/ \E a \in Actors : Event(a)
        PROVE  UNCHANGED <<up, answers>>
    BY <2>7 DEF RuntimeNext, LoopSetup, LoopSetupFails, LoopSubscribe, LoopStop, LoopStopped,
       LoopQuery, Event, vars
  <2> HIDE DEF Goal
  <2>8. UNCHANGED <<up, answers>> => Goal
    BY <2>3
  <2>9. Goal
    BY <2>1, <2>2, <2>3, <2>4, <2>5, <2>6, <2>7, <2>8 DEF Next
  <2> QED
    BY <2>9 DEF Goal
<1>2. ASSUME pc'[c] = "none"
      PROVE  c \notin up' /\ resp'[c] = <<>> /\ inq'[c] = <<>> /\ writer'[c] = "none"
  <2>1. pc[c] = "none"
    BY <1>2, CourseStep DEF Course, Takes, Leaves, Replied
  <2>2. c \notin up /\ resp[c] = <<>> /\ inq[c] = <<>> /\ writer[c] = "none"
    BY <2>1 DEF Apart
  <2>3. ~Connect(c)
    BY <1>0, <1>2 DEF Connect
  <2>4. c \notin up'
    BY <2>2, <2>3, UpStep
  <2>5. inq'[c] = <<>>
    BY <2>2, InqStep
  <2>6. writer'[c] = "none"
    BY <2>2, <2>3, WriterStep
  <2>7. ~WriteFails(c)
    BY <2>2 DEF WriteFails
  <2>8. resp'[c] = <<>>
    BY <2>2, <2>7, RespStep
  <2> QED
    BY <2>4, <2>5, <2>6, <2>8
<1> QED
  BY <1>1, <1>2

-----------------------------------------------------------------------------
(* The order of the events.                                                *)

\* A sequence is not its tail.
LEMMA ShorterTail ==
    ASSUME NEW S, NEW q \in Seq(S), q # <<>>
    PROVE  Tail(q) # q
<1> DEFINE k == Len(q)
           l == Len(Tail(q))
<1>1. l = k - 1 /\ k \in Nat
  BY WithoutFirst
<1>2. Tail(q) = q => l = k
  OBVIOUS
<1> HIDE DEF k, l
<1>3. l # k
  BY <1>1
<1> QED
  BY <1>2, <1>3

\* What the client of a subscription has seen of it: the next event is written, or the
\* client leaves.
LEMMA SeenStep ==
    ASSUME TypeOK, [Next]_vars, NEW s \in Subs
    PROVE  \/ seen'[s] = seen[s] /\ \A d \in Clients : Written(d) => ~IsEvent(resp[d], 1, s)
           \/ seen'[s] = <<>> /\ sub[s] # None /\ ClientLeaves(sub[s].client)
           \/ \E d \in Clients : /\ Written(d) /\ IsEvent(resp[d], 1, s)
                                 /\ seen'[s] = Append(seen[s], resp[d][1].n)
<1> USE DEF clientVars, taskVars, tableVars, runtimeVars
<1>0. resp \in [Clients -> Seq(Items)] /\ DOMAIN seen = Subs
  BY DEF TypeOK
<1> DEFINE Goal == \/ seen'[s] = seen[s] /\ \A d \in Clients : Written(d) => ~IsEvent(resp[d], 1, s)
                   \/ seen'[s] = <<>> /\ sub[s] # None /\ ClientLeaves(sub[s].client)
                   \/ \E d \in Clients : /\ Written(d) /\ IsEvent(resp[d], 1, s)
                                         /\ seen'[s] = Append(seen[s], resp[d][1].n)
<1>1. ASSUME NEW d \in Clients, Written(d) PROVE Goal
  <2>1. resp[d] # <<>> /\ resp' = [resp EXCEPT ![d] = Tail(@)]
    BY <1>1 DEF Written
  <2>2. Head(resp[d]) = resp[d][1] /\ resp[d][1] \in Items
    BY <1>0, <2>1, WithoutFirst
  <2>3. \/ resp[d][1].kind = "resp" /\ seen' = seen
        \/ resp[d][1].kind # "resp" /\ seen' = [seen EXCEPT ![resp[d][1].sub] = Append(@, resp[d][1].n)]
    BY <1>1, <2>2 DEF Written
  <2>4. \A e \in Clients : e # d => ~Written(e)
    <3> SUFFICES ASSUME NEW e \in Clients, e # d, Written(e) PROVE FALSE
      OBVIOUS
    <3>1. resp[e] # <<>> /\ resp' = [resp EXCEPT ![e] = Tail(@)]
      BY DEF Written
    <3>2. resp'[d] = resp[d] /\ resp'[d] = Tail(resp[d])
      BY <1>0, <2>1, <3>1
    <3> QED
      BY <1>0, <2>1, <3>2, ShorterTail
  <2>5. CASE IsEvent(resp[d], 1, s)
    BY <1>0, <1>1, <2>3, <2>5 DEF IsEvent
  <2>6. CASE ~IsEvent(resp[d], 1, s)
    <3>1. seen'[s] = seen[s]
      BY <1>0, <2>2, <2>3, <2>6, ItemFields DEF IsEvent
    <3> QED
      BY <2>4, <2>6, <3>1
  <2> QED
    BY <2>5, <2>6
<1>2. ASSUME \A d \in Clients : ~Written(d), seen' = seen PROVE Goal
  BY <1>2
<1>3. ASSUME NEW d \in Clients, ClientLeaves(d), \A e \in Clients : ~Written(e) PROVE Goal
  BY <1>3 DEF ClientLeaves
<1>4. ASSUME NEW d \in Clients, ClientNext(d) \/ WriterNext(d)
      PROVE  ClientLeaves(d) \/ Written(d) \/ seen' = seen
  BY <1>4, ClientFrame
<1>5. ASSUME NEW d \in Clients, ConnectionNext(d) PROVE seen' = seen
  BY <1>5 DEF ConnectionNext, TakeBad, TakeGarbled, TakeStart, TakeFollow, TakeStartFails,
     TakeStopOrQuery, TakeUnsubscribe, TakeSubscribe, TakeClose, TakeOpen, Stopped, ReturnsEarly,
     Respond, RespondFails, StreamEnds, CleanUp
<1>6. ASSUME NEW t \in Subs, Forward(t) \/ ForwardEnds(t) \/ \E a \in Actors : HandOut(a, t)
      PROVE  seen' = seen
  BY <1>6 DEF Forward, ForwardEnds, HandOut
<1>7. ASSUME RuntimeNext \/ UNCHANGED vars \/ \E a \in Actors : Event(a) PROVE seen' = seen
  BY <1>7 DEF RuntimeNext, LoopSetup, LoopSetupFails, LoopSubscribe, LoopStop, LoopStopped,
     LoopQuery, Event, vars
<1> HIDE DEF Goal
<1>8. Goal
  BY <1>1, <1>2, <1>3, <1>4, <1>5, <1>6, <1>7 DEF Next
<1> QED
  BY <1>8 DEF Goal

\* The events of a response channel have numbers.
LEMMA EventNumbers ==
    ASSUME NEW rs \in Seq(Items), NEW s, NEW i \in 1..Len(rs), IsEvent(rs, i, s)
    PROVE  rs[i].n \in Nat /\ rs[i].n \in 1..(MaxEvents + 1)
<1>1. rs[i] \in Items
  OBVIOUS
<1> QED
  BY <1>1, ItemFields, ServerAssumption DEF IsEvent

\* The first item is written: what came next still does.
LEMMA AfterWritten ==
    ASSUME NEW sn \in Seq(Nat), NEW rs \in Seq(Items), rs # <<>>, NEW s, InResp(sn, rs, s),
           NEW k \in 1..Len(rs), NEW n \in Nat, AfterSent(sn, rs, k, s, n)
    PROVE  AfterSent(IF IsEvent(rs, 1, s) THEN Append(sn, rs[1].n) ELSE sn, Tail(rs), k - 1, s, n)
<1> DEFINE ts == Tail(rs)
           new == IF IsEvent(rs, 1, s) THEN Append(sn, rs[1].n) ELSE sn
<1>0. Len(rs) \in Nat \ {0} /\ Len(ts) = Len(rs) - 1 /\ 1 \in 1..Len(rs)
  BY WithoutFirst
<1>1. \A i \in 1..Len(ts) : ts[i] = rs[i + 1] /\ i + 1 \in 1..Len(rs)
  BY WithoutFirst
<1>2. k - 1 \in 0..Len(ts) /\ k \in Nat
  BY <1>0
<1>3. \A i \in 1..(k - 1) : i \in 1..Len(ts) /\ i + 1 \in 1..k
  BY <1>0, <1>2
<1>4. \A i \in 1..(k - 1) : (IsEvent(ts, i, s) <=> IsEvent(rs, i + 1, s)) /\ ts[i] = rs[i + 1]
  BY <1>1, <1>3 DEF IsEvent
<1>5. \A i \in 1..k : i = 1 \/ (i - 1 \in 1..(k - 1) /\ (i - 1) + 1 = i)
  BY <1>2
<1> SUFFICES AfterSent(new, ts, k - 1, s, n)
  OBVIOUS
<1> HIDE DEF ts, new
<1>6. \A i \in 1..(k - 1) : IsEvent(ts, i, s) => ts[i].n < n
  BY <1>3, <1>4 DEF AfterSent
<1>7. ASSUME NEW i \in 1..k, i # 1, IsEvent(rs, i, s), rs[i].n + 1 = n
      PROVE  \E j \in 1..(k - 1) : IsEvent(ts, j, s) /\ ts[j].n + 1 = n
  <2>1. i - 1 \in 1..(k - 1) /\ (i - 1) + 1 = i
    BY <1>5, <1>7
  <2>2. IsEvent(ts, i - 1, s) /\ ts[i - 1] = rs[i]
    BY <1>4, <1>7, <2>1
  <2> QED
    BY <1>7, <2>1, <2>2
<1>8. CASE ~IsEvent(rs, 1, s)
  <2>1. new = sn
    BY <1>8 DEF new
  <2>2. CASE \E i \in 1..k : IsEvent(rs, i, s) /\ rs[i].n + 1 = n
    BY <1>6, <1>7, <1>8, <2>2 DEF AfterSent
  <2>3. CASE (\A i \in 1..k : ~IsEvent(rs, i, s)) /\ (sn # <<>> => sn[Len(sn)] + 1 = n)
    BY <1>3, <1>4, <1>6, <2>1, <2>3 DEF AfterSent
  <2> QED
    BY <2>2, <2>3 DEF AfterSent
<1>9. CASE IsEvent(rs, 1, s)
  <2>0. rs[1].n \in Nat /\ 1 \in 1..k
    BY <1>0, <1>9, EventNumbers
  <2>1. new[Len(new)] = rs[1].n /\ new # <<>>
    <3>1. new = Append(sn, rs[1].n)
      BY <1>9 DEF new
    <3> QED
      BY <2>0, <3>1, WithOneMore
  <2>2. PICK i \in 1..k : IsEvent(rs, i, s) /\ rs[i].n + 1 = n
    BY <1>9, <2>0 DEF AfterSent
  <2>3. CASE i # 1
    BY <1>6, <1>7, <2>2, <2>3 DEF AfterSent
  <2>4. CASE i = 1
    <3>1. ASSUME NEW j \in 1..(k - 1), IsEvent(ts, j, s) PROVE FALSE
      <4>1. /\ j + 1 \in 1..Len(rs) /\ j + 1 \in 1..k /\ IsEvent(rs, j + 1, s) /\ (j + 1) - 1 = j
            /\ 1 \in 1..j
        BY <1>0, <1>1, <1>3, <1>4, <3>1
      <4>2. AfterSent(sn, rs, j, s, rs[j + 1].n)
        BY <4>1 DEF InResp
      <4>3. rs[1].n < rs[j + 1].n
        BY <1>9, <4>1, <4>2 DEF AfterSent
      <4>4. rs[j + 1].n < n /\ rs[j + 1].n \in Nat
        BY <4>1, EventNumbers DEF AfterSent
      <4> QED
        BY <2>0, <2>2, <2>4, <4>3, <4>4
    <3> QED
      BY <1>6, <2>1, <2>2, <2>4, <3>1 DEF AfterSent
  <2> QED
    BY <2>3, <2>4
<1> QED
  BY <1>8, <1>9

\* The first item is written, whatever it is: everything stays in order.
LEMMA FlowWritten ==
    ASSUME NEW sn \in Seq(Nat), NEW rs \in Seq(Items), rs # <<>>, NEW q \in Seq(Nat),
           NEW run \in BOOLEAN, NEW fed \in BOOLEAN, NEW n, fed => n \in Nat, NEW s,
           Gapless(sn), Flow(sn, rs, q, run, fed, n, s)
    PROVE  LET new == IF IsEvent(rs, 1, s) THEN Append(sn, rs[1].n) ELSE sn
           IN  Gapless(new) /\ Flow(new, Tail(rs), q, run, fed, n, s)
<1> DEFINE ts == Tail(rs)
           new == IF IsEvent(rs, 1, s) THEN Append(sn, rs[1].n) ELSE sn
<1>0. /\ Len(rs) \in Nat \ {0} /\ Len(ts) = Len(rs) - 1 /\ 1 \in 1..Len(rs) /\ Len(rs) \in 1..Len(rs)
      /\ \A i \in 1..Len(ts) : ts[i] = rs[i + 1] /\ i + 1 \in 1..Len(rs)
  BY WithoutFirst
<1>1. \A k \in 1..Len(rs), m \in Nat : AfterSent(sn, rs, k, s, m) => AfterSent(new, ts, k - 1, s, m)
  BY AfterWritten DEF Flow
<1>2. Gapless(new)
  <2>1. CASE IsEvent(rs, 1, s)
    <3>1. rs[1].n \in Nat /\ new = Append(sn, rs[1].n)
      BY <1>0, <2>1, EventNumbers
    <3>2. /\ Len(new) = Len(sn) + 1 /\ Len(sn) \in Nat /\ new[Len(sn) + 1] = rs[1].n
          /\ \A i \in 1..Len(sn) : new[i] = sn[i]
      BY <3>1, WithOneMore
    <3>3. AfterSent(sn, rs, 0, s, rs[1].n)
      BY <1>0, <2>1 DEF Flow, InResp
    <3>4. sn # <<>> => sn[Len(sn)] + 1 = rs[1].n
      BY <3>3 DEF AfterSent
    <3> HIDE DEF new
    <3>5. ASSUME NEW i \in 1..(Len(new) - 1) PROVE new[i + 1] = new[i] + 1
      <4>1. CASE i = Len(sn)
        BY <3>2, <3>4, <4>1
      <4>2. CASE i # Len(sn)
        <5>1. i \in 1..(Len(sn) - 1) /\ i \in 1..Len(sn) /\ i + 1 \in 1..Len(sn)
          BY <3>2, <4>2
        <5> QED
          BY <3>2, <5>1 DEF Gapless
      <4> QED
        BY <4>1, <4>2
    <3> QED
      BY <3>5 DEF Gapless
  <2> QED
    BY <2>1
<1> SUFFICES Flow(new, ts, q, run, fed, n, s)
  BY <1>2
<1> HIDE DEF new, ts
<1>3. InResp(new, ts, s)
  <2> SUFFICES ASSUME NEW i \in 1..Len(ts), IsEvent(ts, i, s)
               PROVE  AfterSent(new, ts, i - 1, s, ts[i].n)
    BY DEF InResp
  <2>1. i + 1 \in 1..Len(rs) /\ ts[i] = rs[i + 1] /\ IsEvent(rs, i + 1, s) /\ i \in 1..Len(rs) /\ i + 1 - 1 = i
    BY <1>0 DEF IsEvent
  <2>2. AfterSent(sn, rs, i, s, rs[i + 1].n)
    BY <2>1 DEF Flow, InResp
  <2>3. rs[i + 1].n \in Nat
    BY <2>1, EventNumbers
  <2> QED
    BY <1>1, <2>1, <2>2, <2>3
<1>4. \A m \in Nat : AfterSent(sn, rs, Len(rs), s, m) => AfterSent(new, ts, Len(ts), s, m)
  BY <1>0, <1>1
<1>5. q # <<>> => q[1] \in Nat
  OBVIOUS
<1> QED
  BY <1>3, <1>4, <1>5 DEF Flow, InQueue, NextOut

\* An item that is no event of s is added.
LEMMA FlowSent ==
    ASSUME NEW sn, NEW rs \in Seq(Items), NEW x \in Items, NEW q, NEW run \in BOOLEAN, NEW fed \in BOOLEAN,
           NEW n, NEW s, ~(x.kind = "event" /\ x.sub = s), Flow(sn, rs, q, run, fed, n, s)
    PROVE  Flow(sn, Append(rs, x), q, run, fed, n, s)
<1> DEFINE ts == Append(rs, x)
<1>0. /\ Len(ts) = Len(rs) + 1 /\ Len(rs) \in Nat /\ ts[Len(rs) + 1] = x
      /\ \A i \in 1..Len(rs) : ts[i] = rs[i]
  BY WithOneMore
<1> SUFFICES Flow(sn, ts, q, run, fed, n, s)
  OBVIOUS
<1> HIDE DEF ts
<1>1. ~IsEvent(ts, Len(ts), s) /\ \A i \in 1..Len(rs) : IsEvent(ts, i, s) <=> IsEvent(rs, i, s)
  BY <1>0 DEF IsEvent
<1>2. ASSUME NEW k \in 0..Len(rs), NEW m, AfterSent(sn, rs, k, s, m)
      PROVE  AfterSent(sn, ts, k, s, m)
  <2>1. \A i \in 1..k : i \in 1..Len(rs)
    BY <1>0
  <2> QED
    BY <1>0, <1>1, <1>2, <2>1 DEF AfterSent
<1>3. ASSUME NEW m, AfterSent(sn, rs, Len(rs), s, m) PROVE AfterSent(sn, ts, Len(ts), s, m)
  <2>1. \A i \in 1..Len(ts) : i \in 1..Len(rs) \/ i = Len(ts)
    BY <1>0
  <2>2. AfterSent(sn, ts, Len(rs), s, m) /\ \A i \in 1..Len(rs) : i \in 1..Len(ts)
    BY <1>0, <1>2, <1>3
  <2> QED
    BY <1>1, <2>1, <2>2 DEF AfterSent
<1>4. InResp(sn, ts, s)
  <2> SUFFICES ASSUME NEW i \in 1..Len(ts), IsEvent(ts, i, s)
               PROVE  AfterSent(sn, ts, i - 1, s, ts[i].n)
    BY DEF InResp
  <2>1. i \in 1..Len(rs) /\ i - 1 \in 0..Len(rs)
    BY <1>0, <1>1
  <2> QED
    BY <1>0, <1>1, <1>2, <2>1 DEF Flow, InResp
<1> QED
  BY <1>3, <1>4 DEF Flow, InQueue, NextOut

\* The forwarder moves the first event of its channel to the response channel.
LEMMA FlowForward ==
    ASSUME NEW sn, NEW rs \in Seq(Items), NEW x \in Items, NEW q \in Seq(Nat), q # <<>>,
           NEW fed \in BOOLEAN, NEW n, NEW s, x.kind = "event", x.sub = s, x.n = q[1],
           Flow(sn, rs, q, TRUE, fed, n, s)
    PROVE  Flow(sn, Append(rs, x), Tail(q), TRUE, fed, n, s)
<1> DEFINE ts == Append(rs, x)
           p == Tail(q)
<1>0. /\ Len(ts) = Len(rs) + 1 /\ Len(rs) \in Nat /\ ts[Len(rs) + 1] = x
      /\ \A i \in 1..Len(rs) : ts[i] = rs[i]
  BY WithOneMore
<1>1. /\ q[1] \in Nat /\ p \in Seq(Nat) /\ Len(q) \in Nat \ {0} /\ Len(p) = Len(q) - 1
      /\ \A i \in 1..Len(p) : p[i] = q[i + 1] /\ i + 1 \in 1..Len(q)
  BY WithoutFirst
<1>2. (p = <<>> => Len(p) = 0) /\ (p # <<>> => Len(p) \in Nat \ {0})
  <2> HIDE DEF p
  <2> QED
    BY <1>1
<1> SUFFICES Flow(sn, ts, p, TRUE, fed, n, s)
  OBVIOUS
<1> HIDE DEF ts, p
<1>3. /\ IsEvent(ts, Len(ts), s) /\ ts[Len(ts)].n = q[1]
      /\ \A i \in 1..Len(rs) : IsEvent(ts, i, s) <=> IsEvent(rs, i, s)
  BY <1>0 DEF IsEvent
<1>4. ASSUME NEW k \in 0..Len(rs), NEW m, AfterSent(sn, rs, k, s, m)
      PROVE  AfterSent(sn, ts, k, s, m)
  <2>1. \A i \in 1..k : i \in 1..Len(rs)
    BY <1>0
  <2> QED
    BY <1>0, <1>3, <1>4, <2>1 DEF AfterSent
<1>5. AfterSent(sn, rs, Len(rs), s, q[1])
  BY DEF Flow, InQueue
<1>6. AfterSent(sn, ts, Len(ts), s, q[1] + 1)
  <2>1. \A i \in 1..Len(rs) : IsEvent(rs, i, s) => rs[i].n < q[1] /\ rs[i].n \in Nat
    BY <1>5, EventNumbers DEF AfterSent
  <2>2. ASSUME NEW i \in 1..Len(ts), IsEvent(ts, i, s) PROVE ts[i].n < q[1] + 1
    <3>1. i \in 1..Len(rs) \/ i = Len(ts)
      BY <1>0
    <3>2. CASE i = Len(ts)
      BY <1>1, <1>3, <3>2
    <3>3. CASE i \in 1..Len(rs)
      <4>1. ts[i] = rs[i] /\ IsEvent(rs, i, s)
        BY <1>0, <1>3, <2>2, <3>3
      <4>2. rs[i].n < q[1] /\ rs[i].n \in Nat
        BY <2>1, <3>3, <4>1
      <4> QED
        BY <1>1, <4>1, <4>2
    <3> QED
      BY <3>1, <3>2, <3>3
  <2>3. Len(ts) \in 1..Len(ts)
    BY <1>0
  <2> QED
    BY <1>3, <2>2, <2>3 DEF AfterSent
<1>7. InResp(sn, ts, s)
  <2> SUFFICES ASSUME NEW i \in 1..Len(ts), IsEvent(ts, i, s)
               PROVE  AfterSent(sn, ts, i - 1, s, ts[i].n)
    BY DEF InResp
  <2>1. CASE i \in 1..Len(rs)
    <3>1. i - 1 \in 0..Len(rs) /\ AfterSent(sn, rs, i - 1, s, rs[i].n)
      BY <1>0, <1>3, <2>1 DEF Flow, InResp
    <3> QED
      BY <1>0, <1>4, <2>1, <3>1
  <2>2. CASE i = Len(ts)
    <3>1. i - 1 = Len(rs) /\ Len(rs) \in 0..Len(rs) /\ ts[i].n = q[1]
      BY <1>0, <1>3, <2>2
    <3> QED
      BY <1>4, <1>5, <3>1
  <2> QED
    BY <1>0, <2>1, <2>2
<1>8. p # <<>> => 1 \in 1..Len(p) /\ p[1] = q[1] + 1 /\ p[Len(p)] = q[Len(q)]
  <2> SUFFICES ASSUME p # <<>> PROVE 1 \in 1..Len(p) /\ p[1] = q[1] + 1 /\ p[Len(p)] = q[Len(q)]
    OBVIOUS
  <2>1. 1 \in 1..Len(p) /\ Len(p) \in 1..Len(p) /\ 1 \in 1..(Len(q) - 1) /\ Len(p) + 1 = Len(q)
    BY <1>1, <1>2
  <2>2. p[1] = q[1 + 1] /\ p[Len(p)] = q[Len(p) + 1]
    BY <1>1, <2>1
  <2>3. q[1 + 1] = q[1] + 1
    BY <2>1 DEF Flow, InQueue, Gapless
  <2> QED
    BY <2>1, <2>2, <2>3
<1>9. InQueue(sn, ts, p, s)
  <2>1. ASSUME NEW i \in 1..(Len(p) - 1) PROVE p[i + 1] = p[i] + 1
    <3>1. i \in 1..Len(p) /\ i + 1 \in 1..Len(p) /\ i + 1 \in 1..(Len(q) - 1)
      BY <1>1
    <3>2. p[i] = q[i + 1] /\ p[i + 1] = q[(i + 1) + 1]
      BY <1>1, <3>1
    <3> QED
      BY <3>1, <3>2 DEF Flow, InQueue, Gapless
  <2> QED
    BY <1>6, <1>8, <2>1 DEF InQueue, Gapless
<1>10. fed => NextOut(sn, ts, p, s, n)
  <2> SUFFICES ASSUME fed PROVE NextOut(sn, ts, p, s, n)
    OBVIOUS
  <2>1. q[Len(q)] + 1 = n
    BY DEF Flow, NextOut
  <2>2. CASE p # <<>>
    BY <1>8, <2>1, <2>2 DEF NextOut
  <2>3. CASE p = <<>>
    <3>1. Len(q) = 1
      BY <1>1, <1>2, <2>3
    <3> QED
      BY <1>6, <2>1, <2>3, <3>1 DEF NextOut
  <2> QED
    BY <2>2, <2>3
<1> QED
  BY <1>7, <1>9, <1>10 DEF Flow

\* The chain hands out the event that is due.
LEMMA FlowHandOut ==
    ASSUME NEW sn, NEW rs, NEW q \in Seq(Nat), NEW fed \in BOOLEAN, NEW n \in Nat, NEW s,
           Flow(sn, rs, q, TRUE, TRUE, n, s)
    PROVE  Flow(sn, rs, Append(q, n), TRUE, fed, n + 1, s)
<1> DEFINE p == Append(q, n)
<1>0. /\ p # <<>> /\ Len(p) = Len(q) + 1 /\ Len(q) \in Nat /\ p[Len(q) + 1] = n
      /\ \A i \in 1..Len(q) : p[i] = q[i]
  BY WithOneMore
<1>1. (q = <<>> => Len(q) = 0) /\ (q # <<>> => Len(q) \in Nat \ {0})
  OBVIOUS
<1> SUFFICES Flow(sn, rs, p, TRUE, fed, n + 1, s)
  OBVIOUS
<1> HIDE DEF p
<1>2. NextOut(sn, rs, q, s, n) /\ InQueue(sn, rs, q, s) /\ InResp(sn, rs, s)
  BY DEF Flow
<1>3. ASSUME NEW i \in 1..(Len(p) - 1) PROVE p[i + 1] = p[i] + 1
  <2>1. CASE i = Len(q)
    <3>1. q # <<>> /\ i \in 1..Len(q)
      BY <1>0, <1>1, <2>1
    <3> QED
      BY <1>0, <1>2, <2>1, <3>1 DEF NextOut
  <2>2. CASE i # Len(q)
    <3>1. i \in 1..(Len(q) - 1) /\ i \in 1..Len(q) /\ i + 1 \in 1..Len(q)
      BY <1>0, <2>2
    <3> QED
      BY <1>0, <1>2, <3>1 DEF InQueue, Gapless
  <2> QED
    BY <2>1, <2>2
<1>4. AfterSent(sn, rs, Len(rs), s, p[1])
  <2>1. CASE q = <<>>
    BY <1>0, <1>1, <1>2, <2>1 DEF NextOut
  <2>2. CASE q # <<>>
    <3>1. 1 \in 1..Len(q)
      BY <1>1, <2>2
    <3> QED
      BY <1>0, <1>2, <2>2, <3>1 DEF InQueue
  <2> QED
    BY <2>1, <2>2
<1>5. NextOut(sn, rs, p, s, n + 1)
  BY <1>0 DEF NextOut
<1> QED
  BY <1>2, <1>3, <1>4, <1>5 DEF Flow, InQueue, Gapless

\* The client leaves.
LEMMA FlowLeft ==
    ASSUME NEW sn, NEW rs, NEW q, NEW run \in BOOLEAN, NEW fed \in BOOLEAN, NEW n, NEW s,
           Flow(sn, rs, q, run, fed, n, s)
    PROVE  Flow(<<>>, rs, q, run, fed, n, s)
<1>1. \A k, m : AfterSent(sn, rs, k, s, m) => AfterSent(<<>>, rs, k, s, m)
  BY DEF AfterSent
<1> QED
  BY <1>1 DEF Flow, InResp, InQueue, NextOut

\* A subscription that has brought nothing is in order.
LEMMA UntouchedFlows ==
    ASSUME TypeOK, NEW s \in Subs, Untouched(s)
    PROVE  EventsOf(s)
<1>1. Gapless(<<>>)
  BY DEF Gapless
<1>2. ASSUME sub[s] # None PROVE Flowing(s)
  <2>1. sub[s].client \in Clients /\ sub[s].q = <<>> /\ seen[s] = <<>> /\ Absent(sub[s].client, s)
    BY <1>2, OpenSub DEF Untouched
  <2>2. \A n, k : k \in 0..Len(resp[sub[s].client]) => AfterSent(<<>>, resp[sub[s].client], k, s, n)
    <3> SUFFICES ASSUME NEW n, NEW k \in 0..Len(resp[sub[s].client])
                 PROVE  AfterSent(<<>>, resp[sub[s].client], k, s, n)
      OBVIOUS
    <3>1. resp[sub[s].client] \in Seq(Items)
      BY <2>1 DEF TypeOK
    <3>2. \A i \in 1..k : i \in 1..Len(resp[sub[s].client])
      BY <3>1
    <3> QED
      BY <2>1, <3>2 DEF AfterSent, Absent
  <2>3. Len(resp[sub[s].client]) \in 0..Len(resp[sub[s].client])
    BY <2>1 DEF TypeOK
  <2>4. InResp(<<>>, resp[sub[s].client], s)
    BY <2>1 DEF InResp, Absent
  <2> QED
    BY <1>1, <2>1, <2>2, <2>3, <2>4 DEF Flowing, Flow, InQueue, NextOut, Untouched
<1> QED
  BY <1>1, <1>2 DEF EventsOf, Untouched

\* Events of a subscription come into a response channel by its forwarder only.
LEMMA AbsentStep ==
    ASSUME TypeOK, AnswerKnown, [Next]_vars, NEW s \in Subs, NEW d \in Clients, Absent(d, s),
           ~(Forward(s) /\ d = sub[s].client)
    PROVE  Absent(d, s)'
<1>0. resp[d] \in Seq(Items)
  BY DEF TypeOK
<1>1. CASE resp'[d] = resp[d]
  BY <1>1 DEF Absent, IsEvent
<1>2. CASE resp[d] # <<>> /\ resp'[d] = Tail(resp[d])
  <2>1. \A i \in 1..Len(resp'[d]) : resp'[d][i] = resp[d][i + 1] /\ i + 1 \in 1..Len(resp[d])
    BY <1>0, <1>2, WithoutFirst
  <2> QED
    BY <2>1 DEF Absent, IsEvent
<1>3. CASE resp'[d] = <<>>
  BY <1>3 DEF Absent
<1>4. ASSUME NEW x \in Items, resp'[d] = Append(resp[d], x),
             (Respond(d) /\ x.kind = "resp") \/ \E t \in Subs : Forwards(t, d, x)
      PROVE  Absent(d, s)'
  <2>1. ~(x.kind = "event" /\ x.sub = s)
    BY <1>4 DEF Forwards
  <2>2. /\ Len(resp'[d]) = Len(resp[d]) + 1 /\ Len(resp[d]) \in Nat
        /\ resp'[d][Len(resp[d]) + 1] = x /\ \A i \in 1..Len(resp[d]) : resp'[d][i] = resp[d][i]
    BY <1>0, <1>4, WithOneMore
  <2>3. \A i \in 1..Len(resp'[d]) : i \in 1..Len(resp[d]) \/ i = Len(resp[d]) + 1
    BY <2>2
  <2> QED
    BY <2>1, <2>2, <2>3 DEF Absent, IsEvent
<1> QED
  BY <1>1, <1>2, <1>3, <1>4, RespStep

\* The event channel of a subscription is new, or stays as it is, or goes with its
\* forwarder, or an event is taken from it or put into it.
LEMMA QueueStep ==
    ASSUME TypeOK, Requested, Logged, [Next]_vars, NEW s \in Subs
    PROVE  \/ sub[s] = None /\ (sub'[s] # None => sub'[s].q = <<>>)
           \/ sub[s] # None /\ sub'[s].q = sub[s].q
           \/ sub[s] # None /\ sub'[s].q = <<>> /\ sub'[s].fwd = "gone"
           \/ Forward(s)
           \/ \E a \in Actors : HandOut(a, s)
<1> USE DEF clientVars, taskVars, tableVars, runtimeVars
<1>0. sub \in [Subs -> Subscription \cup {None}]
  BY DEF TypeOK
<1> DEFINE Goal == \/ sub[s] = None /\ (sub'[s] # None => sub'[s].q = <<>>)
                   \/ sub[s] # None /\ sub'[s].q = sub[s].q
                   \/ sub[s] # None /\ sub'[s].q = <<>> /\ sub'[s].fwd = "gone"
                   \/ Forward(s)
                   \/ \E a \in Actors : HandOut(a, s)
<1>1. CASE sub'[s] = sub[s]
  BY <1>1
<1>2. ASSUME NEW t \in Subs, NEW x, sub' = [sub EXCEPT ![t] = x], t # s PROVE Goal
  BY <1>0, <1>1, <1>2
<1>3. ASSUME NEW c \in Clients, NEW a \in Actors \cup {None}, NEW t \in Subs, Fresh(t),
             sub' = [sub EXCEPT ![t] = Opened(c, a)]
      PROVE  Goal
  <2>1. CASE t = s
    <3>1. sub[s] = None /\ sub'[s] = Opened(c, a)
      BY <1>0, <1>3, <2>1 DEF Fresh
    <3>2. Opened(c, a).q = <<>>
      BY OpenedFields
    <3> QED
      BY <3>1, <3>2
  <2> QED
    BY <1>2, <1>3, <2>1
<1>4. ASSUME NEW c \in Clients, ClientNext(c) \/ WriterNext(c) \/ ConnectionNext(c) PROVE Goal
  <2>1. ASSUME NEW t \in Subs, TakeFollow(c, t) \/ TakeSubscribe(c, t) PROVE Goal
    <3>1. CASE TakeFollow(c, t)
      BY <1>3, <3>1 DEF TakeFollow
    <3>2. CASE TakeSubscribe(c, t)
      <4>1. Head(inq[c]).actor \in Actors \cup {None}
        BY <3>2, CommandTaken DEF TakeSubscribe, Taken
      <4> QED
        BY <1>3, <3>2, <4>1 DEF TakeSubscribe
    <3> QED
      BY <2>1, <3>1, <3>2
  <2>2. CASE ~\E t \in Subs : TakeFollow(c, t) \/ TakeSubscribe(c, t)
    <3>1. sub' = sub
      BY <1>4, <2>2 DEF ClientNext, WriterNext, ConnectionNext, Connect, ClientLeaves, ClientSends,
         Written, WriteFails, WriterEnds, TakeBad, TakeGarbled, TakeStart, TakeStartFails,
         TakeStopOrQuery, TakeUnsubscribe, TakeClose, TakeOpen, Stopped, ReturnsEarly, Respond,
         RespondFails, StreamEnds, CleanUp
    <3> QED
      BY <1>1, <3>1
  <2> QED
    BY <2>1, <2>2
<1>5. ASSUME NEW t \in Subs, Forward(t) PROVE Goal
  <2>1. CASE t # s
    BY <1>2, <1>5, <2>1, ForwardedEvent
  <2> QED
    BY <1>5, <2>1
<1>6. ASSUME NEW t \in Subs, ForwardEnds(t) PROVE Goal
  <2> DEFINE x == [sub[t] EXCEPT !.fwd = "gone", !.q = <<>>]
  <2>1. sub[t] # None /\ sub[t] \in Subscription /\ sub' = [sub EXCEPT ![t] = x]
    BY <1>0, <1>6 DEF ForwardEnds, Running
  <2>2. x.q = <<>> /\ x.fwd = "gone"
    BY <2>1, SubscriptionFields
  <2> HIDE DEF x
  <2>3. CASE t = s
    BY <1>0, <2>1, <2>2, <2>3
  <2> QED
    BY <1>2, <2>1, <2>3
<1>7. ASSUME NEW t \in Subs, NEW a \in Actors, HandOut(a, t) PROVE Goal
  <2>1. \E x : sub' = [sub EXCEPT ![t] = x]
    BY <1>0, <1>7 DEF HandOut
  <2> QED
    BY <1>2, <1>7, <2>1
<1>8. CASE RuntimeNext
  <2>1. CASE sub[s] = None
    BY <1>1, <1>8, <2>1, RuntimeSubs
  <2>2. CASE sub[s] # None
    BY <1>8, <2>2, RuntimeSubs
  <2> QED
    BY <2>1, <2>2
<1>9. ASSUME UNCHANGED vars \/ \E a \in Actors : Event(a) PROVE Goal
  BY <1>1, <1>9 DEF Event, vars
<1>10. ASSUME NEW t \in Subs, Forward(t) \/ ForwardEnds(t) \/ \E a \in Actors : HandOut(a, t)
       PROVE  Goal
  BY <1>5, <1>6, <1>7, <1>10
<1>11. Goal
  BY <1>4, <1>8, <1>9, <1>10 DEF Next
<1> QED
  BY <1>11

\* A subscription of which the runtime has been told keeps the event that is due.
LEMMA FedStep ==
    ASSUME TypeOK, Addressed, Requested, Logged, [Next]_vars, NEW s \in Subs, ~Outside(s),
           \A a \in Actors : ~HandOut(a, s)
    PROVE  Fed(s)' => Fed(s) /\ Due(s)' = Due(s)
<1> SUFFICES ASSUME Fed(s)' PROVE Fed(s) /\ Due(s)' = Due(s)
  OBVIOUS
<1>1. sub[s] # None /\ Told(s) /\ sub[s].actor # None
  BY DEF Outside
<1>2. sub[s].actor \in Actors
  BY <1>1, OpenSub, SubscriptionFields
<1> PICK a \in Actors : a = sub[s].actor
  BY <1>2
<1>3. sub'[s] # None /\ sub'[s].actor = a
  BY <1>1, ToldStep
<1>4. (sub'[s].held => sub[s].held) /\ sub[s].fwd = "run"
  BY <1>1, SubsStep DEF Fed
<1>5. sub'[s].held \/ s \in todo'[a]
  BY <1>3 DEF Fed
<1>6. CASE UNCHANGED log[a] /\ (s \in todo'[a] <=> s \in todo[a])
  BY <1>1, <1>3, <1>4, <1>5, <1>6 DEF Fed, Due
<1>7. CASE NextEvent(a)
  <2>1. log'[a] = log[a] + 1 /\ todo'[a] = {t \in Subs : InChain(t, a)} /\ todo[a] = {}
    BY <1>2, <1>7 DEF NextEvent, TypeOK
  <2>2. sub[s].held
    BY <1>2, <1>4, <1>5, <2>1, ChainSubs
  <2>3. s \in todo'[a] /\ s \notin todo[a]
    BY <1>1, <1>2, <2>1, <2>2, ChainSubs
  <2>4. Due(s)' = log'[a] /\ Due(s) = log[a] + 1
    BY <1>3, <2>3 DEF Due
  <2> QED
    BY <1>1, <1>4, <2>1, <2>2, <2>4 DEF Fed
<1>8. \/ /\ UNCHANGED <<log[a], actor[a]>> /\ todo'[a] \subseteq todo[a]
         /\ \A t \in todo[a] : t \in todo'[a] \/ HandOut(a, t)
      \/ UNCHANGED <<log[a], todo[a]>>
      \/ NextEvent(a)
  BY ChainStep
<1> QED
  BY <1>2, <1>6, <1>7, <1>8

\* Nothing comes before the chain hands it out.
LEMMA UntouchedStep ==
    ASSUME TypeOK, AnswerKnown, Requested, Logged, [Next]_vars, NEW s \in Subs, Untouched(s),
           \A a \in Actors : ~HandOut(a, s)
    PROVE  Untouched(s)'
<1>1. ~Forward(s)
  BY ForwardedEvent DEF Untouched
<1>2. \A c \in Clients : Absent(c, s)'
  BY <1>1, AbsentStep DEF Untouched
<1>3. seen'[s] = <<>>
  <2>1. ASSUME NEW d \in Clients, Written(d), IsEvent(resp[d], 1, s) PROVE FALSE
    <3>1. resp[d] # <<>> /\ resp[d] \in Seq(Items)
      BY <2>1 DEF Written, TypeOK
    <3>2. 1 \in 1..Len(resp[d])
      BY <3>1
    <3> QED
      BY <2>1, <3>2 DEF Untouched, Absent
  <2> QED
    BY <2>1, SeenStep DEF Untouched
<1>4. sub'[s] # None => sub'[s].q = <<>>
  BY <1>1, QueueStep DEF Untouched
<1> QED
  BY <1>2, <1>3, <1>4 DEF Untouched

\* Fields that leave what flows as it is: the forwarder may end, or be fed no longer.
LEMMA FlowKept ==
    ASSUME NEW sn, NEW rs, NEW q, NEW run \in BOOLEAN, NEW fed \in BOOLEAN, NEW n, NEW s,
           NEW q2, NEW run2 \in BOOLEAN, NEW fed2 \in BOOLEAN, NEW n2,
           run2 => run /\ q2 = q, fed2 => run2 /\ fed /\ n2 = n,
           Flow(sn, rs, q, run, fed, n, s)
    PROVE  Flow(sn, rs, q2, run2, fed2, n2, s)
  BY DEF Flow

\* A subscription that the runtime has been told of, with its actor: the types of what
\* flows.
LEMMA ToldTypes ==
    ASSUME TypeOK, NEW s \in Subs, ~Outside(s)
    PROVE  /\ sub[s] # None /\ Told(s) /\ sub[s].client \in Clients /\ sub[s].actor \in Actors
           /\ sub[s].q \in Seq(Nat) /\ seen[s] \in Seq(Nat) /\ resp[sub[s].client] \in Seq(Items)
           /\ Fed(s) \in BOOLEAN /\ Due(s) \in Nat
<1>1. sub[s] # None /\ Told(s) /\ sub[s].actor # None
  BY DEF Outside
<1>2. sub[s] \in Subscription /\ sub[s].client \in Clients /\ sub[s].actor \in Actors
  BY <1>1, OpenSub, SubscriptionFields
<1>3. \A q \in Seq(1..(MaxEvents + 1)) : q \in Seq(Nat)
  BY ServerAssumption
<1>4. sub[s].q \in Seq(1..(MaxEvents + 1)) /\ seen[s] \in Seq(1..(MaxEvents + 1))
  BY <1>1, OpenSub DEF TypeOK
<1>5. log[sub[s].actor] \in Nat
  BY <1>2, ServerAssumption DEF TypeOK
<1> QED
  BY <1>1, <1>2, <1>3, <1>4, <1>5 DEF TypeOK, Fed, Due

\* Its first item is written.
LEMMA WrittenFlows ==
    ASSUME TypeOK, [Next]_vars, NEW s \in Subs, ~Outside(s), EventsOf(s), Written(sub[s].client)
    PROVE  /\ Gapless(seen'[s])
           /\ Flow(seen'[s], resp'[sub[s].client], sub'[s].q, sub'[s].fwd = "run", Fed(s)', Due(s)', s)
<1> USE DEF clientVars, taskVars, tableVars, runtimeVars
<1>0. PICK c \in Clients : c = sub[s].client
  BY ToldTypes
<1>1. /\ writer[c] = "run" /\ resp[c] # <<>> /\ resp'[c] = Tail(resp[c])
      /\ UNCHANGED <<sub, rq, log, todo>>
  BY <1>0 DEF Written, TypeOK
<1>2. Fed(s)' = Fed(s) /\ Due(s)' = Due(s) /\ sub'[s] = sub[s]
  BY <1>1 DEF Fed, Due
<1>3. Gapless(seen[s]) /\ Flow(seen[s], resp[c], sub[s].q, sub[s].fwd = "run", Fed(s), Due(s), s)
  BY <1>0, <1>1 DEF EventsOf, Flowing, Outside
<1> DEFINE new == IF IsEvent(resp[c], 1, s) THEN Append(seen[s], resp[c][1].n) ELSE seen[s]
<1>4. seen'[s] = new
  <2>1. ASSUME NEW d \in Clients, Written(d) PROVE d = c
    <3>1. resp' = [resp EXCEPT ![d] = Tail(@)] /\ resp[d] # <<>>
      BY <2>1 DEF Written
    <3>2. resp \in [Clients -> Seq(Items)]
      BY DEF TypeOK
    <3>3. d # c => resp[c] = Tail(resp[c])
      BY <1>1, <3>1, <3>2
    <3>4. resp[c] # Tail(resp[c])
      BY <1>1, <3>2, ShorterTail
    <3> QED
      BY <3>3, <3>4
  <2>2. ~ClientLeaves(c)
    <3>1. ClientLeaves(c) => resp' = resp
      BY DEF ClientLeaves
    <3> QED
      BY <1>1, <3>1, ShorterTail DEF TypeOK
  <2> QED
    BY <1>0, <2>1, <2>2, SeenStep
<1> HIDE DEF new
<1>5. Gapless(new) /\ Flow(new, Tail(resp[c]), sub[s].q, sub[s].fwd = "run", Fed(s), Due(s), s)
  <2> DEFINE run == sub[s].fwd = "run"
             fed == Fed(s)
             n == Due(s)
  <2>1. /\ seen[s] \in Seq(Nat) /\ resp[c] \in Seq(Items) /\ sub[s].q \in Seq(Nat)
        /\ run \in BOOLEAN /\ fed \in BOOLEAN /\ n \in Nat
    BY <1>0, ToldTypes
  <2>2. Gapless(seen[s]) /\ Flow(seen[s], resp[c], sub[s].q, run, fed, n, s)
    BY <1>3
  <2> HIDE DEF run, fed, n
  <2>3. Gapless(new) /\ Flow(new, Tail(resp[c]), sub[s].q, run, fed, n, s)
    BY <1>1, <2>1, <2>2, FlowWritten DEF new
  <2> QED
    BY <2>3 DEF run, fed, n
<1> QED
  BY <1>0, <1>1, <1>2, <1>4, <1>5

\* Its forwarder moves an event.
LEMMA ForwardFlows ==
    ASSUME TypeOK, NEW s \in Subs, ~Outside(s), Forward(s), Flowing(s)
    PROVE  Flow(seen'[s], resp'[sub[s].client], sub'[s].q, sub'[s].fwd = "run", Fed(s)', Due(s)', s)
<1>0. PICK c \in Clients : c = sub[s].client
  BY ToldTypes
<1>1. PICK x \in Items : /\ x.kind = "event" /\ x.sub = s /\ x.n = sub[s].q[1]
                         /\ resp' = [resp EXCEPT ![c] = Append(@, x)]
  BY <1>0, ForwardedEvent
<1>2. /\ sub[s] # None /\ sub[s].fwd = "run" /\ sub[s].q # <<>> /\ writer[c] = "run"
      /\ sub' = [sub EXCEPT ![s] = [sub[s] EXCEPT !.q = Tail(sub[s].q)]]
      /\ UNCHANGED <<seen, log, todo>>
  BY <1>0, ForwardedEvent DEF clientVars, runtimeVars
<1>3. /\ sub'[s].q = Tail(sub[s].q) /\ sub'[s].fwd = "run" /\ sub'[s].actor = sub[s].actor
      /\ sub'[s].held = sub[s].held
  <2>1. sub[s] \in Subscription /\ sub[s].q \in Seq(1..(MaxEvents + 1))
    BY <1>2, OpenSub
  <2> DEFINE p == Tail(sub[s].q)
             y == [sub[s] EXCEPT !.q = p]
  <2>2. p \in Seq(1..(MaxEvents + 1))
    BY <1>2, <2>1, WithoutFirst
  <2>3. sub'[s] = y
    BY <1>2 DEF TypeOK
  <2> HIDE DEF p
  <2>4. y.q = p /\ y.fwd = sub[s].fwd /\ y.actor = sub[s].actor /\ y.held = sub[s].held
    BY <2>1, <2>2 DEF Subscription
  <2> HIDE DEF y
  <2> QED
    BY <1>2, <2>3, <2>4 DEF p
<1>4. Fed(s)' = Fed(s) /\ Due(s)' = Due(s)
  BY <1>2, <1>3 DEF Fed, Due
<1>5. resp'[c] = Append(resp[c], x)
  BY <1>1 DEF TypeOK
<1>6. Flow(seen[s], resp[c], sub[s].q, TRUE, Fed(s), Due(s), s)
  BY <1>0, <1>2 DEF Flowing
<1>7. Flow(seen[s], Append(resp[c], x), Tail(sub[s].q), TRUE, Fed(s), Due(s), s)
  <2> DEFINE fed == Fed(s)
             n == Due(s)
  <2>1. resp[c] \in Seq(Items) /\ sub[s].q \in Seq(Nat) /\ fed \in BOOLEAN
    BY <1>0, ToldTypes
  <2>2. Flow(seen[s], resp[c], sub[s].q, TRUE, fed, n, s)
    BY <1>6
  <2> HIDE DEF fed, n
  <2>3. Flow(seen[s], Append(resp[c], x), Tail(sub[s].q), TRUE, fed, n, s)
    BY <1>1, <1>2, <2>1, <2>2, FlowForward
  <2> QED
    BY <2>3 DEF fed, n
<1> QED
  BY <1>0, <1>2, <1>3, <1>4, <1>5, <1>7

\* The chain hands it an event.
LEMMA HandOutFlows ==
    ASSUME TypeOK, Logged, NEW s \in Subs, NEW a \in Actors, HandOut(a, s), Flowing(s),
           writer[sub[s].client] # "gone"
    PROVE  Flow(seen'[s], resp'[sub[s].client], sub'[s].q, sub'[s].fwd = "run", Fed(s)', Due(s)', s)
<1> USE DEF clientVars, taskVars
<1>1. /\ s \in todo[a] /\ sub[s] # None /\ sub[s].actor = a /\ Told(s) /\ todo'[a] = todo[a] \ {s}
      /\ UNCHANGED <<seen, resp, log>>
  BY DEF HandOut, Logged, TypeOK
<1>2. PICK c \in Clients : c = sub[s].client
  BY <1>1, OpenSub
<1>3. sub[s] \in Subscription /\ sub[s].q \in Seq(1..(MaxEvents + 1)) /\ a # None
  BY <1>1, OpenSub, ServerAssumption
<1>4. log[a] \in 1..(MaxEvents + 1) /\ log[a] \in Nat
  BY <1>1, ServerAssumption DEF Logged, TypeOK
<1>5. Flow(seen[s], resp[c], sub[s].q, sub[s].fwd = "run", Fed(s), Due(s), s)
  BY <1>2 DEF Flowing
<1>6. CASE sub[s].fwd = "run"
  <2>3. sub'[s].q = Append(sub[s].q, log[a]) /\ sub'[s].fwd = "run" /\ sub'[s].actor = a
    <3> DEFINE p == Append(sub[s].q, log[a])
               y == [sub[s] EXCEPT !.q = p]
    <3>1. p \in Seq(1..(MaxEvents + 1))
      BY <1>3, <1>4
    <3>2. sub'[s] = y
      BY <1>6 DEF HandOut, TypeOK
    <3> HIDE DEF p
    <3>3. y.q = p /\ y.fwd = sub[s].fwd /\ y.actor = sub[s].actor
      BY <1>3, <3>1 DEF Subscription
    <3> HIDE DEF y
    <3> QED
      BY <1>1, <1>6, <3>2, <3>3 DEF p
  <2>4. Fed(s) = TRUE /\ Due(s) = log[a] /\ Due(s)' = log[a] + 1
    BY <1>1, <1>3, <1>6, <2>3 DEF Fed, Due
  <2>5. Flow(seen[s], resp[c], sub[s].q, TRUE, TRUE, log[a], s)
    BY <1>5, <1>6, <2>4
  <2>6. Flow(seen[s], resp[c], Append(sub[s].q, log[a]), TRUE, Fed(s)', log[a] + 1, s)
    <3> DEFINE fed == Fed(s)'
    <3>1. sub[s].q \in Seq(Nat) /\ fed \in BOOLEAN
      BY <1>3, ServerAssumption DEF Fed
    <3> HIDE DEF fed
    <3>2. Flow(seen[s], resp[c], Append(sub[s].q, log[a]), TRUE, fed, log[a] + 1, s)
      BY <1>4, <2>5, <3>1, FlowHandOut
    <3> QED
      BY <3>2 DEF fed
  <2> QED
    BY <1>1, <1>2, <2>3, <2>4, <2>6
<1>7. CASE sub[s].fwd # "run"
  <2>1. sub'[s] = [sub[s] EXCEPT !.held = FALSE]
    BY <1>7 DEF HandOut, TypeOK
  <2>2. sub'[s].fwd # "run"
    BY <1>3, <1>7, <2>1, SubscriptionFields
  <2> QED
    BY <1>1, <1>2, <1>5, <2>2 DEF Flow, Fed
<1> QED
  BY <1>6, <1>7

\* Anything else happens.
LEMMA OtherwiseFlows ==
    ASSUME TypeOK, Addressed, AnswerKnown, Requested, Logged, Apart, [Next]_vars, NEW s \in Subs,
           ~Outside(s), Flowing(s), writer'[sub[s].client] # "gone",
           ~Written(sub[s].client), ~Forward(s), \A a \in Actors : ~HandOut(a, s)
    PROVE  Flow(seen'[s], resp'[sub[s].client], sub'[s].q, sub'[s].fwd = "run", Fed(s)', Due(s)', s)
<1>0. PICK c \in Clients : c = sub[s].client
  BY ToldTypes
<1> DEFINE run == sub[s].fwd = "run"
           run2 == sub'[s].fwd = "run"
           fed == Fed(s)
           fed2 == Fed(s)'
           n == Due(s)
           n2 == Due(s)'
           q2 == sub'[s].q
<1>1. /\ run \in BOOLEAN /\ run2 \in BOOLEAN /\ fed \in BOOLEAN /\ fed2 \in BOOLEAN
      /\ resp[c] \in Seq(Items) /\ sub[s] # None
  BY <1>0, ToldTypes DEF Fed
<1>2. Flow(seen[s], resp[c], sub[s].q, run, fed, n, s)
  BY <1>0, WriterStep DEF Flowing
<1>3. run2 => run /\ q2 = sub[s].q
  BY <1>1, SubsStep, QueueStep
<1>4. fed2 => run2 /\ fed /\ n2 = n
  BY FedStep DEF Fed
<1> SUFFICES Flow(seen'[s], resp'[c], q2, run2, fed2, n2, s)
  BY <1>0
<1>5. seen'[s] = seen[s] \/ seen'[s] = <<>>
  <2>1. ASSUME NEW d \in Clients, Written(d), IsEvent(resp[d], 1, s) PROVE FALSE
    <3>1. d # c /\ resp[d] # <<>> /\ resp[d] \in Seq(Items)
      BY <1>0, <2>1 DEF Written, TypeOK
    <3>2. 1 \in 1..Len(resp[d])
      BY <3>1
    <3> QED
      BY <1>0, <2>1, <3>1, <3>2 DEF Flowing, Absent
  <2> QED
    BY <2>1, SeenStep
<1>6. \/ resp'[c] = resp[c]
      \/ \E x \in Items : resp'[c] = Append(resp[c], x) /\ ~(x.kind = "event" /\ x.sub = s)
  BY <1>0, RespStep DEF Forwards
<1> HIDE DEF run, run2, fed, fed2, n, n2, q2
<1>7. Flow(seen[s], resp[c], q2, run2, fed2, n2, s)
  BY <1>1, <1>2, <1>3, <1>4, FlowKept
<1>8. Flow(seen[s], resp'[c], q2, run2, fed2, n2, s)
  BY <1>1, <1>6, <1>7, FlowSent
<1> QED
  BY <1>1, <1>5, <1>8, FlowLeft

\* UntouchedFlows, of every subscription and every state.
LEMMA AllUntouchedFlow == TypeOK => \A s \in Subs : Untouched(s) => EventsOf(s)
  BY UntouchedFlows

\* The events of every subscription stay in order on the whole way.
LEMMA EventfulStep ==
    ASSUME TypeOK, TypeOK', Addressed, AnswerKnown, Requested, Logged, Apart, Eventful, [Next]_vars
    PROVE  Eventful'
<1>0. (TypeOK => \A s \in Subs : Untouched(s) => EventsOf(s))'
  BY AllUntouchedFlow, PTL
<1> SUFFICES ASSUME NEW s \in Subs PROVE EventsOf(s)'
  BY DEF Eventful
<1>1. EventsOf(s)
  BY DEF Eventful
<1>2. CASE Outside(s)
  <2>1. Untouched(s)
    BY <1>1, <1>2 DEF EventsOf
  <2>2. \A a \in Actors : ~HandOut(a, s)
    BY <1>2, ServerAssumption DEF HandOut, Logged, Outside
  <2>3. Untouched(s)'
    BY <2>1, <2>2, UntouchedStep
  <2> QED
    BY <1>0, <2>3
<1>3. CASE ~Outside(s)
  <2>1. sub[s] # None /\ Told(s) /\ Flowing(s) /\ sub[s].actor # None
    BY <1>1, <1>3 DEF Outside, EventsOf
  <2>2. PICK c \in Clients : c = sub[s].client
    BY <1>3, ToldTypes
  <2>3. ~Outside(s)' /\ sub'[s] # None /\ sub'[s].client = c
    BY <2>1, <2>2, ToldStep, SubsStep DEF Outside
  <2>4. \A d \in Clients : d # c => Absent(d, s)'
    BY <2>1, <2>2, AbsentStep DEF Flowing
  <2>5. Gapless(seen'[s])
    <3>1. CASE Written(c)
      BY <1>1, <1>3, <2>2, <3>1, WrittenFlows
    <3>2. CASE ~Written(c)
      <4>1. ASSUME NEW d \in Clients, Written(d), IsEvent(resp[d], 1, s) PROVE FALSE
        <5>1. d # c /\ resp[d] # <<>> /\ resp[d] \in Seq(Items)
          BY <3>2, <4>1 DEF Written, TypeOK
        <5>2. 1 \in 1..Len(resp[d])
          BY <5>1
        <5> QED
          BY <2>1, <2>2, <4>1, <5>1, <5>2 DEF Flowing, Absent
      <4>2. seen'[s] = seen[s] \/ seen'[s] = <<>>
        BY <4>1, SeenStep
      <4> QED
        BY <1>1, <4>2 DEF EventsOf, Gapless
    <3> QED
      BY <3>1, <3>2
  <2>6. ASSUME writer'[c] # "gone"
        PROVE  Flow(seen'[s], resp'[c], sub'[s].q, sub'[s].fwd = "run", Fed(s)', Due(s)', s)
    <3>1. writer[c] # "gone"
      BY <2>6, WriterStep
    <3>2. CASE Written(c)
      BY <1>1, <1>3, <2>2, <3>2, WrittenFlows
    <3>3. CASE Forward(s)
      BY <1>3, <2>1, <2>2, <3>3, ForwardFlows
    <3>4. ASSUME NEW a \in Actors, HandOut(a, s)
          PROVE  Flow(seen'[s], resp'[c], sub'[s].q, sub'[s].fwd = "run", Fed(s)', Due(s)', s)
      BY <2>1, <2>2, <3>1, <3>4, HandOutFlows
    <3>5. CASE ~Written(c) /\ ~Forward(s) /\ \A a \in Actors : ~HandOut(a, s)
      BY <1>3, <2>1, <2>2, <2>6, <3>5, OtherwiseFlows
    <3> QED
      BY <3>2, <3>3, <3>4, <3>5
  <2>7. Flowing(s)'
    BY <2>3, <2>4, <2>6 DEF Flowing
  <2> QED
    BY <2>3, <2>5, <2>7 DEF EventsOf
<1> QED
  BY <1>2, <1>3

\* The order of what a client sees: inductive together with what the runtime's channel
\* and the chains hold.
THEOREM OrderInvariant == Spec => []OrderInv
<1>1. Init => OrderInv
  <2> SUFFICES ASSUME Init PROVE OrderInv
    OBVIOUS
  <2>1. Answered /\ Apart
    BY DEF Init, Answered, Apart
  <2>2. ASSUME NEW s \in Subs PROVE Untouched(s)
    BY DEF Init, Untouched, Absent
  <2>3. Gapless(<<>>)
    BY DEF Gapless
  <2>4. ASSUME NEW s \in Subs PROVE EventsOf(s)
    BY <2>2, <2>3 DEF Init, EventsOf, Untouched
  <2> QED
    BY <2>1, <2>4 DEF OrderInv, Eventful
<1>2. ServerInv /\ ServerInv' /\ OrderInv /\ [Next]_vars => OrderInv'
  <2> SUFFICES ASSUME ServerInv, ServerInv', OrderInv, [Next]_vars PROVE OrderInv'
    OBVIOUS
  <2>1. TypeOK /\ TypeOK' /\ Addressed /\ AnswerKnown /\ Requested /\ Logged
    BY DEF ServerInv
  <2>2. Answered /\ Apart /\ Eventful
    BY DEF OrderInv
  <2>3. Answered' /\ Apart' /\ Eventful'
    BY <2>1, <2>2, AnsweredStep, ApartStep, EventfulStep
  <2> QED
    BY <2>3 DEF OrderInv
<1> QED
  BY <1>1, <1>2, ServerInvariant, PTL DEF Spec

\* A client sees the responses in the order of its commands and none twice, and the
\* events of each subscription in the order of the chain without a gap.
THEOREM ClientSeesOrderHolds == Spec => []ClientSeesOrder
<1>1. ServerInv /\ OrderInv => ClientSeesOrder
  <2> SUFFICES ASSUME ServerInv, OrderInv PROVE ClientSeesOrder
    OBVIOUS
  <2>1. ASSUME NEW c \in Clients, NEW i \in DOMAIN answers[c], NEW j \in DOMAIN answers[c], i < j
        PROVE  answers[c][i] < answers[c][j]
    <3>1. answers[c] \in Seq(Nat)
      BY DEF ServerInv, TypeOK
    <3>2. DOMAIN answers[c] = 1..Len(answers[c])
      BY <3>1
    <3>3. c \in up
      <4>1. c \notin up => answers[c] = <<>>
        BY DEF OrderInv, Apart
      <4> QED
        BY <4>1
    <3>4. Numbers(answers[c], resp[c], Working(c), cmd[c].n, Top(c))
      BY <3>3 DEF OrderInv, Answered
    <3> QED
      BY <2>1, <3>2, <3>4 DEF Numbers
  <2>2. \A s \in Subs : Gapless(seen[s])
    BY DEF OrderInv, Eventful, EventsOf
  <2> QED
    BY <2>1, <2>2 DEF ClientSeesOrder, Gapless
<1> QED
  BY <1>1, ServerInvariant, OrderInvariant, PTL

=============================================================================
