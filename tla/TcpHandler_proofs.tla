-------------------------- MODULE TcpHandler_proofs --------------------------
(***************************************************************************)
(* Proofs about TcpHandler, for any actors, connections, guests and        *)
(* bounds.                                                                 *)
(***************************************************************************)
EXTENDS TcpHandler, TLAPS

\* A task that runs, runs for an actor.
Tasked ==
    \A c \in Conns :
        /\ accept[c].pc # "none" => accept[c].by \in Actors
        /\ reader[c].pc # "none" => reader[c].by \in Actors

\* A connection that is not in the table yet has no task and no history, and one
\* that has left it does not come back.
NewConns ==
    \A c \in Conns :
        /\ stream[c] = "none" =>
             entry[c] = None /\ reader[c].pc = "none" /\ closer[c].pc = "none" /\ told[c] = <<>>
        /\ accept[c].pc = "handshake" => stream[c] = "none"
        /\ closer[c].pc # "none" => entry[c] = None
        /\ \A a \in Actors : Working(a, c) \/ c \in clean[a].mine => stream[c] # "none"

\* The call at work on a stream is that of its owner, and the lock is its own.
Exclusive ==
    \A c \in Conns :
        /\ \A a, b \in Actors : Working(a, c) /\ Working(b, c) => a = b
        /\ \A a \in Actors : Working(a, c) /\ entry[c] # None =>
             entry[c].owner = a /\ entry[c].state = "Active"
        /\ lock[c] # None => Working(lock[c], c) /\ call[lock[c]].pc \in HoldsLock
        /\ \A a \in Actors : Working(a, c) /\ call[a].pc \in HoldsLock => lock[c] = a

\* A whole stream, also one that is away for a handshake, has no read loop.
Whole ==
    \A c \in Conns :
        /\ stream[c] \in Full => reader[c].pc = "none"
        /\ reader[c].pc = "passive" => reader[c].once
        /\ \A a \in Actors : Working(a, c) /\ call[a].pc = "reading" => stream[c] \in Full
        /\ \A a \in Actors : Working(a, c) /\ call[a].pc = "upgrading" =>
             stream[c] = "closed" /\ reader[c].pc = "none"

\* What has been read of a stream: chunks, and its end after the last of them.
WasRead(c, i) == i <= taken[c] \/ (i = End /\ reader[c].pc \in {"last", "remove", "done"})

\* An operation of a read loop in a's channel: what it brings was read, and comes after
\* what guests have been given.
Posted(a, o) ==
    o.by = "reader" =>
        /\ reader[o.conn].pc # "none" /\ reader[o.conn].by = a
        /\ WasRead(o.conn, o.item)
        /\ \A i \in 1..Len(told[o.conn]) : told[o.conn][i] < o.item

\* Two operations of one read loop are in the order of what they bring.
Precedes(o, p) == o.by = "reader" /\ p.by = "reader" /\ o.conn = p.conn => o.item < p.item

\* Guests are given what was read, and channels keep the order in which it was.
Ordered ==
    /\ \A c \in Conns : \A i \in 1..Len(told[c]) : WasRead(c, told[c][i])
    /\ \A a \in Actors : \A k \in 1..Len(queue[a]) : Posted(a, queue[a][k])
    /\ \A a \in Actors : \A k, l \in 1..Len(queue[a]) :
         k < l => Precedes(queue[a][k], queue[a][l])

\* A clean-up has removed what is no longer on its list.
CleanupInv ==
    \A a \in Actors : clean[a].pc \in {"next", "done"} =>
        /\ \A c \in clean[a].mine \ clean[a].todo : entry[c] = None
        /\ clean[a].pc = "done" => clean[a].todo = {}

TcpInv ==
    /\ TypeOK /\ Tasked /\ NewConns /\ Exclusive /\ Whole /\ StreamMatchesMode
    /\ Ordered /\ DeliveredInOrder /\ CleanupInv

-----------------------------------------------------------------------------
(* Types.                                                                  *)

\* An operation has what its kind says.
LEMMA OperationTypes ==
    /\ [by |-> "client"] \in Operations /\ [by |-> "client"].by = "client"
    /\ \A c \in Conns : /\ [by |-> "accept", conn |-> c] \in Operations
                        /\ [by |-> "accept", conn |-> c].by = "accept"
    /\ \A c \in Conns, i \in Items :
         /\ [by |-> "reader", conn |-> c, item |-> i] \in Operations
         /\ [by |-> "reader", conn |-> c, item |-> i].by = "reader"
         /\ [by |-> "reader", conn |-> c, item |-> i].conn = c
         /\ [by |-> "reader", conn |-> c, item |-> i].item = i
    /\ \A n \in Transfers : [by |-> "xfer", n |-> n] \in Operations /\ [by |-> "xfer", n |-> n].by = "xfer"
    /\ \A o \in Operations : o.by = "reader" => o.conn \in Conns /\ o.item \in Items
  BY DEF Operations

\* The numbers of the chunks are items, and the end is another.
LEMMA ItemTypes ==
    /\ \A k \in 0..MaxChunks : k < MaxChunks => k + 1 \in Items /\ k + 1 \in 0..MaxChunks
    /\ End \in Items /\ \A k \in 0..MaxChunks : k < End
  BY ConstantsAssumption DEF Items, End

\* What WaitAt does to the calls.
LEMMA WaitAtCall ==
    ASSUME TypeOK, NEW a \in Actors, call[a] # None, NEW p \in Suspended, NEW c \in Conns,
           WaitAt(a, p, c)
    PROVE  /\ call' \in [Actors -> {None} \cup CallStates]
           /\ call'[a] # None /\ call'[a].pc = p /\ call'[a].conn = c /\ call'[a].op = call[a].op
           /\ \A b \in Actors : b # a => call'[b] = call[b]
<1>1. call[a] \in CallStates /\ call \in [Actors -> {None} \cup CallStates]
  BY DEF TypeOK
<1>2. call' = [call EXCEPT ![a] = [call[a] EXCEPT !.pc = p, !.conn = c]]
  BY <1>1 DEF WaitAt
<1>3. [call[a] EXCEPT !.pc = p, !.conn = c] \in CallStates
  BY <1>1 DEF CallStates
<1>4. call'[a] = [call[a] EXCEPT !.pc = p, !.conn = c]
  BY <1>1, <1>2
<1> QED
  BY <1>1, <1>2, <1>3, <1>4, NoneAssumption DEF CallStates

\* What ToGuest does to the calls.
LEMMA ToGuestCall ==
    ASSUME TypeOK, NEW a \in Actors, call[a] # None, ToGuest(a)
    PROVE  /\ call' \in [Actors -> {None} \cup CallStates]
           /\ call'[a] # None /\ call'[a].pc = "guest" /\ call'[a].conn = None
           /\ \A b \in Actors : b # a => call'[b] = call[b]
<1>1. call[a] \in CallStates /\ call \in [Actors -> {None} \cup CallStates]
  BY DEF TypeOK
<1>2. call' = [call EXCEPT ![a] = [call[a] EXCEPT !.pc = "guest", !.conn = None, !.n = 0]]
  BY <1>1 DEF ToGuest
<1>3. [call[a] EXCEPT !.pc = "guest", !.conn = None, !.n = 0] \in CallStates
  BY <1>1 DEF CallStates
<1>4. call'[a] = [call[a] EXCEPT !.pc = "guest", !.conn = None, !.n = 0]
  BY <1>1, <1>2
<1> QED
  BY <1>1, <1>2, <1>3, <1>4, NoneAssumption DEF CallStates

\* What the answer to an operation does to the tasks that wait for it.
LEMMA AnsweredTasks ==
    ASSUME TypeOK, NEW ops, NEW ok \in BOOLEAN, Answered(ops, ok)
    PROVE  /\ accept' \in [Conns -> AcceptStates]
           /\ reader' \in [Conns -> ReaderStates]
           /\ xfer' \in [Transfers -> {None} \cup HandoffStates]
           /\ \A c \in Conns :
                \/ accept'[c] = accept[c]
                \/ /\ accept[c].pc = "wait" /\ accept'[c].pc \in {"done", "drop"}
                   /\ accept'[c].by = accept[c].by
           /\ \A c \in Conns :
                /\ reader'[c].by = reader[c].by /\ reader'[c].once = reader[c].once
                /\ \/ reader'[c] = reader[c]
                   \/ reader[c].pc = "wait" /\ reader'[c].pc = IF reader[c].once THEN "passive" ELSE "read"
                   \/ reader[c].pc = "last" /\ reader'[c].pc = "remove"
<1>1. ASSUME NEW c \in Conns
      PROVE  /\ accept'[c] \in AcceptStates
             /\ \/ accept'[c] = accept[c]
                \/ /\ accept[c].pc = "wait" /\ accept'[c].pc \in {"done", "drop"}
                   /\ accept'[c].by = accept[c].by
  <2>1. accept[c] \in AcceptStates
    BY DEF TypeOK
  <2>2. accept'[c] \in {accept[c], [accept[c] EXCEPT !.pc = "done"], [accept[c] EXCEPT !.pc = "drop"]}
        /\ (accept[c].pc # "wait" => accept'[c] = accept[c])
    BY DEF Answered
  <2> QED
    BY <2>1, <2>2 DEF AcceptStates
<1>2. ASSUME NEW c \in Conns
      PROVE  /\ reader'[c] \in ReaderStates
             /\ reader'[c].by = reader[c].by /\ reader'[c].once = reader[c].once
             /\ \/ reader'[c] = reader[c]
                \/ reader[c].pc = "wait" /\ reader'[c].pc = IF reader[c].once THEN "passive" ELSE "read"
                \/ reader[c].pc = "last" /\ reader'[c].pc = "remove"
  <2>1. reader[c] \in ReaderStates
    BY DEF TypeOK
  <2>2. \/ reader'[c] = reader[c]
        \/ reader[c].pc = "wait" /\ reader'[c] = DataDone(reader[c])
        \/ reader[c].pc = "last" /\ reader'[c] = [reader[c] EXCEPT !.pc = "remove"]
    BY DEF Answered
  <2> QED
    BY <2>1, <2>2 DEF ReaderStates, DataDone
<1>3. ASSUME NEW n \in Transfers PROVE xfer'[n] \in {None} \cup HandoffStates
  <2>1. xfer[n] \in {None} \cup HandoffStates
    BY DEF TypeOK
  <2>2. xfer'[n] = xfer[n] \/ (xfer[n] # None /\ xfer'[n] = HandoffDone(xfer[n], ok))
    BY DEF Answered
  <2> QED
    BY <2>1, <2>2 DEF HandoffStates, HandoffDone
<1>4. /\ accept' = [c \in Conns |-> accept'[c]] /\ reader' = [c \in Conns |-> reader'[c]]
      /\ xfer' = [n \in Transfers |-> xfer'[n]]
  BY DEF Answered
<1> QED
  BY <1>1, <1>2, <1>3, <1>4

\* What is put in an actor's channel.
LEMMA PostQueue ==
    ASSUME TypeOK, NEW a \in Actors, NEW o \in Operations, Post(a, o)
    PROVE  queue' \in [Actors -> Seq(Operations)]
  BY DEF TypeOK, Post

\* The entry is gone, and somebody has the stream to shut down.
LEMMA RemoveTypes ==
    ASSUME TypeOK, NEW c \in Conns, NEW w \in Closers, RemoveEntry(c, w)
    PROVE  /\ entry' \in [Conns -> {None} \cup Entries] /\ closer' \in [Conns -> CloserStates]
           /\ entry'[c] = None /\ \A d \in Conns : d # c => entry'[d] = entry[d]
           /\ closer'[c].pc = IF entry[c] = None THEN closer[c].pc ELSE "lock"
           /\ \A d \in Conns : d # c => closer'[d] = closer[d]
  BY DEF TypeOK, RemoveEntry, CloserStates

\* A read loop goes on to its next step.
LEMMA ReaderMoves ==
    ASSUME TypeOK, NEW c \in Conns, NEW p \in {"read", "wait", "passive", "last", "remove", "done"},
           reader' = [reader EXCEPT ![c].pc = p]
    PROVE  /\ reader' \in [Conns -> ReaderStates]
           /\ reader'[c].pc = p /\ reader'[c].by = reader[c].by /\ reader'[c].once = reader[c].once
           /\ \A d \in Conns : d # c => reader'[d] = reader[d]
  BY DEF TypeOK, ReaderStates

\* The task of an accepted connection goes on to its next step.
LEMMA AcceptMoves ==
    ASSUME TypeOK, NEW c \in Conns, NEW p \in {"handshake", "wait", "drop", "done"},
           accept' = [accept EXCEPT ![c].pc = p]
    PROVE  /\ accept' \in [Conns -> AcceptStates]
           /\ accept'[c].pc = p /\ accept'[c].by = accept[c].by
           /\ \A d \in Conns : d # c => accept'[d] = accept[d]
  BY DEF TypeOK, AcceptStates

\* The one that shuts a stream down goes on.
LEMMA CloserMoves ==
    ASSUME TypeOK, NEW c \in Conns, NEW p \in {"none", "lock", "shut", "done", "dropped"},
           closer' = [closer EXCEPT ![c].pc = p]
    PROVE  /\ closer' \in [Conns -> CloserStates]
           /\ closer'[c].pc = p
           /\ \A d \in Conns : d # c => closer'[d] = closer[d]
  BY DEF TypeOK, CloserStates

\* A clean-up goes on to its next step.
LEMMA CleanMoves ==
    ASSUME TypeOK, NEW a \in Actors, NEW p \in {"wait", "collect", "next", "done", "cut"},
           clean' = [clean EXCEPT ![a].pc = p]
    PROVE  /\ clean' \in [Actors -> CleanStates]
           /\ clean'[a].pc = p /\ clean'[a].todo = clean[a].todo /\ clean'[a].mine = clean[a].mine
           /\ \A d \in Actors : d # a => clean'[d] = clean[d]
  BY DEF TypeOK, CleanStates

\* A detached hand-off goes on to its next step.
LEMMA HandoffMoves ==
    ASSUME TypeOK, NEW n \in Transfers, NEW p \in {"wait", "remove", "ok", "done"},
           xfer[n] # None, xfer' = [xfer EXCEPT ![n].pc = p]
    PROVE  xfer' \in [Transfers -> {None} \cup HandoffStates]
<1>1. xfer[n] \in HandoffStates
  BY DEF TypeOK
<1>2. [xfer[n] EXCEPT !.pc = p] \in HandoffStates
  BY <1>1 DEF HandoffStates
<1> QED
  BY <1>1, <1>2 DEF TypeOK

\* A connection is put into the table.
LEMMA NewEntry ==
    ASSUME TypeOK, NEW c \in Conns, NEW a \in Actors, NEW s \in {"Pending", "Active"},
           entry' = [entry EXCEPT ![c] = [owner |-> a, state |-> s, mode |-> "Passive"]]
    PROVE  /\ entry' \in [Conns -> {None} \cup Entries]
           /\ entry'[c] # None /\ entry'[c].state = s /\ entry'[c].owner = a
           /\ entry'[c].mode = "Passive"
           /\ \A d \in Conns : d # c => entry'[d] = entry[d]
<1>1. [owner |-> a, state |-> s, mode |-> "Passive"] \in Entries
  BY DEF Entries
<1> QED
  BY <1>1, NoneAssumption DEF TypeOK

\* An entry changes its mode ...
LEMMA EntryMode ==
    ASSUME TypeOK, NEW c \in Conns, entry[c] # None, NEW m \in {"Passive", "Active", "Once"},
           entry' = [entry EXCEPT ![c].mode = m]
    PROVE  /\ entry' \in [Conns -> {None} \cup Entries]
           /\ entry'[c] # None /\ entry'[c].mode = m
           /\ entry'[c].owner = entry[c].owner /\ entry'[c].state = entry[c].state
           /\ \A d \in Conns : d # c => entry'[d] = entry[d]
<1>1. entry[c] \in Entries
  BY DEF TypeOK
<1>2. [entry[c] EXCEPT !.mode = m] \in Entries
  BY <1>1 DEF Entries
<1> QED
  BY <1>1, <1>2, NoneAssumption DEF TypeOK, Entries

\* ... its state ...
LEMMA EntryState ==
    ASSUME TypeOK, NEW c \in Conns, entry[c] # None,
           entry' = [entry EXCEPT ![c].state = "Active"]
    PROVE  /\ entry' \in [Conns -> {None} \cup Entries]
           /\ entry'[c] # None /\ entry'[c].state = "Active"
           /\ entry'[c].owner = entry[c].owner /\ entry'[c].mode = entry[c].mode
           /\ \A d \in Conns : d # c => entry'[d] = entry[d]
<1>1. entry[c] \in Entries
  BY DEF TypeOK
<1>2. [entry[c] EXCEPT !.state = "Active"] \in Entries
  BY <1>1 DEF Entries
<1> QED
  BY <1>1, <1>2, NoneAssumption DEF TypeOK, Entries

\* ... or its owner.
LEMMA EntryOwner ==
    ASSUME TypeOK, NEW c \in Conns, entry[c] # None, NEW b \in Actors,
           entry' = [entry EXCEPT ![c].owner = b, ![c].state = "Active"]
    PROVE  /\ entry' \in [Conns -> {None} \cup Entries]
           /\ entry'[c] # None /\ entry'[c].state = "Active"
           /\ entry'[c].owner = b /\ entry'[c].mode = entry[c].mode
           /\ \A d \in Conns : d # c => entry'[d] = entry[d]
<1>1. entry[c] \in Entries
  BY DEF TypeOK
<1>2. [entry[c] EXCEPT !.owner = b, !.state = "Active"] \in Entries
  BY <1>1 DEF Entries
<1>3. entry' = [entry EXCEPT ![c] = [entry[c] EXCEPT !.owner = b, !.state = "Active"]]
  BY DEF TypeOK
<1>4. entry'[c] = [entry[c] EXCEPT !.owner = b, !.state = "Active"]
  BY <1>3 DEF TypeOK
<1>5. /\ entry'[c].state = "Active" /\ entry'[c].owner = b /\ entry'[c].mode = entry[c].mode
      /\ entry'[c] # None
  BY <1>1, <1>2, <1>4, NoneAssumption DEF Entries
<1> QED
  BY <1>2, <1>3, <1>5 DEF TypeOK

\* The change of owner, the operation and the hand-off that follow it.
LEMMA HandOverTypes ==
    ASSUME TypeOK, NEW c \in Conns, entry[c] # None, NEW b \in Actors, NEW n \in Transfers,
           NEW async \in BOOLEAN, HandOver(c, b, async, n)
    PROVE  /\ entry' = [entry EXCEPT ![c].owner = b, ![c].state = "Active"]
           /\ entry' \in [Conns -> {None} \cup Entries]
           /\ Post(b, [by |-> "xfer", n |-> n]) /\ queue' \in [Actors -> Seq(Operations)]
           /\ xfer' \in [Transfers -> {None} \cup HandoffStates]
<1>1. entry' \in [Conns -> {None} \cup Entries]
  BY EntryOwner DEF HandOver
<1>2. queue' \in [Actors -> Seq(Operations)]
  BY PostQueue, OperationTypes DEF HandOver
<1>3. \E x \in HandoffStates : xfer' = [xfer EXCEPT ![n] = x]
  <2> DEFINE x == [conn |-> c, to |-> b, async |-> async, pc |-> "wait"]
  <2>1. x \in HandoffStates /\ HandoffDone(x, FALSE) \in HandoffStates
    BY DEF HandoffStates, HandoffDone
  <2>2. xfer' = [xfer EXCEPT ![n] = IF TakesOps(b) THEN x ELSE HandoffDone(x, FALSE)]
    BY DEF HandOver
  <2> HIDE DEF x
  <2> QED
    BY <2>1, <2>2
<1> QED
  BY <1>1, <1>2, <1>3 DEF HandOver, TypeOK

\* Every step keeps the types.
LEMMA TypeStep ==
    ASSUME TypeOK, Tasked, [Next]_vars
    PROVE  TypeOK'
<1> USE ConstantsAssumption DEF TypeOK, actorVars, tableVars, taskVars, peerVars
<1>1. ASSUME NEW a \in Actors, BeginCall(a)
      PROVE  TypeOK'
  <2>1. queue' \in [Actors -> Seq(Operations)]
    BY <1>1 DEF BeginCall
  <2>2. call' \in [Actors -> {None} \cup CallStates]
    BY <1>1, OperationTypes DEF BeginCall, CallStates
  <2>3. told' \in [Conns -> Seq(Items)]
    BY <1>1, OperationTypes DEF BeginCall
  <2> QED
    BY <1>1, <2>1, <2>2, <2>3 DEF BeginCall
<1>2. ASSUME NEW a \in Actors, ClientCall(a)
      PROVE  TypeOK'
  <2>1. call' \in [Actors -> {None} \cup CallStates]
    BY <1>2, OperationTypes DEF ClientCall, CallStates
  <2> QED
    BY <1>2, <2>1 DEF ClientCall
<1>3. ASSUME NEW a \in Actors, GuestReturns(a)
      PROVE  TypeOK'
  <2>1. /\ accept' \in [Conns -> AcceptStates]
        /\ reader' \in [Conns -> ReaderStates]
        /\ xfer' \in [Transfers -> {None} \cup HandoffStates]
    BY <1>3, AnsweredTasks DEF GuestReturns
  <2> QED
    BY <1>3, <2>1 DEF GuestReturns
<1>4. ASSUME NEW a \in Actors, GuestFails(a)
      PROVE  TypeOK'
  <2>1. /\ accept' \in [Conns -> AcceptStates]
        /\ reader' \in [Conns -> ReaderStates]
        /\ xfer' \in [Transfers -> {None} \cup HandoffStates]
    BY <1>4, AnsweredTasks DEF GuestFails
  <2> QED
    BY <1>4, <2>1 DEF GuestFails
<1>5. ASSUME NEW a \in Actors, HandlerStarts(a) \/ Stop(a)
      PROVE  TypeOK'
  <2>1. clean' \in [Actors -> CleanStates]
    BY <1>5, CleanMoves DEF HandlerStarts, Stop
  <2> QED
    BY <1>5, <2>1 DEF HandlerStarts, Stop
<1>6. ASSUME NEW a \in Actors, OpLoopEnds(a)
      PROVE  TypeOK'
  <2>1. /\ accept' \in [Conns -> AcceptStates]
        /\ reader' \in [Conns -> ReaderStates]
        /\ xfer' \in [Transfers -> {None} \cup HandoffStates]
    BY <1>6, AnsweredTasks DEF OpLoopEnds
  <2> QED
    BY <1>6, <2>1 DEF OpLoopEnds
<1>7. ASSUME NEW a \in Actors, Abort(a)
      PROVE  TypeOK'
  <2>1. /\ accept' \in [Conns -> AcceptStates]
        /\ reader' \in [Conns -> ReaderStates]
        /\ xfer' \in [Transfers -> {None} \cup HandoffStates]
    BY <1>7, AnsweredTasks DEF Abort
  <2>2. closer' \in [Conns -> CloserStates]
    BY <1>7 DEF Abort, CloserStates
  <2> QED
    BY <1>7, <2>1, <2>2 DEF Abort
<1>8. ASSUME NEW a \in Actors, Gone(a)
      PROVE  TypeOK'
  <2>1. clean' \in [Actors -> CleanStates]
    <3> PICK p \in {"collect", "next", "done", "cut"} : clean' = [clean EXCEPT ![a].pc = p]
      BY <1>8 DEF Gone, CleanStates
    <3> HIDE DEF TypeOK
    <3> QED
      BY CleanMoves
  <2>2. closer' \in [Conns -> CloserStates]
    BY <1>8 DEF Gone, CloserStates
  <2> QED
    BY <1>8, <2>1, <2>2 DEF Gone
<1>9. ASSUME NEW a \in Actors, AcceptLoopEnds(a)
      PROVE  TypeOK'
  BY <1>9 DEF AcceptLoopEnds
<1>10. ASSUME NEW a \in Actors, CleanCollects(a)
      PROVE  TypeOK'
  <2>1. clean' \in [Actors -> CleanStates]
    BY <1>10 DEF CleanCollects, CleanStates
  <2> QED
    BY <1>10, <2>1 DEF CleanCollects
<1>11. ASSUME NEW a \in Actors, CleanEnds(a)
      PROVE  TypeOK'
  <2>1. clean' \in [Actors -> CleanStates]
    BY <1>11, CleanMoves DEF CleanEnds
  <2> QED
    BY <1>11, <2>1 DEF CleanEnds
<1>12. ASSUME NEW a \in Actors, Connect(a)
      PROVE  TypeOK'
  <2>1. entry' \in [Conns -> {None} \cup Entries]
    <3> HIDE DEF TypeOK
    <3> QED
      BY <1>12, NewEntry DEF Connect
  <2>2. calls' \in [Actors -> 0..MaxCalls]
    BY <1>12 DEF Connect, HostFn, InGuest
  <2>3. stream' \in [Conns -> {"none", "write", "closed"} \cup Full]
    BY <1>12 DEF Connect, Full
  <2> QED
    BY <1>12, <2>1, <2>2, <2>3 DEF Connect
<1>13. ASSUME NEW a \in Actors, Listen(a)
      PROVE  TypeOK'
  BY <1>13 DEF Listen, HostFn, InGuest
<1>14. ASSUME NEW a \in Actors, TransferReturns(a)
      PROVE  TypeOK'
  <2>1. call' \in [Actors -> {None} \cup CallStates]
    BY <1>14, ToGuestCall DEF TransferReturns
  <2> QED
    BY <1>14, <2>1 DEF TransferReturns
<1>15. ASSUME NEW a \in Actors, NEW c \in Conns, Activate(a, c)
      PROVE  TypeOK'
  <2>1. entry' \in [Conns -> {None} \cup Entries]
    BY <1>15, EntryState DEF Activate, Owned
  <2>2. calls' \in [Actors -> 0..MaxCalls]
    BY <1>15 DEF Activate, HostFn, InGuest
  <2> QED
    BY <1>15, <2>1, <2>2 DEF Activate
<1>16. ASSUME NEW a \in Actors, NEW c \in Conns, Send(a, c)
      PROVE  TypeOK'
  <2>1. call' \in [Actors -> {None} \cup CallStates]
    BY <1>16, WaitAtCall DEF Send, HostFn, InGuest, Suspended, AtStream
  <2>2. calls' \in [Actors -> 0..MaxCalls]
    BY <1>16 DEF Send, HostFn, InGuest
  <2> QED
    BY <1>16, <2>1, <2>2 DEF Send
<1>17. ASSUME NEW a \in Actors, NEW c \in Conns, Receive(a, c)
      PROVE  TypeOK'
  <2>1. call' \in [Actors -> {None} \cup CallStates]
    BY <1>17, WaitAtCall DEF Receive, HostFn, InGuest, Suspended, AtStream
  <2>2. calls' \in [Actors -> 0..MaxCalls]
    BY <1>17 DEF Receive, HostFn, InGuest
  <2> QED
    BY <1>17, <2>1, <2>2 DEF Receive
<1>18. ASSUME NEW a \in Actors, NEW c \in Conns, Upgrade(a, c)
      PROVE  TypeOK'
  <2>1. call' \in [Actors -> {None} \cup CallStates]
    BY <1>18, WaitAtCall DEF Upgrade, HostFn, InGuest, Suspended, AtStream
  <2>2. calls' \in [Actors -> 0..MaxCalls]
    BY <1>18 DEF Upgrade, HostFn, InGuest
  <2> QED
    BY <1>18, <2>1, <2>2 DEF Upgrade
<1>19. ASSUME NEW a \in Actors, NEW c \in Conns, CloseConn(a, c)
      PROVE  TypeOK'
  <2>1. call' \in [Actors -> {None} \cup CallStates]
    BY <1>19, WaitAtCall DEF CloseConn, HostFn, InGuest, Suspended
  <2>2. calls' \in [Actors -> 0..MaxCalls]
    BY <1>19 DEF CloseConn, HostFn, InGuest
  <2>3. entry' \in [Conns -> {None} \cup Entries] /\ closer' \in [Conns -> CloserStates]
    BY <1>19, RemoveTypes DEF CloseConn, Closers
  <2> QED
    BY <1>19, <2>1, <2>2, <2>3 DEF CloseConn
<1>20. ASSUME NEW a \in Actors, NEW c \in Conns, CloseReturns(a, c)
      PROVE  TypeOK'
  <2>1. call' \in [Actors -> {None} \cup CallStates]
    BY <1>20, ToGuestCall DEF CloseReturns, At
  <2> QED
    BY <1>20, <2>1 DEF CloseReturns
<1>21. ASSUME NEW a \in Actors, NEW c \in Conns, NEW f \in {"active", "once"}, SetActive(a, c, f)
      PROVE  TypeOK'
  <2>1. entry' \in [Conns -> {None} \cup Entries]
    BY <1>21, EntryMode DEF SetActive, Usable, Owned
  <2>2. calls' \in [Actors -> 0..MaxCalls]
    BY <1>21 DEF SetActive, HostFn, InGuest
  <2>3. reader' \in [Conns -> ReaderStates]
    BY <1>21 DEF SetActive, ReaderStates
  <2> QED
    BY <1>21, <2>1, <2>2, <2>3 DEF SetActive
<1>22. ASSUME NEW a \in Actors, NEW c \in Conns, NEW b \in Actors, Transfer(a, c, b)
      PROVE  TypeOK'
  <2>1. calls' \in [Actors -> 0..MaxCalls]
    BY <1>22 DEF Transfer, HostFn, InGuest
  <2>2. /\ entry' \in [Conns -> {None} \cup Entries]
        /\ queue' \in [Actors -> Seq(Operations)]
        /\ xfer' \in [Transfers -> {None} \cup HandoffStates]
    BY <1>22, HandOverTypes DEF Transfer, Owned
  <2>3. call' \in [Actors -> {None} \cup CallStates]
    <3>1. call[a] \in CallStates
      BY <1>22 DEF Transfer, HostFn, InGuest
    <3> PICK m \in Transfers :
           call' = [call EXCEPT ![a].pc = "transfer", ![a].conn = c, ![a].n = m]
      BY <1>22 DEF Transfer
    <3>2. [call[a] EXCEPT !.pc = "transfer", !.conn = c, !.n = m] \in CallStates
      BY <3>1 DEF CallStates, Suspended
    <3>3. call' = [call EXCEPT ![a] = [call[a] EXCEPT !.pc = "transfer", !.conn = c, !.n = m]]
      BY <3>1
    <3> QED
      BY <3>2, <3>3
  <2> QED
    BY <1>22, <2>1, <2>2, <2>3 DEF Transfer
<1>23. ASSUME NEW a \in Actors, NEW c \in Conns, NEW b \in Actors, TransferAsync(a, c, b)
      PROVE  TypeOK'
  <2>1. calls' \in [Actors -> 0..MaxCalls]
    BY <1>23 DEF TransferAsync, HostFn, InGuest
  <2>2. /\ entry' \in [Conns -> {None} \cup Entries]
        /\ queue' \in [Actors -> Seq(Operations)]
        /\ xfer' \in [Transfers -> {None} \cup HandoffStates]
    BY <1>23, HandOverTypes DEF TransferAsync, Owned
  <2> QED
    BY <1>23, <2>1, <2>2 DEF TransferAsync
<1>24. ASSUME NEW a \in Actors, NEW c \in Conns, SendLocks(a, c)
      PROVE  TypeOK'
  <2>1. call' \in [Actors -> {None} \cup CallStates]
    BY <1>24, WaitAtCall, ToGuestCall DEF SendLocks, TakeLock, At, Suspended, AtStream
  <2>2. lock' \in [Conns -> {None} \cup Actors]
    BY <1>24 DEF SendLocks, TakeLock
  <2> QED
    BY <1>24, <2>1, <2>2 DEF SendLocks, TakeLock
<1>25. ASSUME NEW a \in Actors, NEW c \in Conns, SendReturns(a, c)
      PROVE  TypeOK'
  <2>1. call' \in [Actors -> {None} \cup CallStates]
    BY <1>25, ToGuestCall DEF SendReturns, Unlock, At
  <2>2. lock' \in [Conns -> {None} \cup Actors]
    BY <1>25 DEF SendReturns, Unlock
  <2> QED
    BY <1>25, <2>1, <2>2 DEF SendReturns
<1>26. ASSUME NEW a \in Actors, NEW c \in Conns, ReceiveLocks(a, c)
      PROVE  TypeOK'
  <2>1. call' \in [Actors -> {None} \cup CallStates]
    BY <1>26, WaitAtCall, ToGuestCall DEF ReceiveLocks, TakeLock, At, Suspended, AtStream
  <2>2. lock' \in [Conns -> {None} \cup Actors]
    BY <1>26, ZenonT(30) DEF ReceiveLocks, TakeLock
  <2> QED
    BY <1>26, <2>1, <2>2 DEF ReceiveLocks, TakeLock
<1>27. ASSUME NEW a \in Actors, NEW c \in Conns, ReceiveChunk(a, c)
      PROVE  TypeOK'
  <2>1. call' \in [Actors -> {None} \cup CallStates]
    BY <1>27, ToGuestCall DEF ReceiveChunk, Unlock, At
  <2>2. lock' \in [Conns -> {None} \cup Actors]
    BY <1>27 DEF ReceiveChunk, Unlock
  <2>3. taken' \in [Conns -> 0..MaxChunks]
    BY <1>27, ItemTypes DEF ReceiveChunk
  <2>4. told' \in [Conns -> Seq(Items)]
    BY <1>27, ItemTypes DEF ReceiveChunk
  <2> QED
    BY <1>27, <2>1, <2>2, <2>3, <2>4 DEF ReceiveChunk
<1>28. ASSUME NEW a \in Actors, NEW c \in Conns, ReceiveEnd(a, c)
      PROVE  TypeOK'
  <2>1. call' \in [Actors -> {None} \cup CallStates]
    BY <1>28, ToGuestCall DEF ReceiveEnd, Unlock, At
  <2>2. lock' \in [Conns -> {None} \cup Actors]
    BY <1>28 DEF ReceiveEnd, Unlock
  <2> QED
    BY <1>28, <2>1, <2>2 DEF ReceiveEnd
<1>29. ASSUME NEW a \in Actors, NEW c \in Conns, UpgradeLocks(a, c)
      PROVE  TypeOK'
  <2>1. call' \in [Actors -> {None} \cup CallStates]
    BY <1>29, WaitAtCall, ToGuestCall DEF UpgradeLocks, TakeLock, At, Suspended, AtStream
  <2>2. lock' \in [Conns -> {None} \cup Actors]
    BY <1>29 DEF UpgradeLocks, TakeLock
  <2> QED
    BY <1>29, <2>1, <2>2 DEF UpgradeLocks, TakeLock
<1>30. ASSUME NEW a \in Actors, NEW c \in Conns, NEW ok \in BOOLEAN, UpgradeReturns(a, c, ok)
      PROVE  TypeOK'
  <2>1. call' \in [Actors -> {None} \cup CallStates]
    BY <1>30, ToGuestCall DEF UpgradeReturns, Unlock, At
  <2>2. lock' \in [Conns -> {None} \cup Actors]
    BY <1>30 DEF UpgradeReturns, Unlock
  <2>3. stream' \in [Conns -> {"none", "write", "closed"} \cup Full]
    BY <1>30 DEF UpgradeReturns, Full
  <2> QED
    BY <1>30, <2>1, <2>2, <2>3 DEF UpgradeReturns
<1>31. ASSUME NEW a \in Actors, NEW c \in Conns, AcceptLoop(a, c)
      PROVE  TypeOK'
  <2>1. accept' \in [Conns -> AcceptStates]
    BY <1>31 DEF AcceptLoop, AcceptStates
  <2> QED
    BY <1>31, <2>1 DEF AcceptLoop
<1>32. ASSUME NEW a \in Actors, NEW c \in Conns, CleanRemoves(a, c)
      PROVE  TypeOK'
  <2>1. entry' \in [Conns -> {None} \cup Entries] /\ closer' \in [Conns -> CloserStates]
    BY <1>32, RemoveTypes DEF CleanRemoves, Closers
  <2>2. clean' \in [Actors -> CleanStates]
    <3>1. clean[a].todo \ {c} \in SUBSET Conns /\ clean[a] \in CleanStates
      BY DEF CleanStates
    <3>2. [clean[a] EXCEPT !.todo = @ \ {c}] \in CleanStates
      BY <3>1 DEF CleanStates
    <3> QED
      BY <1>32, <3>2 DEF CleanRemoves
  <2> QED
    BY <1>32, <2>1, <2>2 DEF CleanRemoves
<1>33. ASSUME NEW c \in Conns, CloserTakes(c)
      PROVE  TypeOK'
  <2>1. closer' \in [Conns -> CloserStates]
    <3> PICK p \in {"none", "lock", "shut", "done", "dropped"} : closer' = [closer EXCEPT ![c].pc = p]
      BY <1>33 DEF CloserTakes
    <3> HIDE DEF TypeOK
    <3> QED
      BY CloserMoves
  <2> QED
    BY <1>33, <2>1 DEF CloserTakes
<1>34. ASSUME NEW c \in Conns, CloserShuts(c)
      PROVE  TypeOK'
  <2>1. closer' \in [Conns -> CloserStates]
    BY <1>34, CloserMoves DEF CloserShuts
  <2> QED
    BY <1>34, <2>1 DEF CloserShuts
<1>35. ASSUME NEW c \in Conns, AcceptInserts(c)
      PROVE  TypeOK'
  <2>1. accept[c].by \in Actors
    BY <1>35 DEF AcceptInserts, Tasked
  <2>2. accept' \in [Conns -> AcceptStates]
    <3> PICK p \in {"handshake", "wait", "drop", "done"} : accept' = [accept EXCEPT ![c].pc = p]
      BY <1>35 DEF AcceptInserts
    <3> HIDE DEF TypeOK
    <3> QED
      BY AcceptMoves
  <2>3. entry' \in [Conns -> {None} \cup Entries]
    BY <1>35, <2>1, NewEntry DEF AcceptInserts
  <2>4. stream' \in [Conns -> {"none", "write", "closed"} \cup Full]
    BY <1>35 DEF AcceptInserts, Full
  <2>5. queue' \in [Actors -> Seq(Operations)]
    BY <1>35, <2>1, PostQueue, OperationTypes DEF AcceptInserts
  <2> QED
    BY <1>35, <2>1, <2>2, <2>3, <2>4, <2>5 DEF AcceptInserts
<1>36. ASSUME NEW c \in Conns, HandshakeFails(c)
      PROVE  TypeOK'
  <2>1. accept' \in [Conns -> AcceptStates]
    BY <1>36, AcceptMoves DEF HandshakeFails
  <2> QED
    BY <1>36, <2>1 DEF HandshakeFails
<1>37. ASSUME NEW c \in Conns, AcceptDrops(c)
      PROVE  TypeOK'
  <2>1. accept' \in [Conns -> AcceptStates]
    BY <1>37, AcceptMoves DEF AcceptDrops
  <2>2. closer' \in [Conns -> CloserStates]
    <3> PICK p \in {"none", "lock", "shut", "done", "dropped"} : closer' = [closer EXCEPT ![c].pc = p]
      BY <1>37 DEF AcceptDrops, CloserStates
    <3> HIDE DEF TypeOK
    <3> QED
      BY CloserMoves
  <2> QED
    BY <1>37, <2>1, <2>2 DEF AcceptDrops
<1>38. ASSUME NEW c \in Conns, ReaderChunk(c)
      PROVE  TypeOK'
  <2>1. reader[c].by \in Actors
    BY <1>38 DEF ReaderChunk, Tasked
  <2>2. taken' \in [Conns -> 0..MaxChunks]
    BY <1>38, ItemTypes DEF ReaderChunk
  <2>3. reader' \in [Conns -> ReaderStates]
    <3> PICK p \in {"read", "wait", "passive", "last", "remove", "done"} : reader' = [reader EXCEPT ![c].pc = p]
      BY <1>38 DEF ReaderChunk, DataDone
    <3> HIDE DEF TypeOK
    <3> QED
      BY ReaderMoves
  <2>4. queue' \in [Actors -> Seq(Operations)]
    BY <1>38, <2>1, PostQueue, OperationTypes, ItemTypes DEF ReaderChunk
  <2> QED
    BY <1>38, <2>1, <2>2, <2>3, <2>4 DEF ReaderChunk
<1>39. ASSUME NEW c \in Conns, ReaderEnd(c)
      PROVE  TypeOK'
  <2>1. reader[c].by \in Actors
    BY <1>39 DEF ReaderEnd, Tasked
  <2>2. reader' \in [Conns -> ReaderStates]
    <3> PICK p \in {"read", "wait", "passive", "last", "remove", "done"} : reader' = [reader EXCEPT ![c].pc = p]
      BY <1>39 DEF ReaderEnd
    <3> HIDE DEF TypeOK
    <3> QED
      BY ReaderMoves
  <2>3. queue' \in [Actors -> Seq(Operations)]
    BY <1>39, <2>1, PostQueue, OperationTypes, ItemTypes DEF ReaderEnd
  <2> QED
    BY <1>39, <2>1, <2>2, <2>3 DEF ReaderEnd
<1>40. ASSUME NEW c \in Conns, ReaderCancelled(c)
      PROVE  TypeOK'
  <2>1. reader' \in [Conns -> ReaderStates]
    BY <1>40, ReaderMoves DEF ReaderCancelled
  <2> QED
    BY <1>40, <2>1 DEF ReaderCancelled
<1>41. ASSUME NEW c \in Conns, ReaderRemoves(c)
      PROVE  TypeOK'
  <2>1. reader' \in [Conns -> ReaderStates]
    BY <1>41, ReaderMoves DEF ReaderRemoves
  <2>2. entry' \in [Conns -> {None} \cup Entries] /\ closer' \in [Conns -> CloserStates]
    BY <1>41, RemoveTypes DEF ReaderRemoves, Closers
  <2> QED
    BY <1>41, <2>1, <2>2 DEF ReaderRemoves
<1>42. ASSUME NEW c \in Conns, ReaderOnce(c)
      PROVE  TypeOK'
  <2>1. reader' \in [Conns -> ReaderStates]
    BY <1>42, ReaderMoves DEF ReaderOnce
  <2>2. entry' \in [Conns -> {None} \cup Entries]
    BY <1>42, EntryMode DEF ReaderOnce
  <2> QED
    BY <1>42, <2>1, <2>2 DEF ReaderOnce
<1>43. ASSUME NEW c \in Conns, PeerCloses(c)
      PROVE  TypeOK'
  BY <1>43 DEF PeerCloses
<1>44. ASSUME NEW n \in Transfers, HandoffRemoves(n)
      PROVE  TypeOK'
  <2>0. xfer[n] \in HandoffStates /\ xfer[n].conn \in Conns
    BY <1>44 DEF HandoffRemoves, HandoffStates
  <2>1. xfer' \in [Transfers -> {None} \cup HandoffStates]
    BY <1>44, HandoffMoves DEF HandoffRemoves
  <2>2. entry' \in [Conns -> {None} \cup Entries] /\ closer' \in [Conns -> CloserStates]
    BY <1>44, <2>0, RemoveTypes DEF HandoffRemoves, Closers
  <2> QED
    BY <1>44, <2>1, <2>2 DEF HandoffRemoves
<1>45. ASSUME NEW op \in Operations, GiveUp(op)
      PROVE  TypeOK'
  <2>1. /\ accept' \in [Conns -> AcceptStates]
        /\ reader' \in [Conns -> ReaderStates]
        /\ xfer' \in [Transfers -> {None} \cup HandoffStates]
    BY <1>45, AnsweredTasks DEF GiveUp
  <2> QED
    BY <1>45, <2>1 DEF GiveUp
<1>46. CASE UNCHANGED vars
  BY <1>46 DEF vars
<1> HIDE DEF TypeOK
<1> QED
  BY <1>1, <1>2, <1>3, <1>4, <1>5, <1>6, <1>7, <1>8, <1>9, <1>10, <1>11, <1>12, <1>13, <1>14,
     <1>15, <1>16, <1>17, <1>18, <1>19, <1>20, <1>21, <1>22, <1>23, <1>24, <1>25, <1>26, <1>27,
     <1>28, <1>29, <1>30, <1>31, <1>32, <1>33, <1>34, <1>35, <1>36, <1>37, <1>38, <1>39, <1>40,
     <1>41, <1>42, <1>43, <1>44, <1>45, <1>46
     DEF Next, ActorNext, HostNext, ConnNext

-----------------------------------------------------------------------------
(* What a step does, seen from one actor's call and from one connection.   *)

\* The call of a is not, or no longer, at work on a stream, and holds no lock.
Leaves(a) ==
    /\ \A c \in Conns : ~Working(a, c)'
    /\ \A b \in Actors : b # a => call'[b] = call[b]
    /\ \A d \in Conns : lock'[d] = IF lock[d] = a THEN None ELSE lock[d]

\* It comes to a stream of its own ...
Starts(a, c) ==
    /\ InGuest(a) /\ Usable(a, c)
    /\ call'[a] # None /\ call'[a].conn = c /\ call'[a].pc \in {"send", "receive", "upgrade"}
    /\ \A b \in Actors : b # a => call'[b] = call[b]
    /\ UNCHANGED <<tableVars, taskVars, peerVars>>

\* ... and takes its lock.
Locks(a, c) ==
    /\ Working(a, c) /\ lock[c] = None /\ lock' = [lock EXCEPT ![c] = a]
    /\ call'[a] # None /\ call'[a].conn = c /\ call'[a].pc \in HoldsLock
    /\ \A b \in Actors : b # a => call'[b] = call[b]
    /\ call'[a].pc = "reading" => stream[c] \in Full /\ stream' = stream
    /\ call'[a].pc = "upgrading" => stream[c] = "plain" /\ stream'[c] = "closed"
    /\ UNCHANGED <<entry, closer, taskVars, peerVars>>

\* Every step is one of these, or leaves calls and locks alone.
CallStep ==
    \/ UNCHANGED <<call, lock>>
    \/ \E a \in Actors : Leaves(a)
    \/ \E a \in Actors, c \in Conns : Starts(a, c) \/ Locks(a, c)

\* A connection is put into the table, under an id that was never used.
Inserted(c) ==
    /\ stream[c] = "none" /\ accept'[c].pc # "handshake" /\ entry'[c] # None
    /\ entry'[c].mode = "Passive" /\ stream'[c] \in Full
    /\ UNCHANGED <<call, lock, closer, reader, clean, told>>

\* Its owner gives it away, from the guest.
GivenAway(c) ==
    /\ entry[c] # None /\ InGuest(entry[c].owner)
    /\ entry'[c] # None /\ entry'[c].state = "Active" /\ entry'[c].mode = entry[c].mode
    /\ UNCHANGED <<stream, lock, reader, told>>
    /\ UNCHANGED call \/ Leaves(entry[c].owner)

\* It is accepted by its owner.
Activated(c) ==
    /\ entry[c] # None /\ entry'[c] # None /\ entry'[c].state = "Active"
    /\ entry'[c].owner = entry[c].owner /\ entry'[c].mode = entry[c].mode
    /\ UNCHANGED <<call, stream, lock, reader, told>>

\* Its stream is split, and a read loop gets one half.
Split(c) ==
    /\ entry[c] # None /\ entry[c].state = "Active" /\ entry'[c] # None
    /\ entry'[c].owner = entry[c].owner /\ entry'[c].state = "Active" /\ entry'[c].mode # "Passive"
    /\ lock[c] = None /\ stream[c] \in Full /\ stream'[c] = "write"
    /\ reader'[c].pc \in {"read", "lost"} /\ reader'[c].by \in Actors
    /\ UNCHANGED <<call, lock, told, taken, queue>>

\* It leaves the table.
Removed(c) ==
    /\ entry'[c] = None /\ stream'[c] = stream[c]
    /\ reader'[c] = reader[c] \/ (reader[c].pc = "remove" /\ reader'[c].pc = "done"
                                  /\ reader'[c].by = reader[c].by)

\* Its stream is taken out and closed.
Closed(c) ==
    /\ closer[c].pc = "lock" /\ lock[c] = None /\ stream'[c] = "closed"
    /\ entry'[c] = entry[c] /\ UNCHANGED <<call, lock, reader, told>>

\* Its stream is moved out for a handshake, and put back or lost.
Lent(c) ==
    /\ stream[c] = "plain" /\ stream'[c] = "closed" /\ entry'[c] = entry[c]
    /\ UNCHANGED <<reader, told>>
    /\ \E a \in Actors : Locks(a, c)

Returned(c) ==
    /\ stream'[c] \in {"tls", "closed"} /\ entry'[c] = entry[c]
    /\ UNCHANGED <<reader, told>>
    /\ \E a \in Actors : At(a, "upgrading", c) /\ Leaves(a)

\* Its read loop goes on.
ReadOn(c) ==
    /\ reader'[c].by = reader[c].by /\ reader'[c].once = reader[c].once
    /\ \/ /\ reader[c].pc \in {"read", "wait"}
          /\ reader'[c].pc \in {"read", "wait", "last", "remove"}
                                \cup (IF reader[c].once THEN {"passive"} ELSE {})
       \/ reader[c].pc = "last" /\ reader'[c].pc = "remove"
    /\ entry'[c] = entry[c] /\ stream'[c] = stream[c]

\* Its read loop was for one chunk only, and is at its end.
ReadOnce(c) ==
    /\ reader[c].pc = "passive" /\ reader'[c].pc = "done"
    /\ reader'[c].by = reader[c].by /\ reader'[c].once = reader[c].once
    /\ IF entry[c] = None
       THEN entry'[c] = None
       ELSE /\ entry'[c] # None /\ entry'[c].mode = "Passive"
            /\ entry'[c].owner = entry[c].owner /\ entry'[c].state = entry[c].state
    /\ UNCHANGED <<call, stream, lock, told>>

\* Nothing happens to it.
Untouched(c) == UNCHANGED <<entry[c], stream[c], reader[c]>>

ConnStep(c) ==
    \/ Inserted(c) \/ GivenAway(c) \/ Activated(c) \/ Split(c) \/ Removed(c) \/ Closed(c)
    \/ Lent(c) \/ Returned(c) \/ ReadOn(c) \/ ReadOnce(c) \/ Untouched(c)

\* A call in the guest is not at work on a stream.
LEMMA GuestIdle ==
    ASSUME NEW a \in Actors, NEW c \in Conns, InGuest(a)
    PROVE  ~Working(a, c)
  BY DEF InGuest, Working, AtStream

\* A call that comes to the guest, ends or waits elsewhere has no stream any more.
LEMMA EndsAway ==
    ASSUME NEW a \in Actors, call'[a] = None \/ call'[a].pc \in {"guest", "close", "transfer"}
    PROVE  \A c \in Conns : ~Working(a, c)'
  BY DEF Working, AtStream

\* The lock of a call that leaves its stream is free.
LEMMA OwnLock ==
    ASSUME TypeOK, Exclusive, NEW a \in Actors, NEW c \in Conns, Working(a, c)
    PROVE  \A d \in Conns : lock[d] = a => d = c
  BY ConstantsAssumption DEF Exclusive, Working

\* A call that is at work nowhere has no lock.
LEMMA NoLock ==
    ASSUME TypeOK, Exclusive, NEW a \in Actors, \A c \in Conns : ~Working(a, c)
    PROVE  \A d \in Conns : lock[d] # a
  BY ConstantsAssumption DEF Exclusive

\* A host function that returns from a stream gives its lock back.
LEMMA UnlockLeaves ==
    ASSUME TypeOK, Exclusive, NEW a \in Actors, NEW c \in Conns, NEW p \in HoldsLock,
           At(a, p, c), Unlock(a, c)
    PROVE  Leaves(a)
<1>1. call[a] # None /\ Working(a, c) /\ call[a].pc \in HoldsLock
  BY DEF At, Working, HoldsLock, AtStream
<1>2. lock[c] = a /\ \A d \in Conns : lock[d] = a => d = c
  BY <1>1, OwnLock DEF Exclusive
<1>3. lock' = [lock EXCEPT ![c] = None] /\ ToGuest(a)
  BY DEF Unlock
<1>4. \A d \in Conns : lock'[d] = IF lock[d] = a THEN None ELSE lock[d]
  BY <1>2, <1>3 DEF TypeOK
<1>5. call'[a].pc = "guest" /\ \A b \in Actors : b # a => call'[b] = call[b]
  BY <1>1, <1>3, ToGuestCall
<1> QED
  BY <1>4, <1>5, EndsAway DEF Leaves

\* What every step does to the calls.
LEMMA CallChange ==
    ASSUME TypeOK, Exclusive, [Next]_vars
    PROVE  CallStep
<1> USE DEF actorVars, tableVars, taskVars, peerVars
<1>1. ASSUME NEW a \in Actors, BeginCall(a)
      PROVE  CallStep
  <2>1. \A c \in Conns : ~Working(a, c)
    BY <1>1 DEF BeginCall, Working
  <2>2. call'[a] = None \/ call'[a].pc = "guest"
    BY <1>1 DEF BeginCall, TypeOK
  <2>3. lock' = lock /\ \A e \in Actors : e # a => call'[e] = call[e]
    BY <1>1 DEF BeginCall, TypeOK
  <2> QED
    BY <2>1, <2>2, <2>3, NoLock, EndsAway DEF CallStep, Leaves
<1>2. ASSUME NEW a \in Actors, ClientCall(a)
      PROVE  CallStep
  <2>1. \A c \in Conns : ~Working(a, c)
    BY <1>2 DEF ClientCall, Working
  <2>2. call'[a] = None \/ call'[a].pc = "guest"
    BY <1>2 DEF ClientCall, TypeOK
  <2>3. lock' = lock /\ \A e \in Actors : e # a => call'[e] = call[e]
    BY <1>2 DEF ClientCall, TypeOK
  <2> QED
    BY <2>1, <2>2, <2>3, NoLock, EndsAway DEF CallStep, Leaves
<1>3. ASSUME NEW a \in Actors, GuestReturns(a)
      PROVE  CallStep
  <2>1. \A c \in Conns : ~Working(a, c)
    BY <1>3, GuestIdle DEF GuestReturns
  <2>2. call'[a] = None
    BY <1>3 DEF GuestReturns, TypeOK
  <2>3. lock' = lock /\ \A e \in Actors : e # a => call'[e] = call[e]
    BY <1>3 DEF GuestReturns, TypeOK
  <2> QED
    BY <2>1, <2>2, <2>3, NoLock, EndsAway DEF CallStep, Leaves
<1>4. ASSUME NEW a \in Actors, GuestFails(a)
      PROVE  CallStep
  <2>1. \A c \in Conns : ~Working(a, c)
    BY <1>4, GuestIdle DEF GuestFails
  <2>2. call'[a] = None
    BY <1>4 DEF GuestFails, TypeOK
  <2>3. lock' = lock /\ \A e \in Actors : e # a => call'[e] = call[e]
    BY <1>4 DEF GuestFails, TypeOK
  <2> QED
    BY <2>1, <2>2, <2>3, NoLock, EndsAway DEF CallStep, Leaves
<1>5. ASSUME NEW a \in Actors, HandlerStarts(a) \/ Stop(a)
      PROVE  CallStep
  BY <1>5 DEF CallStep, HandlerStarts, Stop
<1>6. ASSUME NEW a \in Actors, OpLoopEnds(a)
      PROVE  CallStep
  BY <1>6 DEF CallStep, OpLoopEnds
<1>7. ASSUME NEW a \in Actors, Abort(a)
      PROVE  CallStep
  <2>1. call'[a] = None /\ \A b \in Actors : b # a => call'[b] = call[b]
    BY <1>7 DEF Abort, TypeOK
  <2>2. \A d \in Conns : lock'[d] = IF lock[d] = a THEN None ELSE lock[d]
    BY <1>7 DEF Abort
  <2> QED
    BY <2>1, <2>2, EndsAway DEF CallStep, Leaves
<1>8. ASSUME NEW a \in Actors, Gone(a)
      PROVE  CallStep
  BY <1>8 DEF CallStep, Gone
<1>9. ASSUME NEW a \in Actors, AcceptLoopEnds(a)
      PROVE  CallStep
  BY <1>9 DEF CallStep, AcceptLoopEnds
<1>10. ASSUME NEW a \in Actors, CleanCollects(a)
      PROVE  CallStep
  BY <1>10 DEF CallStep, CleanCollects
<1>11. ASSUME NEW a \in Actors, CleanEnds(a)
      PROVE  CallStep
  BY <1>11 DEF CallStep, CleanEnds
<1>12. ASSUME NEW a \in Actors, Connect(a)
      PROVE  CallStep
  BY <1>12 DEF CallStep, Connect
<1>13. ASSUME NEW a \in Actors, Listen(a)
      PROVE  CallStep
  BY <1>13 DEF CallStep, Listen
<1>14. ASSUME NEW a \in Actors, TransferReturns(a)
      PROVE  CallStep
  <2>1. \A d \in Conns : ~Working(a, d)
    BY <1>14 DEF TransferReturns, At, Working, AtStream
  <2>2. call'[a].pc = "guest"
    BY <1>14, ToGuestCall DEF TransferReturns, At
  <2>3. lock' = lock /\ \A e \in Actors : e # a => call'[e] = call[e]
    BY <1>14 DEF TransferReturns, ToGuest, TypeOK
  <2> QED
    BY <2>1, <2>2, <2>3, NoLock, EndsAway DEF CallStep, Leaves
<1>15. ASSUME NEW a \in Actors, NEW c \in Conns, Activate(a, c)
      PROVE  CallStep
  BY <1>15 DEF CallStep, Activate
<1>16. ASSUME NEW a \in Actors, NEW c \in Conns, Send(a, c)
      PROVE  CallStep
  <2>1. InGuest(a) /\ call[a] # None /\ Usable(a, c) /\ WaitAt(a, "send", c)
    BY <1>16 DEF Send, HostFn, InGuest
  <2>2. UNCHANGED <<tableVars, taskVars, peerVars>>
    BY <1>16 DEF Send
  <2> QED
    BY <2>1, <2>2, WaitAtCall DEF CallStep, Starts, Suspended, AtStream
<1>17. ASSUME NEW a \in Actors, NEW c \in Conns, Receive(a, c)
      PROVE  CallStep
  <2>1. InGuest(a) /\ call[a] # None /\ Usable(a, c) /\ WaitAt(a, "receive", c)
    BY <1>17 DEF Receive, HostFn, InGuest
  <2>2. UNCHANGED <<tableVars, taskVars, peerVars>>
    BY <1>17 DEF Receive
  <2> QED
    BY <2>1, <2>2, WaitAtCall DEF CallStep, Starts, Suspended, AtStream
<1>18. ASSUME NEW a \in Actors, NEW c \in Conns, Upgrade(a, c)
      PROVE  CallStep
  <2>1. InGuest(a) /\ call[a] # None /\ Usable(a, c) /\ WaitAt(a, "upgrade", c)
    BY <1>18 DEF Upgrade, HostFn, InGuest
  <2>2. UNCHANGED <<tableVars, taskVars, peerVars>>
    BY <1>18 DEF Upgrade
  <2> QED
    BY <2>1, <2>2, WaitAtCall DEF CallStep, Starts, Suspended, AtStream
<1>19. ASSUME NEW a \in Actors, NEW c \in Conns, CloseConn(a, c)
      PROVE  CallStep
  <2>1. \A d \in Conns : ~Working(a, d)
    BY <1>19, GuestIdle DEF CloseConn, HostFn
  <2>2. call'[a].pc = "close"
    BY <1>19, WaitAtCall DEF CloseConn, HostFn, InGuest, Suspended
  <2>3. lock' = lock /\ \A e \in Actors : e # a => call'[e] = call[e]
    BY <1>19 DEF CloseConn, WaitAt, TypeOK
  <2> QED
    BY <2>1, <2>2, <2>3, NoLock, EndsAway DEF CallStep, Leaves
<1>20. ASSUME NEW a \in Actors, NEW c \in Conns, CloseReturns(a, c)
      PROVE  CallStep
  <2>1. \A d \in Conns : ~Working(a, d)
    BY <1>20 DEF CloseReturns, At, Working, AtStream
  <2>2. call'[a].pc = "guest"
    BY <1>20, ToGuestCall DEF CloseReturns, At
  <2>3. lock' = lock /\ \A e \in Actors : e # a => call'[e] = call[e]
    BY <1>20 DEF CloseReturns, ToGuest, TypeOK
  <2> QED
    BY <2>1, <2>2, <2>3, NoLock, EndsAway DEF CallStep, Leaves
<1>21. ASSUME NEW a \in Actors, NEW c \in Conns, NEW f \in {"active", "once"}, SetActive(a, c, f)
      PROVE  CallStep
  BY <1>21 DEF CallStep, SetActive
<1>22. ASSUME NEW a \in Actors, NEW c \in Conns, NEW b \in Actors, Transfer(a, c, b)
      PROVE  CallStep
  <2>1. \A d \in Conns : ~Working(a, d)
    BY <1>22, GuestIdle DEF Transfer, HostFn
  <2>2. call'[a].pc = "transfer"
    <3>1. call[a] \in CallStates
      BY <1>22 DEF Transfer, HostFn, InGuest, TypeOK
    <3> QED
      BY <1>22, <3>1 DEF Transfer, TypeOK, CallStates
  <2>3. lock' = lock /\ \A e \in Actors : e # a => call'[e] = call[e]
    BY <1>22 DEF Transfer, TypeOK
  <2> QED
    BY <2>1, <2>2, <2>3, NoLock, EndsAway DEF CallStep, Leaves
<1>23. ASSUME NEW a \in Actors, NEW c \in Conns, NEW b \in Actors, TransferAsync(a, c, b)
      PROVE  CallStep
  BY <1>23 DEF CallStep, TransferAsync, HandOver
<1>24. ASSUME NEW a \in Actors, NEW c \in Conns, SendLocks(a, c)
      PROVE  CallStep
  <2>1. At(a, "send", c) /\ call[a] # None /\ Working(a, c) /\ lock[c] = None
    BY <1>24 DEF SendLocks, TakeLock, At, Working, AtStream
  <2>2. UNCHANGED <<entry, closer, taskVars, peerVars>>
    BY <1>24 DEF SendLocks
  <2>3. CASE stream[c] \in Full \cup {"write"}
    <3>1. WaitAt(a, "sending", c) /\ lock' = [lock EXCEPT ![c] = a]
      BY <1>24, <2>3 DEF SendLocks, TakeLock
    <3>2. stream' = stream
      BY <1>24, <2>3 DEF SendLocks, TypeOK
    <3>3. /\ call'[a] # None /\ call'[a].pc = "sending" /\ call'[a].conn = c
          /\ \A b \in Actors : b # a => call'[b] = call[b]
      BY <2>1, <3>1, WaitAtCall DEF Suspended, AtStream
    <3> QED
      BY <2>1, <2>2, <2>3, <3>1, <3>2, <3>3 DEF CallStep, Locks, HoldsLock
  <2>4. CASE stream[c] \notin Full \cup {"write"}
    <3>1. ToGuest(a) /\ lock' = lock
      BY <1>24, <2>4 DEF SendLocks, TakeLock
    <3>2. call'[a].pc = "guest" /\ \A b \in Actors : b # a => call'[b] = call[b]
      BY <2>1, <3>1, ToGuestCall
    <3>3. \A d \in Conns : lock[d] # a
      BY <2>1, OwnLock, ConstantsAssumption
    <3> QED
      BY <3>1, <3>2, <3>3, EndsAway DEF CallStep, Leaves
  <2> QED
    BY <2>3, <2>4
<1>25. ASSUME NEW a \in Actors, NEW c \in Conns, SendReturns(a, c)
      PROVE  CallStep
  <2>1. At(a, "sending", c) /\ call[a] # None /\ Unlock(a, c)
    BY <1>25 DEF SendReturns, At
  <2> QED
    BY <2>1, UnlockLeaves DEF CallStep, HoldsLock
<1>26. ASSUME NEW a \in Actors, NEW c \in Conns, ReceiveLocks(a, c)
      PROVE  CallStep
  <2>1. At(a, "receive", c) /\ call[a] # None /\ Working(a, c) /\ lock[c] = None
    BY <1>26 DEF ReceiveLocks, TakeLock, At, Working, AtStream
  <2>2. UNCHANGED <<entry, closer, taskVars, peerVars>>
    BY <1>26 DEF ReceiveLocks
  <2>3. CASE stream[c] \in Full
    <3>1. WaitAt(a, "reading", c) /\ lock' = [lock EXCEPT ![c] = a]
      BY <1>26, <2>3 DEF ReceiveLocks, TakeLock
    <3>2. stream' = stream
      BY <1>26, <2>3 DEF ReceiveLocks, TypeOK
    <3>3. /\ call'[a] # None /\ call'[a].pc = "reading" /\ call'[a].conn = c
          /\ \A b \in Actors : b # a => call'[b] = call[b]
      BY <2>1, <3>1, WaitAtCall DEF Suspended, AtStream
    <3> QED
      BY <2>1, <2>2, <2>3, <3>1, <3>2, <3>3 DEF CallStep, Locks, HoldsLock
  <2>4. CASE stream[c] \notin Full
    <3>1. ToGuest(a) /\ lock' = lock
      BY <1>26, <2>4 DEF ReceiveLocks, TakeLock
    <3>2. call'[a].pc = "guest" /\ \A b \in Actors : b # a => call'[b] = call[b]
      BY <2>1, <3>1, ToGuestCall
    <3>3. \A d \in Conns : lock[d] # a
      BY <2>1, OwnLock, ConstantsAssumption
    <3> QED
      BY <3>1, <3>2, <3>3, EndsAway DEF CallStep, Leaves
  <2> QED
    BY <2>3, <2>4
<1>27. ASSUME NEW a \in Actors, NEW c \in Conns, ReceiveChunk(a, c)
      PROVE  CallStep
  <2>1. At(a, "reading", c) /\ call[a] # None /\ Unlock(a, c)
    BY <1>27 DEF ReceiveChunk, At
  <2> QED
    BY <2>1, UnlockLeaves DEF CallStep, HoldsLock
<1>28. ASSUME NEW a \in Actors, NEW c \in Conns, ReceiveEnd(a, c)
      PROVE  CallStep
  <2>1. At(a, "reading", c) /\ call[a] # None /\ Unlock(a, c)
    BY <1>28 DEF ReceiveEnd, At
  <2> QED
    BY <2>1, UnlockLeaves DEF CallStep, HoldsLock
<1>29. ASSUME NEW a \in Actors, NEW c \in Conns, UpgradeLocks(a, c)
      PROVE  CallStep
  <2>1. At(a, "upgrade", c) /\ call[a] # None /\ Working(a, c) /\ lock[c] = None
    BY <1>29 DEF UpgradeLocks, TakeLock, At, Working, AtStream
  <2>2. UNCHANGED <<entry, closer, taskVars, peerVars>>
    BY <1>29 DEF UpgradeLocks
  <2>3. CASE stream[c] \in {"plain"}
    <3>1. WaitAt(a, "upgrading", c) /\ lock' = [lock EXCEPT ![c] = a]
      BY <1>29, <2>3 DEF UpgradeLocks, TakeLock
    <3>2. stream'[c] = "closed"
      BY <1>29, <2>3 DEF UpgradeLocks, TypeOK
    <3>3. /\ call'[a] # None /\ call'[a].pc = "upgrading" /\ call'[a].conn = c
          /\ \A b \in Actors : b # a => call'[b] = call[b]
      BY <2>1, <3>1, WaitAtCall DEF Suspended, AtStream
    <3> QED
      BY <2>1, <2>2, <2>3, <3>1, <3>2, <3>3 DEF CallStep, Locks, HoldsLock
  <2>4. CASE stream[c] \notin {"plain"}
    <3>1. ToGuest(a) /\ lock' = lock
      BY <1>29, <2>4 DEF UpgradeLocks, TakeLock
    <3>2. call'[a].pc = "guest" /\ \A b \in Actors : b # a => call'[b] = call[b]
      BY <2>1, <3>1, ToGuestCall
    <3>3. \A d \in Conns : lock[d] # a
      BY <2>1, OwnLock, ConstantsAssumption
    <3> QED
      BY <3>1, <3>2, <3>3, EndsAway DEF CallStep, Leaves
  <2> QED
    BY <2>3, <2>4
<1>30. ASSUME NEW a \in Actors, NEW c \in Conns, NEW ok \in BOOLEAN, UpgradeReturns(a, c, ok)
      PROVE  CallStep
  <2>1. At(a, "upgrading", c) /\ call[a] # None /\ Unlock(a, c)
    BY <1>30 DEF UpgradeReturns, At
  <2> QED
    BY <2>1, UnlockLeaves DEF CallStep, HoldsLock
<1>31. ASSUME NEW a \in Actors, NEW c \in Conns, AcceptLoop(a, c)
      PROVE  CallStep
  BY <1>31 DEF CallStep, AcceptLoop
<1>32. ASSUME NEW a \in Actors, NEW c \in Conns, CleanRemoves(a, c)
      PROVE  CallStep
  BY <1>32 DEF CallStep, CleanRemoves
<1>33. ASSUME NEW c \in Conns, CloserTakes(c)
      PROVE  CallStep
  BY <1>33 DEF CallStep, CloserTakes
<1>34. ASSUME NEW c \in Conns, CloserShuts(c)
      PROVE  CallStep
  BY <1>34 DEF CallStep, CloserShuts
<1>35. ASSUME NEW c \in Conns, AcceptInserts(c)
      PROVE  CallStep
  BY <1>35 DEF CallStep, AcceptInserts
<1>36. ASSUME NEW c \in Conns, HandshakeFails(c)
      PROVE  CallStep
  BY <1>36 DEF CallStep, HandshakeFails
<1>37. ASSUME NEW c \in Conns, AcceptDrops(c)
      PROVE  CallStep
  BY <1>37 DEF CallStep, AcceptDrops
<1>38. ASSUME NEW c \in Conns, ReaderChunk(c)
      PROVE  CallStep
  BY <1>38 DEF CallStep, ReaderChunk
<1>39. ASSUME NEW c \in Conns, ReaderEnd(c)
      PROVE  CallStep
  BY <1>39 DEF CallStep, ReaderEnd
<1>40. ASSUME NEW c \in Conns, ReaderCancelled(c)
      PROVE  CallStep
  BY <1>40 DEF CallStep, ReaderCancelled
<1>41. ASSUME NEW c \in Conns, ReaderRemoves(c)
      PROVE  CallStep
  BY <1>41 DEF CallStep, ReaderRemoves
<1>42. ASSUME NEW c \in Conns, ReaderOnce(c)
      PROVE  CallStep
  BY <1>42 DEF CallStep, ReaderOnce
<1>43. ASSUME NEW c \in Conns, PeerCloses(c)
      PROVE  CallStep
  BY <1>43 DEF CallStep, PeerCloses
<1>44. ASSUME NEW n \in Transfers, HandoffRemoves(n)
      PROVE  CallStep
  BY <1>44 DEF CallStep, HandoffRemoves
<1>45. ASSUME NEW op \in Operations, GiveUp(op)
      PROVE  CallStep
  BY <1>45 DEF CallStep, GiveUp
<1>46. CASE UNCHANGED vars
  BY <1>46 DEF vars, CallStep
<1> QED
  BY <1>1, <1>2, <1>3, <1>4, <1>5, <1>6, <1>7, <1>8, <1>9, <1>10, <1>11, <1>12, <1>13, <1>14,
     <1>15, <1>16, <1>17, <1>18, <1>19, <1>20, <1>21, <1>22, <1>23, <1>24, <1>25, <1>26, <1>27,
     <1>28, <1>29, <1>30, <1>31, <1>32, <1>33, <1>34, <1>35, <1>36, <1>37, <1>38, <1>39, <1>40,
     <1>41, <1>42, <1>43, <1>44, <1>45, <1>46
     DEF Next, ActorNext, HostNext, ConnNext

\* What the answer to an operation does to a connection.
LEMMA AnsweredConn ==
    ASSUME TypeOK, NEW ops, NEW ok \in BOOLEAN, Answered(ops, ok), UNCHANGED <<entry, stream>>,
           NEW d \in Conns
    PROVE  ConnStep(d)
<1>1. \/ reader'[d] = reader[d]
      \/ /\ reader'[d].by = reader[d].by /\ reader'[d].once = reader[d].once
         /\ \/ reader[d].pc = "wait" /\ reader'[d].pc = IF reader[d].once THEN "passive" ELSE "read"
            \/ reader[d].pc = "last" /\ reader'[d].pc = "remove"
  BY AnsweredTasks
<1> QED
  BY <1>1 DEF ConnStep, Untouched, ReadOn

\* What the removal of an entry does to a connection.
LEMMA RemovedConn ==
    ASSUME TypeOK, NEW c \in Conns, NEW w \in Closers, RemoveEntry(c, w),
           UNCHANGED <<stream, reader>>, NEW d \in Conns
    PROVE  ConnStep(d)
<1>1. CASE d = c
  BY <1>1, RemoveTypes DEF ConnStep, Removed
<1>2. CASE d # c
  BY <1>2, RemoveTypes DEF ConnStep, Untouched
<1> QED
  BY <1>1, <1>2

\* What every step does to a connection.
LEMMA ConnChange ==
    ASSUME TypeOK, Tasked, NewConns, Exclusive, [Next]_vars, NEW d \in Conns
    PROVE  ConnStep(d)
<1> USE DEF actorVars, tableVars, taskVars, peerVars
<1>1. ASSUME NEW a \in Actors, BeginCall(a)
      PROVE  ConnStep(d)
  BY <1>1 DEF BeginCall, ConnStep, Untouched
<1>2. ASSUME NEW a \in Actors, ClientCall(a)
      PROVE  ConnStep(d)
  BY <1>2 DEF ClientCall, ConnStep, Untouched
<1>3. ASSUME NEW a \in Actors, GuestReturns(a)
      PROVE  ConnStep(d)
  BY <1>3, AnsweredConn DEF GuestReturns
<1>4. ASSUME NEW a \in Actors, GuestFails(a)
      PROVE  ConnStep(d)
  BY <1>4, AnsweredConn DEF GuestFails
<1>5. ASSUME NEW a \in Actors, HandlerStarts(a) \/ Stop(a)
      PROVE  ConnStep(d)
  BY <1>5 DEF HandlerStarts, Stop, ConnStep, Untouched
<1>6. ASSUME NEW a \in Actors, OpLoopEnds(a)
      PROVE  ConnStep(d)
  BY <1>6, AnsweredConn DEF OpLoopEnds
<1>7. ASSUME NEW a \in Actors, Abort(a)
      PROVE  ConnStep(d)
  BY <1>7, AnsweredConn DEF Abort
<1>8. ASSUME NEW a \in Actors, Gone(a)
      PROVE  ConnStep(d)
  BY <1>8 DEF Gone, ConnStep, Untouched
<1>9. ASSUME NEW a \in Actors, AcceptLoopEnds(a)
      PROVE  ConnStep(d)
  BY <1>9 DEF AcceptLoopEnds, ConnStep, Untouched
<1>10. ASSUME NEW a \in Actors, CleanCollects(a)
      PROVE  ConnStep(d)
  BY <1>10 DEF CleanCollects, ConnStep, Untouched
<1>11. ASSUME NEW a \in Actors, CleanEnds(a)
      PROVE  ConnStep(d)
  BY <1>11 DEF CleanEnds, ConnStep, Untouched
<1>12. ASSUME NEW a \in Actors, Connect(a)
      PROVE  ConnStep(d)
  <2>1. PICK c \in Conns :
           /\ Fresh(c)
           /\ entry' = [entry EXCEPT ![c] = [owner |-> a, state |-> "Active", mode |-> "Passive"]]
           /\ stream' = [stream EXCEPT ![c] =
                           IF a \in ClientTls \cap AutoHandshake THEN "tls" ELSE "plain"]
    BY <1>12 DEF Connect
  <2>2. /\ entry'[c] # None /\ entry'[c].mode = "Passive"
        /\ \A e \in Conns : e # c => entry'[e] = entry[e]
    BY <2>1, NewEntry
  <2>3. stream'[c] \in Full /\ \A e \in Conns : e # c => stream'[e] = stream[e]
    BY <2>1 DEF TypeOK, Full
  <2>4. UNCHANGED <<call, lock, closer, accept, reader, clean, told>>
    BY <1>12 DEF Connect
  <2>5. CASE d = c
    BY <2>1, <2>2, <2>3, <2>4, <2>5 DEF Fresh, ConnStep, Inserted
  <2>6. CASE d # c
    BY <2>2, <2>3, <2>4, <2>6 DEF ConnStep, Untouched
  <2> QED
    BY <2>5, <2>6
<1>13. ASSUME NEW a \in Actors, Listen(a)
      PROVE  ConnStep(d)
  BY <1>13 DEF Listen, ConnStep, Untouched
<1>14. ASSUME NEW a \in Actors, TransferReturns(a)
      PROVE  ConnStep(d)
  BY <1>14 DEF TransferReturns, ConnStep, Untouched
<1>15. ASSUME NEW a \in Actors, NEW c \in Conns, Activate(a, c)
      PROVE  ConnStep(d)
  <2>1. /\ entry[c] # None /\ entry' = [entry EXCEPT ![c].state = "Active"]
        /\ UNCHANGED <<call, stream, lock, reader, told>>
    BY <1>15 DEF Activate, Owned
  <2>2. CASE d = c
    BY <2>1, <2>2, EntryState DEF ConnStep, Activated
  <2>3. CASE d # c
    BY <2>1, <2>3, EntryState DEF ConnStep, Untouched
  <2> QED
    BY <2>2, <2>3
<1>16. ASSUME NEW a \in Actors, NEW c \in Conns, Send(a, c)
      PROVE  ConnStep(d)
  BY <1>16 DEF Send, ConnStep, Untouched
<1>17. ASSUME NEW a \in Actors, NEW c \in Conns, Receive(a, c)
      PROVE  ConnStep(d)
  BY <1>17 DEF Receive, ConnStep, Untouched
<1>18. ASSUME NEW a \in Actors, NEW c \in Conns, Upgrade(a, c)
      PROVE  ConnStep(d)
  BY <1>18 DEF Upgrade, ConnStep, Untouched
<1>19. ASSUME NEW a \in Actors, NEW c \in Conns, CloseConn(a, c)
      PROVE  ConnStep(d)
  BY <1>19, RemovedConn DEF CloseConn, Closers
<1>20. ASSUME NEW a \in Actors, NEW c \in Conns, CloseReturns(a, c)
      PROVE  ConnStep(d)
  BY <1>20 DEF CloseReturns, ConnStep, Untouched
<1>21. ASSUME NEW a \in Actors, NEW c \in Conns, NEW f \in {"active", "once"}, SetActive(a, c, f)
      PROVE  ConnStep(d)
  <2>1. /\ entry[c] # None /\ entry[c].state = "Active" /\ lock[c] = None /\ stream[c] \in Full
        /\ entry' = [entry EXCEPT ![c].mode = IF f = "once" THEN "Once" ELSE "Active"]
        /\ UNCHANGED <<call, lock, told, taken, queue>>
    BY <1>21 DEF SetActive, Usable, Owned
  <2>2. /\ entry'[c] # None /\ entry'[c].owner = entry[c].owner /\ entry'[c].mode # "Passive"
        /\ entry'[c].state = entry[c].state /\ \A e \in Conns : e # c => entry'[e] = entry[e]
    BY <2>1, EntryMode
  <2>3. stream'[c] = "write" /\ \A e \in Conns : e # c => stream'[e] = stream[e]
    BY <1>21 DEF SetActive, TypeOK
  <2>4. /\ reader'[c].pc \in {"read", "lost"} /\ reader'[c].by \in Actors
        /\ \A e \in Conns : e # c => reader'[e] = reader[e]
    BY <1>21 DEF SetActive, TypeOK
  <2>5. CASE d = c
    BY <2>1, <2>2, <2>3, <2>4, <2>5 DEF ConnStep, Split
  <2>6. CASE d # c
    BY <2>2, <2>3, <2>4, <2>6 DEF ConnStep, Untouched
  <2> QED
    BY <2>5, <2>6
<1>22. ASSUME NEW a \in Actors, NEW c \in Conns, NEW b \in Actors, Transfer(a, c, b)
      PROVE  ConnStep(d)
  <2>1. /\ InGuest(a) /\ entry[c] # None /\ entry[c].owner = a
        /\ entry' = [entry EXCEPT ![c].owner = b, ![c].state = "Active"]
        /\ UNCHANGED <<stream, lock, reader, told>>
    BY <1>22 DEF Transfer, HostFn, Owned, HandOver
  <2>2. /\ entry'[c] # None /\ entry'[c].state = "Active" /\ entry'[c].mode = entry[c].mode
        /\ \A e \in Conns : e # c => entry'[e] = entry[e]
    BY <2>1, EntryOwner
  <2>3. Leaves(a)
    <3>1. \A e \in Conns : ~Working(a, e)
      BY <2>1, GuestIdle
    <3>2. call'[a].pc = "transfer" /\ \A e \in Actors : e # a => call'[e] = call[e]
      <4>1. call[a] \in CallStates
        BY <2>1 DEF InGuest, TypeOK
      <4> QED
        BY <1>22, <4>1 DEF Transfer, TypeOK, CallStates
    <3> QED
      BY <2>1, <3>1, <3>2, NoLock, EndsAway DEF Leaves
  <2>4. CASE d = c
    BY <2>1, <2>2, <2>3, <2>4 DEF ConnStep, GivenAway
  <2>5. CASE d # c
    BY <2>1, <2>2, <2>5 DEF ConnStep, Untouched
  <2> QED
    BY <2>4, <2>5
<1>23. ASSUME NEW a \in Actors, NEW c \in Conns, NEW b \in Actors, TransferAsync(a, c, b)
      PROVE  ConnStep(d)
  <2>1. /\ InGuest(a) /\ entry[c] # None /\ entry[c].owner = a
        /\ entry' = [entry EXCEPT ![c].owner = b, ![c].state = "Active"]
        /\ UNCHANGED <<stream, lock, reader, told>>
    BY <1>23 DEF TransferAsync, HostFn, Owned, HandOver
  <2>2. /\ entry'[c] # None /\ entry'[c].state = "Active" /\ entry'[c].mode = entry[c].mode
        /\ \A e \in Conns : e # c => entry'[e] = entry[e]
    BY <2>1, EntryOwner
  <2>3. UNCHANGED call
    BY <1>23 DEF TransferAsync
  <2>4. CASE d = c
    BY <2>1, <2>2, <2>3, <2>4 DEF ConnStep, GivenAway
  <2>5. CASE d # c
    BY <2>1, <2>2, <2>5 DEF ConnStep, Untouched
  <2> QED
    BY <2>4, <2>5
<1>24. ASSUME NEW a \in Actors, NEW c \in Conns, SendLocks(a, c)
      PROVE  ConnStep(d)
  BY <1>24 DEF SendLocks, ConnStep, Untouched
<1>25. ASSUME NEW a \in Actors, NEW c \in Conns, SendReturns(a, c)
      PROVE  ConnStep(d)
  BY <1>25 DEF SendReturns, ConnStep, Untouched
<1>26. ASSUME NEW a \in Actors, NEW c \in Conns, ReceiveLocks(a, c)
      PROVE  ConnStep(d)
  BY <1>26 DEF ReceiveLocks, ConnStep, Untouched
<1>27. ASSUME NEW a \in Actors, NEW c \in Conns, ReceiveChunk(a, c)
      PROVE  ConnStep(d)
  BY <1>27 DEF ReceiveChunk, ConnStep, Untouched
<1>28. ASSUME NEW a \in Actors, NEW c \in Conns, ReceiveEnd(a, c)
      PROVE  ConnStep(d)
  BY <1>28 DEF ReceiveEnd, ConnStep, Untouched
<1>29. ASSUME NEW a \in Actors, NEW c \in Conns, UpgradeLocks(a, c)
      PROVE  ConnStep(d)
  <2>1. CASE stream[c] = "plain"
    <3>1. At(a, "upgrade", c) /\ call[a] # None /\ Working(a, c) /\ lock[c] = None
      BY <1>29 DEF UpgradeLocks, TakeLock, At, Working, AtStream
    <3>2. WaitAt(a, "upgrading", c) /\ lock' = [lock EXCEPT ![c] = a]
      BY <1>29, <2>1 DEF UpgradeLocks, TakeLock
    <3>3. /\ call'[a] # None /\ call'[a].pc = "upgrading" /\ call'[a].conn = c
          /\ \A b \in Actors : b # a => call'[b] = call[b]
      BY <3>1, <3>2, WaitAtCall DEF Suspended, AtStream
    <3>4. stream'[c] = "closed" /\ \A e \in Conns : e # c => stream'[e] = stream[e]
      BY <1>29, <2>1 DEF UpgradeLocks, TypeOK
    <3>5. UNCHANGED <<entry, closer, taskVars, peerVars>>
      BY <1>29 DEF UpgradeLocks
    <3>6. Locks(a, c)
      BY <2>1, <3>1, <3>2, <3>3, <3>4, <3>5 DEF Locks, HoldsLock
    <3>7. CASE d = c
      BY <2>1, <3>4, <3>5, <3>6, <3>7 DEF ConnStep, Lent
    <3>8. CASE d # c
      BY <3>4, <3>5, <3>8 DEF ConnStep, Untouched
    <3> QED
      BY <3>7, <3>8
  <2>2. CASE stream[c] # "plain"
    <3>1. stream'[d] = stream[d]
      BY <1>29, <2>2 DEF UpgradeLocks, TypeOK
    <3> QED
      BY <1>29, <3>1 DEF UpgradeLocks, ConnStep, Untouched
  <2> QED
    BY <2>1, <2>2
<1>30. ASSUME NEW a \in Actors, NEW c \in Conns, NEW ok \in BOOLEAN, UpgradeReturns(a, c, ok)
      PROVE  ConnStep(d)
  <2>1. At(a, "upgrading", c) /\ Leaves(a)
    BY <1>30, UnlockLeaves DEF UpgradeReturns, HoldsLock
  <2>2. /\ stream'[c] \in {"tls", "closed"} /\ \A e \in Conns : e # c => stream'[e] = stream[e]
        /\ UNCHANGED <<entry, reader, told>>
    BY <1>30 DEF UpgradeReturns, TypeOK
  <2>3. CASE d = c
    BY <2>1, <2>2, <2>3 DEF ConnStep, Returned
  <2>4. CASE d # c
    BY <2>2, <2>4 DEF ConnStep, Untouched
  <2> QED
    BY <2>3, <2>4
<1>31. ASSUME NEW a \in Actors, NEW c \in Conns, AcceptLoop(a, c)
      PROVE  ConnStep(d)
  BY <1>31 DEF AcceptLoop, ConnStep, Untouched
<1>32. ASSUME NEW a \in Actors, NEW c \in Conns, CleanRemoves(a, c)
      PROVE  ConnStep(d)
  BY <1>32, RemovedConn DEF CleanRemoves, Closers
<1>33. ASSUME NEW c \in Conns, CloserTakes(c)
      PROVE  ConnStep(d)
  <2>1. /\ closer[c].pc = "lock" /\ lock[c] = None /\ UNCHANGED <<call, entry, lock, reader, told>>
        /\ stream'[c] = "closed" /\ \A e \in Conns : e # c => stream'[e] = stream[e]
    BY <1>33 DEF CloserTakes, TypeOK
  <2>2. CASE d = c
    BY <2>1, <2>2 DEF ConnStep, Closed
  <2>3. CASE d # c
    BY <2>1, <2>3 DEF ConnStep, Untouched
  <2> QED
    BY <2>2, <2>3
<1>34. ASSUME NEW c \in Conns, CloserShuts(c)
      PROVE  ConnStep(d)
  BY <1>34 DEF CloserShuts, ConnStep, Untouched
<1>35. ASSUME NEW c \in Conns, AcceptInserts(c)
      PROVE  ConnStep(d)
  <2>1. /\ accept[c].pc = "handshake" /\ accept[c].by \in Actors /\ stream[c] = "none"
        /\ UNCHANGED <<call, lock, closer, reader, clean, told>>
    BY <1>35 DEF AcceptInserts, Tasked, NewConns
  <2>2. /\ entry'[c] # None /\ entry'[c].mode = "Passive"
        /\ \A e \in Conns : e # c => entry'[e] = entry[e]
    BY <1>35, <2>1, NewEntry DEF AcceptInserts
  <2>3. stream'[c] \in Full /\ \A e \in Conns : e # c => stream'[e] = stream[e]
    BY <1>35 DEF AcceptInserts, TypeOK, Full
  <2>4. accept'[c].pc # "handshake"
    BY <1>35 DEF AcceptInserts, TypeOK, AcceptStates
  <2>5. CASE d = c
    BY <2>1, <2>2, <2>3, <2>4, <2>5 DEF ConnStep, Inserted
  <2>6. CASE d # c
    BY <2>1, <2>2, <2>3, <2>6 DEF ConnStep, Untouched
  <2> QED
    BY <2>5, <2>6
<1>36. ASSUME NEW c \in Conns, HandshakeFails(c)
      PROVE  ConnStep(d)
  BY <1>36 DEF HandshakeFails, ConnStep, Untouched
<1>37. ASSUME NEW c \in Conns, AcceptDrops(c)
      PROVE  ConnStep(d)
  <2>1. /\ entry'[c] = None /\ \A e \in Conns : e # c => entry'[e] = entry[e]
        /\ UNCHANGED <<stream, reader>>
    BY <1>37 DEF AcceptDrops, TypeOK
  <2>2. CASE d = c
    BY <2>1, <2>2 DEF ConnStep, Removed
  <2>3. CASE d # c
    BY <2>1, <2>3 DEF ConnStep, Untouched
  <2> QED
    BY <2>2, <2>3
<1>38. ASSUME NEW c \in Conns, ReaderChunk(c)
      PROVE  ConnStep(d)
  <2>1. reader[c].pc = "read" /\ reader[c].once \in BOOLEAN /\ UNCHANGED <<entry, stream>>
    BY <1>38 DEF ReaderChunk, TypeOK, ReaderStates
  <2>2. PICK p \in {"read", "wait", "last", "remove", "passive"} :
           /\ reader' = [reader EXCEPT ![c].pc = p]
           /\ p = "passive" => reader[c].once
    BY <1>38 DEF ReaderChunk, DataDone, TypeOK
  <2>3. CASE d = c
    BY <2>1, <2>2, <2>3, ReaderMoves DEF ConnStep, ReadOn
  <2>4. CASE d # c
    BY <2>1, <2>2, <2>4, ReaderMoves DEF ConnStep, Untouched
  <2> QED
    BY <2>3, <2>4
<1>39. ASSUME NEW c \in Conns, ReaderEnd(c)
      PROVE  ConnStep(d)
  <2>1. reader[c].pc = "read" /\ reader[c].once \in BOOLEAN /\ UNCHANGED <<entry, stream>>
    BY <1>39 DEF ReaderEnd, TypeOK, ReaderStates
  <2>2. PICK p \in {"read", "wait", "last", "remove", "passive"} :
           /\ reader' = [reader EXCEPT ![c].pc = p]
           /\ p = "passive" => reader[c].once
    BY <1>39 DEF ReaderEnd, DataDone, TypeOK
  <2>3. CASE d = c
    BY <2>1, <2>2, <2>3, ReaderMoves DEF ConnStep, ReadOn
  <2>4. CASE d # c
    BY <2>1, <2>2, <2>4, ReaderMoves DEF ConnStep, Untouched
  <2> QED
    BY <2>3, <2>4
<1>40. ASSUME NEW c \in Conns, ReaderCancelled(c)
      PROVE  ConnStep(d)
  <2>1. reader[c].pc = "read" /\ reader[c].once \in BOOLEAN /\ UNCHANGED <<entry, stream>>
    BY <1>40 DEF ReaderCancelled, TypeOK, ReaderStates
  <2>2. PICK p \in {"read", "wait", "last", "remove", "passive"} :
           /\ reader' = [reader EXCEPT ![c].pc = p]
           /\ p = "passive" => reader[c].once
    BY <1>40 DEF ReaderCancelled, DataDone, TypeOK
  <2>3. CASE d = c
    BY <2>1, <2>2, <2>3, ReaderMoves DEF ConnStep, ReadOn
  <2>4. CASE d # c
    BY <2>1, <2>2, <2>4, ReaderMoves DEF ConnStep, Untouched
  <2> QED
    BY <2>3, <2>4
<1>41. ASSUME NEW c \in Conns, ReaderRemoves(c)
      PROVE  ConnStep(d)
  <2>1. /\ reader[c].pc = "remove" /\ reader' = [reader EXCEPT ![c].pc = "done"]
        /\ RemoveEntry(c, <<"reader", c>>) /\ stream' = stream
    BY <1>41 DEF ReaderRemoves
  <2>2. /\ reader'[c].pc = "done" /\ reader'[c].by = reader[c].by
        /\ \A e \in Conns : e # c => reader'[e] = reader[e]
    BY <2>1, ReaderMoves
  <2>3. entry'[c] = None /\ \A e \in Conns : e # c => entry'[e] = entry[e]
    BY <2>1, RemoveTypes DEF Closers
  <2>4. CASE d = c
    BY <2>1, <2>2, <2>3, <2>4 DEF ConnStep, Removed
  <2>5. CASE d # c
    BY <2>1, <2>2, <2>3, <2>5 DEF ConnStep, Untouched
  <2> QED
    BY <2>4, <2>5
<1>42. ASSUME NEW c \in Conns, ReaderOnce(c)
      PROVE  ConnStep(d)
  <2>1. /\ reader[c].pc = "passive" /\ reader' = [reader EXCEPT ![c].pc = "done"]
        /\ UNCHANGED <<call, stream, lock, told>>
    BY <1>42 DEF ReaderOnce
  <2>2. /\ reader'[c].pc = "done" /\ reader'[c].by = reader[c].by
        /\ reader'[c].once = reader[c].once /\ \A e \in Conns : e # c => reader'[e] = reader[e]
    BY <2>1, ReaderMoves
  <2>3. /\ IF entry[c] = None
           THEN entry'[c] = None
           ELSE /\ entry'[c] # None /\ entry'[c].mode = "Passive"
                /\ entry'[c].owner = entry[c].owner /\ entry'[c].state = entry[c].state
        /\ \A e \in Conns : e # c => entry'[e] = entry[e]
    <3>1. CASE entry[c] = None
      BY <1>42, <3>1 DEF ReaderOnce, TypeOK
    <3>2. CASE entry[c] # None
      <4>1. entry' = [entry EXCEPT ![c].mode = "Passive"]
        BY <1>42, <3>2 DEF ReaderOnce
      <4> QED
        BY <3>2, <4>1, EntryMode
    <3> QED
      BY <3>1, <3>2
  <2>4. CASE d = c
    BY <2>1, <2>2, <2>3, <2>4 DEF ConnStep, ReadOnce
  <2>5. CASE d # c
    BY <2>1, <2>2, <2>3, <2>5 DEF ConnStep, Untouched
  <2> QED
    BY <2>4, <2>5
<1>43. ASSUME NEW c \in Conns, PeerCloses(c)
      PROVE  ConnStep(d)
  BY <1>43 DEF PeerCloses, ConnStep, Untouched
<1>44. ASSUME NEW n \in Transfers, HandoffRemoves(n)
      PROVE  ConnStep(d)
  <2>1. xfer[n].conn \in Conns
    BY <1>44 DEF HandoffRemoves, TypeOK, HandoffStates
  <2> QED
    BY <1>44, <2>1, RemovedConn DEF HandoffRemoves, Closers
<1>45. ASSUME NEW op \in Operations, GiveUp(op)
      PROVE  ConnStep(d)
  BY <1>45, AnsweredConn DEF GiveUp
<1>46. CASE UNCHANGED vars
  BY <1>46 DEF vars, ConnStep, Untouched
<1> QED
  BY <1>1, <1>2, <1>3, <1>4, <1>5, <1>6, <1>7, <1>8, <1>9, <1>10, <1>11, <1>12, <1>13, <1>14,
     <1>15, <1>16, <1>17, <1>18, <1>19, <1>20, <1>21, <1>22, <1>23, <1>24, <1>25, <1>26, <1>27,
     <1>28, <1>29, <1>30, <1>31, <1>32, <1>33, <1>34, <1>35, <1>36, <1>37, <1>38, <1>39, <1>40,
     <1>41, <1>42, <1>43, <1>44, <1>45, <1>46
     DEF Next, ActorNext, HostNext, ConnNext

-----------------------------------------------------------------------------
(* Tasks.                                                                  *)

\* The task of an accepted connection begins with an id that was never used, runs for
\* one actor, and leaves the handshake for good.
AcceptStep(c) ==
    \/ accept'[c] = accept[c]
    \/ Fresh(c) /\ stream' = stream /\ accept'[c].by \in Actors
    \/ accept[c].pc # "none" /\ accept'[c].by = accept[c].by /\ accept'[c].pc # "handshake"

\* Whoever shuts a stream down has removed its entry.
CloserStep(c) ==
    \/ closer'[c].pc = closer[c].pc \/ closer[c].pc # "none"
    \/ entry[c] # None /\ entry'[c] = None

\* A clean-up collects its list, works it off, and ends when it is empty.
CleanStep(a) ==
    \/ clean'[a] = clean[a]
    \/ clean'[a].pc \in {"wait", "collect", "cut"} /\ clean'[a].mine = clean[a].mine
    \/ /\ clean'[a].pc = "next" /\ clean'[a].todo = clean'[a].mine
       /\ \A c \in clean'[a].mine : entry[c] # None
       /\ UNCHANGED stream
    \/ /\ clean[a].pc = "next" /\ clean'[a].pc = "next" /\ clean'[a].mine = clean[a].mine
       /\ \E c \in Conns : entry'[c] = None /\ clean'[a].todo = clean[a].todo \ {c}
    \/ /\ clean[a].pc = "next" /\ clean'[a].pc = "done" /\ clean'[a].mine = clean[a].mine
       /\ clean'[a].todo = {} /\ clean[a].todo = {}

\* What every step does to the task of an accepted connection.
LEMMA AcceptChange ==
    ASSUME TypeOK, Tasked, [Next]_vars, NEW d \in Conns
    PROVE  AcceptStep(d)
<1> USE DEF actorVars, tableVars, taskVars, peerVars
<1>1. ASSUME NEW a \in Actors, ActorNext(a)
      PROVE  accept' = accept \/ \E ops, ok : ok \in BOOLEAN /\ Answered(ops, ok)
  BY <1>1 DEF ActorNext, BeginCall, ClientCall, GuestReturns, GuestFails, HandlerStarts, Stop,
     OpLoopEnds, Abort,
     Gone, AcceptLoopEnds, CleanCollects, CleanEnds
<1>2. ASSUME NEW a \in Actors, HostNext(a)
      PROVE  accept' = accept \/ \E c \in Conns : AcceptLoop(a, c)
  BY <1>2, ZenonT(30) DEF HostNext, Connect, Listen, TransferReturns, Activate, Send, Receive, Upgrade,
     CloseConn, CloseReturns, SetActive, Transfer, TransferAsync, SendLocks, SendReturns,
     ReceiveLocks, ReceiveChunk, ReceiveEnd, UpgradeLocks, UpgradeReturns, CleanRemoves
<1>3. ASSUME NEW c \in Conns, ConnNext(c)
      PROVE  accept' = accept \/ AcceptInserts(c) \/ HandshakeFails(c) \/ AcceptDrops(c)
  BY <1>3 DEF ConnNext, CloserTakes, CloserShuts, ReaderChunk, ReaderEnd, ReaderCancelled,
     ReaderRemoves, ReaderOnce, PeerCloses
<1>4. ASSUME NEW n \in Transfers, HandoffRemoves(n)
      PROVE  accept' = accept
  BY <1>4 DEF HandoffRemoves
<1>5. ASSUME NEW op \in Operations, GiveUp(op)
      PROVE  \E ops, ok : ok \in BOOLEAN /\ Answered(ops, ok)
  BY <1>5 DEF GiveUp
<1>6. ASSUME NEW ops, NEW ok \in BOOLEAN, Answered(ops, ok)
      PROVE  AcceptStep(d)
  BY <1>6, AnsweredTasks DEF AcceptStep
<1>7. ASSUME NEW a \in Actors, NEW c \in Conns, AcceptLoop(a, c)
      PROVE  AcceptStep(d)
  BY <1>7 DEF AcceptLoop, AcceptStep, TypeOK
<1>8. ASSUME NEW c \in Conns, AcceptInserts(c) \/ HandshakeFails(c) \/ AcceptDrops(c)
      PROVE  AcceptStep(d)
  <2>1. PICK p \in {"wait", "drop", "done"} : accept' = [accept EXCEPT ![c].pc = p]
    BY <1>8 DEF AcceptInserts, HandshakeFails, AcceptDrops
  <2>2. accept[c].pc # "none"
    BY <1>8 DEF AcceptInserts, HandshakeFails, AcceptDrops
  <2> QED
    BY <2>1, <2>2, AcceptMoves DEF AcceptStep
<1> QED
  BY <1>1, <1>2, <1>3, <1>4, <1>5, <1>6, <1>7, <1>8 DEF Next, vars, AcceptStep

\* What every step does to the one that shuts a stream down.
LEMMA CloserChange ==
    ASSUME TypeOK, [Next]_vars, NEW d \in Conns
    PROVE  CloserStep(d)
<1> USE DEF actorVars, tableVars, taskVars, peerVars
<1>1. ASSUME NEW a \in Actors, ActorNext(a)
      PROVE  closer' = closer \/ Abort(a) \/ Gone(a)
  BY <1>1 DEF ActorNext, BeginCall, ClientCall, GuestReturns, GuestFails, HandlerStarts, Stop,
     OpLoopEnds,
     AcceptLoopEnds, CleanCollects, CleanEnds
<1>2. ASSUME NEW a \in Actors, HostNext(a)
      PROVE  closer' = closer \/ \E c \in Conns, w \in Closers : RemoveEntry(c, w)
  BY <1>2, ZenonT(30) DEF HostNext, Connect, Listen, TransferReturns, Activate, Send, Receive, Upgrade,
     CloseConn, CloseReturns, SetActive, Transfer, TransferAsync, SendLocks, SendReturns,
     ReceiveLocks, ReceiveChunk, ReceiveEnd, UpgradeLocks, UpgradeReturns, AcceptLoop,
     CleanRemoves, Closers
<1>3. ASSUME NEW c \in Conns, ConnNext(c)
      PROVE  \/ closer' = closer \/ \E w \in Closers : RemoveEntry(c, w)
             \/ CloserTakes(c) \/ CloserShuts(c) \/ AcceptDrops(c)
  BY <1>3 DEF ConnNext, AcceptInserts, HandshakeFails, ReaderChunk, ReaderEnd, ReaderCancelled,
     ReaderRemoves, ReaderOnce, PeerCloses, Closers
<1>4. ASSUME NEW n \in Transfers, HandoffRemoves(n)
      PROVE  \E c \in Conns, w \in Closers : RemoveEntry(c, w)
  BY <1>4 DEF HandoffRemoves, TypeOK, HandoffStates, Closers
<1>5. ASSUME NEW op \in Operations, GiveUp(op)
      PROVE  closer' = closer
  BY <1>5 DEF GiveUp
<1>6. ASSUME NEW a \in Actors, Abort(a) \/ Gone(a)
      PROVE  CloserStep(d)
  BY <1>6 DEF Abort, Gone, CloserStep
<1>7. ASSUME NEW c \in Conns, NEW w \in Closers, RemoveEntry(c, w)
      PROVE  CloserStep(d)
  BY <1>7, RemoveTypes DEF CloserStep
<1>8. ASSUME NEW c \in Conns, CloserTakes(c) \/ CloserShuts(c)
      PROVE  CloserStep(d)
  BY <1>8 DEF CloserTakes, CloserShuts, CloserStep, TypeOK
<1>9. ASSUME NEW c \in Conns, AcceptDrops(c)
      PROVE  CloserStep(d)
  <2>1. PICK p \in {"none", "lock", "shut", "done", "dropped"} :
          /\ closer' = [closer EXCEPT ![c].pc = p]
          /\ p = closer[c].pc \/ entry[c] # None
    BY <1>9 DEF AcceptDrops, TypeOK, CloserStates
  <2>2. entry'[c] = None
    BY <1>9 DEF AcceptDrops, TypeOK
  <2> QED
    BY <2>1, <2>2, CloserMoves DEF CloserStep
<1> QED
  BY <1>1, <1>2, <1>3, <1>4, <1>5, <1>6, <1>7, <1>8, <1>9 DEF Next, vars, CloserStep

\* What every step does to a clean-up.
LEMMA CleanChange ==
    ASSUME TypeOK, [Next]_vars, NEW b \in Actors
    PROVE  CleanStep(b)
<1> USE DEF actorVars, tableVars, taskVars, peerVars
<1>1. ASSUME NEW a \in Actors, ActorNext(a)
      PROVE  clean' = clean \/ HandlerStarts(a) \/ Stop(a) \/ Gone(a) \/ CleanCollects(a) \/ CleanEnds(a)
  BY <1>1 DEF ActorNext, BeginCall, ClientCall, GuestReturns, GuestFails, OpLoopEnds, Abort,
     AcceptLoopEnds
<1>2. ASSUME NEW a \in Actors, HostNext(a)
      PROVE  clean' = clean \/ \E c \in Conns : CleanRemoves(a, c)
  BY <1>2, ZenonT(30) DEF HostNext, Connect, Listen, TransferReturns, Activate, Send, Receive, Upgrade,
     CloseConn, CloseReturns, SetActive, Transfer, TransferAsync, SendLocks, SendReturns,
     ReceiveLocks, ReceiveChunk, ReceiveEnd, UpgradeLocks, UpgradeReturns, AcceptLoop
<1>3. ASSUME NEW c \in Conns, ConnNext(c)
      PROVE  clean' = clean
  BY <1>3 DEF ConnNext, CloserTakes, CloserShuts, AcceptInserts, HandshakeFails, AcceptDrops,
     ReaderChunk, ReaderEnd, ReaderCancelled, ReaderRemoves, ReaderOnce, PeerCloses
<1>4. ASSUME NEW n \in Transfers, HandoffRemoves(n)
      PROVE  clean' = clean
  BY <1>4 DEF HandoffRemoves
<1>5. ASSUME NEW op \in Operations, GiveUp(op)
      PROVE  clean' = clean
  BY <1>5 DEF GiveUp
<1>6. ASSUME NEW a \in Actors, HandlerStarts(a) \/ Stop(a)
      PROVE  CleanStep(b)
  BY <1>6, CleanMoves DEF HandlerStarts, Stop, CleanStep
<1>7. ASSUME NEW a \in Actors, Gone(a)
      PROVE  CleanStep(b)
  <2>1. CASE clean[a].pc = "done"
    BY <1>7, <2>1 DEF Gone, CleanStep, TypeOK, CleanStates
  <2>2. CASE clean[a].pc # "done"
    BY <1>7, <2>2, CleanMoves DEF Gone, CleanStep
  <2> QED
    BY <2>1, <2>2
<1>8. ASSUME NEW a \in Actors, CleanCollects(a)
      PROVE  CleanStep(b)
  BY <1>8 DEF CleanCollects, CleanStep, TypeOK, Owned
<1>9. ASSUME NEW a \in Actors, NEW c \in Conns, CleanRemoves(a, c)
      PROVE  CleanStep(b)
  <2>1. entry'[c] = None
    BY <1>9, RemoveTypes DEF CleanRemoves, Closers
  <2>2. /\ clean[a].pc = "next" /\ clean'[a].pc = "next" /\ clean'[a].mine = clean[a].mine
        /\ clean'[a].todo = clean[a].todo \ {c} /\ \A e \in Actors : e # a => clean'[e] = clean[e]
    BY <1>9 DEF CleanRemoves, TypeOK, CleanStates
  <2> QED
    BY <2>1, <2>2 DEF CleanStep
<1>10. ASSUME NEW a \in Actors, CleanEnds(a)
       PROVE  CleanStep(b)
  BY <1>10, CleanMoves DEF CleanEnds, CleanStep
<1> QED
  BY <1>1, <1>2, <1>3, <1>4, <1>5, <1>6, <1>7, <1>8, <1>9, <1>10 DEF Next, vars, CleanStep

\* The steps that put an operation into a channel, take one out, read a chunk or give
\* one to a guest.
HistoryStep ==
    \/ UNCHANGED <<queue, told, taken>>
    \/ \E a \in Actors : BeginCall(a) \/ OpLoopEnds(a)
    \/ \E a \in Actors, op \in Operations :
         op.by # "reader" /\ Post(a, op) /\ UNCHANGED <<told, taken>>
    \/ \E c \in Conns : ReaderChunk(c) \/ ReaderEnd(c)
    \/ \E a \in Actors, c \in Conns : ReceiveChunk(a, c)

\* Every step is one of those, or leaves channels, chunks and guests alone.
LEMMA HistoryChange ==
    ASSUME TypeOK, Tasked, [Next]_vars
    PROVE  HistoryStep
<1> USE DEF actorVars, tableVars, taskVars, peerVars
<1>1. ASSUME NEW a \in Actors, ActorNext(a)
      PROVE  UNCHANGED <<queue, told, taken>> \/ BeginCall(a) \/ OpLoopEnds(a)
  BY <1>1 DEF ActorNext, ClientCall, GuestReturns, GuestFails, HandlerStarts, Stop, Abort,
     Gone, AcceptLoopEnds,
     CleanCollects, CleanEnds
<1>2. ASSUME NEW a \in Actors, HostNext(a)
      PROVE  \/ UNCHANGED <<queue, told, taken>>
             \/ \E c \in Conns : ReceiveChunk(a, c)
             \/ \E c \in Conns, b \in Actors : Transfer(a, c, b) \/ TransferAsync(a, c, b)
  BY <1>2 DEF HostNext, Connect, Listen, TransferReturns, Activate, Send, Receive, Upgrade,
     CloseConn, CloseReturns, SetActive, SendLocks, SendReturns, ReceiveLocks, ReceiveEnd,
     UpgradeLocks, UpgradeReturns, AcceptLoop, CleanRemoves
<1>3. ASSUME NEW c \in Conns, ConnNext(c)
      PROVE  \/ UNCHANGED <<queue, told, taken>>
             \/ AcceptInserts(c) \/ ReaderChunk(c) \/ ReaderEnd(c)
  BY <1>3 DEF ConnNext, CloserTakes, CloserShuts, HandshakeFails, AcceptDrops, ReaderCancelled,
     ReaderRemoves, ReaderOnce, PeerCloses
<1>4. ASSUME NEW n \in Transfers, HandoffRemoves(n)
      PROVE  UNCHANGED <<queue, told, taken>>
  BY <1>4 DEF HandoffRemoves
<1>5. ASSUME NEW op \in Operations, GiveUp(op)
      PROVE  UNCHANGED <<queue, told, taken>>
  BY <1>5 DEF GiveUp
<1>6. ASSUME NEW a \in Actors, NEW c \in Conns, NEW b \in Actors,
             Transfer(a, c, b) \/ TransferAsync(a, c, b)
      PROVE  HistoryStep
  <2>1. PICK n \in Transfers : Post(b, [by |-> "xfer", n |-> n])
    BY <1>6 DEF Transfer, TransferAsync, HandOver
  <2>2. UNCHANGED <<told, taken>>
    BY <1>6 DEF Transfer, TransferAsync
  <2> QED
    BY <2>1, <2>2, OperationTypes DEF HistoryStep
<1>7. ASSUME NEW c \in Conns, AcceptInserts(c)
      PROVE  HistoryStep
  BY <1>7, OperationTypes DEF AcceptInserts, HistoryStep, Tasked
<1> QED
  BY <1>1, <1>2, <1>3, <1>4, <1>5, <1>6, <1>7 DEF Next, vars, HistoryStep

\* A guest is given something of a stream by its read loop or by its own call.
LEMMA ToldChange ==
    ASSUME TypeOK, Tasked, Ordered, [Next]_vars, NEW d \in Conns
    PROVE  \/ told'[d] = told[d]
           \/ /\ UNCHANGED <<entry, stream, reader>>
              /\ reader[d].pc # "none" \/ \E a \in Actors : Working(a, d)
<1> USE DEF actorVars, tableVars, taskVars, peerVars
<1>1. ASSUME NEW a \in Actors, BeginCall(a)
      PROVE  told'[d] = told[d] \/ (UNCHANGED <<entry, stream, reader>> /\ reader[d].pc # "none")
  <2>1. PICK o : o = Head(queue[a])
    OBVIOUS
  <2>2. Len(queue[a]) \in Nat /\ Len(queue[a]) > 0 /\ o = queue[a][1]
    BY <1>1, <2>1 DEF BeginCall, TypeOK
  <2>3. o.by = "reader" => reader[o.conn].pc # "none" /\ o.conn \in Conns
    <3>1. 1 \in 1..Len(queue[a]) /\ o \in Operations
      BY <2>2 DEF TypeOK
    <3> QED
      BY <2>2, <3>1, OperationTypes DEF Ordered, Posted
  <2>4. told' = IF o.by = "reader" THEN [told EXCEPT ![o.conn] = Append(@, o.item)] ELSE told
    BY <1>1, <2>1 DEF BeginCall
  <2>5. UNCHANGED <<entry, stream, reader>>
    BY <1>1 DEF BeginCall
  <2> QED
    BY <2>3, <2>4, <2>5 DEF TypeOK
<1>2. ASSUME NEW a \in Actors, NEW c \in Conns, ReceiveChunk(a, c)
      PROVE  told'[d] = told[d] \/ (UNCHANGED <<entry, stream, reader>> /\ Working(a, d))
  BY <1>2 DEF ReceiveChunk, At, Working, AtStream, TypeOK
<1> QED
  BY <1>1, <1>2, HistoryChange DEF HistoryStep, OpLoopEnds, ReaderChunk, ReaderEnd

\* Every step keeps the tasks with their actors.
LEMMA TaskedStep ==
    ASSUME TypeOK, Tasked, NewConns, Exclusive, [Next]_vars
    PROVE  Tasked'
<1> SUFFICES ASSUME NEW d \in Conns
             PROVE  /\ accept'[d].pc # "none" => accept'[d].by \in Actors
                    /\ reader'[d].pc # "none" => reader'[d].by \in Actors
  BY DEF Tasked
<1>1. accept'[d].pc # "none" => accept'[d].by \in Actors
  BY AcceptChange DEF AcceptStep, Tasked
<1>2. reader'[d].pc # "none" => reader'[d].by \in Actors
  BY ConnChange DEF ConnStep, Inserted, GivenAway, Activated, Split, Removed, Closed, Lent,
     Returned, ReadOn, ReadOnce, Untouched, Tasked
<1> QED
  BY <1>1, <1>2

\* A connection that has left the table does not come back, and a stream that was never
\* made is made by an insertion only.
LEMMA NewStream ==
    ASSUME TypeOK, Tasked, NewConns, Exclusive, [Next]_vars, NEW d \in Conns
    PROVE  /\ stream'[d] = "none" => stream[d] = "none" /\ entry'[d] = None /\ reader'[d].pc = "none"
           /\ stream[d] = "none" => stream'[d] = "none" \/ accept'[d].pc # "handshake"
           /\ stream[d] # "none" /\ entry[d] = None => entry'[d] = None
<1>1. stream[d] = "none" => entry[d] = None /\ reader[d].pc = "none" /\ closer[d].pc = "none"
  BY DEF NewConns
<1>2. \A a \in Actors : At(a, "upgrading", d) => stream[d] # "none"
  BY DEF NewConns, At, Working, AtStream
<1> QED
  BY <1>1, <1>2, ConnChange DEF ConnStep, Inserted, GivenAway, Activated, Split, Removed, Closed,
     Lent,
     Returned, ReadOn, ReadOnce, Untouched, Full

\* Who is at work on a stream after a step was before it, or begins to.
LEMMA WorkingBefore ==
    ASSUME TypeOK, Exclusive, [Next]_vars, NEW a \in Actors, NEW d \in Conns, Working(a, d)'
    PROVE  \/ Working(a, d) /\ call'[a] = call[a] /\ lock'[d] = lock[d]
           \/ Starts(a, d) \/ Locks(a, d)
<1>1. CASE UNCHANGED <<call, lock>>
  BY <1>1 DEF Working
<1>2. ASSUME NEW b \in Actors, Leaves(b)
      PROVE  Working(a, d) /\ call'[a] = call[a] /\ lock'[d] = lock[d]
  <2>1. a # b /\ call'[a] = call[a] /\ Working(a, d)
    BY <1>2 DEF Leaves, Working
  <2>2. lock[d] # b
    BY <2>1, ConstantsAssumption DEF Exclusive
  <2> QED
    BY <1>2, <2>1, <2>2 DEF Leaves
<1>3. ASSUME NEW b \in Actors, NEW c \in Conns, Starts(b, c)
      PROVE  (Working(a, d) /\ call'[a] = call[a] /\ lock'[d] = lock[d]) \/ Starts(a, d)
  BY <1>3 DEF Starts, Working, tableVars
<1>4. ASSUME NEW b \in Actors, NEW c \in Conns, Locks(b, c)
      PROVE  (Working(a, d) /\ call'[a] = call[a] /\ lock'[d] = lock[d]) \/ Locks(a, d)
  <2>1. CASE a = b
    BY <1>4, <2>1 DEF Locks, Working
  <2>2. CASE a # b
    <3>1. call'[a] = call[a] /\ Working(a, d)
      BY <1>4, <2>2 DEF Locks, Working
    <3>2. d # c
      BY <1>4, <2>2, <3>1 DEF Exclusive, Locks
    <3> QED
      BY <1>4, <3>1, <3>2 DEF Locks, TypeOK
  <2> QED
    BY <2>1, <2>2
<1> QED
  BY <1>1, <1>2, <1>3, <1>4, CallChange DEF CallStep

\* Every step keeps connections that were never made apart from those that were.
LEMMA NewConnsStep ==
    ASSUME TypeOK, Tasked, NewConns, Exclusive, Ordered, [Next]_vars
    PROVE  NewConns'
<1> SUFFICES ASSUME NEW d \in Conns
             PROVE  /\ stream'[d] = "none" => /\ entry'[d] = None /\ reader'[d].pc = "none"
                                              /\ closer'[d].pc = "none" /\ told'[d] = <<>>
                    /\ accept'[d].pc = "handshake" => stream'[d] = "none"
                    /\ closer'[d].pc # "none" => entry'[d] = None
                    /\ \A a \in Actors : Working(a, d)' \/ d \in clean'[a].mine => stream'[d] # "none"
  BY DEF NewConns
<1>1. stream'[d] = "none" => /\ entry'[d] = None /\ reader'[d].pc = "none"
                             /\ closer'[d].pc = "none" /\ told'[d] = <<>>
  <2> SUFFICES ASSUME stream'[d] = "none"
               PROVE  /\ entry'[d] = None /\ reader'[d].pc = "none"
                      /\ closer'[d].pc = "none" /\ told'[d] = <<>>
    OBVIOUS
  <2>1. stream[d] = "none" /\ entry'[d] = None /\ reader'[d].pc = "none"
    BY NewStream
  <2>2. entry[d] = None /\ reader[d].pc = "none" /\ closer[d].pc = "none" /\ told[d] = <<>>
    BY <2>1 DEF NewConns
  <2>3. closer'[d].pc = "none"
    BY <2>2, CloserChange DEF CloserStep
  <2>4. told'[d] = <<>>
    BY <2>1, <2>2, ToldChange DEF NewConns
  <2> QED
    BY <2>1, <2>3, <2>4
<1>2. accept'[d].pc = "handshake" => stream'[d] = "none"
  BY AcceptChange, NewStream DEF AcceptStep, NewConns, Fresh
<1>3. closer'[d].pc # "none" => entry'[d] = None
  BY CloserChange, NewStream DEF CloserStep, NewConns
<1>4. ASSUME NEW a \in Actors, Working(a, d)'
      PROVE  stream'[d] # "none"
  <2>1. stream[d] # "none"
    BY <1>4, WorkingBefore DEF NewConns, Starts, Locks, Usable, Owned
  <2> QED
    BY <2>1, NewStream
<1>5. ASSUME NEW a \in Actors, d \in clean'[a].mine
      PROVE  stream'[d] # "none"
  <2>1. stream[d] # "none"
    BY <1>5, CleanChange DEF CleanStep, NewConns
  <2> QED
    BY <2>1, NewStream
<1> QED
  BY <1>1, <1>2, <1>3, <1>4, <1>5

\* Every step keeps the streams to their owners' calls.
LEMMA ExclusiveStep ==
    ASSUME TypeOK, Tasked, NewConns, Exclusive, [Next]_vars
    PROVE  Exclusive'
<1> SUFFICES ASSUME NEW d \in Conns
             PROVE  /\ \A a, b \in Actors : Working(a, d)' /\ Working(b, d)' => a = b
                    /\ \A a \in Actors : Working(a, d)' /\ entry'[d] # None =>
                         entry'[d].owner = a /\ entry'[d].state = "Active"
                    /\ lock'[d] # None => Working(lock[d], d)' /\ call'[lock'[d]].pc \in HoldsLock
                    /\ \A a \in Actors : Working(a, d)' /\ call'[a].pc \in HoldsLock => lock'[d] = a
  BY DEF Exclusive, Working
<1>1. ASSUME NEW a \in Actors, NEW b \in Actors, Working(a, d)', Working(b, d)'
      PROVE  a = b
  <2>1. Working(a, d) \/ Starts(a, d) \/ Locks(a, d)
    BY <1>1, WorkingBefore
  <2>2. Working(b, d) \/ Starts(b, d) \/ Locks(b, d)
    BY <1>1, WorkingBefore
  <2>3. ASSUME NEW e \in Actors, NEW f \in Actors, Starts(e, d), f # e, Working(f, d)'
        PROVE  FALSE
    <3>1. Working(f, d)
      BY <2>3 DEF Starts, Working
    <3> QED
      BY <2>3, <3>1 DEF Starts, Usable, Owned, Exclusive
  <2> QED
    BY <1>1, <2>1, <2>2, <2>3 DEF Exclusive, Locks
<1>2. ASSUME NEW a \in Actors, Working(a, d)', entry'[d] # None
      PROVE  entry'[d].owner = a /\ entry'[d].state = "Active"
  <2>1. CASE Starts(a, d)
    BY <2>1 DEF Starts, Usable, Owned, tableVars
  <2>2. CASE Locks(a, d)
    BY <1>2, <2>2 DEF Locks, Exclusive
  <2>3. CASE Working(a, d)
    <3>1. stream[d] # "none" /\ (entry[d] # None => entry[d].owner = a /\ entry[d].state = "Active")
      BY <2>3 DEF NewConns, Exclusive
    <3>2. entry[d] # None
      BY <1>2, <3>1, NewStream
    <3>3. ~InGuest(entry[d].owner)
      BY <2>3, <3>1, <3>2, GuestIdle
    <3> QED
      BY <1>2, <3>1, <3>2, <3>3, ConnChange DEF ConnStep, Inserted, GivenAway, Activated, Split,
         Removed, Closed, Lent, Returned, ReadOn, ReadOnce, Untouched
  <2> QED
    BY <1>2, <2>1, <2>2, <2>3, WorkingBefore
<1>3. ASSUME lock'[d] # None
      PROVE  /\ call'[lock'[d]] # None /\ call'[lock'[d]].conn = d
             /\ call'[lock'[d]].pc \in HoldsLock
  <2>1. CASE UNCHANGED <<call, lock>>
    BY <1>3, <2>1 DEF Exclusive, Working
  <2>2. ASSUME NEW b \in Actors, Leaves(b)
        PROVE  /\ call'[lock'[d]] # None /\ call'[lock'[d]].conn = d
               /\ call'[lock'[d]].pc \in HoldsLock
    <3>1. lock'[d] = lock[d] /\ lock[d] # b /\ lock[d] \in Actors
      BY <1>3, <2>2 DEF Leaves, TypeOK
    <3> QED
      BY <1>3, <2>2, <3>1 DEF Leaves, Exclusive, Working
  <2>3. ASSUME NEW b \in Actors, NEW c \in Conns, Starts(b, c)
        PROVE  /\ call'[lock'[d]] # None /\ call'[lock'[d]].conn = d
               /\ call'[lock'[d]].pc \in HoldsLock
    <3>1. lock'[d] = lock[d] /\ lock[d] \in Actors
      BY <1>3, <2>3 DEF Starts, TypeOK, tableVars
    <3>2. Working(lock[d], d) /\ call[lock[d]].pc \in HoldsLock /\ ~Working(b, d)
      BY <1>3, <2>3, <3>1, GuestIdle DEF Exclusive, Starts
    <3> QED
      BY <2>3, <3>1, <3>2 DEF Starts, Working
  <2>4. ASSUME NEW b \in Actors, NEW c \in Conns, Locks(b, c)
        PROVE  /\ call'[lock'[d]] # None /\ call'[lock'[d]].conn = d
               /\ call'[lock'[d]].pc \in HoldsLock
    <3>1. CASE d = c
      BY <2>4, <3>1 DEF Locks, TypeOK
    <3>2. CASE d # c
      <4>1. lock'[d] = lock[d] /\ lock[d] \in Actors
        BY <1>3, <2>4, <3>2 DEF Locks, TypeOK
      <4>2. Working(lock[d], d) /\ call[lock[d]].pc \in HoldsLock /\ ~Working(b, d)
        BY <1>3, <2>4, <3>2, <4>1 DEF Exclusive, Locks, Working
      <4> QED
        BY <2>4, <4>1, <4>2 DEF Locks, Working
    <3> QED
      BY <3>1, <3>2
  <2> QED
    BY <2>1, <2>2, <2>3, <2>4, CallChange DEF CallStep
<1>4. ASSUME NEW a \in Actors, Working(a, d)', call'[a].pc \in HoldsLock
      PROVE  lock'[d] = a
  <2>1. CASE Starts(a, d)
    BY <1>4, <2>1 DEF Starts, HoldsLock
  <2>2. CASE Locks(a, d)
    BY <2>2 DEF Locks, TypeOK
  <2>3. CASE Working(a, d) /\ call'[a] = call[a] /\ lock'[d] = lock[d]
    BY <1>4, <2>3 DEF Exclusive
  <2> QED
    BY <1>4, <2>1, <2>2, <2>3, WorkingBefore
<1> QED
  BY <1>1, <1>2, <1>3, <1>4 DEF Working, HoldsLock, AtStream

\* Every step keeps whole streams without read loops.
LEMMA WholeStep ==
    ASSUME TypeOK, Tasked, NewConns, Exclusive, Whole, [Next]_vars
    PROVE  Whole'
<1> USE DEF ConnStep, Inserted, GivenAway, Activated, Split, Removed, Closed, Lent, Returned,
            ReadOn, ReadOnce, Untouched
<1> SUFFICES ASSUME NEW d \in Conns
             PROVE  /\ stream'[d] \in Full => reader'[d].pc = "none"
                    /\ reader'[d].pc = "passive" => reader'[d].once
                    /\ \A a \in Actors : Working(a, d)' /\ call'[a].pc = "reading" =>
                         stream'[d] \in Full
                    /\ \A a \in Actors : Working(a, d)' /\ call'[a].pc = "upgrading" =>
                         stream'[d] = "closed" /\ reader'[d].pc = "none"
  BY DEF Whole
<1>1. stream[d] = "none" => reader[d].pc = "none"
  BY DEF NewConns
<1>2. stream[d] \in Full => reader[d].pc = "none"
  BY DEF Whole
<1>3. \A a \in Actors : At(a, "upgrading", d) => reader[d].pc = "none"
  BY DEF Whole, At, Working, AtStream
<1>4. stream'[d] \in Full => reader'[d].pc = "none"
  BY <1>1, <1>2, <1>3, ConnChange DEF Full
<1>5. reader'[d].pc = "passive" => reader'[d].once
  BY ConnChange DEF Whole
<1>6. ASSUME NEW a \in Actors, Working(a, d), call'[a] = call[a], call[a].pc \in {"reading",
             "upgrading"},
             Working(a, d)'
      PROVE  stream'[d] = stream[d] /\ (reader[d].pc = "none" => reader'[d].pc = "none")
  <2>1. lock[d] = a /\ lock[d] # None /\ stream[d] # "none"
    BY <1>6, ConstantsAssumption DEF Exclusive, HoldsLock, NewConns
  <2>2. ASSUME NEW b \in Actors, Locks(b, d)
        PROVE  FALSE
    BY <2>1, <2>2 DEF Locks
  <2>3. ASSUME NEW b \in Actors, At(b, "upgrading", d), Leaves(b)
        PROVE  FALSE
    <3>1. Working(b, d) /\ b = a
      BY <1>6, <2>3 DEF At, Working, AtStream, Exclusive
    <3> QED
      BY <1>6, <2>3, <3>1 DEF Leaves
  <2> QED
    BY <2>1, <2>2, <2>3, ConnChange
<1>7. ASSUME NEW a \in Actors, Working(a, d)', call'[a].pc = "reading"
      PROVE  stream'[d] \in Full
  <2>1. CASE Starts(a, d)
    BY <1>7, <2>1 DEF Starts
  <2>2. CASE Locks(a, d)
    BY <1>7, <2>2 DEF Locks
  <2>3. CASE Working(a, d) /\ call'[a] = call[a]
    BY <1>6, <1>7, <2>3 DEF Whole
  <2> QED
    BY <1>7, <2>1, <2>2, <2>3, WorkingBefore
<1>8. ASSUME NEW a \in Actors, Working(a, d)', call'[a].pc = "upgrading"
      PROVE  stream'[d] = "closed" /\ reader'[d].pc = "none"
  <2>1. CASE Starts(a, d)
    BY <1>8, <2>1 DEF Starts
  <2>2. CASE Locks(a, d)
    BY <1>2, <1>8, <2>2 DEF Locks, Full, taskVars
  <2>3. CASE Working(a, d) /\ call'[a] = call[a]
    BY <1>6, <1>8, <2>3 DEF Whole
  <2> QED
    BY <1>8, <2>1, <2>2, <2>3, WorkingBefore
<1> QED
  BY <1>4, <1>5, <1>7, <1>8

\* Every step keeps the table true to the streams.
LEMMA ModeStep ==
    ASSUME TypeOK, Tasked, NewConns, Exclusive, Whole, Ordered, StreamMatchesMode, [Next]_vars
    PROVE  StreamMatchesMode'
<1> USE DEF ConnStep, Inserted, GivenAway, Activated, Split, Removed, Closed, Lent, Returned,
            ReadOn, ReadOnce, Untouched
<1> SUFFICES ASSUME NEW d \in Conns, entry'[d] # None
             PROVE  /\ stream'[d] # "none"
                    /\ entry'[d].mode # "Passive" =>
                         /\ stream'[d] = "write"
                         /\ reader'[d].pc \in {"read", "wait", "last", "passive", "remove", "lost"}
                    /\ stream'[d] \in Full => reader'[d].pc = "none"
                    /\ stream'[d] = "write" /\ entry'[d].mode = "Passive" =>
                         reader'[d].once /\ reader'[d].pc = "done"
                    /\ entry'[d].state = "Pending" => reader'[d].pc = "none" /\ told'[d] = <<>>
  BY DEF StreamMatchesMode
<1>1. stream'[d] # "none"
  BY NewStream
<1>2. stream'[d] \in Full => reader'[d].pc = "none"
  <2>1. Whole'
    BY WholeStep
  <2> QED
    BY <2>1 DEF Whole
<1>3. closer[d].pc # "lock" \/ entry[d] = None
  BY DEF NewConns
<1>4. \A a \in Actors : At(a, "upgrading", d) => stream[d] = "closed"
  BY DEF Whole, At, Working, AtStream
<1>5. entry[d] # None =>
        /\ entry[d].mode # "Passive" =>
             /\ stream[d] = "write"
             /\ reader[d].pc \in {"read", "wait", "last", "passive", "remove", "lost"}
        /\ stream[d] = "write" /\ entry[d].mode = "Passive" => reader[d].once /\ reader[d].pc = "done"
        /\ entry[d].state = "Pending" => reader[d].pc = "none" /\ told[d] = <<>>
  BY DEF StreamMatchesMode
<1>6. entry'[d].mode # "Passive" =>
        stream'[d] = "write" /\ reader'[d].pc \in {"read", "wait", "last", "passive", "remove", "lost"}
  BY <1>3, <1>4, <1>5, ConnChange
<1>7. stream'[d] = "write" /\ entry'[d].mode = "Passive" => reader'[d].once /\ reader'[d].pc = "done"
  BY <1>3, <1>4, <1>5, ConnChange DEF Full, Whole
<1>8. stream[d] = "none" => reader[d].pc = "none" /\ told[d] = <<>>
  BY DEF NewConns
<1>9. entry'[d].state = "Pending" =>
        /\ reader'[d].pc = "none" /\ told[d] = <<>>
        /\ (entry[d] # None /\ entry'[d] = entry[d]) \/ told'[d] = told[d]
  BY <1>3, <1>5, <1>8, ConnChange
<1>10. entry'[d].state = "Pending" => told'[d] = <<>>
  BY <1>5, <1>9, ToldChange DEF Exclusive
<1> QED
  BY <1>1, <1>2, <1>6, <1>7, <1>9, <1>10

\* Every step keeps the clean-ups true to their lists.
LEMMA CleanupStep ==
    ASSUME TypeOK, Tasked, NewConns, Exclusive, CleanupInv, [Next]_vars
    PROVE  CleanupInv'
<1> SUFFICES ASSUME NEW a \in Actors, clean'[a].pc \in {"next", "done"}
             PROVE  /\ \A c \in clean'[a].mine \ clean'[a].todo : entry'[c] = None
                    /\ clean'[a].pc = "done" => clean'[a].todo = {}
  BY DEF CleanupInv
<1>1. clean'[a].pc = "done" => clean'[a].todo = {}
  BY CleanChange DEF CleanStep, CleanupInv
<1>2. ASSUME NEW c \in clean'[a].mine, c \notin clean'[a].todo
      PROVE  entry'[c] = None
  <2>1. entry'[c] = None \/ (c \in clean[a].mine /\ entry[c] = None)
    BY <1>2, CleanChange DEF CleanStep, CleanupInv
  <2>2. c \in clean[a].mine => c \in Conns /\ stream[c] # "none"
    BY DEF TypeOK, CleanStates, NewConns
  <2> QED
    BY <2>1, <2>2, NewStream
<1> QED
  BY <1>1, <1>2

\* The places of a channel without its first operation.
LEMMA TailPlaces ==
    ASSUME NEW S, NEW q \in Seq(S), q # <<>>
    PROVE  /\ 1 \in 1..Len(q) /\ Head(q) = q[1]
           /\ \A k \in 1..Len(Tail(q)) : k + 1 \in 1..Len(q) /\ k + 1 > 1 /\ Tail(q)[k] = q[k + 1]
  OBVIOUS

\* The places of a channel, or of what a guest was given, with one more at its end.
LEMMA AppendPlaces ==
    ASSUME NEW S, NEW q \in Seq(S), NEW o \in S
    PROVE  /\ \A k \in 1..Len(Append(q, o)) :
                \/ k \in 1..Len(q) /\ Append(q, o)[k] = q[k]
                \/ k = Len(q) + 1 /\ Append(q, o)[k] = o
           /\ \A k \in 1..Len(q) : k < Len(q) + 1
  OBVIOUS

\* What was read of a stream stays read.
LEMMA WasReadStays ==
    ASSUME TypeOK, Tasked, NewConns, Exclusive, Whole, [Next]_vars, NEW d \in Conns,
           NEW i \in Items,
           taken'[d] >= taken[d], WasRead(d, i)
    PROVE  WasRead(d, i)'
<1>1. reader[d].pc \in {"last", "remove", "done"} => reader'[d].pc \in {"last", "remove", "done"}
  BY ConnChange DEF ConnStep, Inserted, GivenAway, Activated, Split, Removed, Closed, Lent,
     Returned, ReadOn, ReadOnce, Untouched, Whole
<1>2. taken[d] \in Nat /\ taken'[d] \in Nat /\ i \in Nat
  <2>1. TypeOK'
    BY TypeStep
  <2> QED
    BY <2>1 DEF TypeOK, Items
<1>3. i <= taken[d] => i <= taken'[d]
  BY <1>2
<1> QED
  BY <1>1, <1>3 DEF WasRead

\* So does an operation that brings it, as long as guests are given nothing.
LEMMA PostedStays ==
    ASSUME TypeOK, Tasked, NewConns, Exclusive, Whole, [Next]_vars,
           \A c \in Conns : taken'[c] >= taken[c],
           NEW a \in Actors, NEW o \in Operations, Posted(a, o),
           o.by = "reader" => told'[o.conn] = told[o.conn]
    PROVE  Posted(a, o)'
<1> SUFFICES ASSUME o.by = "reader"
             PROVE  Posted(a, o)'
  BY DEF Posted
<1>1. o.conn \in Conns /\ o.item \in Items
  BY OperationTypes
<1>2. reader[o.conn].pc # "none" => reader'[o.conn].pc # "none" /\ reader'[o.conn].by = reader[o.conn].by
  BY <1>1, ConnChange DEF ConnStep, Inserted, GivenAway, Activated, Split, Removed, Closed, Lent,
     Returned, ReadOn, ReadOnce, Untouched, Whole
<1>3. WasRead(o.conn, o.item)'
  BY <1>1, WasReadStays DEF Posted
<1> QED
  BY <1>1, <1>2, <1>3 DEF Posted

\* A channel that gets an operation at its end.
LEMMA PostedLast ==
    ASSUME TypeOK, Tasked, NewConns, Exclusive, Whole, Ordered, [Next]_vars,
           \A c \in Conns : taken'[c] >= taken[c], told' = told,
           NEW a \in Actors, NEW o \in Operations, Post(a, o), Posted(a, o)',
           \A k \in 1..Len(queue[a]) : Precedes(queue[a][k], o)
    PROVE  Ordered'
<1>1. ASSUME NEW c \in Conns, NEW i \in 1..Len(told'[c])
      PROVE  WasRead(c, told[c][i])'
  <2>1. told'[c] = told[c] /\ told[c][i] \in Items
    BY <1>1 DEF TypeOK
  <2> QED
    BY <1>1, <2>1, WasReadStays DEF Ordered
<1>2. ASSUME NEW b \in Actors, NEW k \in 1..Len(queue'[b])
      PROVE  Posted(b, queue[b][k])'
  <2>1. CASE k \in 1..Len(queue[b]) /\ queue'[b][k] = queue[b][k]
    <3>1. PICK p \in Operations : p = queue[b][k]
      BY <2>1 DEF TypeOK
    <3>2. Posted(b, p)
      BY <2>1, <3>1 DEF Ordered
    <3>3. Posted(b, p)'
      BY <3>2, PostedStays
    <3>4. p = queue'[b][k]
      BY <2>1, <3>1
    <3> QED
      BY <3>3, <3>4 DEF Posted
  <2>2. CASE b = a /\ queue'[b][k] = o
    BY <2>2 DEF Posted
  <2> QED
    BY <1>2, <2>1, <2>2, AppendPlaces DEF Post, TypeOK
<1>3. ASSUME NEW b \in Actors, NEW k \in 1..Len(queue'[b]), NEW l \in 1..Len(queue'[b]), k < l
      PROVE  Precedes(queue'[b][k], queue'[b][l])
  <2>1. CASE b # a \/ ~TakesOps(a)
    <3>1. queue'[b] = queue[b]
      BY <2>1 DEF Post, TypeOK
    <3> QED
      BY <1>3, <3>1 DEF Ordered
  <2>2. CASE b = a /\ TakesOps(a)
    <3>1. queue'[b] = Append(queue[b], o) /\ queue[b] \in Seq(Operations)
      BY <2>2 DEF Post, TypeOK
    <3>2. /\ k \in 1..Len(queue[b]) /\ queue'[b][k] = queue[b][k]
          /\ \/ l \in 1..Len(queue[b]) /\ queue'[b][l] = queue[b][l]
             \/ queue'[b][l] = o
      BY <1>3, <3>1, AppendPlaces
    <3> QED
      BY <1>3, <2>2, <3>2 DEF Ordered
  <2> QED
    BY <2>1, <2>2
<1> QED
  BY <1>1, <1>2, <1>3 DEF Ordered, Precedes

\* Guests are given what follows what they were given, of one connection.
LEMMA GivenNext ==
    ASSUME TypeOK, Ordered, DeliveredInOrder, NEW c \in Conns, NEW i \in Items,
           \A k \in 1..Len(told[c]) : told[c][k] < i,
           told' = [told EXCEPT ![c] = Append(@, i)]
    PROVE  DeliveredInOrder'
<1> SUFFICES ASSUME NEW d \in Conns, NEW k \in 1..Len(told'[d]), NEW l \in 1..Len(told'[d]), k < l
             PROVE  told'[d][k] < told'[d][l]
  BY DEF DeliveredInOrder
<1>1. CASE d # c
  <2>1. told'[d] = told[d]
    BY <1>1 DEF TypeOK
  <2> QED
    BY <2>1 DEF DeliveredInOrder
<1>2. CASE d = c
  <2>1. told'[d] = Append(told[d], i) /\ told[d] \in Seq(Items)
    BY <1>2 DEF TypeOK
  <2>2. /\ k \in 1..Len(told[d]) /\ told'[d][k] = told[d][k]
        /\ \/ l \in 1..Len(told[d]) /\ told'[d][l] = told[d][l]
           \/ told'[d][l] = i
    BY <2>1, AppendPlaces
  <2> QED
    BY <1>2, <2>2 DEF DeliveredInOrder
<1> QED
  BY <1>1, <1>2

\* A call is begun with the first operation of the channel.
LEMMA BeginOrdered ==
    ASSUME TypeOK, Tasked, NewConns, Exclusive, Whole, Ordered, DeliveredInOrder, [Next]_vars,
           NEW a \in Actors, BeginCall(a)
    PROVE  Ordered' /\ DeliveredInOrder'
<1>1. PICK o : o = Head(queue[a])
  OBVIOUS
<1>2. /\ queue[a] \in Seq(Operations) /\ queue[a] # <<>>
      /\ queue' = [queue EXCEPT ![a] = Tail(queue[a])]
      /\ told' = IF o.by = "reader" THEN [told EXCEPT ![o.conn] = Append(@, o.item)] ELSE told
      /\ taken' = taken /\ reader' = reader
  BY <1>1 DEF BeginCall, TypeOK, taskVars
<1>3. o \in Operations /\ o = queue[a][1] /\ 1 \in 1..Len(queue[a]) /\ Posted(a, o)
  BY <1>1, <1>2, TailPlaces DEF Ordered
<1>4. \A c \in Conns : taken'[c] >= taken[c]
  BY <1>2 DEF TypeOK
<1>5. o.by = "reader" => o.conn \in Conns /\ o.item \in Items
  BY <1>3, OperationTypes
<1>6. \A k \in 1..Len(queue'[a]) : /\ k + 1 \in 1..Len(queue[a]) /\ k + 1 > 1
                                   /\ queue'[a][k] = queue[a][k + 1]
  <2>1. queue'[a] = Tail(queue[a])
    BY <1>2 DEF TypeOK
  <2> QED
    BY <1>2, <2>1, TailPlaces, ZenonT(30)
<1>7. \A b \in Actors : b # a => queue'[b] = queue[b]
  BY <1>2 DEF TypeOK
<1>8. DeliveredInOrder'
  <2>1. CASE o.by = "reader"
    BY <1>2, <1>3, <1>5, <2>1, GivenNext DEF Posted
  <2>2. CASE o.by # "reader"
    BY <1>2, <2>2 DEF DeliveredInOrder
  <2> QED
    BY <2>1, <2>2
<1>9. ASSUME NEW c \in Conns, NEW i \in 1..Len(told'[c])
      PROVE  WasRead(c, told[c][i])'
  <2>1. told[c] \in Seq(Items)
    BY DEF TypeOK
  <2>2. (i \in 1..Len(told[c]) /\ told'[c][i] = told[c][i])
        \/ (o.by = "reader" /\ o.conn = c /\ told'[c][i] = o.item)
    BY <1>2, <1>5, <1>9, <2>1, AppendPlaces DEF TypeOK
  <2>3. CASE i \in 1..Len(told[c]) /\ told'[c][i] = told[c][i]
    BY <1>2, <2>3 DEF Ordered, WasRead
  <2>4. CASE o.by = "reader" /\ o.conn = c /\ told'[c][i] = o.item
    BY <1>2, <1>3, <2>4 DEF Posted, WasRead
  <2> QED
    BY <2>2, <2>3, <2>4
<1>10. ASSUME NEW b \in Actors, NEW k \in 1..Len(queue'[b])
       PROVE  Posted(b, queue[b][k])'
  <2>1. PICK j \in 1..Len(queue[b]) : queue'[b][k] = queue[b][j] /\ (b = a => j > 1)
    BY <1>6, <1>7, <1>10
  <2>2. PICK p \in Operations : p = queue[b][j]
    BY DEF TypeOK
  <2>3. Posted(b, p)
    BY <2>2 DEF Ordered
  <2>4. CASE p.by = "reader" /\ o.by = "reader" /\ p.conn = o.conn
    <3>1. b = a
      BY <1>3, <2>3, <2>4 DEF Posted
    <3>2. o.item < p.item
      BY <1>3, <2>1, <2>2, <2>4, <3>1 DEF Ordered, Precedes
    <3>3. told'[p.conn] = Append(told[p.conn], o.item) /\ told[p.conn] \in Seq(Items)
      BY <1>2, <1>5, <2>4 DEF TypeOK
    <3>4. \A i \in 1..Len(told'[p.conn]) : told'[p.conn][i] < p.item
      BY <1>5, <2>3, <2>4, <3>2, <3>3, AppendPlaces DEF Posted
    <3>5. Posted(b, p)'
      BY <1>2, <2>3, <2>4, <3>4 DEF Posted, WasRead
    <3> QED
      BY <2>1, <2>2, <3>5 DEF Posted
  <2>5. CASE ~(p.by = "reader" /\ o.by = "reader" /\ p.conn = o.conn)
    <3>1. p.by = "reader" => told'[p.conn] = told[p.conn]
      BY <1>2, <1>5, <2>2, <2>5, OperationTypes DEF TypeOK
    <3>2. Posted(b, p)'
      BY <1>4, <2>3, <3>1, PostedStays
    <3> QED
      BY <2>1, <2>2, <3>2 DEF Posted
  <2> QED
    BY <2>4, <2>5
<1>11. ASSUME NEW b \in Actors, NEW k \in 1..Len(queue'[b]), NEW l \in 1..Len(queue'[b]), k < l
       PROVE  Precedes(queue'[b][k], queue'[b][l])
  <2>1. CASE b # a
    BY <1>7, <1>11, <2>1 DEF Ordered
  <2>2. CASE b = a
    BY <1>6, <1>11, <2>2 DEF Ordered
  <2> QED
    BY <2>1, <2>2
<1> QED
  BY <1>8, <1>9, <1>10, <1>11 DEF Ordered, Precedes

\* A call reads a chunk itself: then there is no read loop, and nothing of one.
LEMMA ReceiveOrdered ==
    ASSUME TypeOK, Tasked, NewConns, Exclusive, Whole, Ordered, DeliveredInOrder, [Next]_vars,
           NEW a \in Actors, NEW c \in Conns, ReceiveChunk(a, c)
    PROVE  Ordered' /\ DeliveredInOrder'
<1>1. /\ queue' = queue /\ reader' = reader /\ taken[c] < MaxChunks
      /\ taken' = [taken EXCEPT ![c] = @ + 1]
      /\ told' = [told EXCEPT ![c] = Append(@, taken[c] + 1)]
  BY DEF ReceiveChunk, taskVars
<1>2. reader[c].pc = "none"
  BY DEF ReceiveChunk, At, Working, AtStream, Whole
<1>3. taken[c] \in 0..MaxChunks /\ taken[c] + 1 \in Items /\ taken[c] + 1 \in Nat
  BY <1>1, ItemTypes, ConstantsAssumption DEF TypeOK
<1>4. \A d \in Conns : taken'[d] >= taken[d]
  BY <1>1, <1>3, ConstantsAssumption DEF TypeOK
<1>5. \A k \in 1..Len(told[c]) : told[c][k] \in Items /\ told[c][k] < taken[c] + 1
  <2>1. ASSUME NEW k \in 1..Len(told[c])
        PROVE  told[c][k] \in Items /\ told[c][k] <= taken[c]
    <3>1. told[c][k] \in Items
      BY <2>1 DEF TypeOK
    <3>2. WasRead(c, told[c][k])
      BY <2>1 DEF Ordered
    <3> QED
      BY <1>2, <3>1, <3>2 DEF WasRead
  <2> QED
    BY <1>3, <2>1, ConstantsAssumption DEF Items, End
<1>6. DeliveredInOrder'
  BY <1>1, <1>3, <1>5, GivenNext
<1>7. ASSUME NEW d \in Conns, NEW i \in 1..Len(told'[d])
      PROVE  WasRead(d, told[d][i])'
  <2>1. told[d] \in Seq(Items)
    BY DEF TypeOK
  <2>2. (i \in 1..Len(told[d]) /\ told'[d][i] = told[d][i])
        \/ (d = c /\ told'[d][i] = taken[d] + 1)
    BY <1>1, <1>3, <1>7, <2>1, AppendPlaces DEF TypeOK
  <2>3. CASE i \in 1..Len(told[d]) /\ told'[d][i] = told[d][i]
    <3>1. PICK j \in Items : j = told[d][i]
      BY <2>1, <2>3
    <3>2. WasRead(d, j)'
      BY <1>4, <2>3, <3>1, WasReadStays DEF Ordered
    <3> QED
      BY <2>3, <3>1, <3>2 DEF WasRead
  <2>4. CASE d = c /\ told'[d][i] = taken[d] + 1
    BY <1>1, <1>3, <2>4 DEF WasRead, TypeOK
  <2> QED
    BY <2>2, <2>3, <2>4
<1>8. ASSUME NEW b \in Actors, NEW k \in 1..Len(queue'[b])
      PROVE  Posted(b, queue[b][k])'
  <2>1. PICK p \in Operations : p = queue[b][k]
    BY <1>1, <1>8 DEF TypeOK
  <2>2. Posted(b, p)
    BY <1>1, <2>1 DEF Ordered
  <2>3. p.by = "reader" => told'[p.conn] = told[p.conn]
    BY <1>1, <1>2, <2>2, OperationTypes DEF Posted, TypeOK
  <2>4. Posted(b, p)'
    BY <1>4, <2>2, <2>3, PostedStays
  <2> QED
    BY <1>1, <2>1, <2>4 DEF Posted
<1> QED
  BY <1>1, <1>6, <1>7, <1>8 DEF Ordered, Precedes

\* A read loop puts what it has read behind what it has read before.
LEMMA ReaderOrdered ==
    ASSUME TypeOK, Tasked, NewConns, Exclusive, Whole, Ordered, [Next]_vars,
           NEW c \in Conns, ReaderChunk(c) \/ ReaderEnd(c)
    PROVE  Ordered'
<1>1. PICK i \in Items :
        /\ reader[c].pc = "read" /\ reader[c].by \in Actors /\ i > taken[c]
        /\ Post(reader[c].by, [by |-> "reader", conn |-> c, item |-> i])
        /\ WasRead(c, i)' /\ reader'[c].pc # "none" /\ reader'[c].by = reader[c].by
        /\ told' = told /\ \A d \in Conns : taken'[d] >= taken[d]
  <2>1. CASE ReaderChunk(c)
    <3>1. /\ reader[c].pc = "read" /\ reader[c].by \in Actors /\ taken[c] < MaxChunks
          /\ taken' = [taken EXCEPT ![c] = @ + 1] /\ told' = told
          /\ Post(reader[c].by, [by |-> "reader", conn |-> c, item |-> taken[c] + 1])
      BY <2>1 DEF ReaderChunk, Tasked
    <3>2. taken[c] + 1 \in Items /\ taken[c] + 1 > taken[c] /\ taken'[c] = taken[c] + 1
          /\ \A d \in Conns : taken'[d] >= taken[d]
      BY <3>1, ItemTypes, ConstantsAssumption DEF TypeOK
    <3>3. PICK p \in {"read", "wait", "passive"} : reader' = [reader EXCEPT ![c].pc = p]
      BY <2>1 DEF ReaderChunk, DataDone, TypeOK
    <3>4. reader'[c].pc # "none" /\ reader'[c].by = reader[c].by
      BY <3>3, ReaderMoves
    <3>5. PICK j \in Items : j = taken[c] + 1
      BY <3>2
    <3>6. WasRead(c, j)'
      BY <3>2, <3>5, ConstantsAssumption DEF WasRead, Items, End
    <3> QED
      BY <3>1, <3>2, <3>4, <3>5, <3>6
  <2>2. CASE ReaderEnd(c)
    <3>1. /\ reader[c].pc = "read" /\ reader[c].by \in Actors /\ taken' = taken /\ told' = told
          /\ Post(reader[c].by, [by |-> "reader", conn |-> c, item |-> End])
      BY <2>2 DEF ReaderEnd, Tasked, peerVars
    <3>2. End \in Items /\ End > taken[c] /\ \A d \in Conns : taken'[d] >= taken[d]
      BY <3>1, ItemTypes, ConstantsAssumption DEF TypeOK
    <3>3. PICK p \in {"last", "remove"} : reader' = [reader EXCEPT ![c].pc = p]
      BY <2>2 DEF ReaderEnd, TypeOK
    <3>4. reader'[c].pc \in {"last", "remove"} /\ reader'[c].by = reader[c].by
      BY <3>3, ReaderMoves
    <3>5. WasRead(c, End)'
      BY <3>4 DEF WasRead
    <3> QED
      BY <3>1, <3>2, <3>4, <3>5
  <2> QED
    BY <2>1, <2>2
<1>2. PICK o \in Operations : /\ o = [by |-> "reader", conn |-> c, item |-> i]
                              /\ o.by = "reader" /\ o.conn = c /\ o.item = i
  BY OperationTypes, ZenonT(30)
<1>3. \A j \in Items : WasRead(c, j) => j < i
  BY <1>1, ConstantsAssumption DEF WasRead, TypeOK, Items, End
<1>4. \A k \in 1..Len(told[c]) : told[c][k] < i
  BY <1>3 DEF Ordered, TypeOK
<1>5. Posted(reader[c].by, o)'
  BY <1>1, <1>2, <1>4 DEF Posted
<1>6. \A k \in 1..Len(queue[reader[c].by]) : Precedes(queue[reader[c].by][k], o)
  <2>1. ASSUME NEW k \in 1..Len(queue[reader[c].by])
        PROVE  Precedes(queue[reader[c].by][k], o)
    <3>1. PICK p \in Operations : p = queue[reader[c].by][k]
      BY <1>1, <2>1 DEF TypeOK
    <3>2. Posted(reader[c].by, p)
      BY <1>1, <2>1, <3>1 DEF Ordered
    <3>3. Precedes(p, o)
      BY <1>2, <1>3, <3>2, OperationTypes DEF Posted, Precedes
    <3> QED
      BY <3>1, <3>3
  <2> QED
    BY <2>1
<1>7. PICK a \in Actors : a = reader[c].by /\ a = reader'[c].by
  BY <1>1
<1>8. Posted(a, o)'
  BY <1>5, <1>7 DEF Posted
<1> QED
  BY <1>1, <1>2, <1>6, <1>7, <1>8, PostedLast

\* Every step keeps the order of what was read.
LEMMA OrderedStep ==
    ASSUME TypeOK, Tasked, NewConns, Exclusive, Whole, Ordered, DeliveredInOrder, [Next]_vars
    PROVE  Ordered' /\ DeliveredInOrder'
<1>1. ASSUME UNCHANGED <<told, taken>>
      PROVE  /\ \A c \in Conns : taken'[c] >= taken[c]
             /\ \A c \in Conns : \A i \in 1..Len(told'[c]) : WasRead(c, told[c][i])'
             /\ DeliveredInOrder'
  <2>1. \A c \in Conns : taken'[c] >= taken[c]
    BY <1>1 DEF TypeOK
  <2>2. ASSUME NEW c \in Conns, NEW i \in 1..Len(told'[c])
        PROVE  WasRead(c, told[c][i])'
    <3>1. PICK j \in Items : j = told[c][i] /\ j = told'[c][i] /\ WasRead(c, j)
      BY <1>1, <2>2 DEF TypeOK, Ordered
    <3>2. WasRead(c, j)'
      BY <2>1, <3>1, WasReadStays
    <3> QED
      BY <3>1, <3>2 DEF WasRead
  <2> QED
    BY <1>1, <2>1, <2>2 DEF DeliveredInOrder
<1>2. ASSUME UNCHANGED <<told, taken>>,
             \A b \in Actors : queue'[b] = queue[b] \/ queue'[b] = <<>>
      PROVE  Ordered' /\ DeliveredInOrder'
  <2>1. ASSUME NEW b \in Actors, NEW k \in 1..Len(queue'[b])
        PROVE  Posted(b, queue[b][k])' /\ queue'[b] = queue[b]
    <3>1. queue'[b] = queue[b]
      BY <1>2, <2>1
    <3>2. PICK p \in Operations : p = queue[b][k] /\ Posted(b, p)
      BY <2>1, <3>1 DEF TypeOK, Ordered
    <3>3. Posted(b, p)'
      BY <1>1, <1>2, <3>2, PostedStays
    <3> QED
      BY <3>1, <3>2, <3>3 DEF Posted
  <2> QED
    BY <1>1, <1>2, <2>1 DEF Ordered, Precedes
<1>3. CASE UNCHANGED <<queue, told, taken>>
  BY <1>2, <1>3
<1>4. ASSUME NEW a \in Actors, OpLoopEnds(a)
      PROVE  Ordered' /\ DeliveredInOrder'
  BY <1>2, <1>4 DEF OpLoopEnds, TypeOK, peerVars
<1>5. ASSUME NEW a \in Actors, NEW o \in Operations, o.by # "reader", Post(a, o),
             UNCHANGED <<told, taken>>
      PROVE  Ordered' /\ DeliveredInOrder'
  <2>1. Posted(a, o)' /\ \A k \in 1..Len(queue[a]) : Precedes(queue[a][k], o)
    BY <1>5 DEF Posted, Precedes
  <2> QED
    BY <1>1, <1>5, <2>1, PostedLast
<1>6. ASSUME NEW c \in Conns, ReaderChunk(c) \/ ReaderEnd(c)
      PROVE  Ordered' /\ DeliveredInOrder'
  BY <1>6, ReaderOrdered DEF ReaderChunk, ReaderEnd, peerVars, DeliveredInOrder
<1> QED
  BY <1>3, <1>4, <1>5, <1>6, BeginOrdered, ReceiveOrdered, HistoryChange DEF HistoryStep

-----------------------------------------------------------------------------
(* The theorems.                                                           *)

\* The table of connections, the streams, the locks and the tasks agree, and what is read
\* is handed on in order: the inductive invariant of the tcp handler.
THEOREM TcpInvariant == Spec => []TcpInv
<1>1. Init => TcpInv
  <2> SUFFICES ASSUME Init
               PROVE  TcpInv
    OBVIOUS
  <2>1. TypeOK
    BY ConstantsAssumption
       DEF Init, TypeOK, CloserStates, AcceptStates, ReaderStates, CleanStates, Full
  <2>2. Tasked /\ NewConns /\ Exclusive /\ Whole
    BY DEF Init, Tasked, NewConns, Exclusive, Whole, Working, Full
  <2>3. StreamMatchesMode /\ Ordered /\ DeliveredInOrder /\ CleanupInv
    BY DEF Init, StreamMatchesMode, Ordered, DeliveredInOrder, CleanupInv
  <2> QED
    BY <2>1, <2>2, <2>3 DEF TcpInv
<1>2. TcpInv /\ [Next]_vars => TcpInv'
  BY TypeStep, TaskedStep, NewConnsStep, ExclusiveStep, WholeStep, ModeStep, OrderedStep,
     CleanupStep DEF TcpInv
<1> QED
  BY <1>1, <1>2, PTL DEF Spec

\* One call at a time is at work on a stream, its owner's, with the lock; the data mode in
\* the table says where the stream and its read loop are.
THEOREM StreamsAgreeHolds == Spec => []StreamsAgree
<1>1. TcpInv => StreamsAgree
  BY DEF TcpInv, StreamsAgree, StreamExclusive, Exclusive
<1> QED
  BY <1>1, TcpInvariant, PTL

\* Guests are given the chunks of a stream in order, once, and nothing after its end.
THEOREM DeliveredInOrderHolds == Spec => []DeliveredInOrder
<1>1. TcpInv => DeliveredInOrder
  BY DEF TcpInv
<1> QED
  BY <1>1, TcpInvariant, PTL

\* A clean-up that comes to its end has left none of the connections that were the
\* actor's when it began.
THEOREM CleanupCompleteHolds == Spec => []CleanupComplete
<1>1. TcpInv => CleanupComplete
  BY DEF TcpInv, CleanupInv, CleanupComplete
<1> QED
  BY <1>1, TcpInvariant, PTL

==============================================================================
