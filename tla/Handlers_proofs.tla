-------------------------- MODULE Handlers_proofs --------------------------
(***************************************************************************)
(* Proofs about the handlers that keep state of their own: the timer, loop *)
(* and terminal handlers (Drivers), for any number of tasks and calls, and *)
(* the store handler with its content store (ContentStore), for any        *)
(* actors, contents, labels and faults.  The two share nothing.            *)
(***************************************************************************)
EXTENDS Drivers, ContentStore, FiniteSetTheorems, TLAPS

-----------------------------------------------------------------------------
(* The timer, loop and terminal handlers.                                  *)

\* The types, without the number of calls that are on their way.
Typed ==
    /\ phase \in {"Running", "Paused", "ShuttingDown"}
    /\ opl \in {"idle", "run", "paused", "gone"}
    /\ op \in Op \cup {None} /\ (op = None) = (opl # "run")
    /\ queue \in Seq(Op) /\ slip \in BOOLEAN
    /\ ctl \in {"up", "signal", "drain", "acked"}
    /\ setup \in [Handlers -> {"new", "wait", "cancel", "done"}]
    /\ rx \in [{"loop", "terminal"} -> {"held", "read", "gone"}]
    /\ pc \in [Callers -> {"free", "ready", "call", "failed", "done"}]
    /\ late \in [Callers -> 0..MaxLate]
    /\ name \in [TimerIds -> Names \cup {None}]
    /\ zero \subseteq TimerIds /\ cancel \subseteq TimerIds
    /\ entry \in [Names -> TimerIds \cup {None}]
    /\ clearing \in TimerIds \cup {None} /\ (clearing # None => opl = "run")
    /\ running \in BOOLEAN /\ owner \in LoopIds \cup {None}
    /\ hosts \in 0..MaxHosts /\ outs \in 0..MaxOut

\* An operation that is on its way is one its caller gave up, or the one it waits
\* for; a loop task that was shut down leaves one behind.
Mine(o) == o.n <= late[o.by] /\ (o.n = late[o.by] => pc[o.by] \in {"call", "done"})

\* A caller has at most one operation on its way for each time it gave up.
OnTheWay ==
    /\ \A k \in DOMAIN queue : Mine(queue[k])
    /\ opl = "run" => Mine(op)
    /\ \A k, l \in DOMAIN queue : k # l => queue[k] # queue[l]
    /\ opl = "run" => \A k \in DOMAIN queue : queue[k] # op

\* Before enable-input there is no input loop.
Input == rx["terminal"] = "held" => pc[Term] = "free"

\* The table of timers and their tasks.
Table ==
    /\ \A i \in TimerIds : pc[Timer(i)] # "free" => name[i] \in Names
    /\ \A i \in cancel : pc[Timer(i)] # "free"
    /\ setup["timer"] = "cancel" => Signalled
    /\ \A n \in Names : entry[n] # None =>
         /\ name[entry[n]] = n /\ pc[Timer(entry[n])] # "free"
         /\ entry[n] \in cancel => Signalled
         /\ Alive(Timer(entry[n])) \/ entry[n] \in zero \/ Signalled

DInv == Typed /\ OnTheWay /\ Input /\ Table

\* The callers, and that no two of them are the same.
LEMMA CallerFacts ==
    /\ \A i \in TimerIds : Timer(i) \in Callers /\ Timer(i) # Term /\ Timer(i) # Other
    /\ \A i \in LoopIds : Loop(i) \in Callers /\ Loop(i) # Term /\ Loop(i) # Other
    /\ \A i \in TimerIds : \A j \in LoopIds : Timer(i) # Loop(j)
    /\ \A i, j \in TimerIds : Timer(i) = Timer(j) => i = j
    /\ Term \in Callers /\ Other \in Callers /\ Term # Other
    /\ TimerIds \subseteq Nat /\ LoopIds \subseteq Nat /\ None \notin TimerIds
  BY DriversAssumption DEF Callers, Drivers, Timer, Loop, Term, Other, TimerIds, LoopIds

\* The first state: no task, no timer, no call.
LEMMA InitDInv == Init => DInv
<1> SUFFICES ASSUME Init PROVE DInv
  OBVIOUS
<1>1. Typed
  <2>1. queue \in Seq(Op) /\ op \in Op \cup {None} /\ (op = None) = (opl # "run")
    BY DEF Init
  <2>2. /\ MaxLate \in Nat /\ MaxHosts \in Nat /\ MaxOut \in Nat
    BY DriversAssumption
  <2>3. /\ pc \in [Callers -> {"free", "ready", "call", "failed", "done"}]
        /\ late \in [Callers -> 0..MaxLate] /\ hosts \in 0..MaxHosts /\ outs \in 0..MaxOut
    BY <2>2 DEF Init
  <2> QED
    BY <2>1, <2>3 DEF Init, Typed
<1>2. OnTheWay
  BY DEF Init, OnTheWay
<1>3. Input
  BY CallerFacts DEF Init, Input
<1>4. Table
  BY CallerFacts DEF Init, Table, Handlers
<1> QED
  BY <1>1, <1>2, <1>3, <1>4 DEF DInv

\* What leaves the table alone, and only moves a timer task on, keeps the table.
LEMMA TableKept ==
    ASSUME Table, Signalled => Signalled', setup'["timer"] = "cancel" => Signalled',
           UNCHANGED <<name, zero, entry, cancel>>, Typed,
           \A i \in TimerIds : /\ pc'[Timer(i)] = "free" <=> pc[Timer(i)] = "free"
                               /\ pc'[Timer(i)] = "done" => pc[Timer(i)] = "done"
    PROVE  Table'
<1>1. \A i \in TimerIds : Alive(Timer(i)) => Alive(Timer(i))'
  BY DEF Alive, Timer
<1>2. \A n \in Names : entry[n] # None => entry[n] \in TimerIds
  BY DEF Typed
<1>3. \A i \in cancel : i \in TimerIds
  BY DEF Typed
<1>4. \A i \in TimerIds : pc'[Timer(i)] # "free" => name'[i] \in Names
  BY DEF Table
<1>5. \A i \in cancel' : pc'[Timer(i)] # "free"
  BY <1>3 DEF Table
<1>6. ASSUME NEW n \in Names, entry[n] # None
      PROVE  /\ name'[entry'[n]] = n /\ pc'[Timer(entry'[n])] # "free"
             /\ entry'[n] \in cancel' => Signalled'
             /\ Alive(Timer(entry[n]))' \/ entry'[n] \in zero' \/ Signalled'
  <2>1. PICK i \in TimerIds : i = entry[n]
    BY <1>2, <1>6
  <2>2. /\ name[i] = n /\ pc[Timer(i)] # "free" /\ (i \in cancel => Signalled)
        /\ Alive(Timer(i)) \/ i \in zero \/ Signalled
    BY <1>6, <2>1 DEF Table
  <2>3. Alive(Timer(i))' \/ i \in zero' \/ Signalled'
    BY <1>1, <2>2
  <2>4. Alive(Timer(entry[n]))' = Alive(Timer(i))'
    BY <2>1 DEF Alive, Timer
  <2> QED
    BY <2>1, <2>2, <2>3, <2>4
<1> QED
  BY <1>4, <1>5, <1>6 DEF Table, Alive, Timer

\* What leaves the operations alone, and nobody waiting for one, keeps them.
LEMMA OnTheWayKept ==
    ASSUME Typed, OnTheWay, UNCHANGED <<queue, op, late>>, opl' = "run" => opl = "run",
           \A c \in Callers : pc[c] \in {"call", "done"} => pc'[c] \in {"call", "done"}
    PROVE  OnTheWay'
<1>1. ASSUME NEW o \in Op, Mine(o) PROVE Mine(o)'
  <2>1. o.by \in Callers
    BY DEF Op
  <2> QED
    BY <1>1, <2>1 DEF Mine
<1>2. \A k \in DOMAIN queue : queue[k] \in Op
  BY DEF Typed
<1>3. opl = "run" => op \in Op
  BY DEF Typed
<1> QED
  BY <1>1, <1>2, <1>3 DEF OnTheWay

\* Steps that touch neither the operations, nor the tasks, nor the table.
LEMMA QuietKept ==
    ASSUME DInv, Typed', UNCHANGED <<queue, op, late, pc, name, zero, entry, cancel>>,
           opl' = "run" => opl = "run", Signalled => Signalled',
           setup'["timer"] = "cancel" => Signalled',
           rx'["terminal"] = "held" => rx["terminal"] = "held"
    PROVE  DInv'
<1>1. OnTheWay'
  BY OnTheWayKept DEF DInv
<1>2. Input'
  BY DEF DInv, Input
<1>3. Table'
  BY TableKept DEF DInv
<1> QED
  BY <1>1, <1>2, <1>3 DEF DInv

\* setup() of the handlers, and its end.
LEMMA SetupKept ==
    ASSUME DInv, SetupNext \/ SetupAborted
    PROVE  DInv'
<1>1. ASSUME NEW h \in Handlers, Setup(h) PROVE DInv'
  <2>1. Typed'
    BY <1>1 DEF DInv, Typed, Setup, actorVars, timerVars, loopVars
  <2>2. /\ setup' = [setup EXCEPT ![h] = "wait"]
        /\ setup \in [Handlers -> {"new", "wait", "cancel", "done"}]
    BY <1>1 DEF DInv, Typed, Setup
  <2>3. setup'["timer"] = "cancel" => Signalled
    BY <2>2 DEF DInv, Table, Handlers
  <2> QED
    BY <1>1, <2>1, <2>3, QuietKept DEF Setup, Signalled, actorVars, timerVars, loopVars
<1>2. ASSUME NEW h \in Handlers, SetupEnds(h) PROVE DInv'
  <2>1. Typed'
    BY <1>2 DEF DInv, Typed, SetupEnds, actorVars, timerVars, loopVars
  <2>2. /\ setup' = [setup EXCEPT ![h] = "done"]
        /\ setup \in [Handlers -> {"new", "wait", "cancel", "done"}]
    BY <1>2 DEF DInv, Typed, SetupEnds
  <2>3. setup'["timer"] = "cancel" => Signalled
    BY <2>2 DEF DInv, Table, Handlers
  <2> QED
    BY <1>2, <2>1, <2>3, QuietKept DEF SetupEnds, Signalled, actorVars, timerVars, loopVars
<1>3. CASE TimerAnswers
  <2>1. Typed'
    <3>1. setup' \in [Handlers -> {"new", "wait", "cancel", "done"}]
      BY <1>3 DEF DInv, Typed, TimerAnswers, Handlers
    <3>2. UNCHANGED <<actorVars, ctl, rx, pc, late, timerVars, loopVars, hosts, outs>>
      BY <1>3 DEF TimerAnswers
    <3> QED
      BY <3>1, <3>2 DEF DInv, Typed, actorVars, timerVars, loopVars
  <2> QED
    BY <1>3, <2>1, QuietKept DEF TimerAnswers, Signalled, actorVars, timerVars, loopVars
<1>4. CASE CancelAll
  <2>1. Typed'
    <3>1. /\ cancel' \subseteq TimerIds
          /\ setup' \in [Handlers -> {"new", "wait", "cancel", "done"}]
          /\ UNCHANGED <<actorVars, ctl, rx, pc, late, name, zero, entry, clearing, loopVars,
                          hosts, outs>>
      BY <1>4 DEF DInv, Typed, CancelAll, Handlers
    <3> QED
      BY <3>1 DEF DInv, Typed, actorVars, timerVars, loopVars
  <2>2. /\ Signalled /\ Signalled' /\ setup'["timer"] = "done"
        /\ cancel' = cancel \cup {i \in TimerIds : \E n \in Names : entry[n] = i}
        /\ UNCHANGED <<queue, op, opl, rx, pc, late, name, zero, entry>>
    BY <1>4 DEF DInv, Typed, Table, CancelAll, Signalled, actorVars, loopVars, Handlers
  <2>3. OnTheWay' /\ Input'
    BY <2>2, OnTheWayKept DEF DInv, Input
  <2>4. Table'
    BY <2>2, CallerFacts DEF DInv, Table, Typed
  <2> QED
    BY <2>1, <2>3, <2>4 DEF DInv
<1>5. CASE SetupAborted
  <2>1. Typed'
    BY <1>5 DEF DInv, Typed, SetupAborted, actorVars, timerVars, loopVars
  <2>2. setup'["timer"] = "done"
    BY <1>5 DEF DInv, Typed, SetupAborted, Handlers
  <2> QED
    BY <1>5, <2>1, <2>2, QuietKept DEF SetupAborted, Signalled, actorVars, timerVars, loopVars
<1> QED
  BY <1>1, <1>2, <1>3, <1>4, <1>5 DEF SetupNext

\* The queue is dropped: whoever waits for an operation is told, and none is left.
LEMMA DroppedKept ==
    ASSUME DInv, Typed', opl' = "gone", op' = None, queue' = <<>>, pc' = Dropped,
           Signalled => Signalled', UNCHANGED <<setup, rx, late, name, zero, entry, cancel>>
    PROVE  DInv'
<1>1. OnTheWay'
  BY DEF OnTheWay
<1>2. \A c \in Callers : /\ pc'[c] = "free" <=> pc[c] = "free"
                         /\ pc'[c] = "done" <=> pc[c] = "done"
  BY DEF DInv, Typed, Dropped, AfterError
<1>3. Input'
  BY <1>2, CallerFacts DEF DInv, Input
<1>4. setup'["timer"] = "cancel" => Signalled'
  BY DEF DInv, Table
<1>5. Table'
  BY <1>2, <1>4, CallerFacts, TableKept DEF DInv
<1> QED
  BY <1>1, <1>3, <1>5 DEF DInv

\* Nobody is in an unknown state after the queue is dropped.
LEMMA DroppedType ==
    ASSUME DInv PROVE Dropped \in [Callers -> {"free", "ready", "call", "failed", "done"}]
  BY DEF DInv, Typed, Dropped, AfterError

\* Every step of the control loop keeps DInv.
LEMMA ControlKept ==
    ASSUME DInv, Shutdown \/ Terminate \/ CtlSettled \/ CtlAbort \/ CtlAck
    PROVE  DInv'
<1> USE DEF actorVars, timerVars, loopVars
<1>1. CASE Shutdown
  <2>1. Typed'
    BY <1>1 DEF DInv, Typed, Shutdown
  <2> QED
    BY <1>1, <2>1, QuietKept DEF Shutdown, Signalled, DInv, Table
<1>2. CASE Terminate
  <2>1. Typed'
    BY <1>2, DroppedType DEF DInv, Typed, Terminate
  <2> QED
    BY <1>2, <2>1, DroppedKept DEF Terminate, Signalled
<1>3. CASE CtlSettled
  <2>1. Typed'
    BY <1>3 DEF DInv, Typed, CtlSettled
  <2> QED
    BY <1>3, <2>1, QuietKept DEF CtlSettled, Signalled
<1>4. CASE CtlAbort
  <2>1. Typed'
    BY <1>4, DroppedType DEF DInv, Typed, CtlAbort
  <2> QED
    BY <1>4, <2>1, DroppedKept DEF CtlAbort, Signalled
<1>5. CASE CtlAck
  <2>1. Typed'
    BY <1>5 DEF DInv, Typed, CtlAck
  <2> QED
    BY <1>5, <2>1, QuietKept DEF CtlAck, Signalled
<1> QED
  BY <1>1, <1>2, <1>3, <1>4, <1>5

\* set-interval starts a task that never ran, under a name that is free.
LEMMA SetIntervalKept ==
    ASSUME DInv, NEW n \in Names, NEW i \in TimerIds, NEW z \in BOOLEAN, SetInterval(n, i, z)
    PROVE  DInv'
<1> USE DEF actorVars, timerVars, loopVars
<1>1. Typed'
  <2>1. hosts' \in 0..MaxHosts
    BY DriversAssumption DEF DInv, Typed, SetInterval, GuestCalls
  <2>2. pc' \in [Callers -> {"free", "ready", "call", "failed", "done"}]
    BY CallerFacts DEF DInv, Typed, SetInterval
  <2>3. /\ name' \in [TimerIds -> Names \cup {None}] /\ entry' \in [Names -> TimerIds \cup {None}]
        /\ zero' \subseteq TimerIds
    BY DEF DInv, Typed, SetInterval
  <2> QED
    BY <2>1, <2>2, <2>3 DEF DInv, Typed, SetInterval
<1>2. /\ pc[Timer(i)] = "free" /\ \A c \in Callers : c # Timer(i) => pc'[c] = pc[c]
      /\ pc'[Timer(i)] = IF z THEN "done" ELSE "ready"
  BY CallerFacts DEF DInv, Typed, SetInterval
<1>3. OnTheWay'
  BY <1>2, OnTheWayKept DEF DInv, SetInterval
<1>4. Input'
  BY <1>2, CallerFacts DEF DInv, Input, SetInterval
<1>5. Table'
  <2>1. /\ name'[i] = n
        /\ \A j \in TimerIds : j # i => name'[j] = name[j] /\ pc'[Timer(j)] = pc[Timer(j)]
        /\ entry'[n] = i /\ \A m \in Names : m # n => entry'[m] = entry[m]
        /\ (zero' = IF z THEN zero \cup {i} ELSE zero) /\ UNCHANGED <<setup, ctl, cancel>>
    BY <1>2, CallerFacts DEF DInv, Typed, SetInterval
  <2>2. i \notin cancel /\ cancel \subseteq TimerIds
    BY <1>2 DEF DInv, Table, Typed
  <2>3. \A m \in Names : entry[m] # None => entry[m] # i /\ entry[m] \in TimerIds
    BY <1>2 DEF DInv, Table, Typed
  <2>4. ASSUME NEW j \in TimerIds, pc'[Timer(j)] # "free" PROVE name'[j] \in Names
    BY <2>1, <2>4 DEF DInv, Table
  <2>5. \A j \in cancel' : pc'[Timer(j)] # "free"
    BY <2>1, <2>2 DEF DInv, Table
  <2>6. setup'["timer"] = "cancel" => Signalled'
    BY <2>1 DEF DInv, Table, Signalled
  <2>7. ASSUME NEW m \in Names, entry'[m] # None
        PROVE  /\ name'[entry'[m]] = m /\ pc'[Timer(entry'[m])] # "free"
               /\ entry'[m] \in cancel' => Signalled'
               /\ pc'[Timer(entry'[m])] \notin {"free", "done"} \/ entry'[m] \in zero' \/ Signalled'
    <3>1. CASE m = n
      BY <3>1, <1>2, <2>1, <2>2
    <3>2. CASE m # n
      <4>1. PICK j \in TimerIds : j = entry[m] /\ j # i /\ entry'[m] = j
        BY <3>2, <2>1, <2>3, <2>7
      <4>2. /\ name[j] = m /\ pc[Timer(j)] # "free" /\ (j \in cancel => Signalled)
            /\ pc[Timer(j)] \notin {"free", "done"} \/ j \in zero \/ Signalled
        BY <4>1, <2>7, CallerFacts DEF DInv, Table, Alive
      <4> QED
        BY <4>1, <4>2, <2>1 DEF Signalled
    <3> QED
      BY <3>1, <3>2
  <2> QED
    BY <2>4, <2>5, <2>6, <2>7 DEF Table, Alive
<1> QED
  BY <1>1, <1>3, <1>4, <1>5 DEF DInv

\* clear-interval, and a failed tick, take an entry out of the table; the task
\* may end, and it may get a message.
LEMMA EntryRemoved ==
    ASSUME Typed, Table, NEW n \in Names, NEW i \in TimerIds, name[i] = n, pc[Timer(i)] # "free",
           entry' = [entry EXCEPT ![n] = None], cancel' \subseteq cancel \cup {i},
           \A j \in TimerIds : pc'[Timer(j)] = pc[Timer(j)] \/ (j = i /\ pc'[Timer(j)] # "free"),
           UNCHANGED <<name, zero, setup, ctl>>
    PROVE  Table'
<1>1. \A j \in TimerIds : pc'[Timer(j)] # "free" => name'[j] \in Names
  BY DEF Table
<1>2. \A j \in cancel' : pc'[Timer(j)] # "free"
  BY DEF Typed, Table
<1>3. setup'["timer"] = "cancel" => Signalled'
  BY DEF Table, Signalled
<1>4. ASSUME NEW m \in Names, entry'[m] # None
      PROVE  /\ name'[entry'[m]] = m /\ pc'[Timer(entry'[m])] # "free"
             /\ entry'[m] \in cancel' => Signalled'
             /\ pc'[Timer(entry'[m])] \notin {"free", "done"} \/ entry'[m] \in zero' \/ Signalled'
  <2>1. m # n /\ entry'[m] = entry[m]
    BY <1>4 DEF Typed
  <2>2. PICK j \in TimerIds : j = entry[m]
    BY <1>4, <2>1 DEF Typed
  <2>3. /\ name[j] = m /\ pc[Timer(j)] # "free" /\ (j \in cancel => Signalled)
        /\ pc[Timer(j)] \notin {"free", "done"} \/ j \in zero \/ Signalled
    BY <1>4, <2>1, <2>2 DEF Table, Alive
  <2>4. j # i /\ pc'[Timer(j)] = pc[Timer(j)] /\ (j \in cancel' => j \in cancel)
    BY <2>1, <2>3
  <2> QED
    BY <2>1, <2>2, <2>3, <2>4 DEF Signalled
<1> QED
  BY <1>1, <1>2, <1>3, <1>4 DEF Table, Alive

\* clear-interval removes the entry of the task it signals.
LEMMA ClearIntervalKept ==
    ASSUME DInv, NEW n \in Names, ClearInterval(n)
    PROVE  DInv'
<1> USE DEF actorVars, timerVars, loopVars
<1>1. PICK i \in TimerIds : i = entry[n]
  BY DEF DInv, Typed, ClearInterval
<1>2. Typed'
  <2>1. hosts' \in 0..MaxHosts
    BY DriversAssumption DEF DInv, Typed, ClearInterval, GuestCalls
  <2>2. entry' \in [Names -> TimerIds \cup {None}] /\ cancel' \subseteq TimerIds
    BY <1>1 DEF DInv, Typed, ClearInterval
  <2>3. clearing' \in TimerIds \cup {None} /\ opl' = "run"
    BY <1>1 DEF ClearInterval, GuestCalls, GuestRuns
  <2> QED
    BY <2>1, <2>2, <2>3 DEF DInv, Typed, ClearInterval
<1>3. OnTheWay' /\ Input'
  BY OnTheWayKept DEF DInv, ClearInterval, Input
<1>4. name[i] = n /\ pc[Timer(i)] # "free"
  BY <1>1, CallerFacts DEF DInv, Table, ClearInterval
<1>5. Table'
  BY <1>1, <1>4, EntryRemoved DEF DInv, ClearInterval
<1> QED
  BY <1>2, <1>3, <1>5 DEF DInv

\* The guest goes on after clear-interval.
LEMMA ClearReturnsKept ==
    ASSUME DInv, ClearReturns
    PROVE  DInv'
<1>1. Typed'
  BY DEF DInv, Typed, ClearReturns, actorVars, loopVars
<1> QED
  BY <1>1, QuietKept DEF ClearReturns, Signalled, DInv, Table, actorVars, loopVars

\* The loop and the terminal are started in a task that never ran.
LEMMA StartedKept ==
    ASSUME DInv, Typed', NEW c \in Callers, pc[c] = "free", \A i \in TimerIds : c # Timer(i),
           pc' = [pc EXCEPT ![c] = "ready"], c = Term => rx'["terminal"] # "held",
           rx'["terminal"] = "held" => rx["terminal"] = "held",
           UNCHANGED <<opl, op, queue, ctl, setup, late, name, zero, entry, cancel>>
    PROVE  DInv'
<1>1. \A d \in Callers : d # c => pc'[d] = pc[d]
  BY DEF DInv, Typed
<1>2. OnTheWay'
  BY <1>1, OnTheWayKept DEF DInv
<1>3. Input'
  BY <1>1, CallerFacts DEF DInv, Input
<1>4. \A i \in TimerIds : pc'[Timer(i)] = pc[Timer(i)]
  BY <1>1, CallerFacts
<1>5. Table'
  BY <1>4, TableKept DEF DInv, Table, Signalled
<1> QED
  BY <1>2, <1>3, <1>5 DEF DInv

\* Every host function keeps DInv.
LEMMA HostKept ==
    ASSUME DInv, HostNext
    PROVE  DInv'
<1> USE DEF actorVars, timerVars, loopVars
<1>0. ASSUME GuestCalls PROVE hosts' \in 0..MaxHosts
  BY <1>0, DriversAssumption DEF DInv, Typed, GuestCalls
<1>1. ASSUME NEW i \in LoopIds, StartLoop(i) PROVE DInv'
  <2>1. pc' \in [Callers -> {"free", "ready", "call", "failed", "done"}]
    BY <1>1, CallerFacts DEF DInv, Typed, StartLoop
  <2>2. /\ rx' \in [{"loop", "terminal"} -> {"held", "read", "gone"}]
        /\ rx'["terminal"] = rx["terminal"]
    BY <1>1 DEF DInv, Typed, StartLoop
  <2>3. Typed'
    BY <1>0, <1>1, <2>1, <2>2 DEF DInv, Typed, StartLoop
  <2>4. /\ Loop(i) \in Callers /\ Loop(i) # Term /\ \A j \in TimerIds : Loop(i) # Timer(j)
        /\ pc[Loop(i)] = "free" /\ pc' = [pc EXCEPT ![Loop(i)] = "ready"]
        /\ UNCHANGED <<opl, op, queue, ctl, setup, late, name, zero, entry, cancel>>
    BY <1>1, CallerFacts DEF StartLoop, GuestCalls
  <2> QED
    BY <2>2, <2>3, <2>4, StartedKept
<1>2. CASE EnableInput
  <2>1. pc' \in [Callers -> {"free", "ready", "call", "failed", "done"}]
    BY <1>2, CallerFacts DEF DInv, Typed, EnableInput
  <2>2. rx' \in [{"loop", "terminal"} -> {"held", "read", "gone"}] /\ rx'["terminal"] = "read"
    BY <1>2 DEF DInv, Typed, EnableInput
  <2>3. Typed'
    BY <1>0, <1>2, <2>1, <2>2 DEF DInv, Typed, EnableInput
  <2>4. pc[Term] = "free"
    BY <1>2 DEF DInv, Input, EnableInput
  <2> QED
    BY <1>2, <2>2, <2>3, <2>4, CallerFacts, StartedKept DEF EnableInput
<1>3. CASE StopLoop
  <2>1. Typed'
    BY <1>0, <1>3 DEF DInv, Typed, StopLoop
  <2> QED
    BY <1>3, <2>1, QuietKept DEF StopLoop, Signalled, DInv, Table
<1> QED
  BY <1>1, <1>2, <1>3, ClearIntervalKept, ClearReturnsKept, SetIntervalKept DEF HostNext

\* The operation loop takes the operation that waits longest.
LEMMA OpTakeKept ==
    ASSUME DInv, OpTake
    PROVE  DInv'
<1> USE DEF actorVars, timerVars, loopVars
<1>1. /\ queue \in Seq(Op) /\ queue # <<>> /\ op' = queue[1] /\ queue' = Tail(queue)
      /\ UNCHANGED <<pc, late>>
  BY DEF DInv, Typed, OpTake
<1>2. /\ op' \in Op /\ queue' \in Seq(Op) /\ 1 \in DOMAIN queue
      /\ \A k \in DOMAIN queue' : queue'[k] = queue[k + 1] /\ k + 1 \in DOMAIN queue /\ k + 1 # 1
      /\ \A k, l \in DOMAIN queue' : k # l => k + 1 # l + 1
  BY <1>1
<1>3. Typed'
  BY <1>2, DriversAssumption DEF DInv, Typed, OpTake
<1>4. OnTheWay'
  <2>1. \A o \in Op : Mine(o)' = Mine(o)
    BY <1>1 DEF Mine
  <2>2. \A k \in DOMAIN queue : Mine(queue[k]) /\ queue[k] \in Op
    BY <1>1 DEF DInv, OnTheWay
  <2>3. \A k, l \in DOMAIN queue : k # l => queue[k] # queue[l]
    BY DEF DInv, OnTheWay
  <2>4. Mine(op)'
    BY <1>1, <1>2, <2>1, <2>2
  <2>5. ASSUME NEW k \in DOMAIN queue' PROVE Mine(queue[k])' /\ queue'[k] # op'
    <3>1. queue'[k] = queue[k + 1] /\ Mine(queue[k + 1]) /\ queue[k + 1] \in Op
      BY <1>2, <2>2
    <3>2. Mine(queue'[k]) /\ queue'[k] \in Op
      BY <3>1
    <3>3. Mine(queue[k])'
      BY <3>2, <1>1 DEF Mine
    <3> QED
      BY <3>3, <1>1, <1>2, <2>3
  <2>6. \A k, l \in DOMAIN queue' : k # l => queue'[k] # queue'[l]
    BY <1>2, <2>3
  <2> QED
    BY <2>4, <2>5, <2>6 DEF OnTheWay
<1>5. Input' /\ Table'
  BY TableKept DEF DInv, Input, Table, Signalled, OpTake
<1> QED
  BY <1>3, <1>4, <1>5 DEF DInv

\* The operation that ran is answered: its caller goes on if it still waits, and
\* has no other operation of the same number on its way.
LEMMA AnsweredKept ==
    ASSUME DInv, Typed', opl = "run", opl' = "idle", op' = None, NEW s, s \notin {"free", "done"},
           pc' = IF Waits(op) THEN [pc EXCEPT ![op.by] = s] ELSE pc,
           UNCHANGED <<queue, ctl, setup, rx, late, name, zero, entry, cancel>>
    PROVE  DInv'
<1>1. op \in Op /\ op.by \in Callers /\ op = [by |-> op.by, n |-> op.n]
  BY DEF DInv, Typed, Op
<1>2. OnTheWay'
  <2>1. ASSUME NEW k \in DOMAIN queue PROVE Mine(queue[k])'
    <3>0. queue[k] \in Op
      BY DEF DInv, Typed
    <3>1. queue[k] \in Op /\ queue[k].by \in Callers /\ Mine(queue[k]) /\ queue[k] # op
      BY <3>0 DEF DInv, OnTheWay, Op
    <3>2. queue[k] = [by |-> queue[k].by, n |-> queue[k].n]
      BY <3>1 DEF Op
    <3>3. queue[k].by # op.by \/ queue[k].n # op.n
      BY <3>1, <3>2, <1>1
    <3>4. CASE queue[k].n = late[queue[k].by]
      <4>1. ~(Waits(op) /\ queue[k].by = op.by)
        BY <3>3, <3>4 DEF Waits
      <4>2. pc'[queue[k].by] = pc[queue[k].by]
        BY <4>1, <3>1, <1>1 DEF DInv, Typed
      <4> QED
        BY <3>1, <4>2 DEF Mine
    <3>5. CASE queue[k].n # late[queue[k].by]
      BY <3>1, <3>5 DEF Mine
    <3> QED
      BY <3>4, <3>5
  <2> QED
    BY <2>1 DEF DInv, OnTheWay
<1>3. \A c \in Callers : /\ pc'[c] = "free" <=> pc[c] = "free"
                         /\ pc'[c] = "done" <=> pc[c] = "done"
  BY <1>1 DEF DInv, Typed, Waits
<1>4. Input'
  BY <1>3, CallerFacts DEF DInv, Input
<1>5. Table'
  BY <1>3, CallerFacts, TableKept DEF DInv, Table, Signalled
<1> QED
  BY <1>2, <1>4, <1>5 DEF DInv

\* Nor after an answer.
LEMMA AnsweredType ==
    ASSUME DInv, opl = "run", NEW s \in {"ready", "failed"},
           pc' = IF Waits(op) THEN [pc EXCEPT ![op.by] = s] ELSE pc
    PROVE  pc' \in [Callers -> {"free", "ready", "call", "failed", "done"}]
  BY DEF DInv, Typed, Op

\* Every step of the operation loop keeps DInv.
LEMMA OpKept ==
    ASSUME DInv, OpNext
    PROVE  DInv'
<1> USE DEF actorVars, timerVars, loopVars
<1>1. CASE OpPause
  <2>1. Typed'
    BY <1>1 DEF DInv, Typed, OpPause
  <2> QED
    BY <1>1, <2>1, QuietKept DEF OpPause, Signalled, DInv, Table
<1>2. CASE OpEnds
  <2>1. Typed'
    BY <1>2, DroppedType DEF DInv, Typed, OpEnds
  <2>2. op' = None
    BY <1>2 DEF DInv, Typed, OpEnds
  <2> QED
    BY <1>2, <2>1, <2>2, DroppedKept DEF OpEnds, Signalled
<1>3. ASSUME NEW e \in BOOLEAN, GuestReturns(e) PROVE DInv'
  <2>1. PICK s \in {"ready", "failed"} : s = IF e THEN "failed" ELSE AfterOk(op.by)
    BY DEF AfterOk
  <2>2. pc' \in [Callers -> {"free", "ready", "call", "failed", "done"}]
    BY <1>3, <2>1, AnsweredType DEF GuestReturns, GuestRuns
  <2>3. Typed'
    BY <1>3, <2>2 DEF DInv, Typed, GuestReturns, GuestRuns
  <2> QED
    BY <1>3, <2>1, <2>3, AnsweredKept DEF GuestReturns, GuestRuns
<1>4. CASE GuestFails
  <2>1. PICK s \in {"ready", "failed"} : s = AfterError(op.by)
    BY DEF AfterError
  <2>2. pc' \in [Callers -> {"free", "ready", "call", "failed", "done"}]
    BY <1>4, <2>1, AnsweredType DEF GuestFails, GuestRuns
  <2>3. Typed'
    BY <1>4, <2>2 DEF DInv, Typed, GuestFails, GuestRuns
  <2> QED
    BY <1>4, <2>1, <2>3, AnsweredKept DEF GuestFails, GuestRuns
<1> QED
  BY <1>1, <1>2, <1>3, <1>4, OpTakeKept DEF OpNext, GuestEnds

\* call_function: the new operation is not the one of any other call, because its
\* caller waits for none.
LEMMA CallKept ==
    ASSUME DInv, NEW c \in Callers, pc[c] = "ready", Call(c), outs' \in 0..MaxOut,
           UNCHANGED <<phase, slip, opl, op, ctl, setup, rx, late, timerVars, loopVars, hosts>>
    PROVE  DInv'
<1> USE DEF timerVars, loopVars
<1> DEFINE new == [by |-> c, n |-> late[c]]
<1>1. new \in Op /\ late[c] \in Nat
  BY DriversAssumption DEF DInv, Typed, Op
<1>2. /\ pc' \in [Callers -> {"free", "ready", "call", "failed", "done"}]
      /\ pc'[c] \in {"ready", "failed", "call"} /\ \A d \in Callers : d # c => pc'[d] = pc[d]
  BY DEF DInv, Typed, Call, AfterError
<1>3. \/ opl = "gone" /\ queue' = queue
      \/ opl # "gone" /\ queue' = Append(queue, new) /\ pc'[c] = "call"
  BY DEF DInv, Typed, Call, Enqueue
<1>4. queue \in Seq(Op) /\ queue' \in Seq(Op)
  <2>1. queue \in Seq(Op)
    BY DEF DInv, Typed
  <2> HIDE DEF new
  <2> QED
    BY <1>1, <1>3, <2>1
<1>5. Typed'
  BY <1>2, <1>4 DEF DInv, Typed
<1>6. OnTheWay'
  <2>1. CASE queue' = queue
    BY <2>1, <1>2, OnTheWayKept DEF DInv
  <2>2. CASE queue' = Append(queue, new) /\ pc'[c] = "call"
    <3>1. ASSUME NEW o \in Op, Mine(o) PROVE o # new /\ Mine(o)'
      <4>1. o.by \in Callers
        BY DEF Op
      <4>2. ~(o.by = c /\ o.n = late[c])
        BY <3>1 DEF Mine
      <4> QED
        BY <3>1, <4>1, <4>2, <1>2 DEF Mine
    <3>2. Mine(new)'
      BY <1>1, <2>2 DEF Mine
    <3>3. /\ \A k \in DOMAIN queue : queue[k] \in Op /\ queue'[k] = queue[k]
          /\ queue'[Len(queue) + 1] = new /\ DOMAIN queue' = DOMAIN queue \cup {Len(queue) + 1}
      BY <1>1, <1>4, <2>2
    <3>4. /\ \A k \in DOMAIN queue : Mine(queue[k])
          /\ \A k, l \in DOMAIN queue : k # l => queue[k] # queue[l]
      BY DEF DInv, OnTheWay
    <3>5. \A k \in DOMAIN queue : Mine(queue[k])' /\ queue'[k] # new
      <4> SUFFICES ASSUME NEW k \in DOMAIN queue PROVE Mine(queue[k])' /\ queue'[k] # new
        OBVIOUS
      <4>1. PICK o \in Op : o = queue[k] /\ o = queue'[k]
        BY <3>3
      <4>2. Mine(o)' /\ o # new
        BY <4>1, <3>1, <3>4
      <4> QED
        BY <4>1, <4>2 DEF Mine
    <3>6. \A k \in DOMAIN queue' : Mine(queue[k])'
      BY <3>2, <3>3, <3>5 DEF Mine
    <3>7. opl' = "run" => Mine(op)' /\ \A k \in DOMAIN queue' : queue'[k] # op'
      <4> SUFFICES ASSUME opl = "run" PROVE Mine(op)' /\ \A k \in DOMAIN queue' : queue'[k] # op'
        OBVIOUS
      <4>1. op \in Op /\ Mine(op) /\ \A k \in DOMAIN queue : queue[k] # op
        BY DEF DInv, Typed, OnTheWay
      <4>2. Mine(op)' /\ op # new
        <5>1. PICK o \in Op : o = op
          BY <4>1
        <5>2. Mine(o)' /\ o # new
          BY <5>1, <4>1, <3>1
        <5> QED
          BY <5>1, <5>2 DEF Mine
      <4> QED
        BY <4>1, <4>2, <3>3
    <3>8. \A k, l \in DOMAIN queue' : k # l => queue'[k] # queue'[l]
      BY <3>3, <3>4, <3>5
    <3> QED
      BY <3>6, <3>7, <3>8 DEF OnTheWay
  <2> QED
    BY <1>3, <2>1, <2>2
<1>7. Input'
  BY <1>2, CallerFacts DEF DInv, Input
<1>8. Table'
  BY <1>2, CallerFacts, TableKept DEF DInv, Table, Signalled
<1> QED
  BY <1>5, <1>6, <1>7, <1>8 DEF DInv

\* The tasks of the timers.
LEMMA TimerKept ==
    ASSUME DInv, NEW i \in TimerIds, TimerNext(i)
    PROVE  DInv'
<1> USE DEF actorVars
<1>1. CASE TimerTick(i)
  BY <1>1, CallerFacts, CallKept DEF TimerTick, DInv, Typed
<1>2. ASSUME TimerEnds(i) \/ TimerFails(i)
      PROVE  /\ pc' \in [Callers -> {"free", "ready", "call", "failed", "done"}]
             /\ OnTheWay' /\ Input'
             /\ pc'[Timer(i)] = "done" /\ \A d \in Callers : d # Timer(i) => pc'[d] = pc[d]
             /\ pc[Timer(i)] \in {"ready", "failed"} /\ name[i] \in Names
  <2>1. /\ pc' = [pc EXCEPT ![Timer(i)] = "done"] /\ pc[Timer(i)] \in {"ready", "failed"}
        /\ UNCHANGED <<queue, op, late, opl, rx>>
    BY <1>2 DEF TimerEnds, TimerFails
  <2>2. /\ pc' \in [Callers -> {"free", "ready", "call", "failed", "done"}]
        /\ pc'[Timer(i)] = "done" /\ \A d \in Callers : d # Timer(i) => pc'[d] = pc[d]
    BY <2>1, CallerFacts DEF DInv, Typed
  <2>3. OnTheWay'
    BY <2>1, <2>2, OnTheWayKept DEF DInv
  <2>4. Input' /\ name[i] \in Names
    BY <2>1, <2>2, CallerFacts DEF DInv, Input, Table
  <2> QED
    BY <2>1, <2>2, <2>3, <2>4
<1>3. CASE TimerEnds(i)
  <2>1. Typed'
    BY <1>2, <1>3 DEF DInv, Typed, TimerEnds, timerVars, loopVars
  <2>2. Table'
    <3>1. UNCHANGED <<name, zero, entry, cancel, setup, ctl>> /\ Cancelled(i)
      BY <1>3 DEF TimerEnds, timerVars
    <3>2. \A j \in TimerIds : j # i => pc'[Timer(j)] = pc[Timer(j)]
      BY <1>2, <1>3, CallerFacts
    <3>3. \A j \in TimerIds : pc'[Timer(j)] # "free" => name'[j] \in Names
      BY <1>2, <1>3, <3>1, <3>2 DEF DInv, Table
    <3>4. \A j \in cancel' : pc'[Timer(j)] # "free"
      BY <1>2, <1>3, <3>1, <3>2 DEF DInv, Table, Typed
    <3>5. setup'["timer"] = "cancel" => Signalled'
      BY <3>1 DEF DInv, Table, Signalled
    <3>6. ASSUME NEW m \in Names, entry'[m] # None
          PROVE  /\ name'[entry'[m]] = m /\ pc'[Timer(entry'[m])] # "free"
                 /\ entry'[m] \in cancel' => Signalled'
                 /\ \/ pc'[Timer(entry'[m])] \notin {"free", "done"}
                    \/ entry'[m] \in zero' \/ Signalled'
      <4>1. PICK j \in TimerIds : j = entry[m] /\ entry'[m] = j
        BY <3>1, <3>6 DEF DInv, Typed
      <4>2. /\ name[j] = m /\ pc[Timer(j)] # "free" /\ (j \in cancel => Signalled)
            /\ pc[Timer(j)] \notin {"free", "done"} \/ j \in zero \/ Signalled
        BY <4>1, <3>1, <3>6 DEF DInv, Table, Alive
      <4>3. j = i => Signalled
        BY <4>1, <4>2, <3>1 DEF Cancelled
      <4>4. Signalled' = Signalled
        BY <3>1 DEF Signalled
      <4> QED
        BY <4>1, <4>2, <4>3, <4>4, <3>1, <3>2, <1>2, <1>3
    <3> QED
      BY <3>3, <3>4, <3>5, <3>6 DEF Table, Alive
  <2> QED
    BY <1>2, <1>3, <2>1, <2>2 DEF DInv
<1>4. CASE TimerFails(i)
  <2>1. Typed'
    BY <1>2, <1>4 DEF DInv, Typed, TimerFails, loopVars
  <2>2. \A j \in TimerIds : pc'[Timer(j)] = pc[Timer(j)] \/ (j = i /\ pc'[Timer(j)] # "free")
    BY <1>2, <1>4, CallerFacts
  <2>3. Table'
    BY <1>2, <1>4, <2>2, EntryRemoved DEF DInv, TimerFails
  <2> QED
    BY <1>2, <1>4, <2>1, <2>3 DEF DInv
<1> QED
  BY <1>1, <1>3, <1>4 DEF TimerNext

\* A loop task or the input loop ends; it may leave an operation behind.
LEMMA EndedKept ==
    ASSUME DInv, Typed', NEW c \in Callers, \A i \in TimerIds : c # Timer(i),
           pc' = [pc EXCEPT ![c] = "done"],
           rx'["terminal"] = "held" => rx["terminal"] = "held" /\ c # Term,
           UNCHANGED <<opl, op, queue, ctl, setup, late, name, zero, entry, cancel>>
    PROVE  DInv'
<1>1. pc'[c] = "done" /\ \A d \in Callers : d # c => pc'[d] = pc[d]
  BY DEF DInv, Typed
<1>2. OnTheWay'
  BY <1>1, OnTheWayKept DEF DInv
<1>3. Input'
  BY <1>1, CallerFacts DEF DInv, Input
<1>4. \A i \in TimerIds : pc'[Timer(i)] = pc[Timer(i)]
  BY <1>1, CallerFacts
<1>5. Table'
  BY <1>4, TableKept DEF DInv, Table, Signalled
<1> QED
  BY <1>2, <1>3, <1>5 DEF DInv

\* The loop tasks.
LEMMA LoopKept ==
    ASSUME DInv, NEW i \in LoopIds, LoopNext(i)
    PROVE  DInv'
<1> USE DEF actorVars, timerVars
<1>1. CASE LoopIterate(i)
  BY <1>1, CallerFacts, CallKept DEF LoopIterate, DInv, Typed
<1>2. ASSUME LoopDone(i), running' \in BOOLEAN PROVE DInv'
  <2>1. pc' \in [Callers -> {"free", "ready", "call", "failed", "done"}]
    BY <1>2, CallerFacts DEF DInv, Typed, LoopDone
  <2>2. /\ rx' \in [{"loop", "terminal"} -> {"held", "read", "gone"}]
        /\ rx'["terminal"] = rx["terminal"]
    BY <1>2 DEF DInv, Typed, LoopDone
  <2>3. Typed'
    BY <1>2, <2>1, <2>2 DEF DInv, Typed, LoopDone
  <2>4. /\ Loop(i) \in Callers /\ Loop(i) # Term /\ \A j \in TimerIds : Loop(i) # Timer(j)
        /\ pc' = [pc EXCEPT ![Loop(i)] = "done"]
        /\ UNCHANGED <<opl, op, queue, ctl, setup, late, name, zero, entry, cancel>>
    BY <1>2, CallerFacts DEF LoopDone
  <2> QED
    BY <2>2, <2>3, <2>4, EndedKept
<1>3. CASE LoopStopped(i)
  BY <1>2, <1>3 DEF LoopStopped, DInv, Typed
<1>4. CASE LoopFails(i) \/ LoopShutdown(i)
  BY <1>2, <1>4 DEF LoopFails, LoopShutdown
<1> QED
  BY <1>1, <1>3, <1>4 DEF LoopNext

\* The input loop, whoever else calls the actor, and a call that is given up.
LEMMA OtherKept ==
    ASSUME DInv, TermInput \/ TermEnds \/ OtherCalls \/ \E c \in Callers : GiveUp(c)
    PROVE  DInv'
<1> USE DEF actorVars, timerVars, loopVars
<1>1. CASE TermInput
  BY <1>1, CallerFacts, CallKept DEF TermInput, DInv, Typed
<1>2. CASE OtherCalls
  <2>1. outs' \in 0..MaxOut
    BY <1>2, DriversAssumption DEF OtherCalls, DInv, Typed
  <2> QED
    BY <1>2, <2>1, CallerFacts, CallKept DEF OtherCalls
<1>3. CASE TermEnds
  <2>1. /\ pc' \in [Callers -> {"free", "ready", "call", "failed", "done"}]
        /\ rx' \in [{"loop", "terminal"} -> {"held", "read", "gone"}] /\ rx'["terminal"] = "gone"
    BY <1>3, CallerFacts DEF DInv, Typed, TermEnds
  <2>2. Typed'
    BY <1>3, <2>1 DEF DInv, Typed, TermEnds
  <2> QED
    BY <1>3, <2>1, <2>2, CallerFacts, EndedKept DEF TermEnds
<1>4. ASSUME NEW c \in Callers, GiveUp(c) PROVE DInv'
  <2>1. /\ pc[c] = "call" /\ pc' = [pc EXCEPT ![c] = AfterError(c)]
        /\ late[c] < MaxLate /\ late' = [late EXCEPT ![c] = @ + 1]
        /\ UNCHANGED <<phase, opl, op, queue, ctl, setup, rx, name, zero, entry, cancel>>
        /\ UNCHANGED <<slip, clearing, running, owner, hosts, outs>>
    BY <1>4 DEF GiveUp
  <2>2. /\ late' \in [Callers -> 0..MaxLate] /\ late'[c] = late[c] + 1 /\ late[c] \in Nat
        /\ \A d \in Callers : d # c => late'[d] = late[d]
    BY <2>1, DriversAssumption DEF DInv, Typed
  <2>3. /\ pc' \in [Callers -> {"free", "ready", "call", "failed", "done"}]
        /\ pc'[c] \in {"ready", "failed"} /\ \A d \in Callers : d # c => pc'[d] = pc[d]
    BY <2>1 DEF DInv, Typed, AfterError
  <2>4. Typed'
    BY <2>1, <2>2, <2>3 DEF DInv, Typed
  <2>5. OnTheWay'
    <3>1. ASSUME NEW o \in Op, Mine(o) PROVE Mine(o)'
      <4>1. o.by \in Callers /\ o.n \in Int
        BY DEF Op
      <4>2. CASE o.by = c
        <5>1. o.n <= late[c]
          BY <3>1, <4>2 DEF Mine
        <5> QED
          BY <5>1, <4>1, <4>2, <2>2 DEF Mine
      <4>3. CASE o.by # c
        BY <4>1, <4>3, <3>1, <2>2, <2>3 DEF Mine
      <4> QED
        BY <4>2, <4>3
    <3>2. \A k \in DOMAIN queue : queue[k] \in Op
      BY DEF DInv, Typed
    <3>3. opl = "run" => op \in Op
      BY DEF DInv, Typed
    <3> QED
      BY <2>1, <3>1, <3>2, <3>3 DEF DInv, OnTheWay
  <2>6. Input'
    BY <2>1, <2>3, CallerFacts DEF DInv, Input
  <2>7. Table'
    BY <2>1, <2>3, CallerFacts, TableKept DEF DInv, Table, Signalled
  <2> QED
    BY <2>4, <2>5, <2>6, <2>7 DEF DInv
<1> QED
  BY <1>1, <1>2, <1>3, <1>4

\* A step that changes nothing.
LEMMA StutterKept ==
    ASSUME DInv, UNCHANGED vars
    PROVE  DInv'
<1>1. UNCHANGED <<phase, opl, op, queue, ctl, setup, rx, pc, late, name, zero, entry, cancel>>
      /\ UNCHANGED <<slip, clearing, running, owner, hosts, outs>>
  BY DEF vars, actorVars, timerVars, loopVars
<1>2. Typed'
  BY <1>1 DEF DInv, Typed
<1> QED
  BY <1>1, <1>2, QuietKept DEF Signalled, DInv, Table

\* Every reachable state satisfies DInv.
THEOREM DriversInvariant == Spec => []DInv
<1>1. Init => DInv
  BY InitDInv
<1>2. DInv /\ [Next]_vars => DInv'
  <2> SUFFICES ASSUME DInv, [Next]_vars PROVE DInv'
    OBVIOUS
  <2> QED
    BY SetupKept, HostKept, OpKept, TimerKept, LoopKept, OtherKept, ControlKept, StutterKept
       DEF Next
<1> QED
  BY <1>1, <1>2, PTL DEF Spec

\* The number of operations of a caller that wait in the queue: each has its own
\* number, which is at most the number of calls the caller gave up.
LEMMA WaitingBound ==
    ASSUME DInv, NEW c \in Callers
    PROVE  Cardinality({k \in DOMAIN queue : queue[k].by = c}) <= late[c] + 1
<1> DEFINE S == {k \in DOMAIN queue : queue[k].by = c}
           f == [k \in S |-> queue[k].n]
<1>1. late[c] \in Nat
  BY DriversAssumption DEF DInv, Typed
<1>2. \A k \in DOMAIN queue : /\ queue[k] \in Op /\ queue[k].n \in Nat
                              /\ queue[k] = [by |-> queue[k].by, n |-> queue[k].n]
  <2>1. \A k \in DOMAIN queue : queue[k] \in Op
    BY DEF DInv, Typed
  <2> QED
    BY <2>1 DEF Op
<1>3. \A k \in S : queue[k].n \in 0..late[c]
  BY <1>1, <1>2 DEF DInv, OnTheWay, Mine
<1>4. \A k, l \in S : k # l => queue[k].n # queue[l].n
  BY <1>2 DEF DInv, OnTheWay
<1>5. f \in Injection(S, 0..late[c])
  BY <1>3, <1>4 DEF Injection, IsInjective
<1>6. IsFiniteSet(0..late[c]) /\ Cardinality(0..late[c]) = late[c] + 1
  <2>1. 0 \in Int /\ late[c] \in Int /\ ~(0 > late[c]) /\ late[c] - 0 + 1 = late[c] + 1
    BY <1>1
  <2>2. /\ IsFiniteSet(0..late[c])
        /\ Cardinality(0..late[c]) = IF 0 > late[c] THEN 0 ELSE late[c] - 0 + 1
    BY <2>1, FS_Interval
  <2> QED
    BY <2>1, <2>2
<1>7. Cardinality(S) <= Cardinality(0..late[c])
  BY <1>5, <1>6, FS_Injection
<1> QED
  BY <1>6, <1>7

\* A name in active_timers belongs to a timer that runs.
THEOREM TableLiveHolds == Spec => []TableLive
<1>1. DInv => TableLive
  <2> SUFFICES ASSUME DInv PROVE TableLive
    OBVIOUS
  <2>1. TypeOK
    BY WaitingBound DEF DInv, Typed, TypeOK
  <2> QED
    BY <2>1 DEF DInv, Table, TableLive
<1> QED
  BY <1>1, DriversInvariant, PTL

-----------------------------------------------------------------------------
(* The content store.                                                      *)

\* A call has a content and a label where its function takes one.
Shaped(c) ==
    /\ c \in StoreCall
    /\ (c.content = Nothing) <=> (c.op \in {"get-by-label", "remove-label"})
    /\ (c.label = Nothing) <=> (c.op \in {"store", "get"})

\* The step an actor is at is one of the call it makes.
CallsFit ==
    \A a \in Actors :
        /\ step[a] # "idle" => Shaped(call[a])
        /\ step[a] = "stat" => call[a].op \in {"store", "store-at-label", "label"}
        /\ step[a] \in {"create", "write"} => call[a].op \in {"store", "store-at-label"}
        /\ step[a] \in {"trunc", "put"} => call[a].op \in {"store-at-label", "label"}
        /\ step[a] = "read" => call[a].op = "get"
        /\ step[a] \in {"lstat", "lread", "rm"} => call[a].op \in {"get-by-label", "remove-label"}

\* Whoever is past File::create, or about to write a label, has seen the file of
\* its content or made it; only a living actor is between create and write.
Prepared ==
    \A a \in Actors :
        /\ step[a] \in {"write", "trunc", "put"} => data[call[a].content] # "none"
        /\ step[a] = "write" => a \in alive

StoreInv == StoreTypeOK /\ CallsFit /\ Prepared /\ LabelHasContent /\ IncompleteInWork

\* A file of a content is never removed, by any step.
LEMMA ContentStays ==
    ASSUME StoreTypeOK, CallsFit, [StoreNext]_storeVars
    PROVE  \A h \in Contents : data[h] # "none" => data'[h] # "none"
<1> USE DEF StoreTypeOK, files
<1>1. ASSUME NEW a \in Actors, Create(a)
      PROVE  data' = [data EXCEPT ![call[a].content] = "part"]
  BY <1>1 DEF Create
<1>2. ASSUME NEW a \in Actors, NEW h \in Contents, WriteLands(a, h)
      PROVE data' = [data EXCEPT ![h] = "full"]
  BY <1>2 DEF WriteLands
<1>3. CASE UNCHANGED data
  BY <1>3
<1>4. \/ UNCHANGED data
      \/ \E a \in Actors : Create(a) \/ \E h \in Contents : WriteLands(a, h)
  BY DEF StoreNext, storeVars, StepOf, Faulty, CallHost, Stat,
     Write, Read, Truncate, Put, LabelStat,
         LabelRead, Remove, StatFails, CreateFails, TruncateFails,
         PutFails, WriteFails, Abort, Crash
<1> QED
  BY <1>1, <1>2, <1>3, <1>4

\* Every step keeps the types: a step is only taken by a call of the right shape.
LEMMA TypeStep ==
    ASSUME StoreTypeOK, CallsFit, [StoreNext]_storeVars
    PROVE  StoreTypeOK'
<1> USE StoreAssumption DEF StoreTypeOK, CallsFit, Shaped, StoreCall, Steps,
        Functions, files, ghosts, bounds
<1>1. ASSUME NEW a \in Actors, NEW o \in Functions, NEW h \in Contents \cup {Nothing},
             NEW l \in Labels \cup {Nothing},
             CallHost(a, o, h, l)
      PROVE  StoreTypeOK'
  BY <1>1 DEF CallHost, FirstStep
<1>2. ASSUME NEW a \in Actors, Stat(a) PROVE StoreTypeOK'
  BY <1>2 DEF Stat, Goes, Returns, At
<1>3. ASSUME NEW a \in Actors, Create(a) PROVE StoreTypeOK'
  BY <1>3 DEF Create, Goes, At
<1>4. ASSUME NEW a \in Actors, Write(a) PROVE StoreTypeOK'
  BY <1>4 DEF Write, Goes, Returns, At
<1>5. ASSUME NEW a \in Actors, Read(a) PROVE StoreTypeOK'
  BY <1>5 DEF Read, Returns, At
<1>6. ASSUME NEW a \in Actors, Truncate(a) PROVE StoreTypeOK'
  BY <1>6 DEF Truncate, Goes, At
<1>7. ASSUME NEW a \in Actors, Put(a) PROVE StoreTypeOK'
  BY <1>7 DEF Put, Returns, At
<1>8. ASSUME NEW a \in Actors, LabelStat(a) PROVE StoreTypeOK'
  BY <1>8 DEF LabelStat, Goes, Returns, At
<1>9. ASSUME NEW a \in Actors, LabelRead(a) PROVE StoreTypeOK'
  BY <1>9 DEF LabelRead, Returns, At
<1>10. ASSUME NEW a \in Actors, Remove(a) PROVE StoreTypeOK'
  BY <1>10 DEF Remove, Returns, At
<1>11. ASSUME NEW a \in Actors, StatFails(a) PROVE StoreTypeOK'
  BY <1>11 DEF StatFails, Goes, Returns, At, Fault
<1>12. ASSUME NEW a \in Actors, CreateFails(a) PROVE StoreTypeOK'
  BY <1>12 DEF CreateFails, Returns, At, Fault
<1>13. ASSUME NEW a \in Actors, TruncateFails(a) PROVE StoreTypeOK'
  BY <1>13 DEF TruncateFails, Returns, At, Fault
<1>14. ASSUME NEW a \in Actors, NEW h \in Contents, WriteFails(a, h) PROVE StoreTypeOK'
  BY <1>14 DEF WriteFails, Fault
<1>15. ASSUME NEW a \in Actors, NEW begun \in BOOLEAN, Abort(a, begun) PROVE StoreTypeOK'
  BY <1>15 DEF Abort, Fault
<1>16. ASSUME NEW a \in Actors, NEW h \in Contents, WriteLands(a, h) PROVE StoreTypeOK'
  BY <1>16 DEF WriteLands
<1>17. CASE Crash
  BY <1>17 DEF Crash, Fault
<1>18. CASE UNCHANGED storeVars
  BY <1>18 DEF storeVars
<1>19. ASSUME NEW a \in Actors, PutFails(a) PROVE StoreTypeOK'
  BY <1>19 DEF PutFails, Returns, At, Fault
<1> HIDE DEF StoreTypeOK, CallsFit
<1> QED
  BY <1>1, <1>2, <1>3, <1>4, <1>5, <1>6, <1>7, <1>8, <1>9, <1>10, <1>11, <1>12, <1>13, <1>14,
     <1>15, <1>16, <1>17, <1>18, <1>19 DEF StoreNext, StepOf, Faulty

\* Every step is followed by another of the same call.
LEMMA FitStep ==
    ASSUME StoreTypeOK, CallsFit, [StoreNext]_storeVars
    PROVE  CallsFit'
<1> USE StoreAssumption DEF StoreTypeOK, CallsFit, Shaped, StoreCall, Steps,
        Functions, files, ghosts, bounds
<1>1. ASSUME NEW a \in Actors, NEW o \in Functions, NEW h \in Contents \cup {Nothing},
             NEW l \in Labels \cup {Nothing},
             CallHost(a, o, h, l)
      PROVE  CallsFit'
  BY <1>1 DEF CallHost, FirstStep
<1>2. ASSUME NEW a \in Actors, Stat(a) PROVE CallsFit'
  BY <1>2 DEF Stat, Goes, Returns, At
<1>3. ASSUME NEW a \in Actors, Create(a) PROVE CallsFit'
  BY <1>3 DEF Create, Goes, At
<1>4. ASSUME NEW a \in Actors, Write(a) PROVE CallsFit'
  BY <1>4 DEF Write, Goes, Returns, At
<1>5. ASSUME NEW a \in Actors, Read(a) PROVE CallsFit'
  BY <1>5 DEF Read, Returns, At
<1>6. ASSUME NEW a \in Actors, Truncate(a) PROVE CallsFit'
  BY <1>6 DEF Truncate, Goes, At
<1>7. ASSUME NEW a \in Actors, Put(a) PROVE CallsFit'
  BY <1>7 DEF Put, Returns, At
<1>8. ASSUME NEW a \in Actors, LabelStat(a) PROVE CallsFit'
  BY <1>8 DEF LabelStat, Goes, Returns, At
<1>9. ASSUME NEW a \in Actors, LabelRead(a) PROVE CallsFit'
  BY <1>9 DEF LabelRead, Returns, At
<1>10. ASSUME NEW a \in Actors, Remove(a) PROVE CallsFit'
  BY <1>10 DEF Remove, Returns, At
<1>11. ASSUME NEW a \in Actors, StatFails(a) PROVE CallsFit'
  BY <1>11 DEF StatFails, Goes, Returns, At, Fault
<1>12. ASSUME NEW a \in Actors, CreateFails(a) PROVE CallsFit'
  BY <1>12 DEF CreateFails, Returns, At, Fault
<1>13. ASSUME NEW a \in Actors, TruncateFails(a) PROVE CallsFit'
  BY <1>13 DEF TruncateFails, Returns, At, Fault
<1>14. ASSUME NEW a \in Actors, NEW h \in Contents, WriteFails(a, h) PROVE CallsFit'
  BY <1>14 DEF WriteFails, Fault
<1>15. ASSUME NEW a \in Actors, NEW begun \in BOOLEAN, Abort(a, begun) PROVE CallsFit'
  BY <1>15 DEF Abort, Fault
<1>16. ASSUME NEW a \in Actors, NEW h \in Contents, WriteLands(a, h) PROVE CallsFit'
  BY <1>16 DEF WriteLands
<1>17. CASE Crash
  BY <1>17 DEF Crash, Fault
<1>18. CASE UNCHANGED storeVars
  BY <1>18 DEF storeVars
<1>19. ASSUME NEW a \in Actors, PutFails(a) PROVE CallsFit'
  BY <1>19 DEF PutFails, Returns, At, Fault
<1> HIDE DEF StoreTypeOK, CallsFit
<1> QED
  BY <1>1, <1>2, <1>3, <1>4, <1>5, <1>6, <1>7, <1>8, <1>9, <1>10, <1>11, <1>12, <1>13, <1>14,
     <1>15, <1>16, <1>17, <1>18, <1>19 DEF StoreNext, StepOf, Faulty

\* Every step leaves the file of a content that a call has prepared.
LEMMA PreparedStep ==
    ASSUME StoreTypeOK, CallsFit, Prepared, [StoreNext]_storeVars
    PROVE  Prepared'
<1> USE StoreAssumption DEF StoreTypeOK, CallsFit, Shaped, Prepared, StoreCall,
        Steps, Functions, files,
        ghosts, bounds
<1>1. ASSUME NEW a \in Actors, NEW o \in Functions, NEW h \in Contents \cup {Nothing},
             NEW l \in Labels \cup {Nothing},
             CallHost(a, o, h, l)
      PROVE  Prepared'
  BY <1>1 DEF CallHost, FirstStep
<1>2. ASSUME NEW a \in Actors, Stat(a) PROVE Prepared'
  BY <1>2 DEF Stat, Goes, Returns, At
<1>3. ASSUME NEW a \in Actors, Create(a) PROVE Prepared'
  BY <1>3 DEF Create, Goes, At
<1>4. ASSUME NEW a \in Actors, Write(a) PROVE Prepared'
  BY <1>4 DEF Write, Goes, Returns, At
<1>5. ASSUME NEW a \in Actors, Read(a) PROVE Prepared'
  BY <1>5 DEF Read, Returns, At
<1>6. ASSUME NEW a \in Actors, Truncate(a) PROVE Prepared'
  BY <1>6 DEF Truncate, Goes, At
<1>7. ASSUME NEW a \in Actors, Put(a) PROVE Prepared'
  BY <1>7 DEF Put, Returns, At
<1>8. ASSUME NEW a \in Actors, LabelStat(a) PROVE Prepared'
  BY <1>8 DEF LabelStat, Goes, Returns, At
<1>9. ASSUME NEW a \in Actors, LabelRead(a) PROVE Prepared'
  BY <1>9 DEF LabelRead, Returns, At
<1>10. ASSUME NEW a \in Actors, Remove(a) PROVE Prepared'
  BY <1>10 DEF Remove, Returns, At
<1>11. ASSUME NEW a \in Actors, StatFails(a) PROVE Prepared'
  BY <1>11 DEF StatFails, Goes, Returns, At, Fault
<1>12. ASSUME NEW a \in Actors, CreateFails(a) PROVE Prepared'
  BY <1>12 DEF CreateFails, Returns, At, Fault
<1>13. ASSUME NEW a \in Actors, TruncateFails(a) PROVE Prepared'
  BY <1>13 DEF TruncateFails, Returns, At, Fault
<1>14. ASSUME NEW a \in Actors, NEW h \in Contents, WriteFails(a, h) PROVE Prepared'
  BY <1>14 DEF WriteFails, Fault
<1>15. ASSUME NEW a \in Actors, NEW begun \in BOOLEAN, Abort(a, begun) PROVE Prepared'
  BY <1>15 DEF Abort, Fault
<1>16. ASSUME NEW a \in Actors, NEW h \in Contents, WriteLands(a, h) PROVE Prepared'
  BY <1>16 DEF WriteLands
<1>17. CASE Crash
  BY <1>17 DEF Crash, Fault
<1>18. CASE UNCHANGED storeVars
  BY <1>18 DEF storeVars
<1>19. ASSUME NEW a \in Actors, PutFails(a) PROVE Prepared'
  BY <1>19 DEF PutFails, Returns, At, Fault
<1> HIDE DEF StoreTypeOK, CallsFit, Prepared
<1> QED
  BY <1>1, <1>2, <1>3, <1>4, <1>5, <1>6, <1>7, <1>8, <1>9, <1>10, <1>11, <1>12, <1>13, <1>14,
     <1>15, <1>16, <1>17, <1>18, <1>19 DEF StoreNext, StepOf, Faulty

\* A label is given the hash of a content that has a file.
LEMMA LabelStep ==
    ASSUME StoreTypeOK, CallsFit, Prepared, LabelHasContent,
           [StoreNext]_storeVars
    PROVE  LabelHasContent'
<1> USE StoreAssumption, ContentStays DEF StoreTypeOK, CallsFit, Shaped, Prepared,
        LabelHasContent, StoreCall,
        Functions, files, ghosts, bounds
<1>1. ASSUME NEW a \in Actors, NEW o \in Functions, NEW h \in Contents \cup {Nothing},
             NEW l \in Labels \cup {Nothing},
             CallHost(a, o, h, l)
      PROVE  LabelHasContent'
  BY <1>1 DEF CallHost, FirstStep
<1>2. ASSUME NEW a \in Actors, Stat(a) PROVE LabelHasContent'
  BY <1>2 DEF Stat, Goes, Returns, At
<1>3. ASSUME NEW a \in Actors, Create(a) PROVE LabelHasContent'
  BY <1>3 DEF Create, Goes, At
<1>4. ASSUME NEW a \in Actors, Write(a) PROVE LabelHasContent'
  BY <1>4 DEF Write, Goes, Returns, At
<1>5. ASSUME NEW a \in Actors, Read(a) PROVE LabelHasContent'
  BY <1>5 DEF Read, Returns, At
<1>6. ASSUME NEW a \in Actors, Truncate(a) PROVE LabelHasContent'
  BY <1>6 DEF Truncate, Goes, At
<1>7. ASSUME NEW a \in Actors, Put(a) PROVE LabelHasContent'
  BY <1>7 DEF Put, Returns, At
<1>8. ASSUME NEW a \in Actors, LabelStat(a) PROVE LabelHasContent'
  BY <1>8 DEF LabelStat, Goes, Returns, At
<1>9. ASSUME NEW a \in Actors, LabelRead(a) PROVE LabelHasContent'
  BY <1>9 DEF LabelRead, Returns, At
<1>10. ASSUME NEW a \in Actors, Remove(a) PROVE LabelHasContent'
  BY <1>10 DEF Remove, Returns, At
<1>11. ASSUME NEW a \in Actors, StatFails(a) PROVE LabelHasContent'
  BY <1>11 DEF StatFails, Goes, Returns, At, Fault
<1>12. ASSUME NEW a \in Actors, CreateFails(a) PROVE LabelHasContent'
  BY <1>12 DEF CreateFails, Returns, At, Fault
<1>13. ASSUME NEW a \in Actors, TruncateFails(a) PROVE LabelHasContent'
  BY <1>13 DEF TruncateFails, Returns, At, Fault
<1>14. ASSUME NEW a \in Actors, NEW h \in Contents, WriteFails(a, h)
       PROVE  LabelHasContent'
  BY <1>14 DEF WriteFails, Fault
<1>15. ASSUME NEW a \in Actors, NEW begun \in BOOLEAN, Abort(a, begun)
       PROVE  LabelHasContent'
  BY <1>15 DEF Abort, Fault
<1>16. ASSUME NEW a \in Actors, NEW h \in Contents, WriteLands(a, h)
       PROVE  LabelHasContent'
  BY <1>16 DEF WriteLands
<1>17. CASE Crash
  BY <1>17 DEF Crash, Fault
<1>18. CASE UNCHANGED storeVars
  BY <1>18 DEF storeVars
<1>19. ASSUME NEW a \in Actors, PutFails(a) PROVE LabelHasContent'
  BY <1>19 DEF PutFails, Returns, At, Fault
<1> HIDE DEF StoreTypeOK, CallsFit, Prepared, LabelHasContent
<1> QED
  BY <1>1, <1>2, <1>3, <1>4, <1>5, <1>6, <1>7, <1>8, <1>9, <1>10, <1>11, <1>12, <1>13, <1>14,
     <1>15, <1>16, <1>17, <1>18, <1>19 DEF StoreNext, StepOf, Faulty

\* Every step leaves each incomplete file to a write that is under way, or counts
\* its write as lost.
LEMMA WorkStep ==
    ASSUME StoreTypeOK, CallsFit, Prepared, IncompleteInWork,
           [StoreNext]_storeVars
    PROVE  IncompleteInWork'
<1> USE StoreAssumption DEF StoreTypeOK, CallsFit, Shaped, Prepared,
        IncompleteInWork, StoreCall,
        Functions, files, ghosts, bounds
<1>1. ASSUME NEW a \in Actors, NEW o \in Functions, NEW h \in Contents \cup {Nothing},
             NEW l \in Labels \cup {Nothing},
             CallHost(a, o, h, l)
      PROVE  IncompleteInWork'
  BY <1>1 DEF CallHost, FirstStep
<1>2. ASSUME NEW a \in Actors, Stat(a) PROVE IncompleteInWork'
  BY <1>2 DEF Stat, Goes, Returns, At
<1>3. ASSUME NEW a \in Actors, Create(a) PROVE IncompleteInWork'
  BY <1>3 DEF Create, Goes, At
<1>4. ASSUME NEW a \in Actors, Write(a) PROVE IncompleteInWork'
  <2>1. /\ step[a] = "write" /\ call[a].content \in writes'[a] /\ step'[a] # "put"
        /\ \A b \in Actors : writes[b] \subseteq writes'[b] /\ (b # a => step'[b] = step[b])
        /\ UNCHANGED <<data, labels, unlinked, alive, call, damaged, torn>>
    BY <1>4 DEF Write, Goes, Returns, At
  <2>2. \A h \in Contents : data'[h] = "part" =>
           \/ h \in damaged' \/ \E b \in Actors : h \in writes'[b]
           \/ \E b \in alive' : step'[b] = "write" /\ call'[b].content = h
    <3> SUFFICES ASSUME NEW h \in Contents, data[h] = "part"
                 PROVE  \/ h \in damaged \/ \E b \in Actors : h \in writes'[b]
                        \/ \E b \in alive : step'[b] = "write" /\ call[b].content = h
      BY <2>1
    <3>1. \/ h \in damaged \/ \E b \in Actors : h \in writes[b]
          \/ \E b \in alive : step[b] = "write" /\ call[b].content = h
      BY DEF IncompleteInWork
    <3>2. alive \subseteq Actors
      BY DEF StoreTypeOK
    <3> HIDE StoreAssumption DEF StoreTypeOK, CallsFit, Prepared, IncompleteInWork
    <3> QED
      BY <2>1, <3>1, <3>2
  <2>3. \A l \in Labels : labels'[l] = "part" =>
           l \in torn' \/ \E b \in Actors \ unlinked' : step'[b] = "put" /\ call'[b].label = l
    BY <2>1
  <2> QED
    BY <2>2, <2>3
<1>5. ASSUME NEW a \in Actors, Read(a) PROVE IncompleteInWork'
  BY <1>5 DEF Read, Returns, At
<1>6. ASSUME NEW a \in Actors, Truncate(a) PROVE IncompleteInWork'
  BY <1>6 DEF Truncate, Goes, At
<1>7. ASSUME NEW a \in Actors, Put(a) PROVE IncompleteInWork'
  BY <1>7 DEF Put, Returns, At
<1>8. ASSUME NEW a \in Actors, LabelStat(a) PROVE IncompleteInWork'
  BY <1>8 DEF LabelStat, Goes, Returns, At
<1>9. ASSUME NEW a \in Actors, LabelRead(a) PROVE IncompleteInWork'
  BY <1>9 DEF LabelRead, Returns, At
<1>10. ASSUME NEW a \in Actors, Remove(a) PROVE IncompleteInWork'
  BY <1>10 DEF Remove, Returns, At
<1>11. ASSUME NEW a \in Actors, StatFails(a) PROVE IncompleteInWork'
  BY <1>11 DEF StatFails, Goes, Returns, At, Fault
<1>12. ASSUME NEW a \in Actors, CreateFails(a) PROVE IncompleteInWork'
  BY <1>12 DEF CreateFails, Returns, At, Fault
<1>13. ASSUME NEW a \in Actors, TruncateFails(a) PROVE IncompleteInWork'
  BY <1>13 DEF TruncateFails, Returns, At, Fault
<1>14. ASSUME NEW a \in Actors, NEW h \in Contents, WriteFails(a, h)
       PROVE  IncompleteInWork'
  BY <1>14 DEF WriteFails, Fault
<1>15. ASSUME NEW a \in Actors, NEW begun \in BOOLEAN, Abort(a, begun)
       PROVE  IncompleteInWork'
  BY <1>15 DEF Abort, Fault
<1>16. ASSUME NEW a \in Actors, NEW h \in Contents, WriteLands(a, h)
       PROVE  IncompleteInWork'
  BY <1>16 DEF WriteLands
<1>17. CASE Crash
  BY <1>17 DEF Crash, Fault
<1>18. CASE UNCHANGED storeVars
  BY <1>18 DEF storeVars
<1>19. ASSUME NEW a \in Actors, PutFails(a) PROVE IncompleteInWork'
  BY <1>19 DEF PutFails, Returns, At, Fault
<1> HIDE DEF StoreTypeOK, CallsFit, Prepared, IncompleteInWork
<1> QED
  BY <1>1, <1>2, <1>3, <1>4, <1>5, <1>6, <1>7, <1>8, <1>9, <1>10, <1>11, <1>12, <1>13, <1>14,
     <1>15, <1>16, <1>17, <1>18, <1>19 DEF StoreNext, StepOf, Faulty

\* The reachable states satisfy StoreInv: the first one does, and every step keeps
\* it, whoever takes it and wherever a call is cut off.
THEOREM StoreInvariant == StoreSpec => []StoreInv
<1>1. StoreInit => StoreInv
  BY StoreAssumption DEF StoreInit, StoreInv, StoreTypeOK, CallsFit, Prepared,
     LabelHasContent,
     IncompleteInWork, Steps
<1>2. StoreInv /\ [StoreNext]_storeVars => StoreInv'
  BY TypeStep, FitStep, PreparedStep, LabelStep, WorkStep DEF StoreInv
<1> QED
  BY <1>1, <1>2, PTL DEF StoreSpec

\* The files agree with the calls at work on them: a label, and the reference
\* get-by-label returns, name a content that has a file, and an incomplete file is
\* one that a write under way will complete or one whose write was lost.
THEOREM FilesAgreeHolds == StoreSpec => []FilesAgree
<1>1. StoreInv => FilesAgree
  BY DEF StoreInv, FilesAgree
<1> QED
  BY <1>1, StoreInvariant, PTL

\* A content that has a file has one for good.
THEOREM ContentKept ==
    StoreSpec => [][\A h \in Contents : data[h] # "none" => data'[h] # "none"]_storeVars
<1>1. StoreInv /\ [StoreNext]_storeVars
      => [\A h \in Contents : data[h] # "none" => data'[h] # "none"]_storeVars
  BY ContentStays DEF StoreInv
<1> QED
  BY <1>1, StoreInvariant, PTL DEF StoreSpec

=============================================================================
