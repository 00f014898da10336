----------------------- MODULE TheaterRuntime_proofs -----------------------
(***************************************************************************)
(* Proofs about TheaterRuntime, for any ids, capacities, host functions    *)
(* and commands.                                                           *)
(***************************************************************************)
EXTENDS TheaterRuntime, TLAPS

\* While the loop waits for a setup, the actor is new: it is neither registered nor
\* asked to stop, its chain is there, and no other actor is being set up.
SetupAlone ==
    /\ loop.pc = "setup" =>
         /\ loop.cmd.id \in chains \ (actors \cup asked)
         /\ life[loop.cmd.id] \in {"starting", "up", "failed"}
    /\ \A a \in Ids : life[a] = "starting" => loop.pc = "setup" /\ loop.cmd.id = a

\* Only an actor that has been up is registered or asked to stop, and only one that
\* was asked stops.
AskedFirst ==
    /\ \A a \in actors \cup asked : life[a] \in {"up", "stopping", "stopped"}
    /\ \A a \in Ids : life[a] \in {"stopping", "stopped"} => a \in asked

\* stop_actor takes the chain first and the registry entry last.
ChainsKept ==
    actors \subseteq chains \cup (IF loop.pc = "stop" THEN {loop.cmd.id} ELSE {})

\* Somebody removes every actor that was asked to stop.
Leaves(a) ==
    \/ loop.pc = "stop" /\ loop.cmd.id = a
    \/ tasks[<<"waiter", a>>] > 0
    \/ Pending("ShutdownComplete", a)

Leaving == ~Exited => \A a \in actors \cap asked : Leaves(a)

\* A completion is sent only by the task that waited for the actor.
Completions ==
    /\ \A i \in DOMAIN cmds : cmds[i].op = "ShutdownComplete" =>
         cmds[i].id \in Ids /\ (cmds[i].id \in Slow \/ life[cmds[i].id] = "stopped")
    /\ \A a \in Ids : req[a].op # "ShutdownComplete"

\* An end of a supervised actor is announced before the actor is asked to stop.
Announced(a) == parent[a] # None => a \in told \/ tasks[<<"note", a>>] > 0

ToldBeforeAsked ==
    /\ \A a \in asked : Announced(a)
    /\ loop.pc = "act" => Announced(loop.cmd.id)
    /\ loop.pc = "note" => loop.cmd.op \in ToldInLoop

RegistryInv ==
    /\ TypeOK /\ StillRegistered /\ SetupAlone /\ AskedFirst /\ ChainsKept
    /\ Leaving /\ Completions /\ StoppedBeforeRemoved /\ ToldBeforeAsked

-----------------------------------------------------------------------------
\* Every command is one, and has the id it is about.
LEMMA CommandTypes ==
    /\ NoCmd \in Commands
    /\ \A a \in Ids, o \in Ops : [op |-> o, id |-> a, by |-> None] \in Commands
    /\ \A a \in Ids, o \in Ops, b \in Ids \cup {None} : [op |-> o, id |-> b, by |-> a] \in Commands
    /\ \A o \in Ops, b \in Ids \cup {None} : [op |-> o, id |-> b, by |-> None] \in Commands
    /\ \A c \in Commands : /\ c.op \in Ops /\ c.id \in Ids \cup {None} /\ c.by \in Ids \cup {None}
                           /\ \A a \in Ids : /\ [c EXCEPT !.id = a] \in Commands
                                             /\ [c EXCEPT !.id = a].id = a
                                             /\ [c EXCEPT !.id = a].op = c.op
                                             /\ [c EXCEPT !.id = a].by = c.by
  BY DEF Commands, NoCmd, Ops

\* The loop waits for its next command without one.
LEMMA IdleLoop ==
    \A p \in {"recv", "exited"} : [pc |-> p, cmd |-> NoCmd] \in
        [pc : {"recv", "setup", "note", "act", "stop", "info", "exited"}, cmd : Commands]
  BY CommandTypes

\* The operations of the commands that are sent.
LEMMA OpTypes == {"Spawn", "Setup", "Stop", "Terminate", "Info", "ShuttingDown",
                  "ShutdownComplete", "Error", "ShutdownRuntime", "none"} \subseteq Ops
  BY DEF Ops

\* A command that is sent is put at the end, if there is room.
LEMMA SendType ==
    ASSUME TypeOK, NEW c \in Commands, Send(c)
    PROVE  cmds' \in Seq(Commands) /\ Len(cmds') <= CmdCap
<1>1. CASE cmds' = cmds
  BY <1>1 DEF TypeOK
<1>2. CASE HasRoom /\ cmds' = Append(cmds, c)
  BY <1>2, TheaterAssumption DEF TypeOK, HasRoom
<1> QED
  BY <1>1, <1>2 DEF Send

\* The loop takes the command at the head.
LEMMA TakenType ==
    ASSUME TypeOK, NEW ops, Taken(ops)
    PROVE  /\ cmds # <<>> /\ Head(cmds) \in Commands /\ Head(cmds).op \in ops
           /\ cmds' \in Seq(Commands) /\ Len(cmds') <= CmdCap
           /\ loop.pc = "recv"
<1>1. cmds \in Seq(Commands) /\ cmds # <<>> /\ cmds' = Tail(cmds) /\ Len(cmds) <= CmdCap
  BY DEF TypeOK, Taken
<1>2. Head(cmds) \in Commands /\ cmds' \in Seq(Commands) /\ Len(cmds') = Len(cmds) - 1
  BY <1>1
<1> QED
  BY <1>1, <1>2, TheaterAssumption DEF Taken

\* A child result that is put in the channel, or finds it closed.
LEMMA NoteType ==
    ASSUME TypeOK, NEW a \in Ids, Note(a)
    PROVE  notes' \in Seq(Ids) /\ Len(notes') <= NoteCap /\ told' = told \cup {a}
<1>1. CASE UNCHANGED notes
  BY <1>1 DEF Note, TypeOK
<1>2. CASE notes' = Append(notes, a) /\ Len(notes) < NoteCap
  BY <1>2, TheaterAssumption DEF Note, TypeOK
<1> QED
  BY <1>1, <1>2 DEF Note

\* The registered actor that the loop is working on, or the one it sets up.
LEMMA LoopId ==
    ASSUME TypeOK, StillRegistered, SetupAlone
    PROVE  loop.pc \in {"note", "act", "stop", "setup"} => loop.cmd.id \in Ids
  BY DEF TypeOK, StillRegistered, SetupAlone

\* The loop goes on with the command it has.
LEMMA LoopTypes ==
    ASSUME TypeOK
    PROVE  /\ loop.cmd \in Commands
           /\ \A p \in {"recv", "setup", "note", "act", "stop", "info", "exited"} :
                [loop EXCEPT !.pc = p] \in
                    [pc : {"recv", "setup", "note", "act", "stop", "info", "exited"}, cmd : Commands]
  BY DEF TypeOK

\* One task more, or less, leaves the counts of the others, and the table a table.
LEMMA PlusType ==
    ASSUME TypeOK, NEW w \in {"shutdown", "waiter", "note"}, NEW a \in Ids
    PROVE  Plus(w, a) \in [{"shutdown", "waiter", "note"} \X Ids -> Nat]
<1> DEFINE D == {"shutdown", "waiter", "note"} \X Ids
<1>1. tasks \in [D -> Nat]
  BY DEF TypeOK
<1>2. <<w, a>> \in D
  OBVIOUS
<1>3. tasks[<<w, a>>] + 1 \in Nat
  BY <1>1, <1>2
<1> HIDE DEF D
<1> QED
  BY <1>1, <1>2, <1>3 DEF Plus, D

LEMMA MinusOther ==
    ASSUME TypeOK, NEW w \in {"shutdown", "note"}, NEW b \in Ids, NEW a \in Ids
    PROVE  Minus(w, b)[<<"waiter", a>>] = tasks[<<"waiter", a>>]
<1>1. <<"waiter", a>> \in {"shutdown", "waiter", "note"} \X Ids
  OBVIOUS
<1>2. <<"waiter", a>> # <<w, b>>
  OBVIOUS
<1>3. DOMAIN tasks = {"shutdown", "waiter", "note"} \X Ids
  BY DEF TypeOK
<1> QED
  BY <1>1, <1>2, <1>3 DEF Minus

\* Every step keeps the types.
LEMMA TypeStep ==
    ASSUME TypeOK, StillRegistered, SetupAlone, [Next]_vars
    PROVE  TypeOK'
<1> USE TheaterAssumption DEF TypeOK, actVars, svVars, regVars, bounds
<1>1. ASSUME NEW a \in Ids, LoopRegistryErr(a) PROVE TypeOK'
  <2>1. cmds' \in Seq(Commands) /\ Len(cmds') <= CmdCap
    BY <1>1, TakenType DEF LoopRegistryErr
  <2> QED
    BY <1>1, <2>1, SMTT(30) DEF LoopRegistryErr, Reply
<1>2. ASSUME NEW a \in Ids, LoopSpawn(a) PROVE TypeOK'
  BY <1>2, TakenType, CommandTypes, SMTT(30) DEF LoopSpawn
<1>3. CASE LoopRegister
  BY <1>3, LoopId, IdleLoop DEF LoopRegister, Finish
<1>4. CASE LoopSetupErr
  BY <1>4, LoopId, IdleLoop DEF LoopSetupErr, Finish, Reply
<1>5. CASE LoopAbsent
  <2>1. cmds' \in Seq(Commands) /\ Len(cmds') <= CmdCap
    BY <1>5, TakenType DEF LoopAbsent
  <2> QED
    BY <1>5, <2>1 DEF LoopAbsent, Reply
<1>6. CASE LoopTake
  <2>1. Head(cmds) \in Commands /\ cmds' \in Seq(Commands) /\ Len(cmds') <= CmdCap
    BY <1>6, TakenType DEF LoopTake
  <2>2. Head(cmds).id \in Ids
    BY <1>6 DEF LoopTake
  <2>3. told' \subseteq Ids
    BY <1>6, <2>2 DEF LoopTake
  <2>4. tasks' \in [{"shutdown", "waiter", "note"} \X Ids -> Nat]
    <3>1. tasks' = tasks \/ \E w \in {"shutdown", "waiter", "note"} :
                               tasks' = Plus(w, Head(cmds).id)
      BY <1>6 DEF LoopTake
    <3>2. \A w \in {"shutdown", "waiter", "note"} :
             Plus(w, Head(cmds).id) \in [{"shutdown", "waiter", "note"} \X Ids -> Nat]
      BY <2>2, PlusType, Zenon
    <3> QED
      BY <3>1, <3>2
  <2> QED
    BY <1>6, <2>1, <2>3, <2>4 DEF LoopTake
<1>7. CASE LoopNote
  <2>1. loop.cmd.id \in Ids
    BY <1>7, LoopId DEF LoopNote
  <2>2. notes' \in Seq(Ids) /\ Len(notes') <= NoteCap /\ told' \subseteq Ids
    BY <1>7, <2>1, NoteType DEF LoopNote
  <2> QED
    BY <1>7, <2>2, LoopTypes DEF LoopNote
<1>8. CASE LoopStop
  <2>1. loop.cmd.id \in Ids
    BY <1>8, LoopId DEF LoopStop
  <2> QED
    BY <1>8, <2>1, LoopTypes, SMTT(30) DEF LoopStop
<1>9. CASE LoopDetach
  BY <1>9, LoopId, IdleLoop, SMTT(30) DEF LoopDetach, Finish, Plus
<1>10. CASE LoopStopped
  BY <1>10, LoopId, IdleLoop DEF LoopStopped, Finish, Reply, WaitOver
<1>11. CASE LoopComplete
  <2>1. loop.pc = "recv" /\ cmds # <<>>
    BY <1>11 DEF LoopComplete
  <2>2. Tail(cmds) \in Seq(Commands) /\ Len(Tail(cmds)) <= CmdCap
    BY <2>1
  <2>3. <<>> \in Seq(Commands) /\ Len(<<>>) <= CmdCap
    OBVIOUS
  <2>4. CASE actors' = {}
    <3>1. Exit
      BY <1>11, <2>4 DEF LoopComplete
    <3>2. call' \in [Ids -> {"idle", "guest", "send", "wait", "answered", "report", "dead", "over"}]
      BY <3>1 DEF Exit
    <3> QED
      BY <1>11, <2>3, <3>1, <3>2, IdleLoop DEF LoopComplete, Exit
  <2>5. CASE actors' # {}
    BY <1>11, <2>2, <2>5, ZenonT(30) DEF LoopComplete
  <2> QED
    BY <2>4, <2>5
<1>12. CASE LoopShutdownRuntime
  <2>1. <<>> \in Seq(Commands) /\ Len(<<>>) <= CmdCap
    OBVIOUS
  <2> QED
    BY <1>12, <2>1, IdleLoop DEF LoopShutdownRuntime, Exit
<1>13. CASE LoopInfo
  BY <1>13, TakenType, CommandTypes DEF LoopInfo
<1>14. CASE LoopInfoDone
  BY <1>14, LoopId, IdleLoop DEF LoopInfoDone, Finish, Reply
<1>15. CASE SvTake
  BY <1>15 DEF SvTake
<1>16. CASE SvCallTimeout
  BY <1>16 DEF SvCallTimeout
<1>17. CASE SvSignal
  BY <1>17 DEF SvSignal
<1>18. CASE SvDrain
  BY <1>18 DEF SvDrain
<1>19. CASE SvEnd
  BY <1>19 DEF SvEnd
<1>20. ASSUME NEW c \in Ids, SvSendStop(c) PROVE TypeOK'
  <2>1. [op |-> "Stop", id |-> c, by |-> None] \in Commands
    BY CommandTypes, OpTypes
  <2>2. cmds' \in Seq(Commands) /\ Len(cmds') <= CmdCap
    BY <1>20, <2>1, SendType DEF SvSendStop
  <2> QED
    BY <1>20, <2>2 DEF SvSendStop
<1>21. ASSUME NEW a \in Ids, SetupOk(a) PROVE TypeOK'
  BY <1>21 DEF SetupOk
<1>22. ASSUME NEW a \in Ids, SetupErr(a) PROVE TypeOK'
  BY <1>22 DEF SetupErr
<1>23. ASSUME NEW a \in Ids, HostResume(a) PROVE TypeOK'
  BY <1>23 DEF HostResume
<1>24. ASSUME NEW a \in Ids, GuestShutdown(a) PROVE TypeOK'
  BY <1>24, SMTT(30) DEF GuestShutdown, Plus
<1>25. ASSUME NEW a \in Ids, GuestTrap(a) PROVE TypeOK'
  BY <1>25 DEF GuestTrap
<1>26. ASSUME NEW a \in Ids, HostSend(a) PROVE TypeOK'
  <2>1. cmds' \in Seq(Commands) /\ Len(cmds') <= CmdCap
    BY <1>26, SendType DEF HostSend
  <2> QED
    BY <1>26, <2>1, CommandTypes DEF HostSend
<1>27. ASSUME NEW a \in Ids, Report(a) PROVE TypeOK'
  <2>1. [op |-> "Error", id |-> a, by |-> None] \in Commands
    BY CommandTypes, OpTypes
  <2>2. cmds' \in Seq(Commands) /\ Len(cmds') <= CmdCap
    BY <1>27, <2>1, SendType DEF Report
  <2> QED
    BY <1>27, <2>2 DEF Report, Answer, Reply
<1>28. ASSUME NEW a \in Ids, GuestReturn(a) PROVE TypeOK'
  BY <1>28 DEF GuestReturn, Answer, Reply
<1>29. ASSUME NEW a \in Ids, CtlStop(a) PROVE TypeOK'
  <2>1. life' = [life EXCEPT ![a] = "stopping"] /\ late' \in {late, late \cup {a}}
    BY <1>29 DEF CtlStop
  <2>2. call' = call \/ call' = [call EXCEPT ![a] = "idle"]
    BY <1>29 DEF CtlStop
  <2>3. UNCHANGED <<cmds, loop, regVars, asked, kind, req, got, init, tasks, svVars, bounds>>
    BY <1>29 DEF CtlStop
  <2> QED
    BY <2>1, <2>2, <2>3, SMTT(30)
<1>30. ASSUME NEW a \in Ids, LateMiss(a) \/ DropQueued(a) PROVE TypeOK'
  <2>1. CASE LateMiss(a)
    BY <2>1 DEF LateMiss
  <2>2. CASE DropQueued(a)
    <3>1. /\ init' \in [Ids -> {"none", "queued", "running", "over"}]
          /\ call' \in [Ids -> {"idle", "guest", "send", "wait", "answered", "report",
                               "dead", "over"}]
          /\ sv' \in {"none", "run", "call", "busy", "stopping", "drain", "done"}
      BY <2>2 DEF DropQueued, Reply
    <3>2. UNCHANGED <<cmds, loop, regVars, life, late, asked, kind, req, got, tasks, notes,
                      children, holder, toStop, bounds>>
      BY <2>2 DEF DropQueued
    <3> QED
      BY <3>1, <3>2
  <2> QED
    BY <1>30, <2>1, <2>2
<1>31. ASSUME NEW a \in Ids, OpAbort(a) PROVE TypeOK'
  BY <1>31, CommandTypes, OpTypes DEF OpAbort, Reply, Signalled
<1>32. ASSUME NEW a \in Ids, ActorAck(a) PROVE TypeOK'
  BY <1>32 DEF ActorAck, Reply, Signalled
<1>33. ASSUME NEW a \in Ids, NEW k \in {"init", "callback", "message"},
             BeginCall(a, k)
      PROVE  TypeOK'
  BY <1>33 DEF BeginCall
<1>34. ASSUME NEW a \in Ids, NEW o \in {"Spawn", "Stop", "Info"}, NEW b \in Ids \cup {None},
             GuestHost(a, o, b)
      PROVE  TypeOK'
  BY <1>34, CommandTypes, OpTypes DEF GuestHost
<1>35. ASSUME NEW a \in Ids, TaskShutdown(a) PROVE TypeOK'
  <2>1. [op |-> "ShuttingDown", id |-> a, by |-> None] \in Commands
    BY CommandTypes, OpTypes
  <2>2. cmds' \in Seq(Commands) /\ Len(cmds') <= CmdCap
    BY <1>35, <2>1, SendType DEF TaskShutdown
  <2> QED
    BY <1>35, <2>2 DEF TaskShutdown, Minus
<1>36. ASSUME NEW a \in Ids, TaskWaiter(a) PROVE TypeOK'
  <2>1. [op |-> "ShutdownComplete", id |-> a, by |-> None] \in Commands
    BY CommandTypes, OpTypes
  <2>2. cmds' \in Seq(Commands) /\ Len(cmds') <= CmdCap
    BY <1>36, <2>1, SendType DEF TaskWaiter
  <2> QED
    BY <1>36, <2>2, SMTT(30) DEF TaskWaiter, Minus
<1>37. ASSUME NEW a \in Ids, TaskNote(a) PROVE TypeOK'
  <2>1. notes' \in Seq(Ids) /\ Len(notes') <= NoteCap /\ told' \subseteq Ids
    BY <1>37, NoteType DEF TaskNote
  <2> QED
    BY <1>37, <2>1, SMTT(30) DEF TaskNote, Minus
<1>38. ASSUME NEW o \in {"Spawn", "Setup", "Stop", "Terminate", "Info", "ShutdownRuntime"},
              NEW b \in Ids \cup {None},
             ClientSend(o, b)
      PROVE  TypeOK'
  <2>1. [op |-> o, id |-> b, by |-> None] \in Commands
    BY <1>38, CommandTypes, OpTypes
  <2>2. cmds' \in Seq(Commands) /\ Len(cmds') <= CmdCap
    BY <1>38, <2>1, SendType DEF ClientSend
  <2> QED
    BY <1>38, <2>2 DEF ClientSend
<1>39. CASE UNCHANGED vars
  BY <1>39 DEF vars
<1> HIDE DEF TypeOK
<1> QED
  BY <1>1, <1>2, <1>3, <1>4, <1>5, <1>6, <1>7, <1>8, <1>9, <1>10, <1>11, <1>12, <1>13, <1>14,
     <1>15, <1>16, <1>17, <1>18, <1>19, <1>20, <1>21, <1>22, <1>23, <1>24, <1>25, <1>26,
     <1>27, <1>28, <1>29, <1>30, <1>31, <1>32, <1>33, <1>34, <1>35, <1>36, <1>37, <1>38,
     <1>39 DEF Next, LoopNext, SvNext, ActorNext, TaskNext

-----------------------------------------------------------------------------
\* Only the loop changes the registry, whose child an actor is and whom it asks to stop.
LEMMA LoopFrame ==
    ASSUME [Next]_vars, ~LoopNext
    PROVE  UNCHANGED <<loop, actors, chains, parent, asked>>
<1> USE DEF actVars, svVars, regVars, bounds
<1>1. CASE SvNext
  BY <1>1 DEF SvNext, SvTake, SvCallTimeout, SvSignal, SvDrain, SvEnd, SvSendStop
<1>2. ASSUME NEW a \in Ids, ActorNext(a) PROVE UNCHANGED <<loop, actors, chains, parent, asked>>
  BY <1>2 DEF ActorNext, SetupOk, SetupErr, HostResume, GuestShutdown, GuestTrap, HostSend, Report,
     GuestReturn, CtlStop, LateMiss, DropQueued, OpAbort, ActorAck, BeginCall, GuestHost
<1>3. ASSUME NEW a \in Ids, TaskNext(a) PROVE UNCHANGED <<loop, actors, chains, parent, asked>>
  BY <1>3 DEF TaskNext, TaskShutdown, TaskWaiter, TaskNote
<1>4. ASSUME NEW o, NEW b, ClientSend(o, b) PROVE UNCHANGED <<loop, actors, chains, parent, asked>>
  BY <1>4 DEF ClientSend
<1>5. CASE UNCHANGED vars
  BY <1>5 DEF vars
<1> QED
  BY <1>1, <1>2, <1>3, <1>4, <1>5 DEF Next

\* The steps of an actor's life that are its own.
LEMMA LifeFrame ==
    ASSUME [Next]_vars, ~LoopNext
    PROVE  UNCHANGED life \/ \E a \in Ids : SetupOk(a) \/ SetupErr(a) \/ CtlStop(a) \/ ActorAck(a)
<1> USE DEF actVars, svVars, regVars, bounds
<1>1. CASE SvNext
  BY <1>1 DEF SvNext, SvTake, SvCallTimeout, SvSignal, SvDrain, SvEnd, SvSendStop
<1>2. ASSUME NEW a \in Ids, ActorNext(a)
      PROVE  UNCHANGED life \/ SetupOk(a) \/ SetupErr(a) \/ CtlStop(a) \/ ActorAck(a)
  BY <1>2 DEF ActorNext, HostResume, GuestShutdown, GuestTrap, HostSend, Report,
     GuestReturn, LateMiss, DropQueued, OpAbort, BeginCall, GuestHost
<1>3. ASSUME NEW a \in Ids, TaskNext(a) PROVE UNCHANGED life
  BY <1>3 DEF TaskNext, TaskShutdown, TaskWaiter, TaskNote
<1>4. ASSUME NEW o, NEW b, ClientSend(o, b) PROVE UNCHANGED life
  BY <1>4 DEF ClientSend
<1>5. CASE UNCHANGED vars
  BY <1>5 DEF vars
<1> QED
  BY <1>1, <1>2, <1>3, <1>4, <1>5 DEF Next

\* The entry of the actor that the loop is working on stays until the loop removes it.
LEMMA RegisteredStep ==
    ASSUME TypeOK, StillRegistered, [Next]_vars
    PROVE  StillRegistered'
<1> USE DEF TypeOK, StillRegistered, actVars, svVars, regVars, bounds
<1>1. ASSUME NEW a \in Ids, LoopRegistryErr(a) PROVE StillRegistered'
  BY <1>1, TakenType DEF LoopRegistryErr
<1>2. ASSUME NEW a \in Ids, LoopSpawn(a) PROVE StillRegistered'
  BY <1>2, TakenType DEF LoopSpawn
<1>3. CASE LoopRegister
  BY <1>3 DEF LoopRegister, Finish
<1>4. CASE LoopSetupErr
  BY <1>4 DEF LoopSetupErr, Finish
<1>5. CASE LoopAbsent
  BY <1>5, TakenType DEF LoopAbsent
<1>6. CASE LoopTake
  BY <1>6, TakenType DEF LoopTake
<1>7. CASE LoopNote
  BY <1>7 DEF LoopNote
<1>8. CASE LoopStop
  BY <1>8 DEF LoopStop
<1>9. CASE LoopDetach
  BY <1>9 DEF LoopDetach, Finish
<1>10. CASE LoopStopped
  BY <1>10 DEF LoopStopped, Finish
<1>11. CASE LoopComplete
  BY <1>11 DEF LoopComplete, Exit
<1>12. CASE LoopShutdownRuntime
  BY <1>12 DEF LoopShutdownRuntime, Exit
<1>13. CASE LoopInfo
  BY <1>13, TakenType DEF LoopInfo
<1>14. CASE LoopInfoDone
  BY <1>14 DEF LoopInfoDone, Finish
<1>15. CASE ~LoopNext
  BY <1>15, LoopFrame
<1> HIDE DEF TypeOK, StillRegistered, actVars, svVars, regVars, bounds
<1> QED
  BY <1>1, <1>2, <1>3, <1>4, <1>5, <1>6, <1>7, <1>8, <1>9, <1>10, <1>11, <1>12, <1>13,
     <1>14, <1>15 DEF LoopNext

\* One actor is set up at a time.
LEMMA SetupStep ==
    ASSUME TypeOK, StillRegistered, SetupAlone, AskedFirst, [Next]_vars
    PROVE  SetupAlone'
<1> USE DEF TypeOK, StillRegistered, SetupAlone, AskedFirst, actVars, svVars, regVars, bounds
<1>1. ASSUME NEW a \in Ids, LoopRegistryErr(a) PROVE SetupAlone'
  BY <1>1, TakenType DEF LoopRegistryErr
<1>2. ASSUME NEW a \in Ids, LoopSpawn(a) PROVE SetupAlone'
  <2>1. loop.pc = "recv" /\ Head(cmds) \in Commands
    BY <1>2, TakenType DEF LoopSpawn
  <2>2. loop'.pc = "setup" /\ loop'.cmd = [Head(cmds) EXCEPT !.id = a]
    BY <1>2 DEF LoopSpawn
  <2>3. loop'.cmd.id = a
    BY <2>1, <2>2, CommandTypes
  <2>4. life[a] = "unborn" /\ life' = [life EXCEPT ![a] = "starting"] /\ chains' = chains \cup {a}
    BY <1>2 DEF LoopSpawn
  <2>5. UNCHANGED <<actors, asked>>
    BY <1>2 DEF LoopSpawn
  <2> QED
    BY <2>1, <2>2, <2>3, <2>4, <2>5, ZenonT(30)
<1>3. CASE LoopRegister
  BY <1>3 DEF LoopRegister, Finish
<1>4. CASE LoopSetupErr
  BY <1>4 DEF LoopSetupErr, Finish
<1>5. CASE LoopAbsent
  BY <1>5, TakenType DEF LoopAbsent
<1>6. CASE LoopTake
  BY <1>6, TakenType DEF LoopTake
<1>7. CASE LoopNote
  BY <1>7 DEF LoopNote
<1>8. CASE LoopStop
  BY <1>8 DEF LoopStop
<1>9. CASE LoopDetach
  BY <1>9 DEF LoopDetach, Finish
<1>10. CASE LoopStopped
  BY <1>10 DEF LoopStopped, Finish
<1>11. CASE LoopComplete
  BY <1>11 DEF LoopComplete, Exit
<1>12. CASE LoopShutdownRuntime
  BY <1>12 DEF LoopShutdownRuntime, Exit
<1>13. CASE LoopInfo
  BY <1>13, TakenType DEF LoopInfo
<1>14. CASE LoopInfoDone
  BY <1>14 DEF LoopInfoDone, Finish
<1>15. ASSUME NEW a \in Ids, SetupOk(a) PROVE SetupAlone'
  BY <1>15 DEF SetupOk
<1>16. ASSUME NEW a \in Ids, SetupErr(a) PROVE SetupAlone'
  BY <1>16 DEF SetupErr
<1>17. ASSUME NEW a \in Ids, CtlStop(a) PROVE SetupAlone'
  BY <1>17 DEF CtlStop
<1>18. ASSUME NEW a \in Ids, ActorAck(a) PROVE SetupAlone'
  BY <1>18 DEF ActorAck, Signalled
<1>19. CASE ~LoopNext /\ UNCHANGED life
  BY <1>19, LoopFrame
<1> HIDE DEF TypeOK, StillRegistered, SetupAlone, AskedFirst, actVars, svVars, regVars, bounds
<1> QED
  BY <1>1, <1>2, <1>3, <1>4, <1>5, <1>6, <1>7, <1>8, <1>9, <1>10, <1>11, <1>12, <1>13,
     <1>14, <1>15, <1>16, <1>17, <1>18, <1>19, LifeFrame DEF LoopNext

\* An actor stops only when it was asked to.
LEMMA AskedStep ==
    ASSUME TypeOK, StillRegistered, SetupAlone, AskedFirst, [Next]_vars
    PROVE  AskedFirst'
<1> USE DEF TypeOK, StillRegistered, SetupAlone, AskedFirst, actVars, svVars, regVars, bounds
<1>1. ASSUME NEW a \in Ids, LoopRegistryErr(a) PROVE AskedFirst'
  BY <1>1, TakenType DEF LoopRegistryErr
<1>2. ASSUME NEW a \in Ids, LoopSpawn(a) PROVE AskedFirst'
  BY <1>2, TakenType DEF LoopSpawn
<1>3. CASE LoopRegister
  BY <1>3 DEF LoopRegister, Finish
<1>4. CASE LoopSetupErr
  BY <1>4 DEF LoopSetupErr, Finish
<1>5. CASE LoopAbsent
  BY <1>5, TakenType DEF LoopAbsent
<1>6. CASE LoopTake
  BY <1>6, TakenType DEF LoopTake
<1>7. CASE LoopNote
  BY <1>7 DEF LoopNote
<1>8. CASE LoopStop
  BY <1>8 DEF LoopStop
<1>9. CASE LoopDetach
  BY <1>9 DEF LoopDetach, Finish
<1>10. CASE LoopStopped
  BY <1>10 DEF LoopStopped, Finish
<1>11. CASE LoopComplete
  BY <1>11 DEF LoopComplete, Exit
<1>12. CASE LoopShutdownRuntime
  BY <1>12 DEF LoopShutdownRuntime, Exit
<1>13. CASE LoopInfo
  BY <1>13, TakenType DEF LoopInfo
<1>14. CASE LoopInfoDone
  BY <1>14 DEF LoopInfoDone, Finish
<1>15. ASSUME NEW a \in Ids, SetupOk(a) PROVE AskedFirst'
  BY <1>15 DEF SetupOk
<1>16. ASSUME NEW a \in Ids, SetupErr(a) PROVE AskedFirst'
  BY <1>16 DEF SetupErr
<1>17. ASSUME NEW a \in Ids, CtlStop(a) PROVE AskedFirst'
  BY <1>17 DEF CtlStop
<1>18. ASSUME NEW a \in Ids, ActorAck(a) PROVE AskedFirst'
  BY <1>18 DEF ActorAck, Signalled
<1>19. CASE ~LoopNext /\ UNCHANGED life
  BY <1>19, LoopFrame
<1> HIDE DEF TypeOK, StillRegistered, SetupAlone, AskedFirst, actVars, svVars, regVars, bounds
<1> QED
  BY <1>1, <1>2, <1>3, <1>4, <1>5, <1>6, <1>7, <1>8, <1>9, <1>10, <1>11, <1>12, <1>13,
     <1>14, <1>15, <1>16, <1>17, <1>18, <1>19, LifeFrame DEF LoopNext

\* A chain is removed only with the entry it belongs to.
LEMMA ChainsStep ==
    ASSUME TypeOK, StillRegistered, SetupAlone, ChainsKept, [Next]_vars
    PROVE  ChainsKept'
<1> USE DEF TypeOK, StillRegistered, SetupAlone, ChainsKept, actVars, svVars, regVars, bounds
<1>1. ASSUME NEW a \in Ids, LoopRegistryErr(a) PROVE ChainsKept'
  BY <1>1, TakenType DEF LoopRegistryErr
<1>2. ASSUME NEW a \in Ids, LoopSpawn(a) PROVE ChainsKept'
  BY <1>2, TakenType DEF LoopSpawn
<1>3. CASE LoopRegister
  BY <1>3 DEF LoopRegister, Finish
<1>4. CASE LoopSetupErr
  BY <1>4 DEF LoopSetupErr, Finish
<1>5. CASE LoopAbsent
  BY <1>5, TakenType DEF LoopAbsent
<1>6. CASE LoopTake
  BY <1>6, TakenType DEF LoopTake
<1>7. CASE LoopNote
  BY <1>7 DEF LoopNote
<1>8. CASE LoopStop
  BY <1>8 DEF LoopStop
<1>9. CASE LoopDetach
  BY <1>9 DEF LoopDetach, Finish
<1>10. CASE LoopStopped
  BY <1>10 DEF LoopStopped, Finish
<1>11. CASE LoopComplete
  BY <1>11 DEF LoopComplete, Exit
<1>12. CASE LoopShutdownRuntime
  BY <1>12 DEF LoopShutdownRuntime, Exit
<1>13. CASE LoopInfo
  BY <1>13, TakenType DEF LoopInfo
<1>14. CASE LoopInfoDone
  BY <1>14 DEF LoopInfoDone, Finish
<1>15. CASE ~LoopNext
  BY <1>15, LoopFrame
<1> HIDE DEF TypeOK, StillRegistered, SetupAlone, ChainsKept, actVars, svVars, regVars, bounds
<1> QED
  BY <1>1, <1>2, <1>3, <1>4, <1>5, <1>6, <1>7, <1>8, <1>9, <1>10, <1>11, <1>12, <1>13,
     <1>14, <1>15 DEF LoopNext

-----------------------------------------------------------------------------
\* An actor that has stopped stays so.
LEMMA StoppedStays ==
    ASSUME TypeOK, [Next]_vars, NEW a \in Ids, life[a] = "stopped"
    PROVE  life'[a] = "stopped"
<1> USE DEF TypeOK, actVars, svVars, regVars, bounds
<1>1. CASE UNCHANGED life
  BY <1>1
<1>2. ASSUME NEW b \in Ids, LoopRegistryErr(b) \/ LoopSpawn(b) PROVE life'[a] = "stopped"
  BY <1>2 DEF LoopRegistryErr, LoopSpawn
<1>3. ASSUME NEW b \in Ids, SetupOk(b) \/ SetupErr(b) \/ CtlStop(b) \/ ActorAck(b)
      PROVE  life'[a] = "stopped"
  BY <1>3 DEF SetupOk, SetupErr, CtlStop, ActorAck
<1>4. LoopNext => UNCHANGED life \/ \E b \in Ids : LoopRegistryErr(b) \/ LoopSpawn(b)
  BY DEF LoopNext, LoopRegister, LoopSetupErr, LoopAbsent, LoopTake, LoopNote, LoopStop,
     LoopDetach, LoopStopped, LoopComplete, LoopShutdownRuntime, LoopInfo, LoopInfoDone
<1> QED
  BY <1>1, <1>2, <1>3, <1>4, LifeFrame

\* A command that is pending stays so until the loop takes it.
LEMMA SendKeeps ==
    ASSUME TypeOK, NEW c \in Commands, Send(c)
    PROVE  /\ \A o, a : Pending(o, a) => Pending(o, a)'
           /\ ~Exited => Pending(c.op, c.id)'
           /\ \A i \in DOMAIN cmds' : cmds'[i] = c \/ \E j \in DOMAIN cmds : cmds'[i] = cmds[j]
<1>1. cmds \in Seq(Commands)
  BY DEF TypeOK
<1>2. CASE cmds' = cmds /\ Exited
  BY <1>2 DEF Pending
<1>3. CASE cmds' = Append(cmds, c)
  <2>1. /\ DOMAIN cmds = 1..Len(cmds) /\ DOMAIN cmds' = 1..(Len(cmds) + 1) /\ Len(cmds) \in Nat
        /\ cmds'[Len(cmds) + 1] = c /\ \A i \in 1..Len(cmds) : cmds'[i] = cmds[i]
    BY <1>1, <1>3
  <2> QED
    BY <2>1 DEF Pending
<1> QED
  BY <1>2, <1>3 DEF Send

\* Taking a command of another kind leaves every completion in the channel.
LEMMA TakenKeeps ==
    ASSUME TypeOK, cmds # <<>>, cmds' = Tail(cmds)
    PROVE  /\ \A o, a : Pending(o, a) => (Head(cmds).op = o /\ Head(cmds).id = a) \/ Pending(o, a)'
           /\ \A i \in DOMAIN cmds' : \E j \in DOMAIN cmds : cmds'[i] = cmds[j]
<1>1. /\ DOMAIN cmds = 1..Len(cmds) /\ DOMAIN cmds' = 1..(Len(cmds) - 1) /\ Len(cmds) \in Nat
      /\ Head(cmds) = cmds[1] /\ \A i \in 1..(Len(cmds) - 1) : cmds'[i] = cmds[i + 1]
  BY DEF TypeOK
<1>2. ASSUME NEW o, NEW a, Pending(o, a), ~(Head(cmds).op = o /\ Head(cmds).id = a)
      PROVE  Pending(o, a)'
  <2>1. PICK i \in 1..Len(cmds) : cmds[i].op = o /\ cmds[i].id = a
    BY <1>1, <1>2 DEF Pending
  <2>2. i # 1
    BY <1>1, <1>2, <2>1
  <2>3. i - 1 \in 1..(Len(cmds) - 1) /\ (i - 1) + 1 = i
    BY <1>1, <2>2
  <2>4. cmds'[i - 1] = cmds[i]
    BY <1>1, <2>3
  <2> QED
    BY <1>1, <2>1, <2>3, <2>4 DEF Pending
<1>3. \A i \in 1..(Len(cmds) - 1) : i + 1 \in 1..Len(cmds)
  BY <1>1
<1>4. \A i \in DOMAIN cmds' : \E j \in DOMAIN cmds : cmds'[i] = cmds[j]
  BY <1>1, <1>3
<1> QED
  BY <1>2, <1>4

\* What the steps outside the loop do to the command channel: nothing, or a send.
LEMMA SendFrame ==
    ASSUME TypeOK, [Next]_vars, ~LoopNext
    PROVE  \/ UNCHANGED cmds
           \/ \E a \in Ids : HostSend(a) /\ Send(req[a]) /\ req[a] \in Commands
           \/ \E a \in Ids : TaskWaiter(a) /\ Send([op |-> "ShutdownComplete", id |-> a, by |-> None])
           \/ \E c \in Commands : Send(c) /\ c.op # "ShutdownComplete"
<1> USE DEF actVars, svVars, regVars, bounds
<1>1. ASSUME NEW o \in Ops, NEW b \in Ids \cup {None}, o # "ShutdownComplete",
             Send([op |-> o, id |-> b, by |-> None])
      PROVE  \E c \in Commands : Send(c) /\ c.op # "ShutdownComplete"
  <2> DEFINE c == [op |-> o, id |-> b, by |-> None]
  <2>1. c \in Commands /\ c.op = o
    BY CommandTypes
  <2> HIDE DEF c
  <2> QED
    BY <1>1, <2>1 DEF c
<1>2. CASE SvNext
  <2>1. ASSUME NEW c \in Ids, SvSendStop(c)
        PROVE  \E x \in Commands : Send(x) /\ x.op # "ShutdownComplete"
    BY <1>1, <2>1, OpTypes DEF SvSendStop
  <2>2. CASE ~\E c \in Ids : SvSendStop(c)
    BY <1>2, <2>2 DEF SvNext, SvTake, SvCallTimeout, SvSignal, SvDrain, SvEnd
  <2> QED
    BY <2>1, <2>2
<1>3. ASSUME NEW a \in Ids, Report(a)
      PROVE  \E x \in Commands : Send(x) /\ x.op # "ShutdownComplete"
  BY <1>1, <1>3, OpTypes DEF Report
<1>4. ASSUME NEW a \in Ids, HostSend(a)
      PROVE  HostSend(a) /\ Send(req[a]) /\ req[a] \in Commands
  BY <1>4 DEF HostSend, TypeOK
<1>5. ASSUME NEW a \in Ids, ActorNext(a) PROVE Report(a) \/ HostSend(a) \/ UNCHANGED cmds
  BY <1>5 DEF ActorNext, SetupOk, SetupErr, HostResume, GuestShutdown, GuestTrap,
     GuestReturn, CtlStop, LateMiss, DropQueued, OpAbort, ActorAck, BeginCall, GuestHost
<1>6. ASSUME NEW a \in Ids, TaskShutdown(a)
      PROVE  \E x \in Commands : Send(x) /\ x.op # "ShutdownComplete"
  BY <1>1, <1>6, OpTypes DEF TaskShutdown
<1>7. ASSUME NEW a \in Ids, TaskWaiter(a)
      PROVE  TaskWaiter(a) /\ Send([op |-> "ShutdownComplete", id |-> a, by |-> None])
  BY <1>7 DEF TaskWaiter
<1>8. ASSUME NEW a \in Ids, TaskNote(a) PROVE UNCHANGED cmds
  BY <1>8 DEF TaskNote
<1>9. ASSUME NEW o \in {"Spawn", "Setup", "Stop", "Terminate", "Info", "ShutdownRuntime"},
             NEW b \in Ids \cup {None}, ClientSend(o, b)
      PROVE  \E x \in Commands : Send(x) /\ x.op # "ShutdownComplete"
  BY <1>1, <1>9, OpTypes DEF ClientSend
<1>10. CASE UNCHANGED vars
  BY <1>10 DEF vars
<1> QED
  BY <1>2, <1>3, <1>4, <1>5, <1>6, <1>7, <1>8, <1>9, <1>10 DEF Next, TaskNext

\* A waiter is there until its task ends.
LEMMA WaiterKept ==
    ASSUME TypeOK, [Next]_vars, ~LoopNext, NEW a \in Ids, tasks[<<"waiter", a>>] > 0
    PROVE  tasks'[<<"waiter", a>>] > 0 \/ TaskWaiter(a)
<1> USE DEF TypeOK, actVars, svVars, regVars, bounds
<1>1. CASE UNCHANGED tasks
  BY <1>1
<1>2. ASSUME NEW b \in Ids, GuestShutdown(b) PROVE tasks'[<<"waiter", a>>] > 0
  BY <1>2 DEF GuestShutdown, Plus
<1>3. ASSUME NEW b \in Ids, TaskShutdown(b) \/ TaskNote(b) PROVE tasks'[<<"waiter", a>>] > 0
  <2>1. tasks' \in {Minus("shutdown", b), Minus("note", b)}
    BY <1>3 DEF TaskShutdown, TaskNote
  <2> QED
    BY <2>1, MinusOther
<1>4. ASSUME NEW b \in Ids, TaskWaiter(b), b # a PROVE tasks'[<<"waiter", a>>] > 0
  BY <1>4 DEF TaskWaiter, Minus
<1>5. SvNext => UNCHANGED tasks
  BY DEF SvNext, SvTake, SvCallTimeout, SvSignal, SvDrain, SvEnd, SvSendStop
<1>6. \A b \in Ids : ActorNext(b) => UNCHANGED tasks \/ GuestShutdown(b)
  BY ZenonT(30) DEF ActorNext, SetupOk, SetupErr, HostResume, HostSend, Report, GuestTrap,
     GuestReturn, CtlStop, LateMiss, DropQueued, OpAbort, ActorAck, BeginCall, GuestHost
<1>7. \A o, b : ClientSend(o, b) => UNCHANGED tasks
  BY DEF ClientSend
<1>8. UNCHANGED vars => UNCHANGED tasks
  BY DEF vars
<1> HIDE DEF TypeOK
<1> QED
  BY <1>1, <1>2, <1>3, <1>4, <1>5, <1>6, <1>7, <1>8 DEF Next, TaskNext

\* Whoever is asked to stop is waited for by somebody, who removes the entry.
LEMMA LeavingStep ==
    ASSUME TypeOK, StillRegistered, SetupAlone, AskedFirst, Leaving, [Next]_vars
    PROVE  Leaving'
<1> SUFFICES ASSUME ~Exited', NEW a \in actors' \cap asked' PROVE Leaves(a)'
  BY DEF Leaving
<1> USE DEF actVars, svVars, regVars, bounds
<1>1. ~Exited /\ (a \in actors \cap asked => Leaves(a))
  <2>1. ASSUME Exited PROVE FALSE
    <3>1. ~LoopNext
      BY <2>1 DEF Exited, LoopNext, LoopRegistryErr, LoopSpawn, LoopRegister, LoopSetupErr,
         LoopAbsent,
         LoopTake, LoopNote, LoopStop, LoopDetach, LoopStopped, LoopComplete, LoopShutdownRuntime,
         LoopInfo, LoopInfoDone, Taken
    <3> QED
      BY <2>1, <3>1, LoopFrame DEF Exited
  <2> QED
    BY <2>1 DEF Leaving
<1>2. a \in Ids /\ tasks[<<"waiter", a>>] \in Nat
  <2>1. a \in Ids
    BY TypeStep DEF TypeOK
  <2> QED
    BY <2>1 DEF TypeOK
<1>3. CASE \E b \in Ids : LoopRegistryErr(b)
  <2>1. cmds # <<>> /\ cmds' = Tail(cmds) /\ Head(cmds).op # "ShutdownComplete" /\ loop.pc = "recv"
    BY <1>3 DEF LoopRegistryErr, Taken
  <2>2. a \in actors \cap asked
    BY <1>3 DEF LoopRegistryErr
  <2>3. tasks'[<<"waiter", a>>] = tasks[<<"waiter", a>>]
    BY <1>2, <1>3 DEF LoopRegistryErr
  <2> QED
    BY <1>1, <2>1, <2>2, <2>3, TakenKeeps DEF Leaves
<1>4. CASE \E b \in Ids : LoopSpawn(b)
  <2>1. cmds # <<>> /\ cmds' = Tail(cmds) /\ Head(cmds).op # "ShutdownComplete" /\ loop.pc = "recv"
    BY <1>4 DEF LoopSpawn, Taken
  <2>2. a \in actors \cap asked
    BY <1>4 DEF LoopSpawn
  <2>3. tasks'[<<"waiter", a>>] = tasks[<<"waiter", a>>]
    BY <1>2, <1>4 DEF LoopSpawn
  <2> QED
    BY <1>1, <2>1, <2>2, <2>3, TakenKeeps DEF Leaves
<1>5. CASE LoopAbsent
  <2>1. cmds # <<>> /\ cmds' = Tail(cmds) /\ Head(cmds).op # "ShutdownComplete" /\ loop.pc = "recv"
    BY <1>5 DEF LoopAbsent, Taken
  <2>2. a \in actors \cap asked
    BY <1>5 DEF LoopAbsent
  <2>3. tasks'[<<"waiter", a>>] = tasks[<<"waiter", a>>]
    BY <1>2, <1>5 DEF LoopAbsent
  <2> QED
    BY <1>1, <2>1, <2>2, <2>3, TakenKeeps DEF Leaves
<1>6. CASE LoopTake
  <2>1. cmds # <<>> /\ cmds' = Tail(cmds) /\ Head(cmds).op # "ShutdownComplete" /\ loop.pc = "recv"
    BY <1>6 DEF LoopTake, Taken
  <2>2. a \in actors \cap asked
    BY <1>6 DEF LoopTake
  <2>3. tasks'[<<"waiter", a>>] = tasks[<<"waiter", a>>]
    BY <1>2, <1>6 DEF LoopTake, Plus, TypeOK
  <2> QED
    BY <1>1, <2>1, <2>2, <2>3, TakenKeeps DEF Leaves
<1>7. CASE LoopInfo
  <2>1. cmds # <<>> /\ cmds' = Tail(cmds) /\ Head(cmds).op # "ShutdownComplete" /\ loop.pc = "recv"
    BY <1>7 DEF LoopInfo, Taken
  <2>2. a \in actors \cap asked
    BY <1>7 DEF LoopInfo
  <2>3. tasks'[<<"waiter", a>>] = tasks[<<"waiter", a>>]
    BY <1>2, <1>7 DEF LoopInfo
  <2> QED
    BY <1>1, <2>1, <2>2, <2>3, TakenKeeps DEF Leaves
<1>8. CASE LoopRegister
  <2>1. a # loop.cmd.id
    BY <1>8 DEF LoopRegister, SetupAlone
  <2> QED
    BY <1>1, <1>8, <2>1 DEF LoopRegister, Leaves, Pending
<1>9. CASE LoopSetupErr
  BY <1>1, <1>9 DEF LoopSetupErr, Leaves, Pending
<1>10. CASE LoopNote
  BY <1>1, <1>10 DEF LoopNote, Leaves, Pending
<1>11. CASE LoopStop
  <2>1. loop'.pc = "stop" /\ loop'.cmd.id = loop.cmd.id
    BY <1>11 DEF LoopStop, TypeOK
  <2> QED
    BY <1>1, <1>11, <2>1 DEF LoopStop, Leaves, Pending
<1>12. CASE LoopDetach
  <2>1. CASE a = loop.cmd.id
    BY <1>2, <1>12, <2>1 DEF LoopDetach, Leaves, Plus, TypeOK
  <2>2. CASE a # loop.cmd.id
    <3>1. tasks'[<<"waiter", a>>] = tasks[<<"waiter", a>>] /\ a \in actors \cap asked
      BY <1>2, <1>12, <2>2 DEF LoopDetach, Plus, TypeOK
    <3> QED
      BY <1>1, <1>12, <3>1 DEF LoopDetach, Leaves, Pending
  <2> QED
    BY <2>1, <2>2
<1>13. CASE LoopStopped
  <2>1. a # loop.cmd.id
    BY <1>13 DEF LoopStopped
  <2> QED
    BY <1>1, <1>13, <2>1 DEF LoopStopped, Leaves, Pending
<1>14. CASE LoopComplete
  <2>1. cmds # <<>> /\ cmds' = Tail(cmds) /\ loop.pc = "recv"
    BY <1>14 DEF LoopComplete, Exit, Exited
  <2>2. a # Head(cmds).id /\ a \in actors \cap asked
    BY <1>14 DEF LoopComplete
  <2>3. UNCHANGED tasks
    BY <1>14 DEF LoopComplete
  <2> QED
    BY <1>1, <2>1, <2>2, <2>3, TakenKeeps DEF Leaves
<1>15. CASE LoopShutdownRuntime
  BY <1>15 DEF LoopShutdownRuntime, Exit, Exited
<1>16. CASE LoopInfoDone
  BY <1>1, <1>16 DEF LoopInfoDone, Leaves, Pending
<1>17. CASE ~LoopNext
  <2>1. a \in actors \cap asked /\ UNCHANGED loop
    BY <1>17, LoopFrame
  <2>2. ASSUME TaskWaiter(a) PROVE Pending("ShutdownComplete", a)'
    <3> DEFINE c == [op |-> "ShutdownComplete", id |-> a, by |-> None]
    <3>1. c \in Commands /\ c.op = "ShutdownComplete" /\ c.id = a /\ Send(c)
      BY <1>2, <2>2, CommandTypes, OpTypes DEF TaskWaiter
    <3> HIDE DEF c
    <3> QED
      BY <1>1, <3>1, SendKeeps
  <2>3. ASSUME Pending("ShutdownComplete", a) PROVE Pending("ShutdownComplete", a)'
    <3>1. CASE UNCHANGED cmds
      BY <2>3, <3>1 DEF Pending
    <3>2. ASSUME NEW c \in Commands, Send(c) PROVE Pending("ShutdownComplete", a)'
      BY <2>3, <3>2, SendKeeps
    <3>3. \A b \in Ids : [op |-> "ShutdownComplete", id |-> b, by |-> None] \in Commands
      BY CommandTypes, OpTypes
    <3> QED
      BY <1>17, <3>1, <3>2, <3>3, SendFrame
  <2> QED
    BY <1>1, <1>2, <1>17, <2>1, <2>2, <2>3, WaiterKept DEF Leaves
<1> QED
  BY <1>3, <1>4, <1>5, <1>6, <1>7, <1>8, <1>9, <1>10, <1>11, <1>12, <1>13, <1>14, <1>15, <1>16,
     <1>17 DEF LoopNext

\* Only a waiter's task sends a completion, and its actor has stopped.
LEMMA CompletionsStep ==
    ASSUME TypeOK, Completions, [Next]_vars
    PROVE  Completions'
<1> USE DEF actVars, svVars, regVars, bounds
<1> DEFINE Fine(c) == c.op = "ShutdownComplete" => c.id \in Ids /\ (c.id \in Slow \/ life'[c.id] = "stopped")
<1>1. \A i \in DOMAIN cmds : Fine(cmds[i])
  BY StoppedStays DEF Completions
<1>2. \A i \in DOMAIN cmds' : Fine(cmds'[i])
  <2>1. CASE LoopNext
    <3>1. cmds' = cmds \/ cmds' = <<>> \/ (cmds # <<>> /\ cmds' = Tail(cmds))
      BY <2>1 DEF LoopNext, LoopRegistryErr, LoopSpawn, LoopRegister, LoopSetupErr, LoopAbsent,
         LoopTake, LoopNote, LoopStop, LoopDetach, LoopStopped, LoopComplete, LoopShutdownRuntime,
         LoopInfo, LoopInfoDone, Taken, Exit
    <3>2. \A i \in DOMAIN cmds' : \E j \in DOMAIN cmds : cmds'[i] = cmds[j]
      BY <3>1, TakenKeeps
    <3> QED
      BY <1>1, <3>2
  <2>2. ASSUME NEW c \in Commands, Send(c), Fine(c)
        PROVE  \A i \in DOMAIN cmds' : Fine(cmds'[i])
    BY <1>1, <2>2, SendKeeps
  <2>3. CASE UNCHANGED cmds
    BY <1>1, <2>3
  <2>4. ASSUME NEW a \in Ids, Send(req[a]), req[a] \in Commands
        PROVE  \A i \in DOMAIN cmds' : Fine(cmds'[i])
    BY <2>2, <2>4 DEF Completions
  <2>5. ASSUME NEW a \in Ids, TaskWaiter(a), Send([op |-> "ShutdownComplete", id |-> a,
               by |-> None])
        PROVE  \A i \in DOMAIN cmds' : Fine(cmds'[i])
    <3> DEFINE c == [op |-> "ShutdownComplete", id |-> a, by |-> None]
    <3>1. c \in Commands /\ c.id = a /\ Send(c)
      BY <2>5, CommandTypes, OpTypes
    <3>2. a \in Slow \/ life'[a] = "stopped"
      BY <2>5, StoppedStays DEF TaskWaiter, WaitOver
    <3> HIDE DEF c
    <3> QED
      BY <2>2, <3>1, <3>2
  <2> HIDE DEF Fine
  <2>6. ASSUME NEW c \in Commands, Send(c), c.op # "ShutdownComplete"
        PROVE  \A i \in DOMAIN cmds' : Fine(cmds'[i])
    BY <2>2, <2>6 DEF Fine
  <2> QED
    BY <2>1, <2>3, <2>4, <2>5, <2>6, SendFrame
<1>3. \A a \in Ids : req'[a].op # "ShutdownComplete"
  <2>1. CASE UNCHANGED req
    BY <2>1 DEF Completions
  <2>2. ASSUME NEW a \in Ids, req' = [req EXCEPT ![a] = NoCmd]
        PROVE  \A b \in Ids : req'[b].op # "ShutdownComplete"
    BY <2>2 DEF Completions, NoCmd, TypeOK
  <2>3. ASSUME NEW a \in Ids, NEW o \in {"Spawn", "Stop", "Info"}, NEW b, GuestHost(a, o, b)
        PROVE  \A d \in Ids : req'[d].op # "ShutdownComplete"
    BY <2>3 DEF GuestHost, Completions, TypeOK
  <2>4. LoopNext => UNCHANGED req
    BY DEF LoopNext, LoopRegistryErr, LoopSpawn, LoopRegister, LoopSetupErr, LoopAbsent,
       LoopTake, LoopNote, LoopStop, LoopDetach, LoopStopped, LoopComplete, LoopShutdownRuntime,
       LoopInfo, LoopInfoDone
  <2>5. SvNext => UNCHANGED req
    BY DEF SvNext, SvTake, SvCallTimeout, SvSignal, SvDrain, SvEnd, SvSendStop
  <2>6. ASSUME NEW a \in Ids, ActorNext(a)
        PROVE  \/ UNCHANGED req \/ req' = [req EXCEPT ![a] = NoCmd]
               \/ \E o \in {"Spawn", "Stop", "Info"}, b \in Ids \cup {None} : GuestHost(a, o, b)
    BY <2>6 DEF ActorNext, SetupOk, SetupErr, HostResume, HostSend, Report, GuestTrap,
       GuestShutdown,
       GuestReturn, CtlStop, LateMiss, DropQueued, OpAbort, ActorAck, BeginCall
  <2>7. \A a \in Ids : TaskNext(a) => UNCHANGED req
    BY DEF TaskNext, TaskShutdown, TaskWaiter, TaskNote
  <2>8. \A o, b : ClientSend(o, b) => UNCHANGED req
    BY DEF ClientSend
  <2>9. UNCHANGED vars => UNCHANGED req
    BY DEF vars
  <2> QED
    BY <2>1, <2>2, <2>3, <2>4, <2>5, <2>6, <2>7, <2>8, <2>9 DEF Next
<1> QED
  BY <1>2, <1>3 DEF Completions

\* An entry is removed after its actor has stopped, if the waits are not given up.
LEMMA RemovedStep ==
    ASSUME TypeOK, StillRegistered, SetupAlone, Completions, StoppedBeforeRemoved, [Next]_vars
    PROVE  StoppedBeforeRemoved'
<1> USE DEF TypeOK, StillRegistered, SetupAlone, StoppedBeforeRemoved, actVars, svVars, regVars,
        bounds
<1>1. ASSUME NEW a \in Ids, LoopRegistryErr(a) PROVE StoppedBeforeRemoved'
  BY <1>1, TakenType DEF LoopRegistryErr
<1>2. ASSUME NEW a \in Ids, LoopSpawn(a) PROVE StoppedBeforeRemoved'
  <2>1. loop.pc = "recv" /\ Head(cmds) \in Commands
    BY <1>2, TakenType DEF LoopSpawn
  <2>2. loop'.pc = "setup" /\ loop'.cmd = [Head(cmds) EXCEPT !.id = a]
    BY <1>2 DEF LoopSpawn
  <2>3. loop'.cmd.id = a
    BY <2>1, <2>2, CommandTypes
  <2>4. life' = [life EXCEPT ![a] = "starting"] /\ UNCHANGED actors
    BY <1>2 DEF LoopSpawn
  <2> QED
    BY <2>1, <2>3, <2>4
<1>3. CASE LoopRegister
  BY <1>3 DEF LoopRegister, Finish
<1>4. CASE LoopSetupErr
  BY <1>4 DEF LoopSetupErr, Finish
<1>5. CASE LoopAbsent
  BY <1>5, TakenType DEF LoopAbsent
<1>6. CASE LoopTake
  BY <1>6, TakenType DEF LoopTake
<1>7. CASE LoopNote
  BY <1>7 DEF LoopNote
<1>8. CASE LoopStop
  BY <1>8 DEF LoopStop
<1>9. CASE LoopDetach
  BY <1>9 DEF LoopDetach, Finish
<1>10. CASE LoopStopped
  BY <1>10 DEF LoopStopped, Finish, WaitOver
<1>11. CASE LoopComplete
  <2>1. loop.pc = "recv" /\ actors' = actors \ {Head(cmds).id} /\ UNCHANGED life
    BY <1>11 DEF LoopComplete
  <2>2. Head(cmds).id \in Slow \/ life[Head(cmds).id] = "stopped"
    <3>1. 1 \in DOMAIN cmds /\ cmds[1] = Head(cmds)
      BY <1>11 DEF LoopComplete
    <3> QED
      BY <1>11, <3>1 DEF LoopComplete, Completions
  <2> QED
    BY <2>1, <2>2
<1>12. CASE LoopShutdownRuntime
  BY <1>12 DEF LoopShutdownRuntime, Exit
<1>13. CASE LoopInfo
  BY <1>13, TakenType DEF LoopInfo
<1>14. CASE LoopInfoDone
  BY <1>14 DEF LoopInfoDone, Finish
<1>15. ASSUME NEW a \in Ids, SetupOk(a) PROVE StoppedBeforeRemoved'
  BY <1>15 DEF SetupOk
<1>16. ASSUME NEW a \in Ids, SetupErr(a) PROVE StoppedBeforeRemoved'
  BY <1>16 DEF SetupErr
<1>17. ASSUME NEW a \in Ids, CtlStop(a) PROVE StoppedBeforeRemoved'
  BY <1>17 DEF CtlStop
<1>18. ASSUME NEW a \in Ids, ActorAck(a) PROVE StoppedBeforeRemoved'
  BY <1>18 DEF ActorAck, Signalled
<1>19. CASE ~LoopNext /\ UNCHANGED life
  BY <1>19, LoopFrame
<1> HIDE DEF TypeOK, StillRegistered, SetupAlone, StoppedBeforeRemoved, actVars, svVars, regVars,
         bounds
<1> QED
  BY <1>1, <1>2, <1>3, <1>4, <1>5, <1>6, <1>7, <1>8, <1>9, <1>10, <1>11, <1>12, <1>13,
     <1>14, <1>15, <1>16, <1>17, <1>18, <1>19, LifeFrame DEF LoopNext

-----------------------------------------------------------------------------
\* An announcement stays, and a task that holds one makes it.
LEMMA NoteKept ==
    ASSUME TypeOK, [Next]_vars, ~LoopNext, NEW a \in Ids, a \in told \/ tasks[<<"note", a>>] > 0
    PROVE  a \in told' \/ tasks'[<<"note", a>>] > 0
<1> USE DEF TypeOK, actVars, svVars, regVars, bounds
<1>1. CASE UNCHANGED <<told, tasks>>
  BY <1>1
<1>2. ASSUME NEW b \in Ids, GuestShutdown(b) PROVE a \in told' \/ tasks'[<<"note", a>>] > 0
  BY <1>2 DEF GuestShutdown, Plus
<1>3. ASSUME NEW b \in Ids, TaskShutdown(b) \/ TaskWaiter(b)
      PROVE  a \in told' \/ tasks'[<<"note", a>>] > 0
  <2>1. tasks'[<<"note", a>>] = tasks[<<"note", a>>]
    BY <1>3 DEF TaskShutdown, TaskWaiter, Minus
  <2>2. told' = told
    BY <1>3 DEF TaskShutdown, TaskWaiter
  <2> QED
    BY <2>1, <2>2
<1>4. ASSUME NEW b \in Ids, TaskNote(b) PROVE a \in told' \/ tasks'[<<"note", a>>] > 0
  <2>1. told' = told \cup {b}
    BY <1>4, NoteType DEF TaskNote
  <2>2. a # b => tasks'[<<"note", a>>] = tasks[<<"note", a>>]
    BY <1>4 DEF TaskNote, Minus
  <2> HIDE DEF TypeOK
  <2> QED
    BY <2>1, <2>2
<1>5. SvNext => UNCHANGED <<told, tasks>>
  BY DEF SvNext, SvTake, SvCallTimeout, SvSignal, SvDrain, SvEnd, SvSendStop
<1>6. \A b \in Ids : ActorNext(b) => UNCHANGED <<told, tasks>> \/ GuestShutdown(b)
  BY ZenonT(30) DEF ActorNext, SetupOk, SetupErr, HostResume, HostSend, Report, GuestTrap,
     GuestReturn, CtlStop, LateMiss, DropQueued, OpAbort, ActorAck, BeginCall, GuestHost
<1>7. \A o, b : ClientSend(o, b) => UNCHANGED <<told, tasks>>
  BY DEF ClientSend
<1>8. UNCHANGED vars => UNCHANGED <<told, tasks>>
  BY DEF vars
<1> HIDE DEF TypeOK
<1> QED
  BY <1>1, <1>2, <1>3, <1>4, <1>5, <1>6, <1>7, <1>8 DEF Next, TaskNext

\* An actor is asked to stop after its end has been announced, or left to a task.
LEMMA ToldStep ==
    ASSUME TypeOK, StillRegistered, SetupAlone, AskedFirst, ToldBeforeAsked, [Next]_vars
    PROVE  ToldBeforeAsked'
<1> USE DEF ToldBeforeAsked, actVars, svVars, regVars, bounds
<1>1. ASSUME NEW a \in Ids, LoopRegistryErr(a) PROVE ToldBeforeAsked'
  <2>1. loop'.pc \notin {"note", "act"} /\ UNCHANGED <<asked, parent, told, tasks>>
    BY <1>1, TakenType DEF LoopRegistryErr
  <2> QED
    BY <2>1 DEF Announced
<1>2. ASSUME NEW a \in Ids, LoopSpawn(a) PROVE ToldBeforeAsked'
  <2>1. loop'.pc = "setup" /\ UNCHANGED <<asked, told, tasks>>
    BY <1>2 DEF LoopSpawn
  <2>2. parent \in [Ids -> Ids \cup {None}] /\ a \notin asked /\ asked \subseteq Ids
    BY <1>2 DEF LoopSpawn, AskedFirst, TypeOK
  <2>3. \A b \in asked : parent'[b] = parent[b]
    BY <1>2, <2>2 DEF LoopSpawn
  <2> QED
    BY <2>1, <2>3 DEF Announced
<1>3. CASE LoopRegister
  <2>1. loop'.pc \notin {"note", "act"} /\ UNCHANGED <<asked, parent, told, tasks>>
    BY <1>3 DEF LoopRegister, Finish
  <2> QED
    BY <2>1 DEF Announced
<1>4. CASE LoopSetupErr
  <2>1. loop'.pc \notin {"note", "act"} /\ UNCHANGED <<asked, parent, told, tasks>>
    BY <1>4 DEF LoopSetupErr, Finish
  <2> QED
    BY <2>1 DEF Announced
<1>5. CASE LoopAbsent
  <2>1. loop'.pc \notin {"note", "act"} /\ UNCHANGED <<asked, parent, told, tasks>>
    BY <1>5, TakenType DEF LoopAbsent
  <2> QED
    BY <2>1 DEF Announced
<1>6. CASE LoopTake
  <2> PICK c \in Commands : c = Head(cmds)
    BY <1>6, TakenType DEF LoopTake
  <2>1. /\ c.id \in Ids /\ c.op \in {"Stop", "Terminate", "Error", "ShuttingDown"}
        /\ asked \subseteq Ids
    BY <1>6 DEF LoopTake, Taken, TypeOK
  <2>2. /\ loop' = [pc |-> IF parent[c.id] # None /\ c.op \in ToldInLoop
                           THEN "note" ELSE "act", cmd |-> c]
        /\ tasks' = IF parent[c.id] # None /\ c.op \in ToldByTask
                    THEN Plus("note", c.id) ELSE tasks
        /\ told' = IF c.op = "Terminate"
                   THEN told \cup {c.id} ELSE told
        /\ UNCHANGED <<asked, parent>>
    BY <1>6 DEF LoopTake
  <2>3. told \subseteq told' /\ (c.op = "Terminate" => c.id \in told')
    BY <2>2
  <2>4. /\ Plus("note", c.id)[<<"note", c.id>>] > 0
        /\ \A a \in Ids : tasks[<<"note", a>>] > 0 => Plus("note", c.id)[<<"note", a>>] > 0
    BY <2>1 DEF Plus, TypeOK
  <2>5. \A a \in asked' : Announced(a)'
    BY <2>1, <2>2, <2>3, <2>4 DEF Announced
  <2>6. loop'.pc = "act" => Announced(c.id)'
    BY <2>1, <2>2, <2>3, <2>4 DEF ToldInLoop, ToldByTask, Announced
  <2>7. loop'.cmd = c /\ (loop'.pc = "note" => c.op \in ToldInLoop)
    BY <2>2
  <2> QED
    BY <2>5, <2>6, <2>7 DEF Announced
<1>7. CASE LoopNote
  <2>1. loop.cmd.id \in Ids /\ asked \subseteq Ids
    BY <1>7 DEF LoopNote, StillRegistered, TypeOK
  <2>2. told' = told \cup {loop.cmd.id}
    BY <1>7, <2>1, NoteType DEF LoopNote
  <2>3. loop'.pc = "act" /\ loop'.cmd = loop.cmd /\ UNCHANGED <<asked, parent, tasks>>
    BY <1>7 DEF LoopNote, TypeOK
  <2> QED
    BY <2>1, <2>2, <2>3 DEF Announced
<1>8. CASE LoopStop
  <2>1. loop'.pc = "stop" /\ asked' = asked \cup {loop.cmd.id} /\ UNCHANGED <<parent, told, tasks>>
    BY <1>8 DEF LoopStop, TypeOK
  <2>2. Announced(loop.cmd.id)
    BY <1>8 DEF LoopStop
  <2> QED
    BY <2>1, <2>2 DEF Announced
<1>9. CASE LoopDetach
  <2>1. loop'.pc = "recv" /\ asked' = asked \cup {loop.cmd.id} /\ UNCHANGED <<parent, told>>
    BY <1>9 DEF LoopDetach, Finish
  <2>2. Announced(loop.cmd.id) /\ loop.cmd.id \in Ids
    BY <1>9, LoopId DEF LoopDetach
  <2>3. \A a \in Ids : tasks'[<<"note", a>>] = tasks[<<"note", a>>]
    BY <1>9, <2>2 DEF LoopDetach, Plus, TypeOK
  <2> QED
    BY <2>1, <2>2, <2>3 DEF Announced, TypeOK
<1>10. CASE LoopStopped
  <2>1. loop'.pc \notin {"note", "act"} /\ UNCHANGED <<asked, parent, told, tasks>>
    BY <1>10 DEF LoopStopped, Finish
  <2> QED
    BY <2>1 DEF Announced
<1>11. CASE LoopComplete
  <2>1. loop'.pc \notin {"note", "act"} /\ UNCHANGED <<asked, parent, told, tasks>>
    BY <1>11 DEF LoopComplete, Exit
  <2> QED
    BY <2>1 DEF Announced
<1>12. CASE LoopShutdownRuntime
  <2>1. loop'.pc \notin {"note", "act"} /\ UNCHANGED <<asked, parent, told, tasks>>
    BY <1>12 DEF LoopShutdownRuntime, Exit
  <2> QED
    BY <2>1 DEF Announced
<1>13. CASE LoopInfo
  <2>1. loop'.pc \notin {"note", "act"} /\ UNCHANGED <<asked, parent, told, tasks>>
    BY <1>13, TakenType DEF LoopInfo
  <2> QED
    BY <2>1 DEF Announced
<1>14. CASE LoopInfoDone
  <2>1. loop'.pc \notin {"note", "act"} /\ UNCHANGED <<asked, parent, told, tasks>>
    BY <1>14 DEF LoopInfoDone, Finish
  <2> QED
    BY <2>1 DEF Announced
<1>15. CASE ~LoopNext
  <2>1. UNCHANGED <<loop, asked, parent>>
    BY <1>15, LoopFrame
  <2>2. asked \subseteq Ids /\ (loop.pc = "act" => loop.cmd.id \in Ids)
    BY LoopId DEF TypeOK
  <2>3. \A a \in Ids : Announced(a) => Announced(a)'
    BY <1>15, <2>1, NoteKept DEF Announced
  <2>4. loop.pc = "act" => (loop.cmd.id)' = loop.cmd.id
    BY <2>1
  <2> QED
    BY <2>1, <2>2, <2>3 DEF Announced
<1> HIDE DEF ToldBeforeAsked, actVars, svVars, regVars, bounds
<1> QED
  BY <1>1, <1>2, <1>3, <1>4, <1>5, <1>6, <1>7, <1>8, <1>9, <1>10, <1>11, <1>12, <1>13,
     <1>14, <1>15 DEF LoopNext

-----------------------------------------------------------------------------
\* Before the first command nothing is in the registry, in the channels or at work.
LEMMA InitTypes == Init => TypeOK
<1> SUFFICES ASSUME Init PROVE TypeOK
  OBVIOUS
<1>1. cmds \in Seq(Commands) /\ Len(cmds) <= CmdCap
  BY TheaterAssumption DEF Init
<1>2. loop \in [pc : {"recv", "setup", "note", "act", "stop", "info", "exited"}, cmd : Commands]
  BY IdleLoop DEF Init
<1>3. req \in [Ids -> Commands]
  BY CommandTypes DEF Init
<1>4. notes \in Seq(Ids) /\ Len(notes) <= NoteCap
  BY TheaterAssumption DEF Init
<1>5. /\ tasks \in [{"shutdown", "waiter", "note"} \X Ids -> Nat]
      /\ exits \in [Ids -> 0 .. MaxExits] /\ sent \in 0 .. MaxClient
  BY TheaterAssumption DEF Init
<1> QED
  BY <1>1, <1>2, <1>3, <1>4, <1>5 DEF Init, TypeOK

\* The invariant that carries the others: the registry, the chains, the loop, the
\* actors' lives and the tasks and commands on their way stay in agreement.
THEOREM RegistryInvariant == Spec => []RegistryInv
<1>1. Init => RegistryInv
  <2> SUFFICES ASSUME Init PROVE RegistryInv
    OBVIOUS
  <2>1. TypeOK
    BY InitTypes
  <2>2. StillRegistered /\ SetupAlone /\ AskedFirst /\ ChainsKept /\ Leaving
    BY DEF Init, StillRegistered, SetupAlone, AskedFirst, ChainsKept, Leaving
  <2>3. Completions /\ StoppedBeforeRemoved /\ ToldBeforeAsked
    BY DEF Init, NoCmd, Completions, StoppedBeforeRemoved, ToldBeforeAsked
  <2> QED
    BY <2>1, <2>2, <2>3 DEF RegistryInv
<1>2. RegistryInv /\ [Next]_vars => RegistryInv'
  BY TypeStep, RegisteredStep, SetupStep, AskedStep, ChainsStep, LeavingStep, CompletionsStep,
     RemovedStep, ToldStep DEF RegistryInv
<1> QED
  BY <1>1, <1>2, PTL DEF Spec

\* The registry agrees with the chains, the actors and the loop that changes it: the
\* entry that stop_actor unwraps is there, a registered actor has its chain, and a
\* stopped one is about to be removed by the loop, a task or a completion.
THEOREM RegistryAgreesHolds == Spec => []RegistryAgrees
<1>1. RegistryInv => RegistryAgrees
  <2> SUFFICES ASSUME RegistryInv PROVE RegistryAgrees
    OBVIOUS
  <2>1. TypeOK /\ StillRegistered
    BY DEF RegistryInv
  <2>2. RegisteredHasChain
    BY DEF RegistryInv, ChainsKept, RegisteredHasChain
  <2>3. NoZombie
    <3>1. \A a \in actors : life[a] = "stopped" => a \in actors \cap asked
      BY DEF RegistryInv, AskedFirst, TypeOK
    <3> QED
      BY <3>1 DEF RegistryInv, Leaving, Leaves, NoZombie
  <2> QED
    BY <2>1, <2>2, <2>3 DEF RegistryAgrees
<1> QED
  BY <1>1, RegistryInvariant, PTL

\* No actor whose Shutdown is answered in time runs on after the registry has let go
\* of it.
THEOREM StoppedBeforeRemovedHolds == Spec => []StoppedBeforeRemoved
<1>1. RegistryInv => StoppedBeforeRemoved
  BY DEF RegistryInv
<1> QED
  BY <1>1, RegistryInvariant, PTL

\* A supervised actor that is gone from the registry was announced to its supervisor,
\* or a detached task holds the message, or it was terminated.
THEOREM ToldBeforeGoneHolds == Spec => []ToldBeforeGone
<1>1. RegistryInv => ToldBeforeGone
  BY DEF RegistryInv, AskedFirst, ToldBeforeAsked, Announced, ToldBeforeGone
<1> QED
  BY <1>1, RegistryInvariant, PTL

=============================================================================
