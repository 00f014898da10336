------------------------ MODULE ActorRuntime_proofs ------------------------
(***************************************************************************)
(* Proofs about ActorRuntime, for any operations, handlers and owner.      *)
(***************************************************************************)
EXTENDS ActorRuntime, TLAPS

-----------------------------------------------------------------------------
(* Queues.                                                                 *)

\* What is in a queue and is not its head stays in it when the head is taken.
LEMMA InQueueTail ==
    ASSUME NEW S, NEW q \in Seq(S), q # <<>>, NEW x, InQueue(q, x), x # Head(q)
    PROVE  InQueue(Tail(q), x)
<1>1. PICK k \in 1..Len(q) : q[k] = x
  BY DEF InQueue
<1>2. k # 1
  BY <1>1
<1>3. k - 1 \in 1..Len(Tail(q)) /\ Tail(q)[k - 1] = x
  BY <1>1, <1>2
<1> QED
  BY <1>3 DEF InQueue

\* What is appended to a queue is in it, with what was in it before.
LEMMA InQueueAppend ==
    ASSUME NEW S, NEW q \in Seq(S), NEW y \in S
    PROVE  /\ InQueue(Append(q, y), y)
           /\ \A x : InQueue(q, x) => InQueue(Append(q, y), x)
<1> DEFINE a == Append(q, y)
<1>1. Len(a) = Len(q) + 1 /\ a[Len(q) + 1] = y /\ \A k \in 1..Len(q) : a[k] = q[k]
  OBVIOUS
<1>2. InQueue(a, y)
  BY <1>1 DEF InQueue
<1>3. ASSUME NEW x, InQueue(q, x) PROVE InQueue(a, x)
  <2>1. PICK k \in 1..Len(q) : q[k] = x
    BY <1>3 DEF InQueue
  <2> QED
    BY <2>1, <1>1 DEF InQueue
<1> QED
  BY <1>2, <1>3

-----------------------------------------------------------------------------
(* Types.                                                                  *)

\* The operation loop has a current operation exactly while it holds the
\* instance lock, and the info loop a request exactly while it serves one.
CurrentOK ==
    /\ op \in Locked <=> cur \in Ops
    /\ info = "serving" <=> infoCur \in Infos

\* Every variable keeps its type, whatever operations, requests, handlers and
\* control commands an actor has.
THEOREM TypeCorrect == Spec => [](TypeOK /\ CurrentOK)
<1> USE ConstantsAssumption DEF TypeOK, CurrentOK, Phases, SetupPc, OpPc, InfoPc, CtlPc,
      OpStatus, InfStatus, Results, Events, Tasks, Cmds, Ended, SetupOver, Locked,
      loops, opVars, infVars, ctlVars, res
<1>1. Init => TypeOK /\ CurrentOK
  <2> SUFFICES ASSUME Init PROVE TypeOK /\ CurrentOK
    OBVIOUS
  <2>1. opQ \in Seq(Ops) /\ infoQ \in Seq(Infos) /\ ctlQ \in Seq(Controls) /\ log \in Seq(Events)
    BY DEF Init
  <2>2. replies \subseteq Cmds \X Results /\ reported \subseteq Ops /\ aborts \subseteq Tasks
    BY DEF Init
  <2> QED
    BY <2>1, <2>2 DEF Init
<1>2. TypeOK /\ CurrentOK /\ [Next]_vars => (TypeOK /\ CurrentOK)'
  <2> SUFFICES ASSUME TypeOK, CurrentOK, [Next]_vars PROVE (TypeOK /\ CurrentOK)'
    OBVIOUS
  <2>1. CASE SetupFail
    BY <2>1 DEF SetupFail
  <2>2. CASE SetupFinalize
    BY <2>2 DEF SetupFinalize
  <2>3. CASE SetupStore
    BY <2>3 DEF SetupStore
  <2>4. CASE SetupController
    BY <2>4 DEF SetupController
  <2>5. CASE SetupRunning
    BY <2>5 DEF SetupRunning
  <2>6. CASE SetupAborted
    BY <2>6 DEF SetupAborted
  <2>7. CASE OpReady
    BY <2>7 DEF OpReady
  <2>8. CASE OpEnter
    BY <2>8 DEF OpEnter
  <2>9. CASE OpNotReady
    BY <2>9 DEF OpNotReady, OpExit, CloseOps
  <2>10. CASE OpStop
    BY <2>10 DEF OpStop, OpExit, CloseOps
  <2>11. CASE OpPause
    BY <2>11 DEF OpPause
  <2>12. CASE OpUnpause
    BY <2>12 DEF OpUnpause
  <2>13. CASE OpCall
    BY <2>13 DEF OpCall, TakesOp
  <2>14. CASE OpReject
    BY <2>14 DEF OpReject, TakesOp
  <2>15. CASE CallRecord
    BY <2>15 DEF CallRecord
  <2>16. CASE CallDecodeError
    BY <2>16 DEF CallDecodeError
  <2>17. CASE CallOk
    BY <2>17 DEF CallOk
  <2>18. CASE CallErr
    BY <2>18 DEF CallErr
  <2>19. CASE CallReport
    BY <2>19 DEF CallReport
  <2>20. CASE CallFailed
    BY <2>20 DEF CallFailed
  <2>21. CASE OpAborted
    BY <2>21 DEF OpAborted, CloseOps
  <2>22. CASE GuestToHost
    BY <2>22 DEF GuestToHost
  <2>23. CASE HostToGuest
    BY <2>23 DEF HostToGuest
  <2>24. CASE GuestReturn
    BY <2>24 DEF GuestReturn
  <2>25. CASE GuestTrap
    BY <2>25 DEF GuestTrap
  <2>26. CASE InfoStop
    BY <2>26 DEF InfoStop, CloseInfos
  <2>27. CASE InfoTake
    BY <2>27 DEF InfoTake
  <2>28. CASE InfoServe
    BY <2>28 DEF InfoServe
  <2>29. CASE InfoAborted
    BY <2>29 DEF InfoAborted, CloseInfos
  <2>30. CASE CtlShutdown
    BY <2>30 DEF CtlShutdown, Signal
  <2>31. CASE CtlSignalled
    BY <2>31 DEF CtlSignalled
  <2>32. CASE CtlOpEnded
    BY <2>32 DEF CtlOpEnded
  <2>33. CASE CtlInfoEnded
    BY <2>33 DEF CtlInfoEnded
  <2>34. CASE CtlSetupEnded
    BY <2>34 DEF CtlSetupEnded
  <2>35. CASE CtlTerminate
    BY <2>35 DEF CtlTerminate, Signal
  <2>36. CASE CtlForced
    BY <2>36 DEF CtlForced
  <2>37. CASE CtlPause
    BY <2>37 DEF CtlPause
  <2>38. CASE CtlResume
    BY <2>38 DEF CtlResume
  <2>39. CASE CtlClosed
    BY <2>39 DEF CtlClosed
  <2>40. CASE CtlCleanup
    BY <2>40 DEF CtlCleanup
  <2>41. ASSUME NEW h \in Handlers, SetupSpawnHandler(h) PROVE (TypeOK /\ CurrentOK)'
    BY <2>41 DEF SetupSpawnHandler
  <2>42. ASSUME NEW t \in Tasks, CtlTimeout(t) PROVE (TypeOK /\ CurrentOK)'
    BY <2>42 DEF CtlTimeout
  <2>43. ASSUME NEW o \in Ops, SendOp(o) PROVE (TypeOK /\ CurrentOK)'
    <3>1. CASE op \in Ended
      <4>1. opQ' = opQ /\ opRes' = [opRes EXCEPT ![o] = "closed"]
        BY <2>43, <3>1 DEF SendOp
      <4> QED
        BY <2>43, <4>1 DEF SendOp
    <3>2. CASE op \notin Ended
      <4>1. opQ' = Append(opQ, o) /\ opRes' = [opRes EXCEPT ![o] = "queued"]
        BY <2>43, <3>2 DEF SendOp
      <4> QED
        BY <2>43, <4>1 DEF SendOp
    <3> QED
      BY <3>1, <3>2
  <2>44. ASSUME NEW i \in Infos, SendInfo(i) PROVE (TypeOK /\ CurrentOK)'
    <3>1. CASE info \in Ended
      <4>1. infoQ' = infoQ /\ infoRes' = [infoRes EXCEPT ![i] = "closed"]
        BY <2>44, <3>1 DEF SendInfo
      <4> QED
        BY <2>44, <4>1 DEF SendInfo
    <3>2. CASE info \notin Ended
      <4>1. infoQ' = Append(infoQ, i) /\ infoRes' = [infoRes EXCEPT ![i] = "queued"]
        BY <2>44, <3>2 DEF SendInfo
      <4> QED
        BY <2>44, <4>1 DEF SendInfo
    <3> QED
      BY <3>1, <3>2
  <2>45. ASSUME NEW c \in Controls, SendControl(c) PROVE (TypeOK /\ CurrentOK)'
    BY <2>45 DEF SendControl
  <2>46. ASSUME NEW h \in Handlers, HandlerReturns(h) PROVE (TypeOK /\ CurrentOK)'
    BY <2>46 DEF HandlerReturns
  <2>47. ASSUME NEW h \in Handlers, HandlerStops(h) PROVE (TypeOK /\ CurrentOK)'
    BY <2>47 DEF HandlerStops
  <2>48. ASSUME NEW h \in Handlers, HandlerAnswers(h) PROVE (TypeOK /\ CurrentOK)'
    BY <2>48 DEF HandlerAnswers
  <2>49. CASE UNCHANGED vars
    BY <2>49 DEF vars
  <2>50. CASE OpNotStopped
    BY <2>50 DEF OpNotStopped
  <2>51. CASE OpNotPaused
    BY <2>51 DEF OpNotPaused
  <2>52. CASE OpMiss
    BY <2>52 DEF OpMiss
  <2>53. CASE InfoNotStopped
    BY <2>53 DEF InfoNotStopped
  <2>54. CASE InfoMiss
    BY <2>54 DEF InfoMiss
  <2>55. CASE StopRecorded
    BY <2>55 DEF StopRecorded
  <2> QED
    BY <2>1, <2>2, <2>3, <2>4, <2>5, <2>6, <2>7, <2>8, <2>9, <2>10, <2>11,
       <2>12, <2>13, <2>14, <2>15, <2>16, <2>17, <2>18, <2>19, <2>20, <2>21, <2>22,
       <2>23, <2>24, <2>25, <2>26, <2>27, <2>28, <2>29, <2>30, <2>31, <2>32, <2>33,
       <2>34, <2>35, <2>36, <2>37, <2>38, <2>39, <2>40, <2>41, <2>42, <2>43, <2>44,
       <2>45, <2>46, <2>47, <2>48, <2>49, <2>50, <2>51, <2>52, <2>53, <2>54, <2>55
       DEF Next, SetupNext, OpNext, OpProgress, InfoNext, CtlNext, EnvNext
<1> QED
  BY <1>1, <1>2, PTL DEF Spec

-----------------------------------------------------------------------------
(* What an acknowledged Shutdown means.                                    *)

\* A caller that has not been answered is in a queue that is still being
\* served, or is the one being served: nobody is lost between the two.
Awaited ==
    /\ op \in Ended => opQ = <<>>
    /\ info \in Ended => infoQ = <<>>
    /\ \A o \in Ops : opRes[o] = "queued" => InQueue(opQ, o)
    /\ \A o \in Ops : opRes[o] = "running" => cur = o
    /\ \A i \in Infos : infoRes[i] = "queued" => infoCur = i \/ InQueue(infoQ, i)

\* How far the control loop has got tells which loops have ended.
Joined ==
    /\ ctl \in {"waitInfo", "waitSetup"} \/ ShutdownAcked => op \in Ended
    /\ ctl = "waitSetup" \/ ShutdownAcked => info \in Ended
    /\ ShutdownAcked => setup \in SetupOver

\* The order in which the control loop joins its tasks, kept by every step.
LEMMA JoinedInductive ==
    ASSUME TypeOK, Joined, [Next]_vars PROVE Joined'
<1> USE DEF Joined, ShutdownAcked, Ended, SetupOver, Locked, TypeOK, Cmds,
      loops, opVars, infVars, ctlVars, res
<1>1. CASE SetupFail
  BY <1>1 DEF SetupFail
<1>2. CASE SetupFinalize
  BY <1>2 DEF SetupFinalize
<1>3. CASE SetupStore
  BY <1>3 DEF SetupStore
<1>4. CASE SetupController
  BY <1>4 DEF SetupController
<1>5. CASE SetupRunning
  BY <1>5 DEF SetupRunning
<1>6. CASE SetupAborted
  BY <1>6 DEF SetupAborted
<1>7. CASE OpReady
  BY <1>7 DEF OpReady
<1>8. CASE OpEnter
  BY <1>8 DEF OpEnter
<1>9. CASE OpNotReady
  BY <1>9 DEF OpNotReady, OpExit, CloseOps
<1>10. CASE OpStop
  BY <1>10 DEF OpStop, OpExit, CloseOps
<1>11. CASE OpPause
  BY <1>11 DEF OpPause
<1>12. CASE OpUnpause
  BY <1>12 DEF OpUnpause
<1>13. CASE OpCall
  BY <1>13 DEF OpCall, TakesOp
<1>14. CASE OpReject
  BY <1>14 DEF OpReject, TakesOp
<1>15. CASE CallRecord
  BY <1>15 DEF CallRecord
<1>16. CASE CallDecodeError
  BY <1>16 DEF CallDecodeError
<1>17. CASE CallOk
  BY <1>17 DEF CallOk
<1>18. CASE CallErr
  BY <1>18 DEF CallErr
<1>19. CASE CallReport
  BY <1>19 DEF CallReport
<1>20. CASE CallFailed
  BY <1>20 DEF CallFailed
<1>21. CASE OpAborted
  BY <1>21 DEF OpAborted, CloseOps
<1>22. CASE GuestToHost
  BY <1>22 DEF GuestToHost
<1>23. CASE HostToGuest
  BY <1>23 DEF HostToGuest
<1>24. CASE GuestReturn
  BY <1>24 DEF GuestReturn
<1>25. CASE GuestTrap
  BY <1>25 DEF GuestTrap
<1>26. CASE InfoStop
  BY <1>26 DEF InfoStop, CloseInfos
<1>27. CASE InfoTake
  BY <1>27 DEF InfoTake
<1>28. CASE InfoServe
  BY <1>28 DEF InfoServe
<1>29. CASE InfoAborted
  BY <1>29 DEF InfoAborted, CloseInfos
<1>30. CASE CtlShutdown
  BY <1>30 DEF CtlShutdown, Signal
<1>31. CASE CtlSignalled
  BY <1>31 DEF CtlSignalled
<1>32. CASE CtlOpEnded
  BY <1>32 DEF CtlOpEnded
<1>33. CASE CtlInfoEnded
  BY <1>33 DEF CtlInfoEnded
<1>34. CASE CtlSetupEnded
  BY <1>34 DEF CtlSetupEnded
<1>35. CASE CtlTerminate
  BY <1>35 DEF CtlTerminate, Signal
<1>36. CASE CtlForced
  BY <1>36 DEF CtlForced
<1>37. CASE CtlPause
  BY <1>37 DEF CtlPause
<1>38. CASE CtlResume
  BY <1>38 DEF CtlResume
<1>39. CASE CtlClosed
  BY <1>39 DEF CtlClosed
<1>40. CASE CtlCleanup
  BY <1>40 DEF CtlCleanup
<1>41. ASSUME NEW h \in Handlers, SetupSpawnHandler(h) PROVE Joined'
  BY <1>41 DEF SetupSpawnHandler
<1>42. ASSUME NEW t \in Tasks, CtlTimeout(t) PROVE Joined'
  BY <1>42 DEF CtlTimeout
<1>43. ASSUME NEW o \in Ops, SendOp(o) PROVE Joined'
  BY <1>43 DEF SendOp
<1>44. ASSUME NEW i \in Infos, SendInfo(i) PROVE Joined'
  BY <1>44 DEF SendInfo
<1>45. ASSUME NEW c \in Controls, SendControl(c) PROVE Joined'
  BY <1>45 DEF SendControl
<1>46. ASSUME NEW h \in Handlers, HandlerReturns(h) PROVE Joined'
  BY <1>46 DEF HandlerReturns
<1>47. ASSUME NEW h \in Handlers, HandlerStops(h) PROVE Joined'
  BY <1>47 DEF HandlerStops
<1>48. ASSUME NEW h \in Handlers, HandlerAnswers(h) PROVE Joined'
  BY <1>48 DEF HandlerAnswers
<1>49. CASE UNCHANGED vars
  BY <1>49 DEF vars
<1>50. CASE OpNotStopped
  BY <1>50 DEF OpNotStopped
<1>51. CASE OpNotPaused
  BY <1>51 DEF OpNotPaused
<1>52. CASE OpMiss
  BY <1>52 DEF OpMiss
<1>53. CASE InfoNotStopped
  BY <1>53 DEF InfoNotStopped
<1>54. CASE InfoMiss
  BY <1>54 DEF InfoMiss
<1>55. CASE StopRecorded
  BY <1>55 DEF StopRecorded
<1> QED
  BY <1>1, <1>2, <1>3, <1>4, <1>5, <1>6, <1>7, <1>8, <1>9, <1>10, <1>11,
     <1>12, <1>13, <1>14, <1>15, <1>16, <1>17, <1>18, <1>19, <1>20, <1>21, <1>22,
     <1>23, <1>24, <1>25, <1>26, <1>27, <1>28, <1>29, <1>30, <1>31, <1>32, <1>33,
     <1>34, <1>35, <1>36, <1>37, <1>38, <1>39, <1>40, <1>41, <1>42, <1>43, <1>44,
     <1>45, <1>46, <1>47, <1>48, <1>49, <1>50, <1>51, <1>52, <1>53, <1>54, <1>55
     DEF Next, SetupNext, OpNext, OpProgress, InfoNext, CtlNext, EnvNext

\* No caller is lost between a queue and the loop that serves it, whatever the step.
LEMMA AwaitedInductive ==
    ASSUME TypeOK, CurrentOK, Awaited, [Next]_vars PROVE Awaited'
<1> USE ConstantsAssumption DEF Awaited, CurrentOK, Ended, Locked, TypeOK,
      loops, opVars, infVars, ctlVars, res
<1>1. CASE SetupFail
  BY <1>1 DEF SetupFail
<1>2. CASE SetupFinalize
  BY <1>2 DEF SetupFinalize
<1>3. CASE SetupStore
  BY <1>3 DEF SetupStore
<1>4. CASE SetupController
  BY <1>4 DEF SetupController
<1>5. CASE SetupRunning
  BY <1>5 DEF SetupRunning
<1>6. CASE SetupAborted
  BY <1>6 DEF SetupAborted
<1>7. CASE OpReady
  BY <1>7 DEF OpReady
<1>8. CASE OpEnter
  BY <1>8 DEF OpEnter
<1>9. CASE OpNotReady
  BY <1>9 DEF OpNotReady, OpExit, CloseOps
<1>10. CASE OpStop
  BY <1>10 DEF OpStop, OpExit, CloseOps
<1>11. CASE OpPause
  BY <1>11 DEF OpPause
<1>12. CASE OpUnpause
  BY <1>12 DEF OpUnpause
<1>13. CASE OpCall
  BY <1>13, InQueueTail DEF OpCall, TakesOp
<1>14. CASE OpReject
  BY <1>14, InQueueTail DEF OpReject, TakesOp
<1>15. CASE CallRecord
  BY <1>15 DEF CallRecord
<1>16. CASE CallDecodeError
  BY <1>16 DEF CallDecodeError
<1>17. CASE CallOk
  BY <1>17 DEF CallOk
<1>18. CASE CallErr
  BY <1>18 DEF CallErr
<1>19. CASE CallReport
  BY <1>19 DEF CallReport
<1>20. CASE CallFailed
  BY <1>20 DEF CallFailed
<1>21. CASE OpAborted
  BY <1>21 DEF OpAborted, CloseOps
<1>22. CASE GuestToHost
  BY <1>22 DEF GuestToHost
<1>23. CASE HostToGuest
  BY <1>23 DEF HostToGuest
<1>24. CASE GuestReturn
  BY <1>24 DEF GuestReturn
<1>25. CASE GuestTrap
  BY <1>25 DEF GuestTrap
<1>26. CASE InfoStop
  BY <1>26 DEF InfoStop, CloseInfos
<1>27. CASE InfoTake
  BY <1>27, InQueueTail DEF InfoTake
<1>28. CASE InfoServe
  BY <1>28 DEF InfoServe
<1>29. CASE InfoAborted
  BY <1>29 DEF InfoAborted, CloseInfos
<1>30. CASE CtlShutdown
  BY <1>30 DEF CtlShutdown, Signal
<1>31. CASE CtlSignalled
  BY <1>31 DEF CtlSignalled
<1>32. CASE CtlOpEnded
  BY <1>32 DEF CtlOpEnded
<1>33. CASE CtlInfoEnded
  BY <1>33 DEF CtlInfoEnded
<1>34. CASE CtlSetupEnded
  BY <1>34 DEF CtlSetupEnded
<1>35. CASE CtlTerminate
  BY <1>35 DEF CtlTerminate, Signal
<1>36. CASE CtlForced
  BY <1>36 DEF CtlForced
<1>37. CASE CtlPause
  BY <1>37 DEF CtlPause
<1>38. CASE CtlResume
  BY <1>38 DEF CtlResume
<1>39. CASE CtlClosed
  BY <1>39 DEF CtlClosed
<1>40. CASE CtlCleanup
  BY <1>40 DEF CtlCleanup
<1>41. ASSUME NEW h \in Handlers, SetupSpawnHandler(h) PROVE Awaited'
  BY <1>41 DEF SetupSpawnHandler
<1>42. ASSUME NEW t \in Tasks, CtlTimeout(t) PROVE Awaited'
  BY <1>42 DEF CtlTimeout
<1>43. ASSUME NEW o \in Ops, SendOp(o) PROVE Awaited'
  <2>1. CASE op \in Ended
    <3>1. opQ' = opQ /\ opRes' = [opRes EXCEPT ![o] = "closed"]
      BY <1>43, <2>1 DEF SendOp
    <3> QED
      BY <1>43, <3>1 DEF SendOp
  <2>2. CASE op \notin Ended
    <3>1. opQ' = Append(opQ, o) /\ opRes' = [opRes EXCEPT ![o] = "queued"]
      BY <1>43, <2>2 DEF SendOp
    <3>2. InQueue(opQ', o) /\ \A x \in Ops : InQueue(opQ, x) => InQueue(opQ', x)
      BY <3>1, InQueueAppend
    <3> QED
      BY <1>43, <2>2, <3>1, <3>2 DEF SendOp
  <2> QED
    BY <2>1, <2>2
<1>44. ASSUME NEW i \in Infos, SendInfo(i) PROVE Awaited'
  <2>1. CASE info \in Ended
    <3>1. infoQ' = infoQ /\ infoRes' = [infoRes EXCEPT ![i] = "closed"]
      BY <1>44, <2>1 DEF SendInfo
    <3> QED
      BY <1>44, <3>1 DEF SendInfo
  <2>2. CASE info \notin Ended
    <3>1. infoQ' = Append(infoQ, i) /\ infoRes' = [infoRes EXCEPT ![i] = "queued"]
      BY <1>44, <2>2 DEF SendInfo
    <3>2. InQueue(infoQ', i) /\ \A x \in Infos : InQueue(infoQ, x) => InQueue(infoQ', x)
      BY <3>1, InQueueAppend
    <3> QED
      BY <1>44, <2>2, <3>1, <3>2 DEF SendInfo
  <2> QED
    BY <2>1, <2>2
<1>45. ASSUME NEW c \in Controls, SendControl(c) PROVE Awaited'
  BY <1>45 DEF SendControl
<1>46. ASSUME NEW h \in Handlers, HandlerReturns(h) PROVE Awaited'
  BY <1>46 DEF HandlerReturns
<1>47. ASSUME NEW h \in Handlers, HandlerStops(h) PROVE Awaited'
  BY <1>47 DEF HandlerStops
<1>48. ASSUME NEW h \in Handlers, HandlerAnswers(h) PROVE Awaited'
  BY <1>48 DEF HandlerAnswers
<1>49. CASE UNCHANGED vars
  BY <1>49 DEF vars
<1>50. CASE OpNotStopped
  BY <1>50 DEF OpNotStopped
<1>51. CASE OpNotPaused
  BY <1>51 DEF OpNotPaused
<1>52. CASE OpMiss
  BY <1>52 DEF OpMiss
<1>53. CASE InfoNotStopped
  BY <1>53 DEF InfoNotStopped
<1>54. CASE InfoMiss
  BY <1>54 DEF InfoMiss
<1>55. CASE StopRecorded
  BY <1>55 DEF StopRecorded
<1> QED
  BY <1>1, <1>2, <1>3, <1>4, <1>5, <1>6, <1>7, <1>8, <1>9, <1>10, <1>11,
     <1>12, <1>13, <1>14, <1>15, <1>16, <1>17, <1>18, <1>19, <1>20, <1>21, <1>22,
     <1>23, <1>24, <1>25, <1>26, <1>27, <1>28, <1>29, <1>30, <1>31, <1>32, <1>33,
     <1>34, <1>35, <1>36, <1>37, <1>38, <1>39, <1>40, <1>41, <1>42, <1>43, <1>44,
     <1>45, <1>46, <1>47, <1>48, <1>49, <1>50, <1>51, <1>52, <1>53, <1>54, <1>55
     DEF Next, SetupNext, OpNext, OpProgress, InfoNext, CtlNext, EnvNext

\* The answer to Shutdown is given only when the operation, info and setup
\* tasks have ended and every caller has an answer or a closed channel, for any
\* number of callers and handlers, and whether or not the loops were aborted.
THEOREM ShutdownAckSound == Spec => []AckMeansStopped
<1>1. Init => Awaited /\ Joined
  BY DEF Init, Awaited, Joined, ShutdownAcked, Ended
<1>2. TypeOK /\ CurrentOK /\ Awaited /\ Joined /\ [Next]_vars => (Awaited /\ Joined)'
  BY AwaitedInductive, JoinedInductive
<1>3. TypeOK /\ CurrentOK /\ Awaited /\ Joined => AckMeansStopped
  BY ConstantsAssumption
     DEF TypeOK, CurrentOK, Awaited, Joined, AckMeansStopped, Ended, Locked, InQueue
<1> QED
  BY <1>1, <1>2, <1>3, TypeCorrect, PTL DEF Spec

\* After that answer the actor records, stores and reports nothing any more; only
\* stop_actor's event can still be added to the chain.
THEOREM QuietAfterShutdown == Spec => QuietAfterAck
<1> DEFINE Quiet == /\ UNCHANGED <<state, reported, opQ, infoQ>>
                    /\ log' \in {log, Append(log, StopEvent)}
<1>1. ASSUME TypeOK, CurrentOK, AckMeansStopped, ShutdownAcked, [Next]_vars PROVE Quiet
  <2> USE <1>1, ConstantsAssumption DEF AckMeansStopped, CurrentOK, Ended, SetupOver, Locked,
        loops, opVars, infVars, ctlVars, res
  <2>1. CASE SetupFail
    BY <2>1 DEF SetupFail
  <2>2. CASE SetupFinalize
    BY <2>2 DEF SetupFinalize
  <2>3. CASE SetupStore
    BY <2>3 DEF SetupStore
  <2>4. CASE SetupController
    BY <2>4 DEF SetupController
  <2>5. CASE SetupRunning
    BY <2>5 DEF SetupRunning
  <2>6. CASE SetupAborted
    BY <2>6 DEF SetupAborted
  <2>7. CASE OpReady
    BY <2>7 DEF OpReady
  <2>8. CASE OpEnter
    BY <2>8 DEF OpEnter
  <2>9. CASE OpNotReady
    BY <2>9 DEF OpNotReady, OpExit, CloseOps
  <2>10. CASE OpStop
    BY <2>10 DEF OpStop, OpExit, CloseOps
  <2>11. CASE OpPause
    BY <2>11 DEF OpPause
  <2>12. CASE OpUnpause
    BY <2>12 DEF OpUnpause
  <2>13. CASE OpCall
    BY <2>13 DEF OpCall, TakesOp
  <2>14. CASE OpReject
    BY <2>14 DEF OpReject, TakesOp
  <2>15. CASE CallRecord
    BY <2>15 DEF CallRecord
  <2>16. CASE CallDecodeError
    BY <2>16 DEF CallDecodeError
  <2>17. CASE CallOk
    BY <2>17 DEF CallOk
  <2>18. CASE CallErr
    BY <2>18 DEF CallErr
  <2>19. CASE CallReport
    BY <2>19 DEF CallReport
  <2>20. CASE CallFailed
    BY <2>20 DEF CallFailed
  <2>21. CASE OpAborted
    BY <2>21 DEF OpAborted, CloseOps
  <2>22. CASE GuestToHost
    BY <2>22 DEF GuestToHost
  <2>23. CASE HostToGuest
    BY <2>23 DEF HostToGuest
  <2>24. CASE GuestReturn
    BY <2>24 DEF GuestReturn
  <2>25. CASE GuestTrap
    BY <2>25 DEF GuestTrap
  <2>26. CASE InfoStop
    BY <2>26 DEF InfoStop, CloseInfos
  <2>27. CASE InfoTake
    BY <2>27 DEF InfoTake
  <2>28. CASE InfoServe
    BY <2>28 DEF InfoServe
  <2>29. CASE InfoAborted
    BY <2>29 DEF InfoAborted, CloseInfos
  <2>30. CASE CtlShutdown
    BY <2>30 DEF CtlShutdown, Signal
  <2>31. CASE CtlSignalled
    BY <2>31 DEF CtlSignalled
  <2>32. CASE CtlOpEnded
    BY <2>32 DEF CtlOpEnded
  <2>33. CASE CtlInfoEnded
    BY <2>33 DEF CtlInfoEnded
  <2>34. CASE CtlSetupEnded
    BY <2>34 DEF CtlSetupEnded
  <2>35. CASE CtlTerminate
    BY <2>35 DEF CtlTerminate, Signal
  <2>36. CASE CtlForced
    BY <2>36 DEF CtlForced
  <2>37. CASE CtlPause
    BY <2>37 DEF CtlPause
  <2>38. CASE CtlResume
    BY <2>38 DEF CtlResume
  <2>39. CASE CtlClosed
    BY <2>39 DEF CtlClosed
  <2>40. CASE CtlCleanup
    BY <2>40 DEF CtlCleanup
  <2>41. ASSUME NEW h \in Handlers, SetupSpawnHandler(h) PROVE Quiet
    BY <2>41 DEF SetupSpawnHandler
  <2>42. ASSUME NEW t \in Tasks, CtlTimeout(t) PROVE Quiet
    BY <2>42 DEF CtlTimeout
  <2>43. ASSUME NEW o \in Ops, SendOp(o) PROVE Quiet
    BY <2>43 DEF SendOp
  <2>44. ASSUME NEW i \in Infos, SendInfo(i) PROVE Quiet
    BY <2>44 DEF SendInfo
  <2>45. ASSUME NEW c \in Controls, SendControl(c) PROVE Quiet
    BY <2>45 DEF SendControl
  <2>46. ASSUME NEW h \in Handlers, HandlerReturns(h) PROVE Quiet
    BY <2>46 DEF HandlerReturns
  <2>47. ASSUME NEW h \in Handlers, HandlerStops(h) PROVE Quiet
    BY <2>47 DEF HandlerStops
  <2>48. ASSUME NEW h \in Handlers, HandlerAnswers(h) PROVE Quiet
    BY <2>48 DEF HandlerAnswers
  <2>49. CASE UNCHANGED vars
    BY <2>49 DEF vars
  <2>50. CASE OpNotStopped
    BY <2>50 DEF OpNotStopped
  <2>51. CASE OpNotPaused
    BY <2>51 DEF OpNotPaused
  <2>52. CASE OpMiss
    BY <2>52 DEF OpMiss
  <2>53. CASE InfoNotStopped
    BY <2>53 DEF InfoNotStopped
  <2>54. CASE InfoMiss
    BY <2>54 DEF InfoMiss
  <2>55. CASE StopRecorded
    BY <2>55 DEF StopRecorded
  <2> QED
    BY <2>1, <2>2, <2>3, <2>4, <2>5, <2>6, <2>7, <2>8, <2>9, <2>10, <2>11,
       <2>12, <2>13, <2>14, <2>15, <2>16, <2>17, <2>18, <2>19, <2>20, <2>21, <2>22,
       <2>23, <2>24, <2>25, <2>26, <2>27, <2>28, <2>29, <2>30, <2>31, <2>32, <2>33,
       <2>34, <2>35, <2>36, <2>37, <2>38, <2>39, <2>40, <2>41, <2>42, <2>43, <2>44,
       <2>45, <2>46, <2>47, <2>48, <2>49, <2>50, <2>51, <2>52, <2>53, <2>54, <2>55
       DEF Next, SetupNext, OpNext, OpProgress, InfoNext, CtlNext, EnvNext
<1>2. TypeOK /\ CurrentOK /\ AckMeansStopped /\ [Next]_vars => [ShutdownAcked => Quiet]_vars
  BY <1>1
<1> QED
  BY <1>2, TypeCorrect, ShutdownAckSound, PTL DEF Spec, QuietAfterAck

-----------------------------------------------------------------------------
(* A failed operation is the last one.                                     *)

\* Without Resume the phase becomes Running once, when setup ends; so once a
\* failure has been reported the failed operation is still being reported, or the
\* actor is Paused and the loop takes no operation, or the loop is over, or a
\* Shutdown has been taken since.
FailureInv ==
    /\ phase = "Running" => setup = "done"
    /\ op \notin {"waiting", "ready"} \cup Ended => setup = "done"
    /\ reported # {} => op \notin {"waiting", "ready"}
    /\ \A o \in reported :
         \/ cur = o /\ op = "reporting"
         \/ cur = None /\ op \in {"idle", "poll", "paused"} /\ phase = "Paused"
         \/ cur = None /\ op \in Ended
         \/ ctl # "recv" /\ phase = "ShuttingDown"

\* Between a reported failure and a Shutdown no step starts another call.
LEMMA FailureInductive ==
    ASSUME "Resume" \notin Controls, TypeOK, CurrentOK, FailureInv, [Next]_vars
    PROVE  FailureInv'
<1> USE ConstantsAssumption DEF FailureInv, CurrentOK, Ended, SetupOver, Locked, TypeOK,
      SetupPc, OpPc, loops, opVars, infVars, ctlVars, res
<1>1. CASE SetupFail
  BY <1>1 DEF SetupFail
<1>2. CASE SetupFinalize
  BY <1>2 DEF SetupFinalize
<1>3. CASE SetupStore
  BY <1>3 DEF SetupStore
<1>4. CASE SetupController
  BY <1>4 DEF SetupController
<1>5. CASE SetupRunning
  BY <1>5 DEF SetupRunning
<1>6. CASE SetupAborted
  BY <1>6 DEF SetupAborted
<1>7. CASE OpReady
  BY <1>7 DEF OpReady
<1>8. CASE OpEnter
  BY <1>8 DEF OpEnter
<1>9. CASE OpNotReady
  BY <1>9 DEF OpNotReady, OpExit, CloseOps
<1>10. CASE OpStop
  BY <1>10 DEF OpStop, OpExit, CloseOps
<1>11. CASE OpPause
  BY <1>11 DEF OpPause
<1>12. CASE OpUnpause
  BY <1>12 DEF OpUnpause
<1>13. CASE OpCall
  BY <1>13 DEF OpCall, TakesOp
<1>14. CASE OpReject
  BY <1>14 DEF OpReject, TakesOp
<1>15. CASE CallRecord
  BY <1>15 DEF CallRecord
<1>16. CASE CallDecodeError
  BY <1>16 DEF CallDecodeError
<1>17. CASE CallOk
  BY <1>17 DEF CallOk
<1>18. CASE CallErr
  BY <1>18 DEF CallErr
<1>19. CASE CallReport
  BY <1>19 DEF CallReport
<1>20. CASE CallFailed
  BY <1>20 DEF CallFailed
<1>21. CASE OpAborted
  BY <1>21 DEF OpAborted, CloseOps
<1>22. CASE GuestToHost
  BY <1>22 DEF GuestToHost
<1>23. CASE HostToGuest
  BY <1>23 DEF HostToGuest
<1>24. CASE GuestReturn
  BY <1>24 DEF GuestReturn
<1>25. CASE GuestTrap
  BY <1>25 DEF GuestTrap
<1>26. CASE InfoStop
  BY <1>26 DEF InfoStop, CloseInfos
<1>27. CASE InfoTake
  BY <1>27 DEF InfoTake
<1>28. CASE InfoServe
  BY <1>28 DEF InfoServe
<1>29. CASE InfoAborted
  BY <1>29 DEF InfoAborted, CloseInfos
<1>30. CASE CtlShutdown
  BY <1>30 DEF CtlShutdown, Signal
<1>31. CASE CtlSignalled
  BY <1>31 DEF CtlSignalled
<1>32. CASE CtlOpEnded
  BY <1>32 DEF CtlOpEnded
<1>33. CASE CtlInfoEnded
  BY <1>33 DEF CtlInfoEnded
<1>34. CASE CtlSetupEnded
  BY <1>34 DEF CtlSetupEnded
<1>35. CASE CtlTerminate
  BY <1>35 DEF CtlTerminate, Signal
<1>36. CASE CtlForced
  BY <1>36 DEF CtlForced
<1>37. CASE CtlPause
  BY <1>37 DEF CtlPause
<1>38. CASE CtlResume
  <2>1. Head(ctlQ) \in Controls
  BY <1>38 DEF CtlResume
  <2> QED
  BY <1>38, <2>1 DEF CtlResume
<1>39. CASE CtlClosed
  BY <1>39 DEF CtlClosed
<1>40. CASE CtlCleanup
  BY <1>40 DEF CtlCleanup
<1>41. ASSUME NEW h \in Handlers, SetupSpawnHandler(h) PROVE FailureInv'
  BY <1>41 DEF SetupSpawnHandler
<1>42. ASSUME NEW t \in Tasks, CtlTimeout(t) PROVE FailureInv'
  BY <1>42 DEF CtlTimeout
<1>43. ASSUME NEW o \in Ops, SendOp(o) PROVE FailureInv'
  BY <1>43 DEF SendOp
<1>44. ASSUME NEW i \in Infos, SendInfo(i) PROVE FailureInv'
  BY <1>44 DEF SendInfo
<1>45. ASSUME NEW c \in Controls, SendControl(c) PROVE FailureInv'
  BY <1>45 DEF SendControl
<1>46. ASSUME NEW h \in Handlers, HandlerReturns(h) PROVE FailureInv'
  BY <1>46 DEF HandlerReturns
<1>47. ASSUME NEW h \in Handlers, HandlerStops(h) PROVE FailureInv'
  BY <1>47 DEF HandlerStops
<1>48. ASSUME NEW h \in Handlers, HandlerAnswers(h) PROVE FailureInv'
  BY <1>48 DEF HandlerAnswers
<1>49. CASE UNCHANGED vars
  BY <1>49 DEF vars
<1>50. CASE OpNotStopped
  BY <1>50 DEF OpNotStopped
<1>51. CASE OpNotPaused
  BY <1>51 DEF OpNotPaused
<1>52. CASE OpMiss
  BY <1>52 DEF OpMiss
<1>53. CASE InfoNotStopped
  BY <1>53 DEF InfoNotStopped
<1>54. CASE InfoMiss
  BY <1>54 DEF InfoMiss
<1>55. CASE StopRecorded
  BY <1>55 DEF StopRecorded
<1> QED
  BY <1>1, <1>2, <1>3, <1>4, <1>5, <1>6, <1>7, <1>8, <1>9, <1>10, <1>11,
     <1>12, <1>13, <1>14, <1>15, <1>16, <1>17, <1>18, <1>19, <1>20, <1>21, <1>22,
     <1>23, <1>24, <1>25, <1>26, <1>27, <1>28, <1>29, <1>30, <1>31, <1>32, <1>33,
     <1>34, <1>35, <1>36, <1>37, <1>38, <1>39, <1>40, <1>41, <1>42, <1>43, <1>44,
     <1>45, <1>46, <1>47, <1>48, <1>49, <1>50, <1>51, <1>52, <1>53, <1>54, <1>55
     DEF Next, SetupNext, OpNext, OpProgress, InfoNext, CtlNext, EnvNext

\* For any operations and handlers: unless the owner resumes it, an actor that
\* reported a failure processes no other operation before a Shutdown is taken.
THEOREM FailureIsLast == Spec => []FailureStopsCalls
<1>1. CASE "Resume" \in Controls
  <2>1. FailureStopsCalls
    BY <1>1 DEF FailureStopsCalls
  <2> QED
    BY <2>1, PTL
<1>2. CASE "Resume" \notin Controls
  <2>1. Init => FailureInv
    BY DEF Init, FailureInv, Ended
  <2>2. TypeOK /\ CurrentOK /\ FailureInv /\ [Next]_vars => FailureInv'
    BY <1>2, FailureInductive
  <2>3. TypeOK /\ CurrentOK /\ FailureInv => FailureStopsCalls
    BY ConstantsAssumption DEF TypeOK, CurrentOK, FailureInv, FailureStopsCalls, Locked, Ended
  <2> QED
    BY <2>1, <2>2, <2>3, TypeCorrect, PTL DEF Spec
<1> QED
  BY <1>1, <1>2

-----------------------------------------------------------------------------
(* ActorRuntime implements ActorLifecycle.                                 *)

\* Owned by the theater runtime, an actor takes commands only after setup; after a
\* Shutdown the phase is never Running again, since that comes only from setup.
OwnedInv ==
    /\ (ctlQ # <<>> \/ ctl \notin {"recv", "cleanup", "exited"} \/ ShutdownAcked) => setup = "done"
    /\ ctl \notin {"recv", "cleanup", "exited"} => phase \in {"Paused", "ShuttingDown"}
    /\ ctl # "force"
    /\ ctl \in {"cleanup", "exited"} => ShutdownAcked \/ setup = "failed"
    /\ ShutdownAcked => ctl \in {"cleanup", "exited"}
    /\ aborts # {} => ctl # "recv" /\ setup = "done"
    /\ op \notin {"waiting", "ready"} \cup Ended => setup = "done"
    /\ phase = "Running" => setup = "done"

\* What an owner that sends only Shutdown after a reported setup can rely on, kept by
\* every step.
LEMMA OwnedInductive ==
    ASSUME Controls \subseteq {"Shutdown"}, ~EarlyControl,
           TypeOK, CurrentOK, OwnedInv, [Next]_vars
    PROVE  OwnedInv'
<1> USE ConstantsAssumption DEF OwnedInv, ShutdownAcked, Ended, SetupOver, TypeOK,
      SetupPc, CtlPc, OpPc, Cmds, loops, opVars, infVars, ctlVars, res
<1>1. CASE SetupFail
  BY <1>1 DEF SetupFail
<1>2. CASE SetupFinalize
  BY <1>2 DEF SetupFinalize
<1>3. CASE SetupStore
  BY <1>3 DEF SetupStore
<1>4. CASE SetupController
  BY <1>4 DEF SetupController
<1>5. CASE SetupRunning
  BY <1>5 DEF SetupRunning
<1>6. CASE SetupAborted
  BY <1>6 DEF SetupAborted
<1>7. CASE OpReady
  BY <1>7 DEF OpReady
<1>8. CASE OpEnter
  BY <1>8 DEF OpEnter
<1>9. CASE OpNotReady
  BY <1>9 DEF OpNotReady, OpExit, CloseOps
<1>10. CASE OpStop
  BY <1>10 DEF OpStop, OpExit, CloseOps
<1>11. CASE OpPause
  BY <1>11 DEF OpPause
<1>12. CASE OpUnpause
  BY <1>12 DEF OpUnpause
<1>13. CASE OpCall
  BY <1>13 DEF OpCall, TakesOp
<1>14. CASE OpReject
  BY <1>14 DEF OpReject, TakesOp
<1>15. CASE CallRecord
  BY <1>15 DEF CallRecord
<1>16. CASE CallDecodeError
  BY <1>16 DEF CallDecodeError
<1>17. CASE CallOk
  BY <1>17 DEF CallOk
<1>18. CASE CallErr
  BY <1>18 DEF CallErr
<1>19. CASE CallReport
  BY <1>19 DEF CallReport
<1>20. CASE CallFailed
  BY <1>20 DEF CallFailed
<1>21. CASE OpAborted
  BY <1>21 DEF OpAborted, CloseOps
<1>22. CASE GuestToHost
  BY <1>22 DEF GuestToHost
<1>23. CASE HostToGuest
  BY <1>23 DEF HostToGuest
<1>24. CASE GuestReturn
  BY <1>24 DEF GuestReturn
<1>25. CASE GuestTrap
  BY <1>25 DEF GuestTrap
<1>26. CASE InfoStop
  BY <1>26 DEF InfoStop, CloseInfos
<1>27. CASE InfoTake
  BY <1>27 DEF InfoTake
<1>28. CASE InfoServe
  BY <1>28 DEF InfoServe
<1>29. CASE InfoAborted
  BY <1>29 DEF InfoAborted, CloseInfos
<1>30. CASE CtlShutdown
  BY <1>30 DEF CtlShutdown, Signal
<1>31. CASE CtlSignalled
  BY <1>31 DEF CtlSignalled
<1>32. CASE CtlOpEnded
  BY <1>32 DEF CtlOpEnded
<1>33. CASE CtlInfoEnded
  BY <1>33 DEF CtlInfoEnded
<1>34. CASE CtlSetupEnded
  BY <1>34 DEF CtlSetupEnded
<1>35. CASE CtlTerminate
  <2>1. Head(ctlQ) \in Controls
  BY <1>35 DEF CtlTerminate, Signal
  <2> QED
  BY <1>35, <2>1 DEF CtlTerminate, Signal
<1>36. CASE CtlForced
  BY <1>36 DEF CtlForced
<1>37. CASE CtlPause
  <2>1. Head(ctlQ) \in Controls
  BY <1>37 DEF CtlPause
  <2> QED
  BY <1>37, <2>1 DEF CtlPause
<1>38. CASE CtlResume
  <2>1. Head(ctlQ) \in Controls
  BY <1>38 DEF CtlResume
  <2> QED
  BY <1>38, <2>1 DEF CtlResume
<1>39. CASE CtlClosed
  BY <1>39 DEF CtlClosed
<1>40. CASE CtlCleanup
  BY <1>40 DEF CtlCleanup
<1>41. ASSUME NEW h \in Handlers, SetupSpawnHandler(h) PROVE OwnedInv'
  BY <1>41 DEF SetupSpawnHandler
<1>42. ASSUME NEW t \in Tasks, CtlTimeout(t) PROVE OwnedInv'
  BY <1>42 DEF CtlTimeout
<1>43. ASSUME NEW o \in Ops, SendOp(o) PROVE OwnedInv'
  BY <1>43 DEF SendOp
<1>44. ASSUME NEW i \in Infos, SendInfo(i) PROVE OwnedInv'
  BY <1>44 DEF SendInfo
<1>45. ASSUME NEW c \in Controls, SendControl(c) PROVE OwnedInv'
  BY <1>45 DEF SendControl
<1>46. ASSUME NEW h \in Handlers, HandlerReturns(h) PROVE OwnedInv'
  BY <1>46 DEF HandlerReturns
<1>47. ASSUME NEW h \in Handlers, HandlerStops(h) PROVE OwnedInv'
  BY <1>47 DEF HandlerStops
<1>48. ASSUME NEW h \in Handlers, HandlerAnswers(h) PROVE OwnedInv'
  BY <1>48 DEF HandlerAnswers
<1>49. CASE UNCHANGED vars
  BY <1>49 DEF vars
<1>50. CASE OpNotStopped
  BY <1>50 DEF OpNotStopped
<1>51. CASE OpNotPaused
  BY <1>51 DEF OpNotPaused
<1>52. CASE OpMiss
  BY <1>52 DEF OpMiss
<1>53. CASE InfoNotStopped
  BY <1>53 DEF InfoNotStopped
<1>54. CASE InfoMiss
  BY <1>54 DEF InfoMiss
<1>55. CASE StopRecorded
  BY <1>55 DEF StopRecorded
<1> QED
  BY <1>1, <1>2, <1>3, <1>4, <1>5, <1>6, <1>7, <1>8, <1>9, <1>10, <1>11,
     <1>12, <1>13, <1>14, <1>15, <1>16, <1>17, <1>18, <1>19, <1>20, <1>21, <1>22,
     <1>23, <1>24, <1>25, <1>26, <1>27, <1>28, <1>29, <1>30, <1>31, <1>32, <1>33,
     <1>34, <1>35, <1>36, <1>37, <1>38, <1>39, <1>40, <1>41, <1>42, <1>43, <1>44,
     <1>45, <1>46, <1>47, <1>48, <1>49, <1>50, <1>51, <1>52, <1>53, <1>54, <1>55
     DEF Next, SetupNext, OpNext, OpProgress, InfoNext, CtlNext, EnvNext

\* Every behaviour of an actor that is sent only Shutdown, and only after setup
\* has reported, is one the abstract lifecycle allows.
THEOREM LifecycleRefinement ==
    ASSUME Controls \subseteq {"Shutdown"}, ~EarlyControl
    PROVE  Spec => ImplementsLifecycle
<1> USE DEF Life, ShutdownAcked, Locked, Ended, PastLook
<1>1. Init => Lifecycle!Init
  BY DEF Init, Lifecycle!Init
<1>2. Init => OwnedInv
  BY DEF Init, OwnedInv
<1>3. TypeOK /\ CurrentOK /\ OwnedInv /\ [Next]_vars => OwnedInv'
  BY OwnedInductive
<1>4. TypeOK /\ CurrentOK /\ Joined /\ OwnedInv /\ [Next]_vars => [Lifecycle!Next]_(Lifecycle!lifeVars)
  <2> SUFFICES ASSUME TypeOK, CurrentOK, Joined, OwnedInv, [Next]_vars
               PROVE  [Lifecycle!Next]_(Lifecycle!lifeVars)
    OBVIOUS
  <2> USE ConstantsAssumption DEF OwnedInv, Joined, Lifecycle!Next, Lifecycle!SetupOk,
          Lifecycle!SetupErr,
        Lifecycle!BeginCall, Lifecycle!EndCall, Lifecycle!Stop, Lifecycle!Miss, Lifecycle!Ack,
        Lifecycle!lifeVars, TypeOK, SetupOver, SetupPc, CtlPc, OpPc, Cmds, loops, opVars, infVars, ctlVars, res
  <2>1. CASE SetupFail
    BY <2>1 DEF SetupFail
  <2>2. CASE SetupFinalize
    BY <2>2 DEF SetupFinalize
  <2>3. CASE SetupStore
    BY <2>3 DEF SetupStore
  <2>4. CASE SetupController
    BY <2>4 DEF SetupController
  <2>5. CASE SetupRunning
    BY <2>5 DEF SetupRunning
  <2>6. CASE SetupAborted
    BY <2>6 DEF SetupAborted
  <2>7. CASE OpReady
    BY <2>7 DEF OpReady
  <2>8. CASE OpEnter
    BY <2>8 DEF OpEnter
  <2>9. CASE OpNotReady
    BY <2>9 DEF OpNotReady, OpExit, CloseOps
  <2>10. CASE OpStop
    BY <2>10 DEF OpStop, OpExit, CloseOps
  <2>11. CASE OpPause
    BY <2>11 DEF OpPause
  <2>12. CASE OpUnpause
    BY <2>12 DEF OpUnpause
  <2>13. CASE OpCall
    BY <2>13 DEF OpCall, TakesOp
  <2>14. CASE OpReject
    BY <2>14 DEF OpReject, TakesOp
  <2>15. CASE CallRecord
    BY <2>15 DEF CallRecord
  <2>16. CASE CallDecodeError
    BY <2>16 DEF CallDecodeError
  <2>17. CASE CallOk
    BY <2>17 DEF CallOk
  <2>18. CASE CallErr
    BY <2>18 DEF CallErr
  <2>19. CASE CallReport
    BY <2>19 DEF CallReport
  <2>20. CASE CallFailed
    BY <2>20 DEF CallFailed
  <2>21. CASE OpAborted
    BY <2>21 DEF OpAborted, CloseOps
  <2>22. CASE GuestToHost
    BY <2>22 DEF GuestToHost
  <2>23. CASE HostToGuest
    BY <2>23 DEF HostToGuest
  <2>24. CASE GuestReturn
    BY <2>24 DEF GuestReturn
  <2>25. CASE GuestTrap
    BY <2>25 DEF GuestTrap
  <2>26. CASE InfoStop
    BY <2>26 DEF InfoStop, CloseInfos
  <2>27. CASE InfoTake
    BY <2>27 DEF InfoTake
  <2>28. CASE InfoServe
    BY <2>28 DEF InfoServe
  <2>29. CASE InfoAborted
    BY <2>29 DEF InfoAborted, CloseInfos
  <2>30. CASE CtlShutdown
    BY <2>30 DEF CtlShutdown, Signal
  <2>31. CASE CtlSignalled
    BY <2>31 DEF CtlSignalled
  <2>32. CASE CtlOpEnded
    BY <2>32 DEF CtlOpEnded
  <2>33. CASE CtlInfoEnded
    BY <2>33 DEF CtlInfoEnded
  <2>34. CASE CtlSetupEnded
    BY <2>34 DEF CtlSetupEnded
  <2>35. CASE CtlTerminate
    <3>1. Head(ctlQ) \in Controls
      BY <2>35 DEF CtlTerminate, Signal
    <3> QED
      BY <2>35, <3>1 DEF CtlTerminate, Signal
  <2>36. CASE CtlForced
    BY <2>36 DEF CtlForced
  <2>37. CASE CtlPause
    <3>1. Head(ctlQ) \in Controls
      BY <2>37 DEF CtlPause
    <3> QED
      BY <2>37, <3>1 DEF CtlPause
  <2>38. CASE CtlResume
    <3>1. Head(ctlQ) \in Controls
      BY <2>38 DEF CtlResume
    <3> QED
      BY <2>38, <3>1 DEF CtlResume
  <2>39. CASE CtlClosed
    BY <2>39 DEF CtlClosed
  <2>40. CASE CtlCleanup
    BY <2>40 DEF CtlCleanup
  <2>41. ASSUME NEW h \in Handlers, SetupSpawnHandler(h) PROVE [Lifecycle!Next]_(Lifecycle!lifeVars)
    BY <2>41 DEF SetupSpawnHandler
  <2>42. ASSUME NEW t \in Tasks, CtlTimeout(t) PROVE [Lifecycle!Next]_(Lifecycle!lifeVars)
    BY <2>42 DEF CtlTimeout
  <2>43. ASSUME NEW o \in Ops, SendOp(o) PROVE [Lifecycle!Next]_(Lifecycle!lifeVars)
    BY <2>43 DEF SendOp
  <2>44. ASSUME NEW i \in Infos, SendInfo(i) PROVE [Lifecycle!Next]_(Lifecycle!lifeVars)
    BY <2>44 DEF SendInfo
  <2>45. ASSUME NEW c \in Controls, SendControl(c) PROVE [Lifecycle!Next]_(Lifecycle!lifeVars)
    BY <2>45 DEF SendControl
  <2>46. ASSUME NEW h \in Handlers, HandlerReturns(h) PROVE [Lifecycle!Next]_(Lifecycle!lifeVars)
    BY <2>46 DEF HandlerReturns
  <2>47. ASSUME NEW h \in Handlers, HandlerStops(h) PROVE [Lifecycle!Next]_(Lifecycle!lifeVars)
    BY <2>47 DEF HandlerStops
  <2>48. ASSUME NEW h \in Handlers, HandlerAnswers(h) PROVE [Lifecycle!Next]_(Lifecycle!lifeVars)
    BY <2>48 DEF HandlerAnswers
  <2>49. CASE UNCHANGED vars
    BY <2>49 DEF vars
  <2>50. CASE OpNotStopped
    BY <2>50 DEF OpNotStopped
  <2>51. CASE OpNotPaused
    BY <2>51 DEF OpNotPaused
  <2>52. CASE OpMiss
    BY <2>52 DEF OpMiss
  <2>53. CASE InfoNotStopped
    BY <2>53 DEF InfoNotStopped
  <2>54. CASE InfoMiss
    BY <2>54 DEF InfoMiss
  <2>55. CASE StopRecorded
    BY <2>55 DEF StopRecorded
  <2> QED
    BY <2>1, <2>2, <2>3, <2>4, <2>5, <2>6, <2>7, <2>8, <2>9, <2>10, <2>11,
       <2>12, <2>13, <2>14, <2>15, <2>16, <2>17, <2>18, <2>19, <2>20, <2>21, <2>22,
       <2>23, <2>24, <2>25, <2>26, <2>27, <2>28, <2>29, <2>30, <2>31, <2>32, <2>33,
       <2>34, <2>35, <2>36, <2>37, <2>38, <2>39, <2>40, <2>41, <2>42, <2>43, <2>44,
       <2>45, <2>46, <2>47, <2>48, <2>49, <2>50, <2>51, <2>52, <2>53, <2>54, <2>55
       DEF Next, SetupNext, OpNext, OpProgress, InfoNext, CtlNext, EnvNext
<1>5. Spec => []Joined
  <2>1. Init => Joined
    BY DEF Init, Joined
  <2>2. TypeOK /\ Joined /\ [Next]_vars => Joined'
    BY JoinedInductive
  <2> QED
    BY <2>1, <2>2, TypeCorrect, PTL DEF Spec
<1> QED
  BY <1>1, <1>2, <1>3, <1>4, <1>5, TypeCorrect, PTL DEF Spec, ImplementsLifecycle, Lifecycle!Spec

-----------------------------------------------------------------------------
(* The chain and the state.                                                *)

\* An operation is queued once, with its caller waiting, and the one that is being
\* processed is out of the queue.
QueuedOnce ==
    /\ \A k \in 1..Len(opQ) : opRes[opQ[k]] = "queued"
    /\ \A k, l \in 1..Len(opQ) : opQ[k] = opQ[l] => k = l
    /\ op \in Locked => opRes[cur] = "running"

\* The last event the operation loop recorded is e: after it there is at most
\* stop_actor's.
EndsWith(l, e) ==
    \E j \in DOMAIN l : l[j] = e /\ \A k \in DOMAIN l : j < k => l[k] = StopEvent

\* The chain has only operations that were taken from the queue, and the last event
\* the operation loop recorded belongs to the call in progress.
LogFits ==
    /\ \A i \in DOMAIN log : log[i] = StopEvent \/ opRes[log[i].op] \notin {"unsent", "queued"}
    /\ op = "calling" => \A i \in DOMAIN log : log[i].op # cur
    /\ op \in {"guest", "host"} => EndsWith(log, [ev |-> "call", op |-> cur])
    /\ op = "recording" => EndsWith(log, [ev |-> "result", op |-> cur])

\* The state is the one of the last result on the chain.
StateIsLast ==
    op \notin {"recording", "aborted"} =>
        \A i \in DOMAIN log :
            /\ log[i].ev = "result"
            /\ \A j \in DOMAIN log : log[j].ev = "result" => j <= i
            => state = log[i].op

\* Only operation_loop, the callers of operations and stop_actor touch the chain and
\* what it is compared with.
LEMMA OpFrame ==
    ASSUME [Next]_vars
    PROVE  \/ UNCHANGED <<op, opVars>>
           \/ OpNext
           \/ \E o \in Ops : SendOp(o)
           \/ StopRecorded
<1> USE DEF loops, opVars, infVars, ctlVars, res
<1>1. SetupNext => UNCHANGED <<op, opVars>>
  BY DEF SetupNext, SetupFail, SetupFinalize, SetupSpawnHandler, SetupStore, SetupController,
     SetupRunning, SetupAborted
<1>2. InfoNext => UNCHANGED <<op, opVars>>
  BY DEF InfoNext, InfoStop, InfoNotStopped, InfoMiss, InfoTake, InfoServe, InfoAborted
<1>3. CtlNext => UNCHANGED <<op, opVars>>
  BY DEF CtlNext, CtlShutdown, CtlSignalled, CtlOpEnded, CtlInfoEnded, CtlSetupEnded, CtlTimeout,
     CtlTerminate, CtlForced, CtlPause, CtlResume, CtlClosed, CtlCleanup
<1>4. EnvNext => UNCHANGED <<op, opVars>> \/ StopRecorded \/ \E o \in Ops : SendOp(o)
  BY DEF EnvNext, SendInfo, SendControl, HandlerReturns, HandlerAnswers, HandlerStops
<1>5. UNCHANGED vars => UNCHANGED <<op, opVars>>
  BY DEF vars
<1> QED
  BY <1>1, <1>2, <1>3, <1>4, <1>5 DEF Next

\* Taking the head of the queue leaves the others in it, in their order.
LEMMA QueueTail ==
    ASSUME NEW q \in Seq(Ops), q # <<>>
    PROVE  /\ Head(q) = q[1] /\ Head(q) \in Ops /\ 1 \in 1..Len(q)
           /\ Tail(q) \in Seq(Ops) /\ Len(Tail(q)) = Len(q) - 1
           /\ \A k \in 1..Len(Tail(q)) : Tail(q)[k] = q[k + 1] /\ k + 1 \in 1..Len(q)
  OBVIOUS

\* Every step keeps the queue without duplicates.
LEMMA QueueStep ==
    ASSUME TypeOK, CurrentOK, QueuedOnce, [Next]_vars
    PROVE  QueuedOnce'
<1> USE ConstantsAssumption DEF TypeOK, CurrentOK, QueuedOnce, Ended, Locked, loops, opVars,
      infVars, ctlVars, res
<1>1. CASE UNCHANGED <<op, opVars>>
  BY <1>1
<1>2. CASE OpReady \/ OpEnter \/ OpNotStopped \/ OpPause \/ OpNotPaused \/ OpUnpause \/ OpMiss
  <2>1. UNCHANGED opVars /\ op' \notin Locked
    BY <1>2 DEF OpReady, OpEnter, OpNotStopped, OpPause, OpNotPaused, OpUnpause, OpMiss
  <2> QED
    BY <2>1, ZenonT(30)
<1>3. CASE OpNotReady \/ OpStop
  BY <1>3 DEF OpNotReady, OpStop, OpExit
<1>4. CASE OpCall
  <2>1. opQ \in Seq(Ops) /\ opQ # <<>> /\ opRes \in [Ops -> OpStatus]
    BY <1>4 DEF OpCall, TakesOp
  <2>2. op' \in Locked /\ cur' = Head(opQ) /\ opQ' = Tail(opQ)
        /\ opRes' = [opRes EXCEPT ![Head(opQ)] = "running"]
    BY <1>4 DEF OpCall
  <2> HIDE DEF TypeOK, CurrentOK
  <2> QED
    BY <2>1, <2>2, QueueTail
<1>5. CASE OpReject
  <2>1. opQ \in Seq(Ops) /\ opQ # <<>> /\ opRes \in [Ops -> OpStatus] /\ op \notin Locked
    BY <1>5 DEF OpReject, TakesOp
  <2>2. /\ op' = "idle" /\ cur' = cur /\ opQ' = Tail(opQ)
        /\ opRes' = [opRes EXCEPT ![Head(opQ)] = "err"]
    BY <1>5 DEF OpReject
  <2> HIDE DEF TypeOK, CurrentOK
  <2> QED
    BY <2>1, <2>2, QueueTail
<1>6. CASE CallRecord \/ CallDecodeError \/ CallErr \/ CallReport
  BY <1>6 DEF CallRecord, CallDecodeError, CallErr, CallReport
<1>7. CASE GuestToHost \/ HostToGuest \/ GuestReturn \/ GuestTrap
  BY <1>7 DEF GuestToHost, HostToGuest, GuestReturn, GuestTrap
<1>8. CASE CallOk \/ CallFailed
  <2>1. \A k \in 1..Len(opQ) : opQ[k] \in Ops /\ opQ[k] # cur
    BY <1>8 DEF CallOk, CallFailed
  <2> QED
    BY <1>8, <2>1 DEF CallOk, CallFailed
<1>9. CASE OpAborted
  BY <1>9 DEF OpAborted
<1>10. ASSUME NEW o \in Ops, SendOp(o) PROVE QueuedOnce'
  <2>1. \A k \in 1..Len(opQ) : opQ[k] \in Ops /\ opQ[k] # o
    BY <1>10 DEF SendOp
  <2>2. op \in Locked => cur \in Ops /\ cur # o
    BY <1>10 DEF SendOp
  <2>3. UNCHANGED <<op, cur>>
    BY <1>10 DEF SendOp
  <2>4. CASE op \in Ended
    BY <1>10, <2>1, <2>2, <2>3, <2>4 DEF SendOp
  <2>5. CASE op \notin Ended
    <3>1. opQ' = Append(opQ, o) /\ opRes' = [opRes EXCEPT ![o] = "queued"] /\ opQ \in Seq(Ops)
      BY <1>10, <2>5 DEF SendOp
    <3>2. /\ Len(opQ') = Len(opQ) + 1 /\ opQ'[Len(opQ) + 1] = o
          /\ \A k \in 1..Len(opQ) : opQ'[k] = opQ[k]
      BY <3>1
    <3>3. \A k \in 1..Len(opQ') : k = Len(opQ) + 1 \/ k \in 1..Len(opQ)
      BY <3>1, <3>2
    <3>4. \A k \in 1..Len(opQ') : opRes'[opQ'[k]] = "queued"
      BY <2>1, <3>1, <3>2, <3>3
    <3>5. \A k, l \in 1..Len(opQ') : opQ'[k] = opQ'[l] => k = l
      BY <2>1, <3>2, <3>3
    <3>6. (op \in Locked => opRes[cur] = "running")'
      BY <2>2, <2>3, <3>1
    <3> QED
      BY <3>4, <3>5, <3>6
  <2> QED
    BY <2>4, <2>5
<1>11. CASE StopRecorded
  BY <1>11 DEF StopRecorded
<1> HIDE DEF TypeOK, CurrentOK, QueuedOnce
<1> QED
  BY <1>1, <1>2, <1>3, <1>4, <1>5, <1>6, <1>7, <1>8, <1>9, <1>10, <1>11, OpFrame DEF OpNext, OpProgress

\* An event is put at the end of the chain.
LEMMA LogAppend ==
    ASSUME NEW l \in Seq(Events), NEW e \in Events
    PROVE  /\ Append(l, e) # <<>> /\ Len(Append(l, e)) = Len(l) + 1 /\ Len(l) \in Nat
           /\ DOMAIN Append(l, e) = 1..(Len(l) + 1) /\ DOMAIN l = 1..Len(l)
           /\ Append(l, e)[Len(l) + 1] = e
           /\ \A i \in DOMAIN l : Append(l, e)[i] = l[i] /\ l[i] \in Events
           /\ \A i \in DOMAIN Append(l, e) : i \in DOMAIN l \/ i = Len(l) + 1
  OBVIOUS

\* The events of a call are events.
LEMMA EventType ==
    ASSUME NEW v \in {"call", "result", "error"}, NEW o \in Ops
    PROVE  /\ [ev |-> v, op |-> o] \in Events
           /\ [ev |-> v, op |-> o].op = o /\ [ev |-> v, op |-> o].ev = v
           /\ [ev |-> v, op |-> o] # StopEvent
  BY ConstantsAssumption DEF Events, StopEvent

\* So is stop_actor's, which is none of these.
LEMMA StopEventType ==
    StopEvent \in Events /\ StopEvent.op = None /\ StopEvent.ev = "stop"
  BY DEF Events, StopEvent

\* What is recorded last is what the chain ends with, and stop_actor's event does not
\* change that.
LEMMA EndsWithAppend ==
    ASSUME NEW l \in Seq(Events), NEW e \in Events
    PROVE  /\ EndsWith(Append(l, e), e)
           /\ e = StopEvent => \A f : EndsWith(l, f) => EndsWith(Append(l, e), f)
<1> DEFINE a == Append(l, e)
<1>1. /\ DOMAIN a = 1..(Len(l) + 1) /\ DOMAIN l = 1..Len(l) /\ Len(l) \in Nat
      /\ a[Len(l) + 1] = e
      /\ \A i \in DOMAIN l : a[i] = l[i]
      /\ \A i \in DOMAIN a : i \in DOMAIN l \/ i = Len(l) + 1
  BY LogAppend
<1> HIDE DEF a
<1>2. Len(l) + 1 \in DOMAIN a /\ \A k \in DOMAIN a : ~(Len(l) + 1 < k)
  BY <1>1
<1>3. EndsWith(a, e)
  BY <1>1, <1>2 DEF EndsWith
<1>4. ASSUME e = StopEvent, NEW f, EndsWith(l, f) PROVE EndsWith(a, f)
  <2>1. PICK j \in DOMAIN l : l[j] = f /\ \A k \in DOMAIN l : j < k => l[k] = StopEvent
    BY <1>4 DEF EndsWith
  <2>2. j \in DOMAIN a /\ a[j] = f
    BY <1>1, <2>1
  <2>3. \A k \in DOMAIN a : j < k => a[k] = StopEvent
    BY <1>1, <1>4, <2>1
  <2> QED
    BY <2>2, <2>3 DEF EndsWith
<1> QED
  BY <1>3, <1>4 DEF a

\* Every step keeps the chain in agreement with the call in progress.
LEMMA LogStep ==
    ASSUME TypeOK, CurrentOK, QueuedOnce, LogFits, [Next]_vars
    PROVE  LogFits'
<1> USE ConstantsAssumption DEF TypeOK, CurrentOK, LogFits, Ended, Locked, loops, opVars,
      infVars, ctlVars, res
<1>0. /\ log \in Seq(Events) /\ opRes \in [Ops -> OpStatus]
      /\ \A i \in DOMAIN log : log[i] # StopEvent => log[i].op \in Ops
  <2>1. log \in Seq(Events) /\ opRes \in [Ops -> OpStatus]
    OBVIOUS
  <2>2. \A i \in DOMAIN log : log[i] \in Events
    BY <2>1
  <2> QED
    BY <2>1, <2>2 DEF Events
<1>1. CASE UNCHANGED <<op, opVars>>
  BY <1>1
<1>2. CASE OpReady \/ OpEnter \/ OpNotStopped \/ OpPause \/ OpNotPaused \/ OpUnpause \/ OpMiss
  <2>1. UNCHANGED opVars /\ op' \in {"ready", "idle", "poll", "recv", "paused"}
    BY <1>2 DEF OpReady, OpEnter, OpNotStopped, OpPause, OpNotPaused, OpUnpause, OpMiss
  <2> HIDE DEF TypeOK, CurrentOK
  <2> QED
    BY <2>1
<1>3. CASE OpNotReady \/ OpStop
  <2>1. op' = "exited" /\ UNCHANGED log /\ opRes' = CloseOps(opRes, opQ, None)
    BY <1>3 DEF OpNotReady, OpStop, OpExit
  <2>2. \A o \in Ops : opRes'[o] \in {"closed", opRes[o]}
    BY <2>1 DEF CloseOps
  <2> HIDE DEF TypeOK, CurrentOK
  <2> QED
    BY <1>0, <2>1, <2>2
<1>4. CASE OpCall
  <2>1. opQ \in Seq(Ops) /\ opQ # <<>>
    BY <1>4 DEF OpCall, TakesOp
  <2>2. /\ op' = "calling" /\ cur' = Head(opQ) /\ UNCHANGED log
        /\ opRes' = [opRes EXCEPT ![Head(opQ)] = "running"]
    BY <1>4 DEF OpCall
  <2>3. Head(opQ) \in Ops /\ opRes[Head(opQ)] = "queued"
    BY <2>1, QueueTail DEF QueuedOnce
  <2>4. StopEvent.op # Head(opQ)
    BY <2>3, StopEventType
  <2> HIDE DEF TypeOK, CurrentOK
  <2> QED
    BY <1>0, <2>2, <2>3, <2>4
<1>5. CASE OpReject
  <2>1. opQ \in Seq(Ops) /\ opQ # <<>>
    BY <1>5 DEF OpReject, TakesOp
  <2>2. /\ op' = "idle" /\ UNCHANGED <<cur, log>> /\ opRes' = [opRes EXCEPT ![Head(opQ)] = "err"]
    BY <1>5 DEF OpReject
  <2> HIDE DEF TypeOK, CurrentOK
  <2> QED
    BY <1>0, <2>1, <2>2
<1>6. CASE CallRecord \/ GuestReturn \/ GuestTrap
  <2> PICK v \in {"call", "result", "error"} :
         /\ log' = Append(log, [ev |-> v, op |-> cur])
         /\ op' \in {"guest", "recording", "failing"}
         /\ op' = "guest" => v = "call"
         /\ op' = "recording" => v = "result"
    BY <1>6 DEF CallRecord, GuestReturn, GuestTrap
  <2>1. cur \in Ops /\ opRes[cur] = "running"
    BY <1>6 DEF CallRecord, GuestReturn, GuestTrap, QueuedOnce
  <2>2. UNCHANGED <<cur, opRes>>
    BY <1>6 DEF CallRecord, GuestReturn, GuestTrap
  <2>3. EndsWith(log', [ev |-> v, op |-> cur])
    <3>1. [ev |-> v, op |-> cur] \in Events
      BY <2>1, EventType
    <3> HIDE DEF TypeOK, CurrentOK
    <3> QED
      BY <1>0, <3>1, EndsWithAppend
  <2>4. \A i \in DOMAIN log' : (i \in DOMAIN log /\ log'[i] = log[i]) \/ log'[i].op = cur
    BY <1>0, <2>1, LogAppend, EventType
  <2> HIDE DEF TypeOK, CurrentOK
  <2> QED
    BY <1>0, <2>1, <2>2, <2>3, <2>4
<1>7. CASE CallDecodeError \/ CallErr \/ CallReport \/ GuestToHost \/ HostToGuest
  BY <1>7 DEF CallDecodeError, CallErr, CallReport, GuestToHost, HostToGuest
<1>8. CASE CallOk \/ CallFailed
  <2>1. /\ op' = "idle" /\ UNCHANGED log
        /\ \E r \in {"ok", "err"} : opRes' = [opRes EXCEPT ![cur] = r]
    BY <1>8 DEF CallOk, CallFailed
  <2>2. \A o \in Ops : opRes'[o] \in {"ok", "err", opRes[o]}
    BY <1>0, <2>1
  <2> HIDE DEF TypeOK, CurrentOK
  <2> QED
    BY <1>0, <2>1, <2>2
<1>9. CASE OpAborted
  <2>1. op' = "aborted" /\ UNCHANGED log /\ opRes' = CloseOps(opRes, opQ, cur)
    BY <1>9 DEF OpAborted
  <2>2. \A o \in Ops : opRes'[o] \in {"closed", opRes[o]}
    BY <2>1 DEF CloseOps
  <2> HIDE DEF TypeOK, CurrentOK
  <2> QED
    BY <1>0, <2>1, <2>2
<1>10. ASSUME NEW o \in Ops, SendOp(o) PROVE LogFits'
  <2>1. /\ UNCHANGED <<op, cur, log>> /\ opRes[o] = "unsent"
        /\ \E r \in {"queued", "closed"} : opRes' = [opRes EXCEPT ![o] = r]
    BY <1>10 DEF SendOp
  <2> HIDE DEF TypeOK, CurrentOK
  <2> QED
    BY <1>0, <2>1
<1>11. CASE StopRecorded
  <2>1. log' = Append(log, StopEvent) /\ UNCHANGED <<op, cur, opRes>>
    BY <1>11 DEF StopRecorded
  <2>2. \A f : EndsWith(log, f) => EndsWith(log', f)
    BY <1>0, <2>1, EndsWithAppend, StopEventType
  <2>3. \A i \in DOMAIN log' : (i \in DOMAIN log /\ log'[i] = log[i]) \/ log'[i] = StopEvent
    BY <1>0, <2>1, LogAppend, StopEventType
  <2>4. op = "calling" => cur \in Ops /\ StopEvent.op # cur
    BY StopEventType
  <2> HIDE DEF TypeOK, CurrentOK
  <2> QED
    BY <1>0, <2>1, <2>2, <2>3, <2>4
<1> HIDE DEF TypeOK, CurrentOK, LogFits
<1> QED
  BY <1>1, <1>2, <1>3, <1>4, <1>5, <1>6, <1>7, <1>8, <1>9, <1>10, <1>11, OpFrame DEF OpNext, OpProgress

\* What each step does to the chain: it records a call that was never recorded, or
\* the end of the call the loop recorded last, or stop_actor's event, or nothing.
LEMMA LogChange ==
    ASSUME TypeOK, CurrentOK, LogFits, [Next]_vars
    PROVE  \/ UNCHANGED log
           \/ log' = Append(log, StopEvent)
           \/ /\ cur \in Ops
              /\ \/ /\ log' = Append(log, [ev |-> "call", op |-> cur])
                    /\ \A i \in DOMAIN log : log[i].op # cur
                 \/ /\ \E v \in {"result", "error"} : log' = Append(log, [ev |-> v, op |-> cur])
                    /\ EndsWith(log, [ev |-> "call", op |-> cur])
<1> USE DEF loops, opVars, infVars, ctlVars, res
<1>1. CallRecord => /\ cur \in Ops /\ log' = Append(log, [ev |-> "call", op |-> cur])
                    /\ \A i \in DOMAIN log : log[i].op # cur
  BY DEF CallRecord, CurrentOK, LogFits, Locked
<1>2. GuestReturn \/ GuestTrap =>
        /\ cur \in Ops /\ EndsWith(log, [ev |-> "call", op |-> cur])
        /\ \E v \in {"result", "error"} : log' = Append(log, [ev |-> v, op |-> cur])
  BY DEF GuestReturn, GuestTrap, CurrentOK, LogFits, Locked
<1>3. OpNext => UNCHANGED log \/ CallRecord \/ GuestReturn \/ GuestTrap
  BY DEF OpNext, OpProgress, OpReady, OpEnter, OpNotReady, OpStop, OpNotStopped,
     OpPause, OpNotPaused, OpUnpause, OpMiss, OpExit,
     OpCall, OpReject, CallDecodeError, CallOk, CallErr, CallReport, CallFailed, OpAborted,
     GuestToHost, HostToGuest
<1>4. \A o : SendOp(o) => UNCHANGED log
  BY DEF SendOp
<1>5. StopRecorded => log' = Append(log, StopEvent)
  BY DEF StopRecorded
<1> QED
  BY <1>1, <1>2, <1>3, <1>4, <1>5, OpFrame

\* A chain that has been serial stays so when an event is added that is a call not
\* yet in it, the end of the call it ends with, or stop_actor's.
LEMMA SerialAppend ==
    ASSUME TypeOK, LogIsSerial, NEW e \in Events, log' = Append(log, e),
           \/ e.ev = "stop"
           \/ e.ev = "call" /\ \A i \in DOMAIN log : log[i].op # e.op
           \/ e.ev \in {"result", "error"} /\ EndsWith(log, [ev |-> "call", op |-> e.op])
    PROVE  LogIsSerial'
<1>1. log \in Seq(Events)
  BY DEF TypeOK
<1> DEFINE n == Len(log) + 1
<1>2. /\ n \in DOMAIN log' /\ log'[n] = e /\ Len(log) \in Nat
      /\ DOMAIN log = 1..Len(log)
      /\ \A i \in DOMAIN log : log'[i] = log[i] /\ i \in DOMAIN log' /\ i < n
      /\ \A i \in DOMAIN log' : i \in DOMAIN log \/ i = n
  BY <1>1, LogAppend
<1> HIDE DEF n
<1>3. ASSUME NEW i \in DOMAIN log', log'[i].ev \in {"result", "error"}
      PROVE  \E j \in DOMAIN log' :
                /\ j < i
                /\ log'[j] = [ev |-> "call", op |-> log'[i].op]
                /\ \A k \in DOMAIN log' : j < k /\ k < i => log'[k] = StopEvent
  <2>1. CASE i \in DOMAIN log
    <3>1. PICK j \in DOMAIN log :
             /\ j < i
             /\ log[j] = [ev |-> "call", op |-> log[i].op]
             /\ \A k \in DOMAIN log : j < k /\ k < i => log[k] = StopEvent
      BY <1>2, <1>3, <2>1 DEF LogIsSerial
    <3>2. \A k \in DOMAIN log' : k < i => k \in DOMAIN log
      BY <1>2, <2>1
    <3> QED
      BY <1>2, <2>1, <3>1, <3>2
  <2>2. CASE i = n
    <3>1. e.ev \in {"result", "error"} /\ EndsWith(log, [ev |-> "call", op |-> e.op])
      BY <1>2, <1>3, <2>2
    <3>2. PICK j \in DOMAIN log :
             /\ log[j] = [ev |-> "call", op |-> e.op]
             /\ \A k \in DOMAIN log : j < k => log[k] = StopEvent
      BY <3>1 DEF EndsWith
    <3>3. \A k \in DOMAIN log' : k < i => k \in DOMAIN log
      BY <1>2, <2>2
    <3> QED
      BY <1>2, <2>2, <3>2, <3>3
  <2> QED
    BY <1>2, <2>1, <2>2
<1>4. ASSUME NEW i \in DOMAIN log', NEW j \in DOMAIN log', log'[i].ev = "call",
             log'[j].ev = "call", log'[i].op = log'[j].op
      PROVE  i = j
  BY <1>2, <1>4 DEF LogIsSerial
<1> QED
  BY <1>3, <1>4 DEF LogIsSerial

\* Every step keeps the chain serial.
LEMMA SerialStep ==
    ASSUME TypeOK, CurrentOK, LogFits, LogIsSerial, [Next]_vars
    PROVE  LogIsSerial'
<1>1. CASE UNCHANGED log
  BY <1>1 DEF LogIsSerial
<1>2. CASE log' = Append(log, StopEvent)
  BY <1>2, SerialAppend, StopEventType
<1>3. ASSUME cur \in Ops, log' = Append(log, [ev |-> "call", op |-> cur]),
             \A i \in DOMAIN log : log[i].op # cur
      PROVE  LogIsSerial'
  <2> DEFINE e == [ev |-> "call", op |-> cur]
  <2>1. e \in Events /\ e.ev = "call" /\ e.op = cur
    BY <1>3, EventType
  <2>2. log' = Append(log, e)
    BY <1>3
  <2> HIDE DEF e
  <2> QED
    BY <1>3, <2>1, <2>2, SerialAppend
<1>4. ASSUME cur \in Ops, NEW v \in {"result", "error"}, log' = Append(log, [ev |-> v, op |-> cur]),
             EndsWith(log, [ev |-> "call", op |-> cur])
      PROVE  LogIsSerial'
  <2> DEFINE e == [ev |-> v, op |-> cur]
  <2>1. e \in Events /\ e.ev = v /\ e.op = cur
    BY <1>4, EventType
  <2>2. log' = Append(log, e)
    BY <1>4
  <2> HIDE DEF e
  <2> QED
    BY <1>4, <2>1, <2>2, SerialAppend
<1> QED
  BY <1>1, <1>2, <1>3, <1>4, LogChange

\* Every step keeps the state that of the last result.
LEMMA StateStep ==
    ASSUME TypeOK, CurrentOK, LogFits, StateIsLast, [Next]_vars
    PROVE  StateIsLast'
<1> USE DEF loops, opVars, infVars, ctlVars, res
<1>0. log \in Seq(Events)
  BY DEF TypeOK
<1>1. ASSUME UNCHANGED <<log, state>>, op \in {"recording", "aborted"} => op' \in {"recording",
             "aborted"}
      PROVE  StateIsLast'
  BY <1>1 DEF StateIsLast
<1>2. ASSUME NEW v \in {"call", "error"}, cur \in Ops, log' = Append(log, [ev |-> v, op |-> cur]),
             UNCHANGED state, op \notin {"recording", "aborted"}
      PROVE  StateIsLast'
  <2>1. /\ \A i \in DOMAIN log : log'[i] = log[i] /\ i \in DOMAIN log'
        /\ log'[Len(log) + 1].ev = v
        /\ \A i \in DOMAIN log' : i \in DOMAIN log \/ i = Len(log) + 1
    BY <1>0, <1>2, LogAppend, EventType
  <2>2. \A i \in DOMAIN log' : log'[i].ev = "result" => i \in DOMAIN log
    BY <2>1
  <2> QED
    BY <1>2, <2>1, <2>2 DEF StateIsLast
<1>3. CASE CallRecord
  <2>1. cur \in Ops
    BY <1>3 DEF CallRecord, CurrentOK, Locked
  <2> QED
    BY <1>2, <1>3, <2>1 DEF CallRecord
<1>4. CASE GuestTrap
  <2>1. cur \in Ops
    BY <1>4 DEF GuestTrap, CurrentOK, Locked
  <2> QED
    BY <1>2, <1>4, <2>1 DEF GuestTrap
<1>5. CASE GuestReturn
  BY <1>5 DEF GuestReturn, StateIsLast
<1>6. CASE CallOk
  <2>1. EndsWith(log, [ev |-> "result", op |-> cur]) /\ cur \in Ops
    BY <1>6 DEF CallOk, LogFits, CurrentOK, Locked
  <2>2. PICK j \in DOMAIN log : /\ log[j] = [ev |-> "result", op |-> cur]
                                /\ \A k \in DOMAIN log : j < k => log[k] = StopEvent
    BY <2>1 DEF EndsWith
  <2>3. UNCHANGED log /\ state' = cur
    BY <1>6 DEF CallOk
  <2>4. log[j].ev = "result" /\ log[j].op = cur
    BY <2>1, <2>2, EventType
  <2>5. \A i \in DOMAIN log : log[i].ev = "result" => ~(j < i)
    BY <2>2, StopEventType
  <2>6. \A i \in DOMAIN log : ~(j < i) /\ j <= i => i = j
    BY <1>0
  <2> QED
    BY <2>2, <2>3, <2>4, <2>5, <2>6 DEF StateIsLast
<1>7. OpNext => \/ CallRecord \/ GuestTrap \/ GuestReturn \/ CallOk
                \/ /\ UNCHANGED <<log, state>>
                   /\ op \in {"recording", "aborted"} => op' \in {"recording", "aborted"}
  BY DEF OpNext, OpProgress, OpReady, OpEnter, OpNotReady, OpStop, OpNotStopped,
     OpPause, OpNotPaused, OpUnpause, OpMiss, OpExit,
     OpCall, OpReject, TakesOp, CallDecodeError, CallErr, CallReport, CallFailed, OpAborted,
     GuestToHost, HostToGuest
<1>8. \A o : SendOp(o) => UNCHANGED <<op, log, state>>
  BY DEF SendOp
<1>9. CASE StopRecorded
  <2>1. log' = Append(log, StopEvent) /\ UNCHANGED <<op, state>>
    BY <1>9 DEF StopRecorded
  <2>2. /\ \A i \in DOMAIN log : log'[i] = log[i] /\ i \in DOMAIN log'
        /\ log'[Len(log) + 1].ev = "stop"
        /\ \A i \in DOMAIN log' : i \in DOMAIN log \/ i = Len(log) + 1
    BY <1>0, <2>1, LogAppend, StopEventType
  <2>3. \A i \in DOMAIN log' : log'[i].ev = "result" => i \in DOMAIN log
    BY <2>2
  <2> QED
    BY <2>1, <2>2, <2>3 DEF StateIsLast
<1> QED
  BY <1>1, <1>3, <1>4, <1>5, <1>6, <1>7, <1>8, <1>9, OpFrame

\* For any operations and handlers: the chain is serial although stop_actor writes
\* it too, and except between a result
\* and its storing, and after an abort, the state is the one of its last result.
THEOREM StateMatchesLogHolds == Spec => []StateMatchesLog
<1>1. Init => QueuedOnce /\ LogFits /\ LogIsSerial /\ StateIsLast
  BY DEF Init, QueuedOnce, LogFits, LogIsSerial, StateIsLast, Locked
<1>2. TypeOK /\ CurrentOK /\ QueuedOnce /\ LogFits /\ LogIsSerial /\ StateIsLast /\ [Next]_vars
        => (QueuedOnce /\ LogFits /\ LogIsSerial /\ StateIsLast)'
  BY QueueStep, LogStep, SerialStep, StateStep
<1>3. LogIsSerial /\ StateIsLast => StateMatchesLog
  BY DEF StateMatchesLog, StateIsLast
<1> QED
  BY <1>1, <1>2, <1>3, TypeCorrect, PTL DEF Spec

-----------------------------------------------------------------------------
(* The handler tasks.                                                      *)

\* An owner that waits for setup's result finds every handler spawned and its join
\* handle stored, or none spawned.
HandlersInv ==
    /\ ctlQ # <<>> \/ ctl # "recv" => setup \in {"done", "failed"}
    /\ aborts # {} => ctl # "recv"
    /\ setup \in {"building", "failed"} => \A h \in Handlers : hand[h] = "absent"
    /\ setup \in {"storing", "publishing", "done"} => stored
    /\ ctl = "exited" => \A h \in Handlers : hand[h] \notin Alive

\* Every step keeps that, as long as no control command overtakes setup.
LEMMA HandlersStep ==
    ASSUME ~EarlyControl, TypeOK, HandlersInv, [Next]_vars
    PROVE  HandlersInv'
<1> USE ConstantsAssumption DEF TypeOK, HandlersInv, SetupPc, CtlPc, SetupOver, Alive, loops,
      opVars, infVars, ctlVars, res
<1>1. CASE SetupFail \/ SetupFinalize \/ SetupController \/ SetupRunning \/ SetupAborted
  BY <1>1 DEF SetupFail, SetupFinalize, SetupController, SetupRunning, SetupAborted
<1>2. CASE SetupStore
  BY <1>2 DEF SetupStore
<1>3. ASSUME NEW h \in Handlers, SetupSpawnHandler(h) PROVE HandlersInv'
  BY <1>3 DEF SetupSpawnHandler
<1>4. OpNext \/ InfoNext => UNCHANGED <<setup, ctl, aborts, ctlQ, stored, hand>>
  BY DEF OpNext, OpProgress, OpReady, OpEnter, OpNotReady, OpStop, OpNotStopped,
     OpPause, OpNotPaused, OpUnpause, OpMiss, OpExit,
     OpCall, OpReject, CallRecord, CallDecodeError, CallOk, CallErr, CallReport, CallFailed,
     OpAborted, GuestToHost, HostToGuest, GuestReturn, GuestTrap,
     InfoNext, InfoStop, InfoNotStopped, InfoMiss, InfoTake, InfoServe, InfoAborted
<1>5. CASE UNCHANGED <<setup, ctl, aborts, ctlQ, stored, hand>>
  BY <1>5
<1>6. CASE CtlShutdown \/ CtlTerminate
  BY <1>6 DEF CtlShutdown, CtlTerminate, Signal
<1>7. CASE CtlSignalled \/ CtlOpEnded \/ CtlInfoEnded \/ CtlSetupEnded \/ CtlForced \/ CtlClosed
  BY <1>7 DEF CtlSignalled, CtlOpEnded, CtlInfoEnded, CtlSetupEnded, CtlForced, CtlClosed
<1>8. CASE CtlPause \/ CtlResume
  BY <1>8 DEF CtlPause, CtlResume
<1>9. CASE CtlCleanup
  BY <1>9 DEF CtlCleanup
<1>10. ASSUME NEW t \in Tasks, CtlTimeout(t) PROVE HandlersInv'
  BY <1>10 DEF CtlTimeout
<1>11. ASSUME NEW c \in Controls, SendControl(c) PROVE HandlersInv'
  BY <1>11 DEF SendControl
<1>12. ASSUME NEW h \in Handlers, HandlerReturns(h) \/ HandlerAnswers(h) \/ HandlerStops(h)
       PROVE  HandlersInv'
  BY <1>12 DEF HandlerReturns, HandlerAnswers, HandlerStops
<1>13. \A o : SendOp(o) => UNCHANGED <<setup, ctl, aborts, ctlQ, stored, hand>>
  BY DEF SendOp
<1>14. \A i : SendInfo(i) => UNCHANGED <<setup, ctl, aborts, ctlQ, stored, hand>>
  BY DEF SendInfo
<1>15. UNCHANGED vars => UNCHANGED <<setup, ctl, aborts, ctlQ, stored, hand>>
  BY DEF vars
<1>16. StopRecorded => UNCHANGED <<setup, ctl, aborts, ctlQ, stored, hand>>
  BY DEF StopRecorded
<1> HIDE DEF TypeOK, HandlersInv
<1> QED
  BY <1>1, <1>2, <1>3, <1>4, <1>5, <1>6, <1>7, <1>8, <1>9, <1>10, <1>11, <1>12, <1>13, <1>14,
     <1>15, <1>16 DEF Next, SetupNext, CtlNext, EnvNext

\* For any handlers: when start returns, each handler task of an actor that had been
\* set up has returned or was aborted.
THEOREM HandlersStoppedHolds == Spec => []HandlersStopped
<1>1. CASE EarlyControl
  <2>1. HandlersStopped
    BY <1>1 DEF HandlersStopped
  <2> QED
    BY <2>1, PTL
<1>2. CASE ~EarlyControl
  <2>1. Init => HandlersInv
    BY DEF Init, HandlersInv
  <2>2. TypeOK /\ HandlersInv /\ [Next]_vars => HandlersInv'
    BY <1>2, HandlersStep
  <2>3. HandlersInv => HandlersStopped
    BY DEF HandlersInv, HandlersStopped
  <2> QED
    BY <2>1, <2>2, <2>3, TypeCorrect, PTL DEF Spec
<1> QED
  BY <1>1, <1>2

=============================================================================
