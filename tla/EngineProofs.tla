---------------------------- MODULE EngineProofs ----------------------------
(***************************************************************************)
(* The safety of Engine, for every input length, every set of calls and    *)
(* every bound on the pending commands: the engine thread never outlives   *)
(* the objects it works on, and never leaves exec() with anything started. *)
(* Then the realtime devices it drives, for every kind of device, every    *)
(* space in a buffer and every limit: what a device promises its caller.   *)
(***************************************************************************)
EXTENDS Engine, Devices, SequenceTheorems, FiniteSetTheorems, WellFoundedInduction, TLAPS

\* Which calls may be at which place in ECA_CONTROL.
CallPlaces ==
  /\ ctl = "create" => call \in {"start", "run", "launch"}
  /\ ctl = "create" /\ call = "launch" => ~created
  /\ ctl = "push" => call \in {"start", "run", "stop", "stopsync", "setpos",
                               "forward", "edit", "disconnect"}

\* The engine object exists while it has a thread, its chainsetup is known to it
\* until exec() ends, and a call is only made on a connected chainsetup, which
\* it disconnects when the engine is deleted.
Lifetime ==
  /\ created <=> epc # "none"
  /\ setup <=> epc \in EnginePlaces \cup {"spawned"}
  /\ created \/ ctl # "idle" => connected
  /\ ctl = "disconnect" => ~created
  /\ epc \in {"stop", "signalstop"} => after # "none"

\* What each place of the engine thread says about the operation.
Operation ==
  /\ running => prepared \/ epc = "signalstop"
  /\ epc \in {"stop", "start"} => prepared
  /\ epc = "signalstop" => ~prepared
  /\ epc \in AfterExec \cup {"none", "spawned", "execend"} => ~prepared /\ ~running

IInv == TypeOK /\ CallPlaces /\ Lifetime /\ Operation

-----------------------------------------------------------------------------
\* The invariant holds when the program starts.
LEMMA InitInv == Init => IInv
<1> SUFFICES ASSUME Init PROVE IInv
  OBVIOUS
<1>1. queue \in Seq(Commands) /\ pos \in Positions
  BY EngineAssumption DEF Init, Positions
<1>2. TypeOK
  BY <1>1 DEF Init, TypeOK, EnginePlaces, AfterExec, ControlPlaces
<1>3. CallPlaces /\ Lifetime /\ Operation
  BY DEF Init, CallPlaces, Lifetime, Operation, EnginePlaces, AfterExec
<1> QED
  BY <1>2, <1>3 DEF IInv

\* Each step keeps the types.
LEMMA NextType ==
  ASSUME IInv, [Next]_vars
  PROVE  TypeOK'
<1> USE DEF object, thread, flags, driver, place, control, engine
<1> USE DEF TypeOK, Positions, Commands, EnginePlaces, AfterExec, ControlPlaces
<1>0. /\ TypeOK /\ CallPlaces /\ Length \in Nat /\ Length > 0
      /\ Calls \subseteq AllCalls
  BY EngineAssumption DEF IInv
<1>1. CASE ThreadStart
  BY <1>0, <1>1 DEF ThreadStart, InitState
<1>2. CASE LeaveQueue
  BY <1>0, <1>2 DEF LeaveQueue
<1>3. CASE HandleExit
  BY <1>0, <1>3 DEF HandleExit, StopThen
<1>4. CASE DriverExit
  BY <1>0, <1>4 DEF DriverExit
<1>5. CASE HandleStart
  BY <1>0, <1>5 DEF HandleStart, Pop, Status
<1>6. CASE HandleStop
  BY <1>0, <1>6 DEF HandleStop, StopThen, Pop, Stoppable, Status
<1>7. CASE HandleSeek
  BY <1>0, <1>7 DEF HandleSeek, StopThen, Pop, Status
<1>8. CASE HandleEdit
  BY <1>0, <1>8 DEF HandleEdit, Pop
<1>9. CASE StopOperation
  BY <1>0, <1>9 DEF StopOperation
<1>10. CASE SignalStop
  BY <1>0, <1>10 DEF SignalStop
<1>11. CASE Seek
  BY <1>0, <1>11 DEF Seek, InitState
<1>12. CASE PrepareOperation
  BY <1>0, <1>12 DEF PrepareOperation, InitState
<1>13. CASE StartOperation
  BY <1>0, <1>13 DEF StartOperation
<1>14. CASE Decide
  BY <1>0, <1>14 DEF Decide, Status
<1>15. CASE WaitForCommands
  BY <1>0, <1>15 DEF WaitForCommands
<1>16. CASE UpdateState
  BY <1>0, <1>16 DEF UpdateState
<1>17. CASE LoopEnd
  BY <1>0, <1>17 DEF LoopEnd, StopThen
<1>18. CASE ExecEnd
  BY <1>0, <1>18 DEF ExecEnd, Status
<1>19. CASE ExecResult
  BY <1>0, <1>19 DEF ExecResult
<1>20. CASE ThreadEnd
  BY <1>0, <1>20 DEF ThreadEnd
<1>21. CASE Iterate
  BY <1>0, <1>21 DEF Iterate
<1>22. CASE Connect
  BY <1>0, <1>22 DEF Connect
<1>23. CASE CallStart
  BY <1>0, <1>23 DEF CallStart, Make, Ready, IsRunning, Status
<1>24. CASE CallRun
  BY <1>0, <1>24 DEF CallRun, Make
<1>25. CASE CallLaunch
  BY <1>0, <1>25 DEF CallLaunch, Make, Ready, Status
<1>26. CASE CallHalt
  BY <1>0, <1>26 DEF CallHalt, Make, Ready, Status
<1>27. CASE CallStop
  BY <1>0, <1>27 DEF CallStop, Make
<1>28. CASE CallStopSync
  BY <1>0, <1>28 DEF CallStopSync, Make
<1>29. CASE CallMove
  BY <1>0, <1>29 DEF CallMove, Make, Ready, Status
<1>30. CASE CallDisconnect
  BY <1>0, <1>30 DEF CallDisconnect, Make, Ready, Status
<1>31. CASE Direct
  BY <1>0, <1>31 DEF Direct, Return
<1>32. CASE EngineThere
  BY <1>0, <1>32 DEF EngineThere, Goto
<1>33. CASE Launch
  <2>1. {connected, created, setup, pid, exited, execres, batch}' \subseteq BOOLEAN
    BY <1>0, <1>33 DEF Launch, Goto, Return, InitState
  <2>2. {prepared, running, finished, outerr, inputsdone}' \subseteq BOOLEAN
    BY <1>0, <1>33 DEF Launch, Goto, Return, InitState
  <2>3. {wasrunning, exitreq, started, expired}' \subseteq BOOLEAN
    BY <1>0, <1>33 DEF Launch, Goto, Return, InitState
  <2>4. queue' \in Seq(Commands) /\ pos' \in Positions
    BY <1>0, <1>33 DEF Launch, Goto, Return, InitState
  <2>5. /\ epc' \in EnginePlaces \cup AfterExec \cup {"none", "spawned"}
        /\ after' \in {"none", "commands", "exit", "setpos", "forward", "execend"}
        /\ quit' \in {"idle", "push"} /\ seen' \subseteq {"block", "error"}
    BY <1>0, <1>33 DEF Launch, Goto, Return, InitState
  <2>6. ctl' \in ControlPlaces /\ call' \in Calls \cup {"none"}
    BY <1>0, <1>33 DEF Launch, Goto, Return, InitState
  <2> QED
    BY <2>1, <2>2, <2>3, <2>4, <2>5, <2>6
<1>34. CASE LaunchFails
  BY <1>0, <1>34 DEF LaunchFails, Return
<1>35. CASE Push
  <2>1. {connected, created, setup, pid, exited, execres, batch}' \subseteq BOOLEAN
    BY <1>0, <1>35 DEF Push, CallPlaces, Goto, Return, Command
  <2>2. {prepared, running, finished, outerr, inputsdone}' \subseteq BOOLEAN
    BY <1>0, <1>35 DEF Push, CallPlaces, Goto, Return, Command
  <2>3. {wasrunning, exitreq, started, expired}' \subseteq BOOLEAN
    BY <1>0, <1>35 DEF Push, CallPlaces, Goto, Return, Command
  <2>4. queue' \in Seq(Commands) /\ pos' \in Positions
    BY <1>0, <1>35 DEF Push, CallPlaces, Goto, Return, Command, CallPlaces
  <2>5. /\ epc' \in EnginePlaces \cup AfterExec \cup {"none", "spawned"}
        /\ after' \in {"none", "commands", "exit", "setpos", "forward", "execend"}
        /\ quit' \in {"idle", "push"} /\ seen' \subseteq {"block", "error"}
    BY <1>0, <1>35 DEF Push, CallPlaces, Goto, Return, Command
  <2>6. ctl' \in ControlPlaces /\ call' \in Calls \cup {"none"}
    BY <1>0, <1>35 DEF Push, CallPlaces, Goto, Return, Command, CallPlaces
  <2> QED
    BY <2>1, <2>2, <2>3, <2>4, <2>5, <2>6
<1>36. CASE WaitForStop
  BY <1>0, <1>36 DEF WaitForStop, Goto
<1>37. CASE WaitExpires
  BY <1>0, <1>37 DEF WaitExpires
<1>38. CASE Stopped
  BY <1>0, <1>38 DEF Stopped, Goto, Return
<1>39. CASE Close
  BY <1>0, <1>39 DEF Close, Goto
<1>40. CASE Join
  <2>1. {connected, created, setup, pid, exited, execres, batch}' \subseteq BOOLEAN
    BY <1>0, <1>40 DEF Join, Goto, Return
  <2>2. {prepared, running, finished, outerr, inputsdone}' \subseteq BOOLEAN
    BY <1>0, <1>40 DEF Join, Goto, Return
  <2>3. {wasrunning, exitreq, started, expired}' \subseteq BOOLEAN
    BY <1>0, <1>40 DEF Join, Goto, Return
  <2>4. queue' \in Seq(Commands) /\ pos' \in Positions
    BY <1>0, <1>40 DEF Join, Goto, Return
  <2>5. /\ epc' \in EnginePlaces \cup AfterExec \cup {"none", "spawned"}
        /\ after' \in {"none", "commands", "exit", "setpos", "forward", "execend"}
        /\ quit' \in {"idle", "push"} /\ seen' \subseteq {"block", "error"}
    BY <1>0, <1>40 DEF Join, Goto, Return
  <2>6. ctl' \in ControlPlaces /\ call' \in Calls \cup {"none"}
    BY <1>0, <1>40 DEF Join, Goto, Return
  <2> QED
    BY <2>1, <2>2, <2>3, <2>4, <2>5, <2>6
<1>41. CASE Disconnect
  BY <1>0, <1>41 DEF Disconnect, Return
<1>42. CASE RunLoop
  BY <1>0, <1>42 DEF RunLoop, Goto, IsFinished, Status
<1>43. CASE RunPoll
  BY <1>0, <1>43 DEF RunPoll, IsRunning, IsFinished, Status
<1>44. CASE RunResult
  BY <1>0, <1>44 DEF RunResult, Return
<1>45. CASE QuitCheck
  BY <1>0, <1>45 DEF QuitCheck, Ready, Status
<1>46. CASE QuitPush
  BY <1>0, <1>46 DEF QuitPush
<1>47. CASE UNCHANGED vars
  BY <1>0, <1>47 DEF vars
<1> QED
  BY <1>1, <1>2, <1>3, <1>4, <1>5, <1>6, <1>7, <1>8, <1>9, <1>10, <1>11,
     <1>12, <1>13, <1>14, <1>15, <1>16, <1>17, <1>18, <1>19, <1>20, <1>21,
     <1>22, <1>23, <1>24, <1>25, <1>26, <1>27, <1>28, <1>29, <1>30, <1>31,
     <1>32, <1>33, <1>34, <1>35, <1>36, <1>37, <1>38, <1>39, <1>40, <1>41,
     <1>42, <1>43, <1>44, <1>45, <1>46, <1>47
  DEF Next, EngineSteps, Requests, ControlSteps

\* Each step keeps the places of the calls.
LEMMA NextCallPlaces ==
  ASSUME IInv, [Next]_vars
  PROVE  CallPlaces'
<1> USE DEF object, thread, flags, driver, place, control, engine
<1> USE DEF CallPlaces, AllCalls
<1>0. CallPlaces
  BY DEF IInv
<1>1. CASE ThreadStart
  BY <1>0, <1>1 DEF ThreadStart, InitState
<1>2. CASE LeaveQueue
  BY <1>0, <1>2 DEF LeaveQueue
<1>3. CASE HandleExit
  BY <1>0, <1>3 DEF HandleExit, StopThen
<1>4. CASE DriverExit
  BY <1>0, <1>4 DEF DriverExit
<1>5. CASE HandleStart
  BY <1>0, <1>5 DEF HandleStart, Pop, Status
<1>6. CASE HandleStop
  BY <1>0, <1>6 DEF HandleStop, StopThen, Pop, Stoppable, Status
<1>7. CASE HandleSeek
  BY <1>0, <1>7 DEF HandleSeek, StopThen, Pop, Status
<1>8. CASE HandleEdit
  BY <1>0, <1>8 DEF HandleEdit, Pop
<1>9. CASE StopOperation
  BY <1>0, <1>9 DEF StopOperation
<1>10. CASE SignalStop
  BY <1>0, <1>10 DEF SignalStop
<1>11. CASE Seek
  BY <1>0, <1>11 DEF Seek, InitState
<1>12. CASE PrepareOperation
  BY <1>0, <1>12 DEF PrepareOperation, InitState
<1>13. CASE StartOperation
  BY <1>0, <1>13 DEF StartOperation
<1>14. CASE Decide
  BY <1>0, <1>14 DEF Decide, Status
<1>15. CASE WaitForCommands
  BY <1>0, <1>15 DEF WaitForCommands
<1>16. CASE UpdateState
  BY <1>0, <1>16 DEF UpdateState
<1>17. CASE LoopEnd
  BY <1>0, <1>17 DEF LoopEnd, StopThen
<1>18. CASE ExecEnd
  BY <1>0, <1>18 DEF ExecEnd, Status
<1>19. CASE ExecResult
  BY <1>0, <1>19 DEF ExecResult
<1>20. CASE ThreadEnd
  BY <1>0, <1>20 DEF ThreadEnd
<1>21. CASE Iterate
  BY <1>0, <1>21 DEF Iterate
<1>22. CASE Connect
  BY <1>0, <1>22 DEF Connect
<1>23. CASE CallStart
  BY <1>0, <1>23 DEF CallStart, Make, Ready, IsRunning, Status
<1>24. CASE CallRun
  BY <1>0, <1>24 DEF CallRun, Make
<1>25. CASE CallLaunch
  BY <1>0, <1>25 DEF CallLaunch, Make, Ready, Status
<1>26. CASE CallHalt
  BY <1>0, <1>26 DEF CallHalt, Make, Ready, Status
<1>27. CASE CallStop
  BY <1>0, <1>27 DEF CallStop, Make
<1>28. CASE CallStopSync
  BY <1>0, <1>28 DEF CallStopSync, Make
<1>29. CASE CallMove
  BY <1>0, <1>29 DEF CallMove, Make, Ready, Status
<1>30. CASE CallDisconnect
  BY <1>0, <1>30 DEF CallDisconnect, Make, Ready, Status
<1>31. CASE Direct
  BY <1>0, <1>31 DEF Direct, Return
<1>32. CASE EngineThere
  BY <1>0, <1>32 DEF EngineThere, Goto
<1>33. CASE Launch
  BY <1>0, <1>33 DEF Launch, Goto, Return, InitState
<1>34. CASE LaunchFails
  BY <1>0, <1>34 DEF LaunchFails, Return
<1>35. CASE Push
  BY <1>0, <1>35 DEF Push, Goto, Return, Command
<1>36. CASE WaitForStop
  BY <1>0, <1>36 DEF WaitForStop, Goto
<1>37. CASE WaitExpires
  BY <1>0, <1>37 DEF WaitExpires
<1>38. CASE Stopped
  BY <1>0, <1>38 DEF Stopped, Goto, Return
<1>39. CASE Close
  BY <1>0, <1>39 DEF Close, Goto
<1>40. CASE Join
  BY <1>0, <1>40 DEF Join, Goto, Return
<1>41. CASE Disconnect
  BY <1>0, <1>41 DEF Disconnect, Return
<1>42. CASE RunLoop
  BY <1>0, <1>42 DEF RunLoop, Goto, IsFinished, Status
<1>43. CASE RunPoll
  BY <1>0, <1>43 DEF RunPoll, IsRunning, IsFinished, Status
<1>44. CASE RunResult
  BY <1>0, <1>44 DEF RunResult, Return
<1>45. CASE QuitCheck
  BY <1>0, <1>45 DEF QuitCheck, Ready, Status
<1>46. CASE QuitPush
  BY <1>0, <1>46 DEF QuitPush
<1>47. CASE UNCHANGED vars
  BY <1>0, <1>47 DEF vars
<1> QED
  BY <1>1, <1>2, <1>3, <1>4, <1>5, <1>6, <1>7, <1>8, <1>9, <1>10, <1>11,
     <1>12, <1>13, <1>14, <1>15, <1>16, <1>17, <1>18, <1>19, <1>20, <1>21,
     <1>22, <1>23, <1>24, <1>25, <1>26, <1>27, <1>28, <1>29, <1>30, <1>31,
     <1>32, <1>33, <1>34, <1>35, <1>36, <1>37, <1>38, <1>39, <1>40, <1>41,
     <1>42, <1>43, <1>44, <1>45, <1>46, <1>47
  DEF Next, EngineSteps, Requests, ControlSteps

\* Each step keeps the lifetimes.
LEMMA NextLifetime ==
  ASSUME IInv, [Next]_vars
  PROVE  Lifetime'
<1> USE DEF object, thread, flags, driver, place, control, engine
<1> USE DEF Lifetime, EnginePlaces, AfterExec
<1>0. /\ Lifetime /\ CallPlaces
      /\ after \in {"none", "commands", "exit", "setpos", "forward", "execend"}
  BY DEF IInv, TypeOK
<1>1. CASE ThreadStart
  BY <1>0, <1>1 DEF ThreadStart, InitState
<1>2. CASE LeaveQueue
  BY <1>0, <1>2 DEF LeaveQueue
<1>3. CASE HandleExit
  BY <1>0, <1>3 DEF HandleExit, StopThen
<1>4. CASE DriverExit
  BY <1>0, <1>4 DEF DriverExit
<1>5. CASE HandleStart
  BY <1>0, <1>5 DEF HandleStart, Pop, Status
<1>6. CASE HandleStop
  BY <1>0, <1>6 DEF HandleStop, StopThen, Pop, Stoppable, Status
<1>7. CASE HandleSeek
  BY <1>0, <1>7 DEF HandleSeek, StopThen, Pop, Status
<1>8. CASE HandleEdit
  BY <1>0, <1>8 DEF HandleEdit, Pop
<1>9. CASE StopOperation
  BY <1>0, <1>9 DEF StopOperation
<1>10. CASE SignalStop
  BY <1>0, <1>10 DEF SignalStop
<1>11. CASE Seek
  BY <1>0, <1>11 DEF Seek, InitState
<1>12. CASE PrepareOperation
  BY <1>0, <1>12 DEF PrepareOperation, InitState
<1>13. CASE StartOperation
  BY <1>0, <1>13 DEF StartOperation
<1>14. CASE Decide
  BY <1>0, <1>14 DEF Decide, Status
<1>15. CASE WaitForCommands
  BY <1>0, <1>15 DEF WaitForCommands
<1>16. CASE UpdateState
  BY <1>0, <1>16 DEF UpdateState
<1>17. CASE LoopEnd
  BY <1>0, <1>17 DEF LoopEnd, StopThen
<1>18. CASE ExecEnd
  BY <1>0, <1>18 DEF ExecEnd, Status
<1>19. CASE ExecResult
  BY <1>0, <1>19 DEF ExecResult
<1>20. CASE ThreadEnd
  BY <1>0, <1>20 DEF ThreadEnd
<1>21. CASE Iterate
  BY <1>0, <1>21 DEF Iterate
<1>22. CASE Connect
  BY <1>0, <1>22 DEF Connect
<1>23. CASE CallStart
  BY <1>0, <1>23 DEF CallStart, Make, Ready, IsRunning, Status
<1>24. CASE CallRun
  BY <1>0, <1>24 DEF CallRun, Make
<1>25. CASE CallLaunch
  BY <1>0, <1>25 DEF CallLaunch, Make, Ready, Status
<1>26. CASE CallHalt
  BY <1>0, <1>26 DEF CallHalt, Make, Ready, Status
<1>27. CASE CallStop
  BY <1>0, <1>27 DEF CallStop, Make
<1>28. CASE CallStopSync
  BY <1>0, <1>28 DEF CallStopSync, Make
<1>29. CASE CallMove
  BY <1>0, <1>29 DEF CallMove, Make, Ready, Status
<1>30. CASE CallDisconnect
  BY <1>0, <1>30 DEF CallDisconnect, Make, Ready, Status
<1>31. CASE Direct
  BY <1>0, <1>31 DEF Direct, Return
<1>32. CASE EngineThere
  BY <1>0, <1>32 DEF EngineThere, Goto
<1>33. CASE Launch
  BY <1>0, <1>33 DEF Launch, Goto, Return, InitState
<1>34. CASE LaunchFails
  BY <1>0, <1>34 DEF LaunchFails, Return
<1>35. CASE Push
  BY <1>0, <1>35 DEF Push, Goto, Return, Command
<1>36. CASE WaitForStop
  BY <1>0, <1>36 DEF WaitForStop, Goto
<1>37. CASE WaitExpires
  BY <1>0, <1>37 DEF WaitExpires
<1>38. CASE Stopped
  BY <1>0, <1>38 DEF Stopped, Goto, Return
<1>39. CASE Close
  BY <1>0, <1>39 DEF Close, Goto
<1>40. CASE Join
  BY <1>0, <1>40 DEF Join, Goto, Return
<1>41. CASE Disconnect
  BY <1>0, <1>41 DEF Disconnect, Return
<1>42. CASE RunLoop
  BY <1>0, <1>42 DEF RunLoop, Goto, IsFinished, Status
<1>43. CASE RunPoll
  BY <1>0, <1>43 DEF RunPoll, IsRunning, IsFinished, Status
<1>44. CASE RunResult
  BY <1>0, <1>44 DEF RunResult, Return
<1>45. CASE QuitCheck
  BY <1>0, <1>45 DEF QuitCheck, Ready, Status
<1>46. CASE QuitPush
  BY <1>0, <1>46 DEF QuitPush
<1>47. CASE UNCHANGED vars
  BY <1>0, <1>47 DEF vars
<1> QED
  BY <1>1, <1>2, <1>3, <1>4, <1>5, <1>6, <1>7, <1>8, <1>9, <1>10, <1>11,
     <1>12, <1>13, <1>14, <1>15, <1>16, <1>17, <1>18, <1>19, <1>20, <1>21,
     <1>22, <1>23, <1>24, <1>25, <1>26, <1>27, <1>28, <1>29, <1>30, <1>31,
     <1>32, <1>33, <1>34, <1>35, <1>36, <1>37, <1>38, <1>39, <1>40, <1>41,
     <1>42, <1>43, <1>44, <1>45, <1>46, <1>47
  DEF Next, EngineSteps, Requests, ControlSteps

\* Each step keeps the operation in hand.
LEMMA NextOperation ==
  ASSUME IInv, [Next]_vars
  PROVE  Operation'
<1> USE DEF object, thread, flags, driver, place, control, engine
<1> USE DEF Operation, EnginePlaces, AfterExec
<1>0. /\ Operation /\ Lifetime
      /\ after \in {"none", "commands", "exit", "setpos", "forward", "execend"}
  BY DEF IInv, TypeOK
<1>1. CASE ThreadStart
  BY <1>0, <1>1 DEF ThreadStart, InitState
<1>2. CASE LeaveQueue
  BY <1>0, <1>2 DEF LeaveQueue
<1>3. CASE HandleExit
  BY <1>0, <1>3 DEF HandleExit, StopThen
<1>4. CASE DriverExit
  BY <1>0, <1>4 DEF DriverExit
<1>5. CASE HandleStart
  BY <1>0, <1>5 DEF HandleStart, Pop, Status
<1>6. CASE HandleStop
  BY <1>0, <1>6 DEF HandleStop, StopThen, Pop, Stoppable, Status
<1>7. CASE HandleSeek
  BY <1>0, <1>7 DEF HandleSeek, StopThen, Pop, Status
<1>8. CASE HandleEdit
  BY <1>0, <1>8 DEF HandleEdit, Pop
<1>9. CASE StopOperation
  BY <1>0, <1>9 DEF StopOperation
<1>10. CASE SignalStop
  BY <1>0, <1>10 DEF SignalStop
<1>11. CASE Seek
  BY <1>0, <1>11 DEF Seek, InitState
<1>12. CASE PrepareOperation
  BY <1>0, <1>12 DEF PrepareOperation, InitState
<1>13. CASE StartOperation
  BY <1>0, <1>13 DEF StartOperation
<1>14. CASE Decide
  BY <1>0, <1>14 DEF Decide, Status
<1>15. CASE WaitForCommands
  BY <1>0, <1>15 DEF WaitForCommands
<1>16. CASE UpdateState
  BY <1>0, <1>16 DEF UpdateState
<1>17. CASE LoopEnd
  BY <1>0, <1>17 DEF LoopEnd, StopThen
<1>18. CASE ExecEnd
  BY <1>0, <1>18 DEF ExecEnd, Status
<1>19. CASE ExecResult
  BY <1>0, <1>19 DEF ExecResult
<1>20. CASE ThreadEnd
  BY <1>0, <1>20 DEF ThreadEnd
<1>21. CASE Iterate
  BY <1>0, <1>21 DEF Iterate
<1>22. CASE Connect
  BY <1>0, <1>22 DEF Connect
<1>23. CASE CallStart
  BY <1>0, <1>23 DEF CallStart, Make, Ready, IsRunning, Status
<1>24. CASE CallRun
  BY <1>0, <1>24 DEF CallRun, Make
<1>25. CASE CallLaunch
  BY <1>0, <1>25 DEF CallLaunch, Make, Ready, Status
<1>26. CASE CallHalt
  BY <1>0, <1>26 DEF CallHalt, Make, Ready, Status
<1>27. CASE CallStop
  BY <1>0, <1>27 DEF CallStop, Make
<1>28. CASE CallStopSync
  BY <1>0, <1>28 DEF CallStopSync, Make
<1>29. CASE CallMove
  BY <1>0, <1>29 DEF CallMove, Make, Ready, Status
<1>30. CASE CallDisconnect
  BY <1>0, <1>30 DEF CallDisconnect, Make, Ready, Status
<1>31. CASE Direct
  BY <1>0, <1>31 DEF Direct, Return
<1>32. CASE EngineThere
  BY <1>0, <1>32 DEF EngineThere, Goto
<1>33. CASE Launch
  BY <1>0, <1>33 DEF Launch, Goto, Return, InitState
<1>34. CASE LaunchFails
  BY <1>0, <1>34 DEF LaunchFails, Return
<1>35. CASE Push
  BY <1>0, <1>35 DEF Push, Goto, Return, Command
<1>36. CASE WaitForStop
  BY <1>0, <1>36 DEF WaitForStop, Goto
<1>37. CASE WaitExpires
  BY <1>0, <1>37 DEF WaitExpires
<1>38. CASE Stopped
  BY <1>0, <1>38 DEF Stopped, Goto, Return
<1>39. CASE Close
  BY <1>0, <1>39 DEF Close, Goto
<1>40. CASE Join
  BY <1>0, <1>40 DEF Join, Goto, Return
<1>41. CASE Disconnect
  BY <1>0, <1>41 DEF Disconnect, Return
<1>42. CASE RunLoop
  BY <1>0, <1>42 DEF RunLoop, Goto, IsFinished, Status
<1>43. CASE RunPoll
  BY <1>0, <1>43 DEF RunPoll, IsRunning, IsFinished, Status
<1>44. CASE RunResult
  BY <1>0, <1>44 DEF RunResult, Return
<1>45. CASE QuitCheck
  BY <1>0, <1>45 DEF QuitCheck, Ready, Status
<1>46. CASE QuitPush
  BY <1>0, <1>46 DEF QuitPush
<1>47. CASE UNCHANGED vars
  BY <1>0, <1>47 DEF vars
<1> QED
  BY <1>1, <1>2, <1>3, <1>4, <1>5, <1>6, <1>7, <1>8, <1>9, <1>10, <1>11,
     <1>12, <1>13, <1>14, <1>15, <1>16, <1>17, <1>18, <1>19, <1>20, <1>21,
     <1>22, <1>23, <1>24, <1>25, <1>26, <1>27, <1>28, <1>29, <1>30, <1>31,
     <1>32, <1>33, <1>34, <1>35, <1>36, <1>37, <1>38, <1>39, <1>40, <1>41,
     <1>42, <1>43, <1>44, <1>45, <1>46, <1>47
  DEF Next, EngineSteps, Requests, ControlSteps

-----------------------------------------------------------------------------
\* The inductive invariant of the engine, from which the theorems below follow:
\* the engine exists while its thread and the calls that use it do.
THEOREM Invariance == Spec => []IInv
<1>1. IInv /\ [Next]_vars => IInv'
  BY NextType, NextCallPlaces, NextLifetime, NextOperation DEF IInv
<1> QED
  BY <1>1, InitInv, PTL DEF Spec

\* Every variable keeps its type.
THEOREM TypeCorrect == Spec => []TypeOK
<1>1. IInv => TypeOK
  BY DEF IInv
<1> QED
  BY <1>1, Invariance, PTL

\* While its thread is in exec(), the engine is not deleted and its chainsetup
\* not disabled.
THEOREM NeverOrphaned == Spec => []EngineAlive
<1>1. IInv => EngineAlive
  BY DEF IInv, Lifetime, EngineAlive, EnginePlaces
<1> QED
  BY <1>1, Invariance, PTL

\* An engine that runs has been prepared.
THEOREM PreparedToRun == Spec => []RunningPrepared
<1>1. IInv => RunningPrepared
  BY DEF IInv, Operation, RunningPrepared
<1> QED
  BY <1>1, Invariance, PTL

\* A thread that leaves exec() leaves nothing started.
THEOREM LeavesStopped == Spec => []ExitStopped
<1>1. IInv => ExitStopped
  BY DEF IInv, Operation, ExitStopped, AfterExec
<1> QED
  BY <1>1, Invariance, PTL

-----------------------------------------------------------------------------
(* What a realtime device may be.                                         *)

Hardware == {"none", "setup", "prepared", "running", "xrun", "suspended"}
Device ==
  [kind : {"alsa", "oss", "arts", "rtnull"}, dir : {"read", "write"}, ignore : BOOLEAN,
   trigger : BOOLEAN, opened : BOOLEAN, prepared : BOOLEAN, running : BOOLEAN, request : BOOLEAN,
   hw : Hardware, queue : Seq(Nat), now : Nat, began : Nat, done : Nat, sent : Nat, last : Nat,
   xruns : Nat, known : Nat, phase : {"off", "prepared", "on"}, used : BOOLEAN, drained : BOOLEAN,
   lost : BOOLEAN, fault : BOOLEAN, steps : Nat]

\* What no call of a driver changes, and what only time and transfers do.
Outer(d, q) ==
  /\ q \in Device /\ q.kind = d.kind /\ q.dir = d.dir /\ q.ignore = d.ignore /\ q.trigger = d.trigger
  /\ q.sent = d.sent /\ q.phase = d.phase /\ q.used = d.used /\ q.drained = d.drained
Heard(d, q) ==
  /\ q.now = d.now /\ q.last = d.last /\ q.known = d.known /\ q.lost = d.lost /\ q.fault = d.fault
Paced(d, q) == q.began = d.began /\ q.done = d.done
Same(d, q) == Outer(d, q) /\ Heard(d, q) /\ Paced(d, q)

\* What the object believes, but for being prepared.
Steady(d, q) ==
  /\ q.opened = d.opened /\ q.running = d.running /\ q.request = d.request /\ q.xruns = d.xruns

\* A device that may be called.
Open(d) == d \in Device /\ ~d.fault /\ d.hw # "none"

-----------------------------------------------------------------------------
(* What the calls of the drivers do.                                       *)

\* No call of an open handle is a fault.
LEMMA CalledOpen ==
  ASSUME NEW d, Open(d)
  PROVE  Called(d) = d
<1>1. PICK f : f = (d.fault \/ d.hw = "none")
  OBVIOUS
<1>2. f = d.fault
  <2>1. d.fault = FALSE /\ ~(d.hw = "none")
    BY DEF Open, Device
  <2> QED BY <1>1, <2>1
<1>3. Called(d) = [d EXCEPT !.fault = f]
  BY <1>1 DEF Called
<1> QED BY ONLY <1>2, <1>3, Open(d) DEF Open, Device

\* The state of the hardware and its queue.
SetHw(d, h, s) == [d EXCEPT !.hw = h, !.queue = s]
LEMMA HardwareSet ==
  ASSUME NEW d \in Device, NEW h \in Hardware, NEW s \in Seq(Nat), NEW q, q = SetHw(d, h, s)
  PROVE  /\ Same(d, q) /\ q.hw = h /\ q.queue = s /\ q.opened = d.opened /\ q.prepared = d.prepared
         /\ q.running = d.running /\ q.request = d.request /\ q.xruns = d.xruns
<1>1. q \in Device
  BY DEF SetHw, Device
<1>2. Outer(d, q)
  BY <1>1 DEF SetHw, Device, Outer
<1>3. Heard(d, q)
  BY DEF SetHw, Device, Heard
<1>4. /\ q.hw = h /\ q.queue = s /\ q.opened = d.opened /\ q.prepared = d.prepared
      /\ q.running = d.running /\ q.request = d.request /\ q.xruns = d.xruns
  BY DEF SetHw, Device
<1>5. Paced(d, q)
  BY DEF SetHw, Device, Paced
<1> QED BY <1>2, <1>3, <1>4, <1>5 DEF Same

\* What the object believes.
SetBelief(d, r, p) == [d EXCEPT !.running = r, !.prepared = p]
LEMMA BeliefSet ==
  ASSUME NEW d \in Device, NEW p \in BOOLEAN, NEW r \in BOOLEAN, NEW q, q = SetBelief(d, r, p)
  PROVE  /\ Same(d, q) /\ q.running = r /\ q.prepared = p /\ q.opened = d.opened
         /\ q.hw = d.hw /\ q.queue = d.queue /\ q.request = d.request /\ q.xruns = d.xruns
<1>1. q \in Device
  BY DEF SetBelief, Device
<1>2. Outer(d, q)
  BY <1>1 DEF SetBelief, Device, Outer
<1>3. Heard(d, q)
  BY DEF SetBelief, Device, Heard
<1>4. /\ q.running = r /\ q.prepared = p /\ q.opened = d.opened
      /\ q.hw = d.hw /\ q.queue = d.queue /\ q.request = d.request /\ q.xruns = d.xruns
  BY DEF SetBelief, Device
<1>5. Paced(d, q)
  BY DEF SetBelief, Device, Paced
<1> QED BY <1>2, <1>3, <1>4, <1>5 DEF Same

\* The calls of ALSA that change the state of the handle.
Becomes(d, q, h, s) ==
  /\ Same(d, q) /\ Open(q) /\ q.hw = h /\ q.queue = s /\ q.opened = d.opened
  /\ q.prepared = d.prepared /\ q.running = d.running /\ q.request = d.request /\ q.xruns = d.xruns
LEMMA HandleSet ==
  ASSUME NEW d, Open(d), NEW h \in Hardware, h # "none", NEW s \in Seq(Nat)
  PROVE  Becomes(d, SetHw(d, h, s), h, s)
<1>1. PICK q : q = SetHw(d, h, s)
  OBVIOUS
<1>2. d \in Device /\ ~d.fault
  BY DEF Open
<1>3. /\ Same(d, q) /\ q.hw = h /\ q.queue = s /\ q.opened = d.opened /\ q.prepared = d.prepared
      /\ q.running = d.running /\ q.request = d.request /\ q.xruns = d.xruns
  BY ONLY <1>1, <1>2, h \in Hardware, s \in Seq(Nat), HardwareSet
<1>4. Open(q)
  BY <1>2, <1>3 DEF Open, Same, Outer, Heard
<1> QED BY <1>1, <1>3, <1>4 DEF Becomes

\* snd_pcm_drop() forgets what waits.
LEMMA Drops ==
  ASSUME NEW d, Open(d)
  PROVE  Becomes(d, PcmDrop(d), "setup", <<>>)
<1>1. PcmDrop(d) = SetHw(d, "setup", <<>>)
  BY CalledOpen DEF PcmDrop, Open, SetHw
<1>2. "setup" \in Hardware /\ "setup" # "none" /\ <<>> \in Seq(Nat)
  BY DEF Hardware
<1> QED BY ONLY Open(d), <1>1, <1>2, HandleSet

\* snd_pcm_prepare() forgets what waits and leaves the device prepared.
LEMMA PcmPrepares ==
  ASSUME NEW d, Open(d)
  PROVE  Becomes(d, PcmPrepare(d), "prepared", <<>>)
<1>1. PcmPrepare(d) = SetHw(d, "prepared", <<>>)
  BY CalledOpen DEF PcmPrepare, Open, SetHw
<1>2. "prepared" \in Hardware /\ "prepared" # "none" /\ <<>> \in Seq(Nat)
  BY DEF Hardware
<1> QED BY ONLY Open(d), <1>1, <1>2, HandleSet

\* A device with something to play, or to capture, starts.
LEMMA PcmStarts ==
  ASSUME NEW d, Open(d)
  PROVE  Becomes(d, PcmStart(d), IF d.hw = "prepared" /\ (d.dir = "read" \/ d.queue # <<>>)
                                 THEN "running" ELSE d.hw, d.queue)
<1>1. PICK h : h = IF d.hw = "prepared" /\ (d.dir = "read" \/ d.queue # <<>>) THEN "running" ELSE d.hw
  OBVIOUS
<1>2. h \in Hardware /\ h # "none" /\ d.queue \in Seq(Nat)
  BY <1>1 DEF Open, Device, Hardware
<1>3. PcmStart(d) = [d EXCEPT !.hw = h]
  BY <1>1, CalledOpen DEF PcmStart
<1>4. [d EXCEPT !.hw = h] = SetHw(d, h, d.queue)
  BY DEF Open, Device, SetHw
<1>5. PcmStart(d) = SetHw(d, h, d.queue)
  BY <1>3, <1>4
<1>6. Becomes(d, PcmStart(d), h, d.queue)
  BY ONLY Open(d), <1>2, <1>5, HandleSet
<1> QED BY <1>1, <1>6

\* A buffer given to an open device waits behind the others.
LEMMA Gives ==
  ASSUME NEW d, Open(d), NEW b \in Nat
  PROVE  Becomes(d, Give(d, b), d.hw, Append(d.queue, b))
<1>1. PICK s : s = Append(d.queue, b)
  OBVIOUS
<1>2. s \in Seq(Nat) /\ d.hw \in Hardware
  BY <1>1 DEF Open, Device
<1>3. Give(d, b) = [d EXCEPT !.queue = s]
  BY <1>1, CalledOpen DEF Give
<1>4. [d EXCEPT !.queue = s] = SetHw(d, d.hw, s)
  BY DEF Open, Device, SetHw
<1>5. d.hw # "none" /\ Give(d, b) = SetHw(d, d.hw, s)
  BY <1>3, <1>4 DEF Open
<1>6. Becomes(d, Give(d, b), d.hw, s)
  BY ONLY Open(d), <1>2, <1>5, HandleSet
<1> QED BY <1>1, <1>6

\* Closing.
SetClosed(d, h, s, o) == [d EXCEPT !.hw = h, !.queue = s, !.opened = o]
LEMMA ClosedSet ==
  ASSUME NEW d \in Device, NEW h \in Hardware, NEW s \in Seq(Nat), NEW o \in BOOLEAN, NEW q,
         q = SetClosed(d, h, s, o)
  PROVE  /\ Outer(d, q) /\ Heard(d, q) /\ Paced(d, q)
         /\ q.hw = h /\ q.queue = s /\ q.opened = o
         /\ q.running = d.running /\ q.request = d.request /\ q.xruns = d.xruns
<1>1. q \in Device
  BY DEF SetClosed, Device
<1>2. q.hw = h /\ q.queue = s /\ q.opened = o
  BY DEF SetClosed, Device
<1>3. q.running = d.running /\ q.request = d.request /\ q.xruns = d.xruns
  BY DEF SetClosed, Device
<1>4. Outer(d, q)
  BY <1>1 DEF SetClosed, Device, Outer
<1>5. Heard(d, q)
  BY <1>1 DEF SetClosed, Device, Heard
<1>6. Paced(d, q)
  BY <1>1 DEF SetClosed, Device, Paced
<1> QED BY <1>1, <1>2, <1>3, <1>4, <1>5, <1>6

\* Counting an underrun or an overrun.
SetXruns(d, x) == [d EXCEPT !.xruns = x]
LEMMA XrunsSet ==
  ASSUME NEW d \in Device, NEW x \in Nat, NEW q,
         q = SetXruns(d, x)
  PROVE  /\ Outer(d, q) /\ Heard(d, q) /\ Paced(d, q)
         /\ q.xruns = x
         /\ q.opened = d.opened /\ q.running = d.running /\ q.request = d.request /\ q.hw = d.hw
         /\ q.queue = d.queue
<1>1. q \in Device
  BY DEF SetXruns, Device
<1>2. q.xruns = x
  BY DEF SetXruns, Device
<1>3. /\ q.opened = d.opened /\ q.running = d.running /\ q.request = d.request /\ q.hw = d.hw
      /\ q.queue = d.queue
  BY DEF SetXruns, Device
<1>4. Outer(d, q)
  BY <1>1 DEF SetXruns, Device, Outer
<1>5. Heard(d, q)
  BY <1>1 DEF SetXruns, Device, Heard
<1>6. Paced(d, q)
  BY <1>1 DEF SetXruns, Device, Paced
<1> QED BY <1>1, <1>2, <1>3, <1>4, <1>5, <1>6

\* A trigger that is asked for, or done.
SetRequest(d, t) == [d EXCEPT !.request = t]
LEMMA RequestSet ==
  ASSUME NEW d \in Device, NEW t \in BOOLEAN, NEW q,
         q = SetRequest(d, t)
  PROVE  /\ Outer(d, q) /\ Heard(d, q) /\ Paced(d, q)
         /\ q.request = t
         /\ q.opened = d.opened /\ q.running = d.running /\ q.xruns = d.xruns /\ q.hw = d.hw
         /\ q.queue = d.queue
<1>1. q \in Device
  BY DEF SetRequest, Device
<1>2. q.request = t
  BY DEF SetRequest, Device
<1>3. /\ q.opened = d.opened /\ q.running = d.running /\ q.xruns = d.xruns /\ q.hw = d.hw
      /\ q.queue = d.queue
  BY DEF SetRequest, Device
<1>4. Outer(d, q)
  BY <1>1 DEF SetRequest, Device, Outer
<1>5. Heard(d, q)
  BY <1>1 DEF SetRequest, Device, Heard
<1>6. Paced(d, q)
  BY <1>1 DEF SetRequest, Device, Paced
<1> QED BY <1>1, <1>2, <1>3, <1>4, <1>5, <1>6

\* A block that is heard.
SetHeard(d, s, l, b) == [d EXCEPT !.queue = s, !.last = l, !.lost = b]
LEMMA HeardSet ==
  ASSUME NEW d \in Device, NEW s \in Seq(Nat), NEW l \in Nat, NEW b \in BOOLEAN, NEW q,
         q = SetHeard(d, s, l, b)
  PROVE  /\ Outer(d, q) /\ Paced(d, q) /\ Steady(d, q)
         /\ q.queue = s /\ q.last = l /\ q.lost = b
         /\ q.now = d.now /\ q.known = d.known /\ q.fault = d.fault /\ q.hw = d.hw
<1>1. q \in Device
  BY DEF SetHeard, Device
<1>2. q.queue = s /\ q.last = l /\ q.lost = b
  BY DEF SetHeard, Device
<1>3. q.now = d.now /\ q.known = d.known /\ q.fault = d.fault /\ q.hw = d.hw
  BY DEF SetHeard, Device
<1>4. Outer(d, q)
  BY <1>1 DEF SetHeard, Device, Outer
<1>5. Paced(d, q)
  BY <1>1 DEF SetHeard, Device, Paced
<1>6. Steady(d, q)
  BY <1>1 DEF SetHeard, Device, Steady
<1> QED BY <1>1, <1>2, <1>3, <1>4, <1>5, <1>6

\* A block that is captured.
SetCaptured(d, s, n) == [d EXCEPT !.queue = s, !.now = n]
LEMMA CapturedSet ==
  ASSUME NEW d \in Device, NEW s \in Seq(Nat), NEW n \in Nat, NEW q,
         q = SetCaptured(d, s, n)
  PROVE  /\ Outer(d, q) /\ Paced(d, q) /\ Steady(d, q)
         /\ q.queue = s /\ q.now = n
         /\ q.last = d.last /\ q.known = d.known /\ q.lost = d.lost /\ q.fault = d.fault
         /\ q.hw = d.hw
<1>1. q \in Device
  BY DEF SetCaptured, Device
<1>2. q.queue = s /\ q.now = n
  BY DEF SetCaptured, Device
<1>3. /\ q.last = d.last /\ q.known = d.known /\ q.lost = d.lost /\ q.fault = d.fault
      /\ q.hw = d.hw
  BY DEF SetCaptured, Device
<1>4. Outer(d, q)
  BY <1>1 DEF SetCaptured, Device, Outer
<1>5. Paced(d, q)
  BY <1>1 DEF SetCaptured, Device, Paced
<1>6. Steady(d, q)
  BY <1>1 DEF SetCaptured, Device, Steady
<1> QED BY <1>1, <1>2, <1>3, <1>4, <1>5, <1>6

\* A block that is not.
SetMissed(d, h, n) == [d EXCEPT !.hw = h, !.now = n]
LEMMA MissedSet ==
  ASSUME NEW d \in Device, NEW h \in Hardware, NEW n \in Nat, NEW q,
         q = SetMissed(d, h, n)
  PROVE  /\ Outer(d, q) /\ Paced(d, q) /\ Steady(d, q)
         /\ q.hw = h /\ q.now = n
         /\ q.last = d.last /\ q.known = d.known /\ q.lost = d.lost /\ q.fault = d.fault
         /\ q.queue = d.queue
<1>1. q \in Device
  BY DEF SetMissed, Device
<1>2. q.hw = h /\ q.now = n
  BY DEF SetMissed, Device
<1>3. /\ q.last = d.last /\ q.known = d.known /\ q.lost = d.lost /\ q.fault = d.fault
      /\ q.queue = d.queue
  BY DEF SetMissed, Device
<1>4. Outer(d, q)
  BY <1>1 DEF SetMissed, Device, Outer
<1>5. Paced(d, q)
  BY <1>1 DEF SetMissed, Device, Paced
<1>6. Steady(d, q)
  BY <1>1 DEF SetMissed, Device, Steady
<1> QED BY <1>1, <1>2, <1>3, <1>4, <1>5, <1>6

\* A block that is read.
SetTaken(d, s, l, k, b) == [d EXCEPT !.queue = s, !.last = l, !.known = k, !.lost = b]
LEMMA TakenSet ==
  ASSUME NEW d \in Device, NEW s \in Seq(Nat), NEW l \in Nat, NEW k \in Nat, NEW b \in BOOLEAN, NEW q,
         q = SetTaken(d, s, l, k, b)
  PROVE  /\ Outer(d, q) /\ Paced(d, q) /\ Steady(d, q)
         /\ q.queue = s /\ q.last = l /\ q.known = k /\ q.lost = b
         /\ q.now = d.now /\ q.fault = d.fault /\ q.hw = d.hw
<1>1. q \in Device
  BY DEF SetTaken, Device
<1>2. q.queue = s /\ q.last = l /\ q.known = k /\ q.lost = b
  BY DEF SetTaken, Device
<1>3. q.now = d.now /\ q.fault = d.fault /\ q.hw = d.hw
  BY DEF SetTaken, Device
<1>4. Outer(d, q)
  BY <1>1 DEF SetTaken, Device, Outer
<1>5. Paced(d, q)
  BY <1>1 DEF SetTaken, Device, Paced
<1>6. Steady(d, q)
  BY <1>1 DEF SetTaken, Device, Steady
<1> QED BY <1>1, <1>2, <1>3, <1>4, <1>5, <1>6

\* Another state of the hardware.
SetState(d, h) == [d EXCEPT !.hw = h]
LEMMA StateSet ==
  ASSUME NEW d \in Device, NEW h \in Hardware, NEW q,
         q = SetState(d, h)
  PROVE  /\ Outer(d, q) /\ Heard(d, q) /\ Paced(d, q) /\ Steady(d, q)
         /\ q.hw = h
         /\ q.queue = d.queue
<1>1. q \in Device
  BY DEF SetState, Device
<1>2. q.hw = h
  BY DEF SetState, Device
<1>3. q.queue = d.queue
  BY DEF SetState, Device
<1>4. Outer(d, q)
  BY <1>1 DEF SetState, Device, Outer
<1>5. Heard(d, q)
  BY <1>1 DEF SetState, Device, Heard
<1>6. Paced(d, q)
  BY <1>1 DEF SetState, Device, Paced
<1>7. Steady(d, q)
  BY <1>1 DEF SetState, Device, Steady
<1> QED BY <1>1, <1>2, <1>3, <1>4, <1>5, <1>6, <1>7

\* Opening.
SetOpened(d, o, h, u) == [d EXCEPT !.opened = o, !.hw = h, !.used = u]
LEMMA OpenedSet ==
  ASSUME NEW d \in Device, NEW o \in BOOLEAN, NEW h \in Hardware, NEW u \in BOOLEAN, NEW q,
         q = SetOpened(d, o, h, u)
  PROVE  /\ q \in Device /\ Heard(d, q) /\ Paced(d, q)
         /\ q.opened = o /\ q.hw = h /\ q.used = u
         /\ q.kind = d.kind /\ q.dir = d.dir /\ q.ignore = d.ignore /\ q.trigger = d.trigger
         /\ q.sent = d.sent /\ q.phase = d.phase /\ q.drained = d.drained /\ q.running = d.running
         /\ q.request = d.request /\ q.xruns = d.xruns /\ q.queue = d.queue
<1>1. q \in Device
  <2>1. PICK a : a = [d EXCEPT !.opened = o]
    OBVIOUS
  <2>2. a \in Device
    BY <2>1 DEF Device
  <2>3. q = [a EXCEPT !.hw = h, !.used = u]
    BY <2>1 DEF SetOpened, Device
  <2> QED BY ONLY <2>2, <2>3, h \in Hardware, u \in BOOLEAN DEF Device
<1>2. q.opened = o /\ q.hw = h /\ q.used = u
  BY DEF SetOpened, Device
<1>3. /\ q.kind = d.kind /\ q.dir = d.dir /\ q.ignore = d.ignore /\ q.trigger = d.trigger
      /\ q.sent = d.sent /\ q.phase = d.phase /\ q.drained = d.drained /\ q.running = d.running
      /\ q.request = d.request /\ q.xruns = d.xruns /\ q.queue = d.queue
  BY DEF SetOpened, Device
<1>4. Heard(d, q)
  BY <1>1 DEF SetOpened, Device, Heard
<1>5. Paced(d, q)
  BY <1>1 DEF SetOpened, Device, Paced
<1> QED BY <1>1, <1>2, <1>3, <1>4, <1>5

\* Ready to start.
SetReady(d, f, z) == [d EXCEPT !.phase = f, !.drained = z]
LEMMA ReadySet ==
  ASSUME NEW d \in Device, NEW f \in {"off", "prepared", "on"}, NEW z \in BOOLEAN, NEW q,
         q = SetReady(d, f, z)
  PROVE  /\ q \in Device /\ Heard(d, q) /\ Paced(d, q) /\ Steady(d, q)
         /\ q.phase = f /\ q.drained = z
         /\ q.kind = d.kind /\ q.dir = d.dir /\ q.ignore = d.ignore /\ q.trigger = d.trigger
         /\ q.sent = d.sent /\ q.used = d.used /\ q.hw = d.hw /\ q.queue = d.queue
<1>1. q \in Device
  BY DEF SetReady, Device
<1>2. q.phase = f /\ q.drained = z
  BY DEF SetReady, Device
<1>3. /\ q.kind = d.kind /\ q.dir = d.dir /\ q.ignore = d.ignore /\ q.trigger = d.trigger
      /\ q.sent = d.sent /\ q.used = d.used /\ q.hw = d.hw /\ q.queue = d.queue
  BY DEF SetReady, Device
<1>4. Heard(d, q)
  BY <1>1 DEF SetReady, Device, Heard
<1>5. Paced(d, q)
  BY <1>1 DEF SetReady, Device, Paced
<1>6. Steady(d, q)
  BY <1>1 DEF SetReady, Device, Steady
<1> QED BY <1>1, <1>2, <1>3, <1>4, <1>5, <1>6

\* Started.
SetStarted(d, f, u, k, l) == [d EXCEPT !.phase = f, !.used = u, !.known = k, !.last = l]
StartedAs(d, q, f, u, k, l) ==
  /\ q \in Device /\ Paced(d, q) /\ Steady(d, q)
  /\ q.phase = f /\ q.used = u /\ q.known = k /\ q.last = l
  /\ q.kind = d.kind /\ q.dir = d.dir /\ q.ignore = d.ignore /\ q.trigger = d.trigger
  /\ q.sent = d.sent /\ q.drained = d.drained /\ q.now = d.now /\ q.lost = d.lost
  /\ q.fault = d.fault /\ q.hw = d.hw /\ q.queue = d.queue
LEMMA StartedSet ==
  ASSUME NEW d \in Device, NEW f \in {"off", "prepared", "on"}, NEW u \in BOOLEAN, NEW k \in Nat, NEW l \in Nat, NEW q,
         q = SetStarted(d, f, u, k, l)
  PROVE  StartedAs(d, q, f, u, k, l)
<1>1. q \in Device
  BY DEF SetStarted, Device
<1>2. q.phase = f /\ q.used = u /\ q.known = k /\ q.last = l
  BY DEF SetStarted, Device
<1>3. /\ q.kind = d.kind /\ q.dir = d.dir /\ q.ignore = d.ignore /\ q.trigger = d.trigger
      /\ q.sent = d.sent /\ q.drained = d.drained /\ q.now = d.now /\ q.lost = d.lost
      /\ q.fault = d.fault /\ q.hw = d.hw /\ q.queue = d.queue
  BY DEF SetStarted, Device
<1>4. Paced(d, q)
  BY <1>1 DEF SetStarted, Device, Paced
<1>5. Steady(d, q)
  BY <1>1 DEF SetStarted, Device, Steady
<1> QED BY <1>1, <1>2, <1>3, <1>4, <1>5 DEF StartedAs

\* A block more that was written.
SetSent(d, m) == [d EXCEPT !.sent = m]
LEMMA SentSet ==
  ASSUME NEW d \in Device, NEW m \in Nat, NEW q,
         q = SetSent(d, m)
  PROVE  /\ q \in Device /\ Heard(d, q) /\ Paced(d, q) /\ Steady(d, q)
         /\ q.sent = m
         /\ q.kind = d.kind /\ q.dir = d.dir /\ q.ignore = d.ignore /\ q.trigger = d.trigger
         /\ q.phase = d.phase /\ q.used = d.used /\ q.drained = d.drained /\ q.hw = d.hw
         /\ q.queue = d.queue
<1>1. q \in Device
  BY DEF SetSent, Device
<1>2. q.sent = m
  BY DEF SetSent, Device
<1>3. /\ q.kind = d.kind /\ q.dir = d.dir /\ q.ignore = d.ignore /\ q.trigger = d.trigger
      /\ q.phase = d.phase /\ q.used = d.used /\ q.drained = d.drained /\ q.hw = d.hw
      /\ q.queue = d.queue
  BY DEF SetSent, Device
<1>4. Heard(d, q)
  BY <1>1 DEF SetSent, Device, Heard
<1>5. Paced(d, q)
  BY <1>1 DEF SetSent, Device, Paced
<1>6. Steady(d, q)
  BY <1>1 DEF SetSent, Device, Steady
<1> QED BY <1>1, <1>2, <1>3, <1>4, <1>5, <1>6

\* After a transfer.
SetPhase(d, f, l) == [d EXCEPT !.phase = f, !.last = l]
PhaseAs(d, q, f, l) ==
  /\ q \in Device /\ Paced(d, q) /\ Steady(d, q)
  /\ q.phase = f /\ q.last = l
  /\ q.kind = d.kind /\ q.dir = d.dir /\ q.ignore = d.ignore /\ q.trigger = d.trigger
  /\ q.sent = d.sent /\ q.used = d.used /\ q.drained = d.drained /\ q.now = d.now
  /\ q.known = d.known /\ q.lost = d.lost /\ q.fault = d.fault /\ q.hw = d.hw
  /\ q.queue = d.queue
LEMMA PhaseSet ==
  ASSUME NEW d \in Device, NEW f \in {"off", "prepared", "on"}, NEW l \in Nat, NEW q,
         q = SetPhase(d, f, l)
  PROVE  PhaseAs(d, q, f, l)
<1>1. q \in Device
  BY DEF SetPhase, Device
<1>2. q.phase = f /\ q.last = l
  BY DEF SetPhase, Device
<1>3. /\ q.kind = d.kind /\ q.dir = d.dir /\ q.ignore = d.ignore /\ q.trigger = d.trigger
      /\ q.sent = d.sent /\ q.used = d.used /\ q.drained = d.drained /\ q.now = d.now
      /\ q.known = d.known /\ q.lost = d.lost /\ q.fault = d.fault /\ q.hw = d.hw
      /\ q.queue = d.queue
  BY DEF SetPhase, Device
<1>4. Paced(d, q)
  BY <1>1 DEF SetPhase, Device, Paced
<1>5. Steady(d, q)
  BY <1>1 DEF SetPhase, Device, Steady
<1> QED BY <1>1, <1>2, <1>3, <1>4, <1>5 DEF PhaseAs

\* Stopped.
SetStopped(d, f, z, l) == [d EXCEPT !.phase = f, !.drained = z, !.last = l]
StoppedAs(d, q, f, z, l) ==
  /\ q \in Device /\ Paced(d, q) /\ Steady(d, q)
  /\ q.phase = f /\ q.drained = z /\ q.last = l
  /\ q.kind = d.kind /\ q.dir = d.dir /\ q.ignore = d.ignore /\ q.trigger = d.trigger
  /\ q.sent = d.sent /\ q.used = d.used /\ q.now = d.now /\ q.known = d.known
  /\ q.lost = d.lost /\ q.fault = d.fault /\ q.hw = d.hw /\ q.queue = d.queue
LEMMA StoppedSet ==
  ASSUME NEW d \in Device, NEW f \in {"off", "prepared", "on"}, NEW z \in BOOLEAN, NEW l \in Nat, NEW q,
         q = SetStopped(d, f, z, l)
  PROVE  StoppedAs(d, q, f, z, l)
<1>1. q \in Device
  BY DEF SetStopped, Device
<1>2. q.phase = f /\ q.drained = z /\ q.last = l
  BY DEF SetStopped, Device
<1>3. /\ q.kind = d.kind /\ q.dir = d.dir /\ q.ignore = d.ignore /\ q.trigger = d.trigger
      /\ q.sent = d.sent /\ q.used = d.used /\ q.now = d.now /\ q.known = d.known
      /\ q.lost = d.lost /\ q.fault = d.fault /\ q.hw = d.hw /\ q.queue = d.queue
  BY DEF SetStopped, Device
<1>4. Paced(d, q)
  BY <1>1 DEF SetStopped, Device, Paced
<1>5. Steady(d, q)
  BY <1>1 DEF SetStopped, Device, Steady
<1> QED BY <1>1, <1>2, <1>3, <1>4, <1>5 DEF StoppedAs

\* What was dropped is not missed.
SetLast(d, l) == [d EXCEPT !.last = l]
LEMMA LastSet ==
  ASSUME NEW d \in Device, NEW l \in Nat, NEW q,
         q = SetLast(d, l)
  PROVE  /\ Outer(d, q) /\ Paced(d, q) /\ Steady(d, q)
         /\ q.last = l
         /\ q.now = d.now /\ q.known = d.known /\ q.lost = d.lost /\ q.fault = d.fault
         /\ q.hw = d.hw /\ q.queue = d.queue
<1>1. q \in Device
  BY DEF SetLast, Device
<1>2. q.last = l
  BY DEF SetLast, Device
<1>3. /\ q.now = d.now /\ q.known = d.known /\ q.lost = d.lost /\ q.fault = d.fault
      /\ q.hw = d.hw /\ q.queue = d.queue
  BY DEF SetLast, Device
<1>4. Outer(d, q)
  BY <1>1 DEF SetLast, Device, Outer
<1>5. Paced(d, q)
  BY <1>1 DEF SetLast, Device, Paced
<1>6. Steady(d, q)
  BY <1>1 DEF SetLast, Device, Steady
<1> QED BY <1>1, <1>2, <1>3, <1>4, <1>5, <1>6

\* One call more.
SetSteps(d, i) == [d EXCEPT !.steps = i]
LEMMA StepsSet ==
  ASSUME NEW d \in Device, NEW i \in Nat, NEW q,
         q = SetSteps(d, i)
  PROVE  /\ Outer(d, q) /\ Heard(d, q) /\ Paced(d, q) /\ Steady(d, q)
         /\ q.steps = i
         /\ q.hw = d.hw /\ q.queue = d.queue
<1>1. q \in Device
  BY DEF SetSteps, Device
<1>2. q.steps = i
  BY DEF SetSteps, Device
<1>3. q.hw = d.hw /\ q.queue = d.queue
  BY DEF SetSteps, Device
<1>4. Outer(d, q)
  BY <1>1 DEF SetSteps, Device, Outer
<1>5. Heard(d, q)
  BY <1>1 DEF SetSteps, Device, Heard
<1>6. Paced(d, q)
  BY <1>1 DEF SetSteps, Device, Paced
<1>7. Steady(d, q)
  BY <1>1 DEF SetSteps, Device, Steady
<1> QED BY <1>1, <1>2, <1>3, <1>4, <1>5, <1>6, <1>7

\* The null device: a block more.
SetDone(d, e, x) == [d EXCEPT !.done = e, !.xruns = x]
LEMMA DoneSet ==
  ASSUME NEW d \in Device, NEW e \in Nat, NEW x \in Nat, NEW q,
         q = SetDone(d, e, x)
  PROVE  /\ Outer(d, q) /\ Heard(d, q)
         /\ q.done = e /\ q.xruns = x
         /\ q.began = d.began /\ q.opened = d.opened /\ q.running = d.running
         /\ q.request = d.request /\ q.hw = d.hw /\ q.queue = d.queue
<1>1. q \in Device
  BY DEF SetDone, Device
<1>2. q.done = e /\ q.xruns = x
  BY DEF SetDone, Device
<1>3. /\ q.began = d.began /\ q.opened = d.opened /\ q.running = d.running
      /\ q.request = d.request /\ q.hw = d.hw /\ q.queue = d.queue
  BY DEF SetDone, Device
<1>4. Outer(d, q)
  BY <1>1 DEF SetDone, Device, Outer
<1>5. Heard(d, q)
  BY <1>1 DEF SetDone, Device, Heard
<1> QED BY <1>1, <1>2, <1>3, <1>4, <1>5

\* The null device is prepared.
SetAfresh(d, p, e) == [d EXCEPT !.prepared = p, !.done = e]
LEMMA AfreshSet ==
  ASSUME NEW d \in Device, NEW p \in BOOLEAN, NEW e \in Nat, NEW q,
         q = SetAfresh(d, p, e)
  PROVE  /\ Outer(d, q) /\ Heard(d, q) /\ Steady(d, q)
         /\ q.prepared = p /\ q.done = e
         /\ q.began = d.began /\ q.hw = d.hw /\ q.queue = d.queue
<1>1. q \in Device
  BY DEF SetAfresh, Device
<1>2. q.prepared = p /\ q.done = e
  BY DEF SetAfresh, Device
<1>3. q.began = d.began /\ q.hw = d.hw /\ q.queue = d.queue
  BY DEF SetAfresh, Device
<1>4. Outer(d, q)
  BY <1>1 DEF SetAfresh, Device, Outer
<1>5. Heard(d, q)
  BY <1>1 DEF SetAfresh, Device, Heard
<1>6. Steady(d, q)
  BY <1>1 DEF SetAfresh, Device, Steady
<1> QED BY <1>1, <1>2, <1>3, <1>4, <1>5, <1>6

\* The null device starts.
SetBegan(d, r, a) == [d EXCEPT !.running = r, !.began = a]
LEMMA BeganSet ==
  ASSUME NEW d \in Device, NEW r \in BOOLEAN, NEW a \in Nat, NEW q,
         q = SetBegan(d, r, a)
  PROVE  /\ Outer(d, q) /\ Heard(d, q)
         /\ q.running = r /\ q.began = a
         /\ q.done = d.done /\ q.opened = d.opened /\ q.request = d.request /\ q.xruns = d.xruns
         /\ q.hw = d.hw /\ q.queue = d.queue
<1>1. q \in Device
  BY DEF SetBegan, Device
<1>2. q.running = r /\ q.began = a
  BY DEF SetBegan, Device
<1>3. /\ q.done = d.done /\ q.opened = d.opened /\ q.request = d.request /\ q.xruns = d.xruns
      /\ q.hw = d.hw /\ q.queue = d.queue
  BY DEF SetBegan, Device
<1>4. Outer(d, q)
  BY <1>1 DEF SetBegan, Device, Outer
<1>5. Heard(d, q)
  BY <1>1 DEF SetBegan, Device, Heard
<1> QED BY <1>1, <1>2, <1>3, <1>4, <1>5

\* Time passes.
SetNow(d, n) == [d EXCEPT !.now = n]
LEMMA NowSet ==
  ASSUME NEW d \in Device, NEW n \in Nat, NEW q,
         q = SetNow(d, n)
  PROVE  /\ Outer(d, q) /\ Paced(d, q) /\ Steady(d, q)
         /\ q.now = n
         /\ q.last = d.last /\ q.known = d.known /\ q.lost = d.lost /\ q.fault = d.fault
         /\ q.hw = d.hw /\ q.queue = d.queue
<1>1. q \in Device
  BY DEF SetNow, Device
<1>2. q.now = n
  BY DEF SetNow, Device
<1>3. /\ q.last = d.last /\ q.known = d.known /\ q.lost = d.lost /\ q.fault = d.fault
      /\ q.hw = d.hw /\ q.queue = d.queue
  BY DEF SetNow, Device
<1>4. Outer(d, q)
  BY <1>1 DEF SetNow, Device, Outer
<1>5. Paced(d, q)
  BY <1>1 DEF SetNow, Device, Paced
<1>6. Steady(d, q)
  BY <1>1 DEF SetNow, Device, Steady
<1> QED BY <1>1, <1>2, <1>3, <1>4, <1>5, <1>6

-----------------------------------------------------------------------------
(* AUDIO_IO_ALSA_PCM.                                                      *)

\* stop() without draining: nothing waits, the object is not running.
LEMMA AlsaStops ==
  ASSUME NEW d, Open(d)
  PROVE  LET q == AlsaStop(d, FALSE) IN
         /\ Same(d, q) /\ Open(q) /\ q.hw = "setup" /\ q.queue = <<>> /\ q.opened = d.opened
         /\ q.running = FALSE /\ q.request = d.request /\ q.xruns = d.xruns
<1>0. PICK no \in BOOLEAN : no = FALSE
  OBVIOUS
<1>1. PICK p, q : p = PcmDrop(d) /\ q = SetBelief(p, no, no)
  OBVIOUS
<1>2. Becomes(d, p, "setup", <<>>)
  BY <1>1, Drops
<1>3. p \in Device /\ no \in BOOLEAN /\ q = SetBelief(p, no, no)
  BY <1>1, <1>2 DEF Becomes, Open
<1>4. /\ Same(p, q) /\ q.running = no /\ q.prepared = no /\ q.opened = p.opened
      /\ q.hw = p.hw /\ q.queue = p.queue /\ q.request = p.request /\ q.xruns = p.xruns
  BY ONLY <1>3, BeliefSet
<1>5. AlsaStop(d, FALSE) = q
  BY <1>0, <1>1 DEF AlsaStop, BaseStop, SetBelief
<1>6. Same(d, q) /\ Open(q)
  BY <1>2, <1>4 DEF Becomes, Same, Open, Outer, Heard, Paced
<1> QED BY <1>0, <1>1, <1>2, <1>4, <1>5, <1>6 DEF Becomes

\* close() of an ALSA device gives its handle back.
LEMMA AlsaCloses ==
  ASSUME NEW d, Open(d), ~d.running
  PROVE  LET q == AlsaClose(d) IN
         /\ Same(d, q) /\ q.hw = "none" /\ q.queue = <<>> /\ q.opened = FALSE
         /\ q.running = d.running /\ q.request = d.request /\ q.xruns = d.xruns
<1>0. PICK no \in BOOLEAN : no = FALSE
  OBVIOUS
<1>1. PICK q, h, s : q = SetClosed(d, h, s, no) /\ h = "none" /\ s = <<>>
  OBVIOUS
<1>2. /\ d \in Device /\ h \in Hardware /\ s \in Seq(Nat) /\ no \in BOOLEAN
      /\ q = SetClosed(d, h, s, no)
  BY <1>1 DEF Open, Hardware
<1>3. /\ Outer(d, q) /\ Heard(d, q) /\ Paced(d, q)
      /\ q.hw = h /\ q.queue = s /\ q.opened = no
      /\ q.running = d.running /\ q.request = d.request /\ q.xruns = d.xruns
  BY ONLY <1>2, ClosedSet
<1>4. AlsaClose(d) = q
  <2>1. ~(d.prepared /\ d.running) /\ Called(d) = d
    BY CalledOpen
  <2> QED BY <1>0, <1>1, <2>1 DEF AlsaClose, SetClosed
<1> QED BY <1>0, <1>1, <1>3, <1>4 DEF Same

\* An ALSA device whose recovery failed is stopped and closed.
LEMMA GivesUp ==
  ASSUME NEW d, Open(d)
  PROVE  LET q == GiveUp(d) IN
         /\ Same(d, q) /\ q.hw = "none" /\ q.queue = <<>> /\ q.opened = FALSE
         /\ q.running = FALSE /\ q.request = d.request
<1>1. PICK p, q : p = AlsaStop(d, FALSE) /\ q = AlsaClose(p)
  OBVIOUS
<1>2. Same(d, p) /\ Open(p) /\ p.running = FALSE /\ p.request = d.request
  BY <1>1, AlsaStops
<1>3. /\ Same(p, q) /\ q.hw = "none" /\ q.queue = <<>> /\ q.opened = FALSE
      /\ q.running = p.running /\ q.request = p.request
  BY <1>1, <1>2, AlsaCloses
<1>4. Same(d, q)
  BY <1>2, <1>3 DEF Same, Outer, Heard, Paced
<1> QED BY <1>1, <1>2, <1>3, <1>4 DEF GiveUp

\* prepare() of an ALSA device.
LEMMA AlsaPrepares ==
  ASSUME NEW d, Open(d)
  PROVE  LET q == AlsaPrepare(d) IN
         /\ Same(d, q) /\ Open(q) /\ q.hw = "prepared" /\ q.queue = <<>> /\ q.opened = d.opened
         /\ q.running = d.running /\ q.request = d.request /\ q.xruns = d.xruns
<1>0. PICK yes \in BOOLEAN : yes = TRUE
  OBVIOUS
<1>1. PICK p, q, r : p = PcmPrepare(d) /\ r = p.running /\ q = SetBelief(p, r, yes)
  OBVIOUS
<1>2. Becomes(d, p, "prepared", <<>>)
  BY <1>1, PcmPrepares
<1>3. p \in Device /\ r \in BOOLEAN /\ yes \in BOOLEAN /\ q = SetBelief(p, r, yes)
  BY <1>1, <1>2 DEF Becomes, Open, Device
<1>4. /\ Same(p, q) /\ q.running = r /\ q.opened = p.opened
      /\ q.hw = p.hw /\ q.queue = p.queue /\ q.request = p.request /\ q.xruns = p.xruns
  BY ONLY <1>3, BeliefSet
<1>5. AlsaPrepare(d) = q
  <2>1. [p EXCEPT !.running = p.running, !.prepared = TRUE] = [p EXCEPT !.prepared = TRUE]
    BY ONLY <1>3 DEF Device
  <2> QED BY <1>1, <1>0, <2>1 DEF AlsaPrepare, SetBelief
<1>6. Same(d, q) /\ Open(q)
  BY <1>2, <1>4 DEF Becomes, Same, Open, Outer, Heard, Paced
<1> QED BY <1>0, <1>1, <1>2, <1>4, <1>5, <1>6 DEF Becomes

\* start() of an ALSA device: the hardware runs if it is prepared and, to
\* play, has something to play.
LEMMA AlsaStarts ==
  ASSUME NEW d, Open(d)
  PROVE  LET q == AlsaStart(d) IN
         /\ Same(d, q) /\ Open(q) /\ q.queue = d.queue /\ q.opened = d.opened
         /\ q.hw = IF d.hw = "prepared" /\ (d.dir = "read" \/ d.queue # <<>>) THEN "running" ELSE d.hw
         /\ q.running = TRUE /\ q.request = d.request /\ q.xruns = d.xruns
<1>0. PICK yes \in BOOLEAN : yes = TRUE
  OBVIOUS
<1>1. PICK p, q, b : p = PcmStart(d) /\ b = p.prepared /\ q = SetBelief(p, yes, b)
  OBVIOUS
<1>2. Becomes(d, p, IF d.hw = "prepared" /\ (d.dir = "read" \/ d.queue # <<>>)
                    THEN "running" ELSE d.hw, d.queue)
  BY <1>1, PcmStarts
<1>3. p \in Device /\ b \in BOOLEAN /\ yes \in BOOLEAN /\ q = SetBelief(p, yes, b)
  BY <1>1, <1>2 DEF Becomes, Open, Device
<1>4. /\ Same(p, q) /\ q.running = yes /\ q.opened = p.opened
      /\ q.hw = p.hw /\ q.queue = p.queue /\ q.request = p.request /\ q.xruns = p.xruns
  BY ONLY <1>3, BeliefSet
<1>5. AlsaStart(d) = q
  <2>1. [p EXCEPT !.running = TRUE, !.prepared = p.prepared] = [p EXCEPT !.running = TRUE]
    BY ONLY <1>3 DEF Device
  <2> QED BY <1>1, <1>0, <2>1 DEF AlsaStart, SetBelief
<1>6. Same(d, q) /\ Open(q)
  BY <1>2, <1>4 DEF Becomes, Same, Open, Outer, Heard, Paced
<1> QED BY <1>0, <1>1, <1>2, <1>4, <1>5, <1>6 DEF Becomes

\* An overrun or an underrun is counted, and the device prepared again.
LEMMA Rearms ==
  ASSUME NEW d, Open(d)
  PROVE  LET q == AlsaPrepare(AlsaStop([d EXCEPT !.xruns = @ + 1], FALSE)) IN
         /\ Same(d, q) /\ Open(q) /\ q.hw = "prepared" /\ q.queue = <<>> /\ q.opened = d.opened
         /\ q.running = FALSE /\ q.request = d.request /\ q.xruns = d.xruns + 1
<1>1. PICK x, c, s, q : /\ x = d.xruns + 1 /\ c = SetXruns(d, x) /\ s = AlsaStop(c, FALSE)
                        /\ q = AlsaPrepare(s)
  OBVIOUS
<1>2. d \in Device /\ x \in Nat
  BY <1>1 DEF Open, Device
<1>3. /\ Outer(d, c) /\ Heard(d, c) /\ Paced(d, c) /\ c.xruns = x /\ c.opened = d.opened
      /\ c.running = d.running /\ c.request = d.request /\ c.hw = d.hw /\ c.queue = d.queue
  <2>1. c = SetXruns(d, x)
    BY <1>1
  <2> QED BY ONLY <1>2, <2>1, XrunsSet
<1>4. Open(c)
  BY <1>3 DEF Open, Outer, Heard
<1>5. /\ Same(c, s) /\ Open(s) /\ s.opened = c.opened
      /\ s.running = FALSE /\ s.request = c.request /\ s.xruns = c.xruns
  BY <1>1, <1>4, AlsaStops
<1>6. /\ Same(s, q) /\ Open(q) /\ q.hw = "prepared" /\ q.queue = <<>> /\ q.opened = s.opened
      /\ q.running = s.running /\ q.request = s.request /\ q.xruns = s.xruns
  BY <1>1, <1>5, AlsaPrepares
<1>7. Same(d, q)
  BY <1>3, <1>5, <1>6 DEF Same, Outer, Heard, Paced
<1>8. q = AlsaPrepare(AlsaStop([d EXCEPT !.xruns = @ + 1], FALSE))
  BY <1>1 DEF SetXruns
<1> QED BY <1>1, <1>3, <1>5, <1>6, <1>7, <1>8

\* After an underrun it is to be triggered again, after an overrun it is started.
LEMMA PlaybackResumes ==
  ASSUME NEW d, Open(d), d.hw # "suspended"
  PROVE  LET q == HandleXrunPlayback(d) IN
         /\ Same(d, q) /\ Open(q) /\ q.hw = "prepared" /\ q.queue = <<>> /\ q.opened = d.opened
         /\ q.running = FALSE /\ q.request = TRUE
<1>0. PICK yes \in BOOLEAN : yes = TRUE
  OBVIOUS
<1>1. PICK p, q : p = AlsaPrepare(AlsaStop([d EXCEPT !.xruns = @ + 1], FALSE)) /\ q = SetRequest(p, yes)
  OBVIOUS
<1>2. /\ Same(d, p) /\ Open(p) /\ p.hw = "prepared" /\ p.queue = <<>> /\ p.opened = d.opened
      /\ p.running = FALSE
  BY <1>1, Rearms
<1>3. p \in Device /\ yes \in BOOLEAN /\ q = SetRequest(p, yes)
  BY <1>1, <1>2 DEF Open
<1>4. /\ Outer(p, q) /\ Heard(p, q) /\ Paced(p, q) /\ q.request = yes
      /\ q.opened = p.opened /\ q.running = p.running /\ q.hw = p.hw /\ q.queue = p.queue
  BY ONLY <1>3, RequestSet
<1>5. Same(d, q) /\ Open(q)
  BY <1>2, <1>4 DEF Same, Open, Outer, Heard, Paced
<1>6. HandleXrunPlayback(d) = q
  BY <1>0, <1>1 DEF HandleXrunPlayback, SetRequest
<1> QED BY <1>0, <1>2, <1>4, <1>5, <1>6

\* A capture that ran over is stopped, prepared and started again, and counted.
LEMMA CaptureResumes ==
  ASSUME NEW d, Open(d), d.hw # "suspended", d.dir = "read"
  PROVE  LET q == HandleXrunCapture(d) IN
         /\ Same(d, q) /\ Open(q) /\ q.hw = "running" /\ q.queue = <<>> /\ q.opened = d.opened
         /\ q.running = TRUE /\ q.request = d.request /\ q.xruns = d.xruns + 1
<1>1. PICK p, q : p = AlsaPrepare(AlsaStop([d EXCEPT !.xruns = @ + 1], FALSE)) /\ q = AlsaStart(p)
  OBVIOUS
<1>2. /\ Same(d, p) /\ Open(p) /\ p.hw = "prepared" /\ p.queue = <<>> /\ p.opened = d.opened
      /\ p.request = d.request /\ p.xruns = d.xruns + 1
  BY <1>1, Rearms
<1>3. p.dir = "read"
  BY <1>2 DEF Same, Outer
<1>4. /\ Same(p, q) /\ Open(q) /\ q.queue = p.queue /\ q.opened = p.opened /\ q.hw = "running"
      /\ q.running = TRUE /\ q.request = p.request /\ q.xruns = p.xruns
  <2>1. q = AlsaStart(p) /\ Open(p) /\ p.hw = "prepared" /\ p.dir = "read"
    BY <1>1, <1>2, <1>3
  <2> QED BY ONLY <2>1, AlsaStarts
<1>5. Same(d, q)
  BY <1>2, <1>4 DEF Same, Outer, Heard, Paced
<1>6. HandleXrunCapture(d) = q
  BY <1>1 DEF HandleXrunCapture
<1> QED BY <1>2, <1>4, <1>5, <1>6

\* What a write to an ALSA device comes to.
Written(d, q, b) ==
  /\ d.hw \in {"prepared", "running"} /\ Open(q) /\ q.opened = d.opened /\ q.queue = Append(d.queue, b) /\ q.request = FALSE
  /\ q.hw = (IF d.request THEN "running" ELSE d.hw) /\ q.running = (d.request \/ d.running)
Resumed(d, q, b) ==
  /\ d.hw = "xrun" /\ Open(q) /\ q.opened = d.opened /\ q.hw = "prepared" /\ q.queue = <<b>>
  /\ q.running = FALSE /\ q.request = TRUE
GivenUp(d, q) ==
  /\ d.hw \in {"xrun", "suspended"} /\ q.hw = "none" /\ q.queue = <<>> /\ q.opened = FALSE
  /\ q.running = FALSE /\ q.request = FALSE

\* A write with no trigger pending plays the buffer, resumes after an underrun
\* or gives the device up.
LEMMA WritesUntriggered ==
  ASSUME NEW d, Open(d), d.hw \in {"prepared", "running", "xrun", "suspended"}, d.request = FALSE,
         d.hw = "suspended" => ~d.ignore, NEW b \in Nat
  PROVE  LET q == AlsaWriteUntriggered(d, b) IN
         Same(d, q) /\ (Written(d, q, b) \/ Resumed(d, q, b) \/ GivenUp(d, q))
<1>1. CASE d.hw \in {"prepared", "running"}
  <2>1. PICK q : q = Give(d, b)
    OBVIOUS
  <2>2. Becomes(d, q, d.hw, Append(d.queue, b))
    BY <2>1, Gives
  <2>3. AlsaWriteUntriggered(d, b) = q
    BY <1>1, <2>1 DEF AlsaWriteUntriggered, Accepts
  <2>4. d.running \in BOOLEAN
    BY DEF Open, Device
  <2> QED BY <1>1, <2>2, <2>3, <2>4 DEF Becomes, Written
<1>2. CASE d.hw \in {"xrun", "suspended"} /\ ~d.ignore
  <2>1. PICK q : q = GiveUp(d)
    OBVIOUS
  <2>2. /\ Same(d, q) /\ q.hw = "none" /\ q.queue = <<>> /\ q.opened = FALSE
        /\ q.running = FALSE /\ q.request = d.request
    BY <2>1, GivesUp
  <2>3. AlsaWriteUntriggered(d, b) = q
    BY <1>2, <2>1 DEF AlsaWriteUntriggered, Accepts
  <2> QED BY <1>2, <2>2, <2>3 DEF GivenUp
<1>3. CASE d.hw = "xrun" /\ d.ignore
  <2>0. PICK yes \in BOOLEAN : yes = TRUE
    OBVIOUS
  <2>1. PICK h, g, q : h = HandleXrunPlayback(d) /\ g = Give(h, b) /\ q = SetRequest(g, yes)
    OBVIOUS
  <2>2. /\ Same(d, h) /\ Open(h) /\ h.hw = "prepared" /\ h.queue = <<>> /\ h.opened = d.opened
        /\ h.running = FALSE /\ h.request = TRUE
    BY <1>3, <2>1, PlaybackResumes
  <2>3. Becomes(h, g, h.hw, Append(h.queue, b))
    BY <2>1, <2>2, Gives
  <2>4. g \in Device /\ yes \in BOOLEAN /\ q = SetRequest(g, yes)
    BY <2>1, <2>3 DEF Becomes, Open
  <2>5. /\ Outer(g, q) /\ Heard(g, q) /\ Paced(g, q) /\ q.request = yes
        /\ q.opened = g.opened /\ q.running = g.running /\ q.hw = g.hw /\ q.queue = g.queue
    BY ONLY <2>4, RequestSet
  <2>6. Same(d, q) /\ Open(q)
    BY <2>2, <2>3, <2>5 DEF Becomes, Same, Open, Outer, Heard, Paced
  <2>7. AlsaWriteUntriggered(d, b) = q
    <3>1. Accepts(h) /\ ~Accepts(d) /\ ~(d.hw \in {"none", "setup"} \/ ~d.ignore)
      BY <1>3, <2>2 DEF Accepts
    <3> QED BY <2>0, <2>1, <3>1 DEF AlsaWriteUntriggered, SetRequest
  <2>8. q.queue = <<b>>
    BY <2>2, <2>3, <2>5 DEF Becomes
  <2>9. Resumed(d, q, b)
    BY <1>3, <2>0, <2>2, <2>3, <2>5, <2>6, <2>8 DEF Becomes, Resumed
  <2> QED BY <2>6, <2>7, <2>9
<1> QED BY <1>1, <1>2, <1>3

\* The same of any write: a pending trigger starts the device first.
LEMMA AlsaWrites ==
  ASSUME NEW d, Open(d), d.dir = "write", d.hw \in {"prepared", "running", "xrun", "suspended"},
         d.request => d.hw = "prepared" /\ d.queue # <<>>,
         d.hw = "suspended" => ~d.ignore, NEW b \in Nat
  PROVE  LET q == AlsaWrite(d, b) IN
         Same(d, q) /\ (Written(d, q, b) \/ Resumed(d, q, b) \/ GivenUp(d, q))
<1>1. CASE ~d.request
  <2>1. d.request = FALSE
    BY <1>1 DEF Open, Device
  <2>2. AlsaWrite(d, b) = AlsaWriteUntriggered(d, b)
    BY <1>1 DEF AlsaWrite
  <2> QED BY <2>1, <2>2, WritesUntriggered
<1>2. CASE d.request
  <2>0. PICK no \in BOOLEAN : no = FALSE
    OBVIOUS
  <2>1. PICK c, s, q : /\ c = SetRequest(d, no) /\ s = AlsaStart(c)
                       /\ q = AlsaWriteUntriggered(s, b)
    OBVIOUS
  <2>2. d \in Device /\ no \in BOOLEAN /\ c = SetRequest(d, no)
    BY <2>1 DEF Open
  <2>3. /\ Outer(d, c) /\ Heard(d, c) /\ Paced(d, c) /\ c.request = no
        /\ c.opened = d.opened /\ c.running = d.running /\ c.hw = d.hw /\ c.queue = d.queue
    BY ONLY <2>2, RequestSet
  <2>4. Open(c)
    BY <2>3 DEF Open, Outer, Heard
  <2>5. /\ Same(c, s) /\ Open(s) /\ s.queue = c.queue /\ s.opened = c.opened
        /\ s.hw = "running" /\ s.running = TRUE /\ s.request = c.request
    <3>1. c.hw = "prepared" /\ c.queue # <<>>
      BY <1>2, <2>3
    <3>2. /\ Same(c, s) /\ Open(s) /\ s.queue = c.queue /\ s.opened = c.opened
          /\ s.hw = (IF c.hw = "prepared" /\ (c.dir = "read" \/ c.queue # <<>>) THEN "running" ELSE c.hw)
          /\ s.running = TRUE /\ s.request = c.request
      BY <2>1, <2>4, AlsaStarts
    <3> QED BY <3>1, <3>2
  <2>6. s.hw \in {"prepared", "running", "xrun", "suspended"} /\ s.request = FALSE
        /\ (s.hw = "suspended" => ~s.ignore)
    BY <2>0, <2>3, <2>5
  <2>7. Same(s, q) /\ (Written(s, q, b) \/ Resumed(s, q, b) \/ GivenUp(s, q))
    BY <2>1, <2>5, <2>6, WritesUntriggered
  <2>8. Written(s, q, b)
    BY <2>5, <2>7 DEF Resumed, GivenUp
  <2>9. Same(d, q)
    BY <2>3, <2>5, <2>7 DEF Same, Outer, Heard, Paced
  <2>10. AlsaWrite(d, b) = q
    BY <1>2, <2>0, <2>1 DEF AlsaWrite, SetRequest
  <2>11. Written(d, q, b)
    BY <1>2, <2>3, <2>5, <2>6, <2>8 DEF Written
  <2> QED BY <2>9, <2>10, <2>11
<1> QED BY <1>1, <1>2

-----------------------------------------------------------------------------
(* What the hardware does.                                                 *)

\* Playing.
LEMMA PlaysOne ==
  ASSUME NEW d \in Device, d.queue # <<>>
  PROVE  LET q == Plays(d) IN
         /\ Outer(d, q) /\ Paced(d, q) /\ Steady(d, q)
         /\ q.queue = Tail(d.queue) /\ q.hw = d.hw /\ q.now = d.now /\ q.known = d.known
         /\ q.fault = d.fault
         /\ q.last = (IF Head(d.queue) = 0 THEN d.last ELSE Head(d.queue))
         /\ q.lost = (d.lost \/ Head(d.queue) \notin {0, d.last + 1})
<1>1. PICK c, s, l, b :
        /\ c = Head(d.queue) /\ s = Tail(d.queue) /\ l = (IF c = 0 THEN d.last ELSE c)
        /\ b = (d.lost \/ c \notin {0, d.last + 1})
  OBVIOUS
<1>2. PICK t : t = d.queue
  OBVIOUS
<1>3. t \in Seq(Nat) /\ t # <<>> /\ d.last \in Nat
  BY <1>2 DEF Device
<1>4. Head(t) \in Nat /\ Tail(t) \in Seq(Nat)
  BY ONLY <1>3
<1>5. s \in Seq(Nat) /\ l \in Nat /\ b \in BOOLEAN
  BY <1>1, <1>2, <1>3, <1>4 DEF Device
<1>6. PICK q : q = SetHeard(d, s, l, b)
  OBVIOUS
<1>7. /\ Outer(d, q) /\ Paced(d, q) /\ Steady(d, q)
      /\ q.queue = s /\ q.last = l /\ q.lost = b
      /\ q.now = d.now /\ q.known = d.known /\ q.fault = d.fault /\ q.hw = d.hw
  BY ONLY d \in Device, <1>5, <1>6, HeardSet
<1>8. Plays(d) = q
  BY <1>1, <1>6 DEF Plays, SetHeard
<1> QED BY <1>1, <1>7, <1>8

\* Capturing.
LEMMA CapturesOne ==
  ASSUME NEW d \in Device, ~Full(d)
  PROVE  LET q == Captures(d) IN
         /\ Outer(d, q) /\ Paced(d, q) /\ Steady(d, q)
         /\ q.queue = Append(d.queue, d.now + 1) /\ q.now = d.now + 1 /\ q.hw = d.hw
         /\ q.last = d.last /\ q.known = d.known /\ q.lost = d.lost /\ q.fault = d.fault
<1>1. PICK n, s : n = d.now + 1 /\ s = Append(d.queue, n)
  OBVIOUS
<1>2. n \in Nat /\ s \in Seq(Nat)
  BY <1>1 DEF Device
<1>3. PICK q : q = SetCaptured(d, s, n)
  OBVIOUS
<1>4. /\ Outer(d, q) /\ Paced(d, q) /\ Steady(d, q) /\ q.queue = s /\ q.now = n
      /\ q.last = d.last /\ q.known = d.known /\ q.lost = d.lost /\ q.fault = d.fault
      /\ q.hw = d.hw
  BY ONLY d \in Device, <1>2, <1>3, CapturedSet
<1>5. Captures(d) = q
  BY <1>1, <1>3 DEF Captures, SetCaptured
<1> QED BY <1>1, <1>4, <1>5

\* A capture of ALSA with no room for a buffer stops in the xrun state.
LEMMA Overruns ==
  ASSUME NEW d \in Device, Full(d), d.kind = "alsa"
  PROVE  LET q == Captures(d) IN
         /\ Outer(d, q) /\ Paced(d, q) /\ Steady(d, q)
         /\ q.queue = d.queue /\ q.now = d.now + 1 /\ q.hw = "xrun"
         /\ q.last = d.last /\ q.known = d.known /\ q.lost = d.lost /\ q.fault = d.fault
<1>1. PICK n, h : n = d.now + 1 /\ h = "xrun"
  OBVIOUS
<1>2. n \in Nat /\ h \in Hardware
  BY <1>1 DEF Device, Hardware
<1>3. PICK q : q = SetMissed(d, h, n)
  OBVIOUS
<1>4. /\ Outer(d, q) /\ Paced(d, q) /\ Steady(d, q) /\ q.hw = h /\ q.now = n
      /\ q.last = d.last /\ q.known = d.known /\ q.lost = d.lost /\ q.fault = d.fault
      /\ q.queue = d.queue
  BY ONLY d \in Device, <1>2, <1>3, MissedSet
<1>5. Captures(d) = q
  BY <1>1, <1>3 DEF Captures, SetMissed
<1> QED BY <1>1, <1>4, <1>5

\* Reading.
LEMMA TakesOne ==
  ASSUME NEW d \in Device, d.queue # <<>>
  PROVE  LET q == Take(d) IN
         /\ Outer(d, q) /\ Paced(d, q) /\ Steady(d, q)
         /\ q.queue = Tail(d.queue) /\ q.hw = d.hw /\ q.now = d.now /\ q.known = d.xruns
         /\ q.fault = d.fault /\ q.last = Head(d.queue)
         /\ q.lost = (d.lost \/ Head(d.queue) <= d.last
                        \/ (Head(d.queue) > d.last + 1 /\ d.xruns = d.known))
<1>1. PICK c, s, k, b :
        /\ c = Head(d.queue) /\ s = Tail(d.queue) /\ k = d.xruns
        /\ b = (d.lost \/ c <= d.last \/ (c > d.last + 1 /\ d.xruns = d.known))
  OBVIOUS
<1>2. PICK t : t = d.queue
  OBVIOUS
<1>3. t \in Seq(Nat) /\ t # <<>> /\ k \in Nat
  BY <1>1, <1>2 DEF Device
<1>4. Head(t) \in Nat /\ Tail(t) \in Seq(Nat)
  BY ONLY <1>3
<1>5. s \in Seq(Nat) /\ c \in Nat /\ k \in Nat /\ b \in BOOLEAN
  BY <1>1, <1>2, <1>3, <1>4 DEF Device
<1>6. PICK q : q = SetTaken(d, s, c, k, b)
  OBVIOUS
<1>7. /\ Outer(d, q) /\ Paced(d, q) /\ Steady(d, q)
      /\ q.queue = s /\ q.last = c /\ q.known = k /\ q.lost = b
      /\ q.now = d.now /\ q.fault = d.fault /\ q.hw = d.hw
  BY ONLY d \in Device, <1>5, <1>6, TakenSet
<1>8. Take(d) = q
  BY <1>1, <1>6 DEF Take, SetTaken
<1> QED BY <1>1, <1>7, <1>8

-----------------------------------------------------------------------------
(* The inductive invariant.                                                *)

\* The counters of transfers, and what the object believes of the handle.
Belief(d) ==
  /\ ~d.lost /\ ~d.fault /\ (d.hw # "none") = d.opened
  /\ (d.phase # "off" => d.opened) /\ (d.drained => d.phase = "off")
  /\ d.running = (d.phase = "on" /\ ~d.request)
  /\ (d.kind # "alsa" => d.ignore)
  /\ (d.request => d.kind = "alsa" /\ d.dir = "write" /\ d.phase = "on")
Room(d) == Len(d.queue) <= DvSpace /\ (d.hw = "none" => d.queue = <<>>)

\* Where the handle of each kind of device may be.
AlsaPlace(d) ==
  /\ d.phase = "off" => d.hw \in {"none", "setup"} /\ d.queue = <<>>
  /\ d.phase = "prepared" => d.hw = "prepared" /\ (d.queue = <<>>) = (d.dir = "read")
  /\ d.phase = "on" =>
       /\ d.hw \in {"prepared", "running", "xrun", "suspended"}
       /\ (d.hw = "prepared") = d.request
       /\ d.hw = "suspended" => ~d.ignore
       /\ d.request => Len(d.queue) = 1
       /\ d.dir = "write" /\ d.hw \in {"xrun", "suspended"} => d.queue = <<>>
FreePlace(d) ==
  /\ d.hw \in {"none", "setup", "running"}
  /\ d.phase = "off" /\ ~d.used => d.hw # "running" /\ d.queue = <<>>
  /\ d.phase = "prepared" => d.hw = "setup" /\ ~d.used /\ (d.dir = "read" => d.queue = <<>>)
  /\ d.phase = "on" => d.used /\ (d.hw = "running" \/ SelfStarting(d))
NullPlace(d) ==
  /\ d.queue = <<>> /\ d.hw \in {"none", "setup"}
  /\ d.phase = "prepared" => d.done <= DvSpace /\ (d.dir = "read" => d.done = 0)
  /\ d.phase = "on" => NullAvailable(d) >= 0
Place(d) ==
  CASE d.kind = "alsa" -> AlsaPlace(d) [] d.kind = "rtnull" -> NullPlace(d) [] OTHER -> FreePlace(d)

\* The queue of an output: silence, and then what was written last.
Tells(q, z, l) == \A i \in 1..Len(q) : q[i] = IF i <= z THEN 0 ELSE l + (i - z)
InOrder(q, l, m) ==
  \E z \in 0..Len(q) : Tells(q, z, l) /\ l + (Len(q) - z) = m
WriteOrder(d) ==
  d.dir = "write" /\ d.kind # "rtnull" /\ d.hw # "suspended" =>
    InOrder(d.queue, d.last, d.sent)
\* The queue of an input: what follows what was read last, up to now.
ReadOrder(d) ==
  d.dir = "read" =>
    /\ d.last <= d.now /\ d.known <= d.xruns
    /\ d.hw = "running" => d.last + Len(d.queue) = d.now /\ Tells(d.queue, 0, d.last)

Safe(d) == d \in Device /\ Belief(d) /\ Room(d) /\ Place(d) /\ WriteOrder(d) /\ ReadOrder(d)

-----------------------------------------------------------------------------
(* Queues.                                                                 *)

\* Nothing is waiting.
LEMMA NoneWaiting ==
  ASSUME NEW l \in Nat
  PROVE  /\ \A z : Tells(<<>>, z, l)
         /\ \A m \in Nat : InOrder(<<>>, l, m) <=> l = m
<1>1. PICK q : q = <<>>
  OBVIOUS
<1>2. Len(q) = 0 /\ 1..Len(q) = {} /\ 0..Len(q) = {0}
  BY <1>1
<1>3. \A z : Tells(q, z, l)
  BY <1>2 DEF Tells
<1>4. ASSUME NEW m \in Nat PROVE InOrder(q, l, m) <=> l = m
  BY <1>2, <1>3 DEF InOrder
<1> QED BY <1>1, <1>3, <1>4

\* One block more.
LEMMA Appends ==
  ASSUME NEW q \in Seq(Nat), NEW b \in Nat
  PROVE  /\ Append(q, b) \in Seq(Nat) /\ Len(Append(q, b)) = Len(q) + 1 /\ Len(q) \in Nat
         /\ \A i \in 1..Len(q) : Append(q, b)[i] = q[i]
         /\ Append(q, b)[Len(q) + 1] = b
  OBVIOUS

\* A buffer that follows the last one can be appended.
LEMMA AppendTells ==
  ASSUME NEW q \in Seq(Nat), NEW l \in Nat, NEW z \in 0..Len(q), Tells(q, z, l), NEW b \in Nat,
         b = l + (Len(q) - z) + 1
  PROVE  Tells(Append(q, b), z, l)
<1>1. PICK s, n : s = Append(q, b) /\ n = Len(q)
  OBVIOUS
<1>2. /\ s \in Seq(Nat) /\ Len(s) = n + 1 /\ n \in Nat
      /\ \A i \in 1..n : s[i] = q[i]
      /\ s[n + 1] = b
  BY <1>1, Appends
<1>3. ASSUME NEW i \in 1..n+1 PROVE s[i] = IF i <= z THEN 0 ELSE l + (i - z)
  <2>1. CASE i = n + 1
    <3>1. ~(i <= z) /\ l + (i - z) = b
      BY <1>1, <1>2, <2>1
    <3> QED BY <1>2, <2>1, <3>1
  <2>2. CASE i # n + 1
    <3>1. i \in 1..n
      BY <1>2, <2>2
    <3> QED BY <1>1, <1>2, <3>1 DEF Tells
  <2> QED BY <2>1, <2>2
<1> QED BY <1>1, <1>2, <1>3 DEF Tells

\* What is written comes after what was written.
LEMMA WritesInOrder ==
  ASSUME NEW q \in Seq(Nat), NEW l \in Nat, NEW m \in Nat, InOrder(q, l, m)
  PROVE  InOrder(Append(q, m + 1), l, m + 1)
<1>1. PICK n : n = Len(q)
  OBVIOUS
<1>2. n \in Nat
  BY <1>1
<1>3. PICK z \in 0..n : Tells(q, z, l) /\ l + (n - z) = m
  BY <1>1 DEF InOrder
<1>4. PICK b \in Nat : b = m + 1
  OBVIOUS
<1>5. b = l + (n - z) + 1
  BY <1>2, <1>3, <1>4
<1>6. PICK s : s = Append(q, b)
  OBVIOUS
<1>7. Tells(s, z, l)
  BY <1>1, <1>3, <1>5, <1>6, AppendTells
<1>8. Len(s) = n + 1
  BY <1>1, <1>6, Appends
<1>9. z \in 0..Len(s) /\ l + (Len(s) - z) = b
  BY <1>2, <1>3, <1>5, <1>8
<1> QED BY <1>4, <1>6, <1>7, <1>9 DEF InOrder

\* Silence before anything is written.
Silent(q) == \A i \in 1..Len(q) : q[i] = 0
LEMMA MoreSilence ==
  ASSUME NEW q \in Seq(Nat), Silent(q)
  PROVE  Silent(Append(q, 0))
<1>1. PICK s, n : s = Append(q, 0) /\ n = Len(q)
  OBVIOUS
<1>2. /\ s \in Seq(Nat) /\ Len(s) = n + 1 /\ n \in Nat
      /\ \A i \in 1..n : s[i] = q[i]
      /\ s[n + 1] = 0
  BY <1>1, Appends
<1>3. \A i \in 1..n+1 : i = n + 1 \/ i \in 1..n
  BY <1>2
<1> QED BY <1>1, <1>2, <1>3 DEF Silent

\* Silence alone is in order: it ends where it began.
LEMMA SilenceInOrder ==
  ASSUME NEW q \in Seq(Nat), Silent(q), NEW l \in Nat
  PROVE  InOrder(q, l, l)
<1>1. PICK n : n = Len(q)
  OBVIOUS
<1>2. n \in Nat
  BY <1>1
<1>3. n \in 0..n /\ l + (n - n) = l
  BY <1>2
<1>4. Tells(q, n, l)
  BY <1>1, <1>2 DEF Tells, Silent
<1> QED BY <1>1, <1>3, <1>4 DEF InOrder

\* One block less.
LEMMA Tails ==
  ASSUME NEW q \in Seq(Nat), q # <<>>
  PROVE  /\ Tail(q) \in Seq(Nat) /\ Len(Tail(q)) = Len(q) - 1 /\ Len(q) \in Nat /\ Len(q) >= 1
         /\ \A i \in 1..Len(q)-1 : Tail(q)[i] = q[i + 1]
         /\ Head(q) = q[1] /\ Head(q) \in Nat
<1>1. Len(q) \in Nat /\ Len(q) >= 1
  BY EmptySeq
<1>2. Tail(q) \in Seq(Nat) /\ Len(Tail(q)) = Len(q) - 1 /\ Head(q) = q[1]
  BY <1>1
<1>3. 1 \in 1..Len(q)
  BY <1>1
<1>4. q[1] \in Nat
  BY <1>3
<1>5. \A i \in 1..Len(q)-1 : Tail(q)[i] = q[i + 1]
  BY <1>1
<1> QED BY <1>1, <1>2, <1>4, <1>5

\* What is heard next is silence, or the next block; and what follows is in order.
LEMMA HeardInOrder ==
  ASSUME NEW q \in Seq(Nat), q # <<>>, NEW l \in Nat, NEW m \in Nat, InOrder(q, l, m)
  PROVE  /\ Head(q) \in {0, l + 1}
         /\ InOrder(Tail(q), IF Head(q) = 0 THEN l ELSE Head(q), m)
<1>1. PICK z \in 0..Len(q) : Tells(q, z, l) /\ l + (Len(q) - z) = m
  BY DEF InOrder
<1>2. PICK t, n, h : t = Tail(q) /\ n = Len(q) /\ h = Head(q)
  OBVIOUS
<1>3. /\ Len(t) = n - 1 /\ n \in Nat /\ n >= 1 /\ h = q[1]
      /\ \A i \in 1..n-1 : t[i] = q[i + 1]
  BY <1>2, Tails
<1>4. \A i \in 1..n : q[i] = IF i <= z THEN 0 ELSE l + (i - z)
  BY <1>1, <1>2 DEF Tells
<1>5. \A i \in 1..n-1 : i + 1 \in 1..n
  BY <1>3
<1>6. 1 \in 1..n
  BY <1>3
<1>7. h = IF 1 <= z THEN 0 ELSE l + (1 - z)
  BY <1>3, <1>4, <1>6
<1>8. CASE z = 0
  <2>1. h = l + 1 /\ h # 0
    BY <1>7, <1>8
  <2>2. \A i \in 1..n-1 : t[i] = IF i <= 0 THEN 0 ELSE (l + 1) + (i - 0)
    BY <1>3, <1>4, <1>5, <1>8
  <2>3. Tells(t, 0, l + 1)
    BY <1>3, <2>2 DEF Tells
  <2>4. 0 \in 0..Len(t) /\ (l + 1) + (Len(t) - 0) = m
    BY <1>1, <1>2, <1>3, <1>8
  <2>5. InOrder(t, l + 1, m)
    BY <2>3, <2>4 DEF InOrder
  <2> QED BY <1>2, <2>1, <2>5
<1>9. CASE z # 0
  <2>1. h = 0
    BY <1>7, <1>9
  <2>2. \A i \in 1..n-1 : t[i] = IF i <= z - 1 THEN 0 ELSE l + (i - (z - 1))
    BY <1>3, <1>4, <1>5, <1>9
  <2>3. Tells(t, z - 1, l)
    BY <1>3, <2>2 DEF Tells
  <2>4. z - 1 \in 0..Len(t) /\ l + (Len(t) - (z - 1)) = m
    BY <1>1, <1>2, <1>3, <1>9
  <2>5. InOrder(t, l, m)
    BY <2>3, <2>4 DEF InOrder
  <2> QED BY <1>2, <2>1, <2>5
<1> QED BY <1>8, <1>9

\* What is read next is the block after the last; and so on.
LEMMA ReadInOrder ==
  ASSUME NEW q \in Seq(Nat), q # <<>>, NEW l \in Nat, Tells(q, 0, l)
  PROVE  Head(q) = l + 1 /\ Tells(Tail(q), 0, l + 1)
<1>1. PICK t, n : t = Tail(q) /\ n = Len(q)
  OBVIOUS
<1>2. /\ Len(t) = n - 1 /\ n \in Nat /\ n >= 1 /\ Head(q) = q[1]
      /\ \A i \in 1..n-1 : t[i] = q[i + 1]
  BY <1>1, Tails
<1>3. \A i \in 1..n : q[i] = l + i
  BY <1>1, <1>2 DEF Tells
<1>4. 1 \in 1..n /\ \A i \in 1..n-1 : i + 1 \in 1..n
  BY <1>2
<1>5. \A i \in 1..n-1 : t[i] = IF i <= 0 THEN 0 ELSE (l + 1) + (i - 0)
  BY <1>2, <1>3, <1>4
<1>6. Head(q) = l + 1
  BY <1>2, <1>3, <1>4
<1> QED BY <1>1, <1>2, <1>5, <1>6 DEF Tells

-----------------------------------------------------------------------------
(* Draining, and filling before a start: a call repeated.                  *)

\* What holds first and of every next one holds up to any bound.
LEMMA Induct ==
  ASSUME NEW n \in Nat, NEW S, 0 \in S, \A i \in 0..n-1 : i \in S => i + 1 \in S
  PROVE  0..n \subseteq S
<1> DEFINE T == {i \in 0..n : i \notin S}
           F == {0..i : i \in T}
           R == StrictSubsetOrdering(0..n)
<1> SUFFICES ASSUME T # {} PROVE FALSE
  OBVIOUS
<1>1. IsFiniteSet(0..n)
  BY FS_Interval
<1>2. IsWellFoundedOn(R, FiniteSubsetsOf(0..n))
  BY <1>1, FS_StrictSubsetOrderingWellFounded
<1>3. F \subseteq FiniteSubsetsOf(0..n)
  <2>1. ASSUME NEW i \in T PROVE 0..i \in FiniteSubsetsOf(0..n)
    <3>1. 0..i \subseteq 0..n /\ i \in Int
      OBVIOUS
    <3>2. IsFiniteSet(0..i)
      BY <3>1, FS_Interval
    <3> QED BY <3>1, <3>2 DEF FiniteSubsetsOf
  <2> QED BY <2>1
<1>4. F # {}
  OBVIOUS
<1> HIDE DEF R
<1>5. PICK x \in F : \A y \in F : <<y, x>> \notin R
  BY <1>2, <1>3, <1>4, WFMin
<1>6. PICK i \in T : x = 0..i
  BY <1>5
<1>7. i # 0
  BY <1>6
<1>8. i - 1 \in 0..n-1 /\ i - 1 + 1 = i
  BY <1>6, <1>7
<1>9. i - 1 \in T
  BY <1>6, <1>8
<1>10. <<0..(i-1), 0..i>> \in R
  <2>1. 0..(i-1) \subseteq 0..i /\ 0..i \subseteq 0..n /\ i \in 0..i /\ i \notin 0..(i-1)
    BY <1>6, <1>8
  <2>2. 0..(i-1) \in SUBSET (0..n) /\ 0..i \in SUBSET (0..n) /\ 0..(i-1) # 0..i
    BY <2>1
  <2> QED BY <2>1, <2>2 DEF R, StrictSubsetOrdering
<1> QED BY <1>5, <1>6, <1>9, <1>10

Repeated(t, kind, x) ==
  IF t = "drain" THEN (IF x.queue = <<>> THEN x ELSE Plays(x))
  ELSE IF Full(x) /\ kind # "rtnull" THEN WriteDevice(Plays(x), 0) ELSE WriteDevice(x, 0)
Repeats(h, t, kind, a, n) ==
  h = [k \in 0..n |-> IF k = 0 THEN a ELSE Repeated(t, kind, h[k - 1])]

\* A call can be repeated any number of times.
LEMMA RepeatExists ==
  ASSUME NEW t, NEW kind, NEW a, NEW n \in Nat
  PROVE  \E h : Repeats(h, t, kind, a, n)
<1> DEFINE S == {k \in 0..n : \E h : Repeats(h, t, kind, a, k)}
<1>1. 0 \in S
  <2>1. PICK h : h = [i \in 0..0 |-> a]
    OBVIOUS
  <2>2. \A i \in 0..0 : i = 0
    OBVIOUS
  <2>3. Repeats(h, t, kind, a, 0)
    BY <2>1, <2>2 DEF Repeats
  <2> QED BY <2>3
<1>2. ASSUME NEW k \in 0..n-1, k \in S PROVE k + 1 \in S
  <2>1. PICK g : Repeats(g, t, kind, a, k)
    BY <1>2
  <2>2. PICK h : h = [i \in 0..k+1 |-> IF i \in 0..k THEN g[i] ELSE Repeated(t, kind, g[k])]
    OBVIOUS
  <2>3. \A i \in 0..k+1 : i = k + 1 \/ i \in 0..k
    OBVIOUS
  <2>4. \A i \in 0..k : i # 0 => i - 1 \in 0..k
    OBVIOUS
  <2>5. k + 1 \notin 0..k /\ k \in 0..k /\ k + 1 # 0 /\ (k + 1) - 1 = k /\ k \in 0..k+1
    OBVIOUS
  <2>6. \A i \in 0..k : i \in 0..k+1
    OBVIOUS
  <2>7. ASSUME NEW i \in 0..k+1
        PROVE  h[i] = IF i = 0 THEN a ELSE Repeated(t, kind, h[i - 1])
    <3>1. CASE i \in 0..k
      <4>1. h[i] = g[i] /\ (i # 0 => h[i - 1] = g[i - 1])
        BY <2>2, <2>4, <2>6, <3>1
      <4>2. g[i] = IF i = 0 THEN a ELSE Repeated(t, kind, g[i - 1])
        BY <2>1, <3>1 DEF Repeats
      <4> QED BY <4>1, <4>2
    <3>2. CASE i = k + 1
      <4>1. h[i] = Repeated(t, kind, g[k]) /\ h[k] = g[k]
        BY <2>2, <2>5, <3>2
      <4> QED BY <2>5, <3>2, <4>1
    <3> QED BY <2>3, <3>1, <3>2
  <2>8. DOMAIN h = 0..k+1 /\ h = [i \in DOMAIN h |-> h[i]]
    BY <2>2
  <2>9. Repeats(h, t, kind, a, k + 1)
    BY <2>7, <2>8 DEF Repeats
  <2>10. k + 1 \in 0..n
    OBVIOUS
  <2> QED BY <2>9, <2>10
<1> HIDE DEF S
<1>3. 0..n \subseteq S
  BY <1>1, <1>2, Induct
<1>4. n \in S
  BY <1>3
<1> QED BY <1>4 DEF S

\* Each result is the call on the one before.
LEMMA RepeatStep ==
  ASSUME NEW t, NEW kind, NEW a, NEW n \in Nat, NEW h, Repeats(h, t, kind, a, n)
  PROVE  h[0] = a /\ \A i \in 0..n-1 : h[i + 1] = Repeated(t, kind, h[i])
<1>1. 0 \in 0..n
  OBVIOUS
<1>2. \A i \in 0..n-1 : i + 1 \in 0..n /\ i + 1 # 0 /\ (i + 1) - 1 = i
  OBVIOUS
<1> QED BY <1>1, <1>2 DEF Repeats

\* Draining.
Drains(h, d) ==
  h = [n \in 0..DvSpace |-> IF n = 0 THEN Called(d) ELSE IF h[n - 1].queue = <<>> THEN h[n - 1]
                            ELSE Plays(h[n - 1])]
LEMMA DrainedBy ==
  ASSUME NEW d
  PROVE  \E h : /\ Repeats(h, "drain", d.kind, Called(d), DvSpace)
                /\ PcmDrain(d) = PcmDrop(IF d.hw = "running" THEN h[DvSpace] ELSE d)
<1>1. PICK n : n = DvSpace
  OBVIOUS
<1>2. n \in Nat
  BY <1>1, DvAssumption
<1>3. \A h : Drains(h, d) <=> Repeats(h, "drain", d.kind, Called(d), DvSpace)
  BY DEF Drains, Repeats, Repeated
<1>4. \E h : Drains(h, d)
  BY <1>1, <1>2, <1>3, RepeatExists
<1>5. PICK h : h = (CHOOSE g : Drains(g, d))
  OBVIOUS
<1>6. Drains(h, d)
  BY <1>4, <1>5
<1>7. PcmDrain(d) = PcmDrop(IF d.hw = "running" THEN (CHOOSE g : Drains(g, d))[DvSpace] ELSE d)
  BY Zenon DEF PcmDrain, Drains
<1> QED BY <1>3, <1>5, <1>6, <1>7

\* After so many blocks, no more than the others are left, and none was lost.
Draining(d, x, n) ==
  /\ Outer(d, x) /\ Paced(d, x) /\ Steady(d, x) /\ x.hw = "running"
  /\ x.now = d.now /\ x.known = d.known /\ x.fault = FALSE /\ x.lost = FALSE
  /\ InOrder(x.queue, x.last, d.sent) /\ Len(x.queue) <= DvSpace - n

\* One buffer less waits after each.
LEMMA DrainStep ==
  ASSUME NEW d \in Device, NEW x, NEW n \in Nat, n < DvSpace, Draining(d, x, n)
  PROVE  Draining(d, Repeated("drain", d.kind, x), n + 1)
<1>0. /\ x \in Device /\ x.queue \in Seq(Nat) /\ x.last \in Nat /\ d.sent \in Nat /\ DvSpace \in Nat
      /\ InOrder(x.queue, x.last, d.sent) /\ Len(x.queue) <= DvSpace - n /\ x.lost = FALSE
  <2>1. x \in Device
    BY DEF Draining, Outer
  <2> QED BY <2>1, DvAssumption DEF Draining, Device
<1>1. CASE x.queue = <<>>
  <2>1. Repeated("drain", d.kind, x) = x
    BY <1>1 DEF Repeated
  <2>2. Len(x.queue) = 0
    BY <1>1
  <2>3. Len(x.queue) <= DvSpace - (n + 1)
    BY <1>0, <2>2
  <2> QED BY <2>1, <2>3 DEF Draining
<1>2. CASE x.queue # <<>>
  <2>1. PICK q : q = Plays(x)
    OBVIOUS
  <2>2. Repeated("drain", d.kind, x) = q
    BY <1>2, <2>1 DEF Repeated
  <2>3. /\ Outer(x, q) /\ Paced(x, q) /\ Steady(x, q)
        /\ q.queue = Tail(x.queue) /\ q.hw = x.hw /\ q.now = x.now /\ q.known = x.known
        /\ q.fault = x.fault
        /\ q.last = (IF Head(x.queue) = 0 THEN x.last ELSE Head(x.queue))
        /\ q.lost = (x.lost \/ Head(x.queue) \notin {0, x.last + 1})
    BY <1>0, <1>2, <2>1, PlaysOne
  <2>4. /\ Head(x.queue) \in {0, x.last + 1}
        /\ InOrder(q.queue, q.last, d.sent)
    BY <1>0, <1>2, <2>3, HeardInOrder
  <2>5. q.lost = FALSE
    BY <1>0, <2>3, <2>4
  <2>6. Len(q.queue) <= DvSpace - (n + 1)
    <3>1. Len(q.queue) = Len(x.queue) - 1 /\ Len(x.queue) \in Nat
      BY <1>0, <1>2, <2>3, Tails
    <3> QED BY <1>0, <3>1
  <2>7. Outer(d, q) /\ Paced(d, q) /\ Steady(d, q)
    BY <2>3 DEF Draining, Outer, Paced, Steady
  <2> QED BY <2>2, <2>3, <2>4, <2>5, <2>6, <2>7 DEF Draining
<1> QED BY <1>1, <1>2

\* snd_pcm_drain() plays all that waits, in its order.
LEMMA DrainsAll ==
  ASSUME NEW d, Open(d), d.hw = "running", d.lost = FALSE, InOrder(d.queue, d.last, d.sent),
         Len(d.queue) <= DvSpace
  PROVE  LET q == PcmDrain(d) IN
         /\ Outer(d, q) /\ Paced(d, q) /\ Steady(d, q) /\ q.hw = "setup" /\ q.queue = <<>>
         /\ q.now = d.now /\ q.known = d.known /\ q.fault = FALSE /\ q.lost = FALSE
         /\ q.last = d.sent
<1>1. PICK h : /\ Repeats(h, "drain", d.kind, Called(d), DvSpace)
               /\ PcmDrain(d) = PcmDrop(h[DvSpace])
  BY DrainedBy
<1>2. PICK n : n = DvSpace
  OBVIOUS
<1>3. n \in Nat
  BY <1>2, DvAssumption
<1>4. h[0] = d /\ \A i \in 0..n-1 : h[i + 1] = Repeated("drain", d.kind, h[i])
  BY <1>1, <1>2, <1>3, CalledOpen, RepeatStep
<1> DEFINE T == {i \in 0..n : Draining(d, h[i], i)}
<1>5. 0 \in T
  <2>1. d \in Device /\ d.fault = FALSE
    BY DEF Open, Device
  <2>2. Outer(d, d) /\ Paced(d, d) /\ Steady(d, d)
    BY <2>1 DEF Outer, Paced, Steady
  <2>3. Len(d.queue) <= DvSpace - 0
    BY <1>2, <1>3
  <2>4. Draining(d, d, 0)
    BY <2>1, <2>2, <2>3 DEF Draining
  <2> QED BY <1>3, <1>4, <2>4
<1>6. ASSUME NEW i \in 0..n-1, i \in T PROVE i + 1 \in T
  <2>1. i \in Nat /\ i < DvSpace /\ i + 1 \in 0..n /\ d \in Device
    BY <1>2, <1>3 DEF Open
  <2>2. Draining(d, h[i], i)
    BY <1>6
  <2>3. PICK x : x = h[i]
    OBVIOUS
  <2>4. Draining(d, Repeated("drain", d.kind, x), i + 1)
    BY <2>1, <2>2, <2>3, DrainStep
  <2> QED BY <1>4, <2>1, <2>3, <2>4
<1> HIDE DEF T
<1>7. 0..n \subseteq T
  BY <1>3, <1>5, <1>6, Induct
<1>8. n \in T
  BY <1>3, <1>7
<1>9. PICK x : x = h[n]
  OBVIOUS
<1>10. Draining(d, x, n)
  BY <1>8, <1>9 DEF T
<1>11. x.queue = <<>> /\ x.last = d.sent
  <2>1. x \in Device
    BY <1>10 DEF Draining, Outer
  <2>2. x.queue \in Seq(Nat) /\ x.last \in Nat /\ x.sent = d.sent /\ x.sent \in Nat
    BY <1>10, <2>1 DEF Draining, Outer, Device
  <2>3. Len(x.queue) <= n - n /\ InOrder(x.queue, x.last, d.sent)
    BY <1>2, <1>10 DEF Draining
  <2>4. Len(x.queue) = 0
    BY <1>3, <2>2, <2>3
  <2>5. x.queue = <<>>
    BY <2>2, <2>4
  <2> QED BY <2>2, <2>3, <2>5, NoneWaiting
<1>12. PICK q : q = PcmDrop(x)
  OBVIOUS
<1>13. Open(x)
  BY <1>10 DEF Draining, Outer, Open
<1>14. Becomes(x, q, "setup", <<>>)
  BY <1>12, <1>13, Drops
<1>15. PcmDrain(d) = q
  BY <1>1, <1>2, <1>9, <1>12
<1>16. Outer(d, q) /\ Paced(d, q) /\ Steady(d, q)
  BY <1>10, <1>14 DEF Becomes, Draining, Same, Outer, Paced, Steady
<1>17. /\ q.now = d.now /\ q.known = d.known /\ q.fault = FALSE /\ q.lost = FALSE /\ q.last = d.sent
       /\ q.hw = "setup" /\ q.queue = <<>>
  BY <1>10, <1>11, <1>14 DEF Becomes, Draining, Same, Heard
<1> QED BY <1>15, <1>16, <1>17

\* A drained stop.
LEMMA AlsaDrains ==
  ASSUME NEW d, Open(d), d.hw = "running", d.dir = "write", d.lost = FALSE,
         InOrder(d.queue, d.last, d.sent), Len(d.queue) <= DvSpace
  PROVE  LET q == AlsaStop(d, TRUE) IN
         /\ Outer(d, q) /\ Paced(d, q) /\ q.hw = "setup" /\ q.queue = <<>> /\ q.opened = d.opened
         /\ q.running = FALSE /\ q.request = d.request /\ q.xruns = d.xruns
         /\ q.now = d.now /\ q.known = d.known /\ q.fault = FALSE /\ q.lost = FALSE
         /\ q.last = d.sent
<1>0. PICK no \in BOOLEAN : no = FALSE
  OBVIOUS
<1>1. PICK p, q : p = PcmDrain(d) /\ q = SetBelief(p, no, no)
  OBVIOUS
<1>2. /\ Outer(d, p) /\ Paced(d, p) /\ Steady(d, p) /\ p.hw = "setup" /\ p.queue = <<>>
      /\ p.now = d.now /\ p.known = d.known /\ p.fault = FALSE /\ p.lost = FALSE
      /\ p.last = d.sent
  BY <1>1, DrainsAll
<1>3. p \in Device /\ q = SetBelief(p, no, no)
  BY <1>1, <1>2 DEF Outer
<1>4. /\ Same(p, q) /\ q.running = no /\ q.prepared = no /\ q.opened = p.opened
      /\ q.hw = p.hw /\ q.queue = p.queue /\ q.request = p.request /\ q.xruns = p.xruns
  BY ONLY <1>3, no \in BOOLEAN, BeliefSet
<1>5. AlsaStop(d, TRUE) = q
  BY <1>0, <1>1 DEF AlsaStop, BaseStop, SetBelief
<1>6. Outer(d, q) /\ Paced(d, q)
  BY <1>2, <1>4 DEF Same, Outer, Paced
<1> QED BY <1>0, <1>2, <1>4, <1>5, <1>6 DEF Same, Heard, Steady

\* Filling.
Fills(h, d) ==
  h = [k \in 0..(IF PrefillSpace(d) < DvPrefill THEN PrefillSpace(d) ELSE DvPrefill) |->
        IF k = 0 THEN d
        ELSE IF Full(h[k - 1]) /\ d.kind # "rtnull" THEN WriteDevice(Plays(h[k - 1]), 0) ELSE WriteDevice(h[k - 1], 0)]
LEMMA FilledBy ==
  ASSUME NEW d
  PROVE  \E h, n : /\ n \in Nat /\ n <= DvSpace /\ (n = 0) = (d.dir = "read" \/ d.kind = "arts")
                   /\ Repeats(h, "fill", d.kind, d, n) /\ Prefilled(d) = h[n]
<1>1. PICK n : n = IF PrefillSpace(d) < DvPrefill THEN PrefillSpace(d) ELSE DvPrefill
  OBVIOUS
<1>2. n \in Nat /\ n <= DvSpace /\ (n = 0) = (d.dir = "read" \/ d.kind = "arts")
  BY <1>1, DvAssumption DEF PrefillSpace
<1>3. \A h : Fills(h, d) <=> Repeats(h, "fill", d.kind, d, n)
  BY <1>1 DEF Fills, Repeats, Repeated
<1>4. \E h : Fills(h, d)
  BY <1>2, <1>3, RepeatExists
<1>5. PICK h : h = (CHOOSE g : Fills(g, d))
  OBVIOUS
<1>6. Fills(h, d)
  BY <1>4, <1>5
<1>7. Prefilled(d) = (CHOOSE g : Fills(g, d))[IF PrefillSpace(d) < DvPrefill THEN PrefillSpace(d) ELSE DvPrefill]
  BY Zenon DEF Prefilled, Fills
<1>8. Prefilled(d) = h[n]
  BY <1>1, <1>5, <1>7
<1> QED BY <1>2, <1>3, <1>6, <1>8

\* The null device transfers.
LEMMA NullTransfers ==
  ASSUME NEW d \in Device
  PROVE  LET q == NullTransfer(d) IN
         /\ Outer(d, q) /\ Heard(d, q) /\ q.done = d.done + 1 /\ q.began = d.began
         /\ q.opened = d.opened /\ q.running = d.running /\ q.request = d.request
         /\ q.hw = d.hw /\ q.queue = d.queue /\ q.xruns \in {d.xruns, d.xruns + 1}
<1>1. PICK e, x : /\ e = d.done + 1
                  /\ x = (IF d.running /\ NullAvailable(d) > DvSpace THEN d.xruns + 1 ELSE d.xruns)
  OBVIOUS
<1>2. e \in Nat /\ x \in Nat /\ x \in {d.xruns, d.xruns + 1}
  <2>1. d.done \in Nat /\ d.xruns \in Nat
    BY DEF Device
  <2> QED BY <1>1, <2>1
<1>3. PICK q : q = SetDone(d, e, x)
  OBVIOUS
<1>4. /\ Outer(d, q) /\ Heard(d, q) /\ q.done = e /\ q.xruns = x
      /\ q.began = d.began /\ q.opened = d.opened /\ q.running = d.running
      /\ q.request = d.request /\ q.hw = d.hw /\ q.queue = d.queue
  BY ONLY d \in Device, <1>2, <1>3, DoneSet
<1>5. NullTransfer(d) = q
  BY <1>1, <1>3 DEF NullTransfer, SetDone
<1> QED BY <1>1, <1>2, <1>4, <1>5

\* A device that is being filled: so many blocks of silence.
Fillable(p) ==
  /\ Open(p) /\ p.request = FALSE /\ p.running = FALSE /\ p.queue = <<>>
  /\ p.kind = "alsa" => p.hw = "prepared"
  /\ p.kind = "rtnull" => p.done = 0
Filling(p, x, k) ==
  /\ Outer(p, x) /\ Heard(p, x) /\ x.began = p.began /\ x.opened = p.opened
  /\ x.running = p.running /\ x.request = FALSE /\ x.hw = p.hw
  /\ IF p.kind = "rtnull" THEN x.queue = <<>> /\ x.done = k
     ELSE Len(x.queue) = k /\ Silent(x.queue)

\* One buffer of silence more waits after each.
LEMMA FillStep ==
  ASSUME NEW p, Fillable(p), p.dir = "write", NEW x, NEW k \in Nat, k < DvSpace, Filling(p, x, k)
  PROVE  Filling(p, Repeated("fill", p.kind, x), k + 1)
<1>1. /\ x \in Device /\ x.kind = p.kind /\ x.dir = "write" /\ x.hw = p.hw /\ x.fault = FALSE
      /\ x.queue \in Seq(Nat) /\ Open(x) /\ DvSpace \in Nat
      /\ p.kind \in {"alsa", "oss", "arts", "rtnull"}
  <2>1. x \in Device /\ x.kind = p.kind /\ x.dir = "write" /\ x.hw = p.hw /\ x.fault = p.fault
    BY DEF Filling, Outer, Heard
  <2>2. p.fault = FALSE /\ p.hw # "none" /\ p.kind \in {"alsa", "oss", "arts", "rtnull"}
    BY DEF Fillable, Open, Device
  <2> QED BY <2>1, <2>2, DvAssumption DEF Open, Device
<1>2. Repeated("fill", p.kind, x) = WriteDevice(x, 0)
  <2>1. p.kind = "rtnull" \/ ~Full(x)
    BY <1>1 DEF Filling, Full
  <2> QED BY <2>1 DEF Repeated
<1>3. CASE p.kind = "rtnull"
  <2>1. PICK q : q = NullTransfer(x)
    OBVIOUS
  <2>2. /\ Outer(x, q) /\ Heard(x, q) /\ q.done = x.done + 1 /\ q.began = x.began
        /\ q.opened = x.opened /\ q.running = x.running /\ q.request = x.request
        /\ q.hw = x.hw /\ q.queue = x.queue
    BY <1>1, <2>1, NullTransfers
  <2>3. WriteDevice(x, 0) = q
    BY <1>1, <1>3, <2>1 DEF WriteDevice
  <2>4. Outer(p, q) /\ Heard(p, q)
    BY <2>2 DEF Filling, Outer, Heard
  <2> QED BY <1>2, <1>3, <2>2, <2>3, <2>4 DEF Filling
<1>4. ASSUME NEW q, Same(x, q), q.opened = x.opened, q.running = x.running, q.request = FALSE,
             q.hw = x.hw, q.queue = Append(x.queue, 0), WriteDevice(x, 0) = q, p.kind # "rtnull"
      PROVE  Filling(p, WriteDevice(x, 0), k + 1)
  <2>1. Len(x.queue) = k /\ Silent(x.queue)
    BY <1>4 DEF Filling
  <2>2. Len(q.queue) = k + 1 /\ Silent(q.queue)
    BY <1>1, <1>4, <2>1, MoreSilence, Appends
  <2>3. Outer(p, q) /\ Heard(p, q) /\ q.began = p.began
    BY <1>4 DEF Filling, Same, Outer, Heard, Paced
  <2> QED BY <1>4, <2>2, <2>3 DEF Filling
<1>5. CASE p.kind = "alsa"
  <2>1. PICK q : q = AlsaWrite(x, 0)
    OBVIOUS
  <2>2. x.request = FALSE /\ x.hw = "prepared" /\ x.running = FALSE
    BY <1>1, <1>5 DEF Filling, Fillable
  <2>3. Same(x, q) /\ (Written(x, q, 0) \/ Resumed(x, q, 0) \/ GivenUp(x, q))
    BY <1>1, <2>1, <2>2, AlsaWrites
  <2>4. /\ q.opened = x.opened /\ q.running = x.running /\ q.request = FALSE
        /\ q.hw = x.hw /\ q.queue = Append(x.queue, 0)
    BY <2>2, <2>3 DEF Written, Resumed, GivenUp
  <2>5. WriteDevice(x, 0) = q
    BY <1>1, <1>5, <2>1 DEF WriteDevice
  <2> QED BY <1>2, <1>4, <1>5, <2>3, <2>4, <2>5
<1>6. CASE p.kind \in {"oss", "arts"}
  <2>1. PICK q : q = Give(x, 0)
    OBVIOUS
  <2>2. Becomes(x, q, x.hw, Append(x.queue, 0))
    BY <1>1, <2>1, Gives
  <2>3. /\ Same(x, q) /\ q.opened = x.opened /\ q.running = x.running /\ q.request = FALSE
        /\ q.hw = x.hw /\ q.queue = Append(x.queue, 0)
    BY <2>2 DEF Becomes, Filling
  <2>4. WriteDevice(x, 0) = q
    BY <1>1, <1>6, <2>1 DEF WriteDevice
  <2> QED BY <1>2, <1>4, <1>6, <2>3, <2>4
<1> QED BY <1>1, <1>3, <1>5, <1>6

\* A start fills the device with silence, up to its space and only to play.
LEMMA Prefills ==
  ASSUME NEW p, Fillable(p)
  PROVE  \E n \in Nat : /\ n <= DvSpace /\ (n = 0) = (p.dir = "read" \/ p.kind = "arts")
                        /\ Filling(p, Prefilled(p), n)
                        /\ n = 0 => Prefilled(p) = p
<1>1. PICK h, n : /\ n \in Nat /\ n <= DvSpace /\ (n = 0) = (p.dir = "read" \/ p.kind = "arts")
                  /\ Repeats(h, "fill", p.kind, p, n) /\ Prefilled(p) = h[n]
  BY FilledBy
<1>2. h[0] = p /\ \A i \in 0..n-1 : h[i + 1] = Repeated("fill", p.kind, h[i])
  BY <1>1, RepeatStep
<1>3. Filling(p, p, 0)
  <2>1. p \in Device /\ p.queue = <<>> /\ p.request = FALSE /\ (p.kind = "rtnull" => p.done = 0)
    BY DEF Fillable, Open
  <2>2. Outer(p, p) /\ Heard(p, p)
    BY <2>1 DEF Outer, Heard
  <2>3. Len(p.queue) = 0 /\ Silent(p.queue)
    BY <2>1 DEF Silent
  <2> QED BY <2>1, <2>2, <2>3 DEF Filling
<1>4. CASE n = 0
  BY <1>1, <1>2, <1>3, <1>4
<1>5. CASE n # 0
  <2> DEFINE T == {i \in 0..n : Filling(p, h[i], i)}
  <2>1. 0 \in T
    BY <1>1, <1>2, <1>3
  <2>2. p.dir = "write"
    BY <1>1, <1>5 DEF Fillable, Open, Device
  <2>3. ASSUME NEW i \in 0..n-1, i \in T PROVE i + 1 \in T
    <3>1. i \in Nat /\ i < DvSpace /\ i + 1 \in 0..n
      BY <1>1, DvAssumption
    <3>2. PICK x : x = h[i]
      OBVIOUS
    <3>3. Filling(p, x, i)
      BY <2>3, <3>2
    <3>4. Filling(p, Repeated("fill", p.kind, x), i + 1)
      BY <2>2, <3>1, <3>3, FillStep
    <3> QED BY <1>2, <3>1, <3>2, <3>4
  <2> HIDE DEF T
  <2>4. 0..n \subseteq T
    BY <1>1, <2>1, <2>3, Induct
  <2>5. n \in T
    BY <1>1, <2>4
  <2>6. Filling(p, h[n], n)
    BY <2>5 DEF T
  <2> QED BY <1>1, <1>5, <2>6
<1> QED BY <1>4, <1>5

\* Before it is filled.
LEMMA PreparesOnly ==
  ASSUME NEW d, Open(d), d.request = FALSE, d.running = FALSE, d.queue = <<>>
  PROVE  LET p == PrepareOnly(d) IN
         /\ Fillable(p) /\ Outer(d, p) /\ Heard(d, p) /\ p.began = d.began /\ p.opened = d.opened
         /\ p.xruns = d.xruns /\ p.hw = (IF d.kind = "alsa" THEN "prepared" ELSE d.hw)
<1>0. d.kind \in {"alsa", "oss", "arts", "rtnull"} /\ d \in Device
  BY DEF Open, Device
<1>1. CASE d.kind = "alsa"
  <2>1. PICK p : p = AlsaPrepare(d)
    OBVIOUS
  <2>2. /\ Same(d, p) /\ Open(p) /\ p.hw = "prepared" /\ p.queue = <<>> /\ p.opened = d.opened
        /\ p.running = d.running /\ p.request = d.request /\ p.xruns = d.xruns
    BY <2>1, AlsaPrepares
  <2>3. PrepareOnly(d) = p
    BY <1>1, <2>1 DEF PrepareOnly
  <2>4. p.kind = "alsa"
    BY <1>1, <2>2 DEF Same, Outer
  <2>5. Fillable(p)
    BY <2>2, <2>4 DEF Fillable
  <2> QED BY <1>1, <2>2, <2>3, <2>5 DEF Same, Paced
<1>2. CASE d.kind = "rtnull"
  <2>1. PICK y \in BOOLEAN : y = TRUE
    OBVIOUS
  <2>2. PICK z \in Nat : z = 0
    OBVIOUS
  <2>3. PICK p : p = SetAfresh(d, y, z)
    OBVIOUS
  <2>4. /\ Outer(d, p) /\ Heard(d, p) /\ Steady(d, p) /\ p.done = z
        /\ p.began = d.began /\ p.hw = d.hw /\ p.queue = d.queue
    BY ONLY <1>0, y \in BOOLEAN, z \in Nat, <2>3, AfreshSet
  <2>5. PrepareOnly(d) = p
    BY <1>2, <2>1, <2>2, <2>3 DEF PrepareOnly, NullPrepare, SetAfresh
  <2>6. Open(p)
    BY <2>4 DEF Open, Outer, Heard
  <2>7. Fillable(p)
    BY <1>2, <2>2, <2>4, <2>6 DEF Fillable, Outer, Steady
  <2> QED BY <1>2, <2>4, <2>5, <2>7 DEF Steady
<1>3. CASE d.kind \notin {"alsa", "rtnull"}
  <2>1. PICK y \in BOOLEAN : y = TRUE
    OBVIOUS
  <2>2. PICK r : r = d.running
    OBVIOUS
  <2>3. r \in BOOLEAN
    BY <2>2 DEF Device, Open
  <2>4. PICK p : p = SetBelief(d, r, y)
    OBVIOUS
  <2>5. /\ Same(d, p) /\ p.running = r /\ p.prepared = y /\ p.opened = d.opened
        /\ p.hw = d.hw /\ p.queue = d.queue /\ p.request = d.request /\ p.xruns = d.xruns
    BY ONLY <1>0, y \in BOOLEAN, <2>3, <2>4, BeliefSet
  <2>6. PrepareOnly(d) = p
    <3>1. [d EXCEPT !.running = d.running, !.prepared = TRUE] = [d EXCEPT !.prepared = TRUE]
      BY <1>0 DEF Device
    <3> QED BY <1>3, <2>1, <2>2, <2>4, <3>1 DEF PrepareOnly, SetBelief
  <2>7. Open(p)
    BY <2>5 DEF Open, Same, Outer, Heard
  <2>8. Fillable(p)
    BY <1>3, <2>2, <2>5, <2>7 DEF Fillable, Same, Outer
  <2> QED BY <1>3, <2>5, <2>6, <2>8 DEF Same, Paced
<1> QED BY <1>1, <1>2, <1>3

-----------------------------------------------------------------------------
(* The calls of the engine keep all of it.                                 *)

\* The fields of a device, for the steps that need no more of it.
LEMMA Kinds ==
  ASSUME NEW d \in Device
  PROVE  /\ d.kind \in {"alsa", "oss", "arts", "rtnull"} /\ d.dir \in {"read", "write"}
         /\ d.phase \in {"off", "prepared", "on"} /\ d.hw \in Hardware /\ d.queue \in Seq(Nat)
         /\ d.running \in BOOLEAN /\ d.request \in BOOLEAN /\ d.opened \in BOOLEAN /\ d.used \in BOOLEAN
         /\ d.lost \in BOOLEAN /\ d.fault \in BOOLEAN /\ d.ignore \in BOOLEAN /\ d.drained \in BOOLEAN
         /\ d.trigger \in BOOLEAN
         /\ d.last \in Nat /\ d.now \in Nat /\ d.sent \in Nat /\ d.xruns \in Nat /\ d.known \in Nat
         /\ d.began \in Nat /\ d.done \in Nat
  BY DEF Device

\* An open handle of a device that is sound may be called.
LEMMA SafeOpen ==
  ASSUME NEW d, Safe(d), d.opened
  PROVE  Open(d)
BY DEF Safe, Belief, Open

\* What the conditions are about, when the rest of the device changes.
LEMMA SafeSame ==
  ASSUME NEW d, Safe(d), NEW i \in Nat, NEW q, q = SetSteps(d, i)
  PROVE  Safe(q)
<1>1. d \in Device
  BY DEF Safe
<1>2. /\ Outer(d, q) /\ Heard(d, q) /\ Paced(d, q) /\ Steady(d, q)
      /\ q.hw = d.hw /\ q.queue = d.queue
  BY ONLY <1>1, i \in Nat, q = SetSteps(d, i), StepsSet
<1>3. q \in Device
  BY <1>2 DEF Outer
<1>4. Belief(q) /\ Room(q)
  BY <1>2 DEF Safe, Belief, Room, Outer, Heard, Steady
<1>5. Place(q)
  <2>1. AlsaPlace(d) => AlsaPlace(q)
    BY <1>2 DEF AlsaPlace, Outer, Steady
  <2>2. FreePlace(d) => FreePlace(q)
    BY <1>2 DEF FreePlace, SelfStarting, Outer, Steady
  <2>3. NullPlace(d) => NullPlace(q)
    BY <1>2 DEF NullPlace, NullAvailable, Outer, Heard, Paced
  <2> QED BY <1>2, <2>1, <2>2, <2>3 DEF Safe, Place, Outer
<1>6. WriteOrder(q)
  BY <1>2 DEF Safe, WriteOrder, Outer, Heard
<1>7. ReadOrder(q)
  BY <1>2 DEF Safe, ReadOrder, Outer, Heard, Steady
<1> QED BY <1>3, <1>4, <1>5, <1>6, <1>7 DEF Safe

\* Opening.
LEMMA OpenSafe ==
  ASSUME NEW d, Safe(d), d.phase = "off", ~d.opened
  PROVE  Safe([d EXCEPT !.opened = TRUE, !.hw = "setup", !.used = FALSE])
<1>0. PICK y \in BOOLEAN : y = TRUE
  OBVIOUS
<1>1. PICK n \in BOOLEAN : n = FALSE
  OBVIOUS
<1>2. PICK h \in Hardware : h = "setup"
  BY DEF Hardware
<1>3. d \in Device
  BY DEF Safe
<1>4. PICK q : q = SetOpened(d, y, h, n)
  OBVIOUS
<1>5. /\ q \in Device /\ Heard(d, q) /\ Paced(d, q)
      /\ q.opened = y /\ q.hw = h /\ q.used = n
      /\ q.kind = d.kind /\ q.dir = d.dir /\ q.ignore = d.ignore /\ q.trigger = d.trigger
      /\ q.sent = d.sent /\ q.phase = d.phase /\ q.drained = d.drained /\ q.running = d.running
      /\ q.request = d.request /\ q.xruns = d.xruns /\ q.queue = d.queue
  BY ONLY <1>3, <1>4, y \in BOOLEAN, h \in Hardware, n \in BOOLEAN, OpenedSet
<1>6. d.queue = <<>>
  BY DEF Safe, Belief, Room
<1>7. Belief(q) /\ Room(q)
  BY <1>0, <1>2, <1>5 DEF Safe, Belief, Room, Heard
<1>8. Place(q)
  BY <1>1, <1>2, <1>3, <1>5, <1>6, Kinds DEF Place, AlsaPlace, FreePlace, NullPlace
<1>9. WriteOrder(q)
  <2>1. d.hw = "none"
    BY DEF Safe, Belief
  <2> QED BY <1>5, <2>1 DEF Safe, WriteOrder, Heard
<1>10. ReadOrder(q)
  BY <1>2, <1>5 DEF Safe, ReadOrder, Heard
<1>11. Safe(q)
  BY <1>5, <1>7, <1>8, <1>9, <1>10 DEF Safe
<1> QED BY <1>0, <1>1, <1>2, <1>4, <1>11 DEF SetOpened

\* Preparing.
LEMMA PrepareSafe ==
  ASSUME NEW d, Safe(d), d.phase = "off", d.opened, ~d.running,
         ~d.used \/ d.kind \in {"alsa", "rtnull"}
  PROVE  Safe([PrepareDevice(d) EXCEPT !.phase = "prepared", !.drained = FALSE])
<1>1. /\ d \in Device /\ Open(d) /\ d.request = FALSE /\ d.running = FALSE /\ d.queue = <<>>
  <2>1. d \in Device
    BY DEF Safe
  <2>2. d.request = FALSE /\ d.running = FALSE
    BY <2>1, Kinds DEF Safe, Belief
  <2>3. d.queue = <<>>
    BY <2>1, Kinds DEF Safe, Place, AlsaPlace, FreePlace, NullPlace
  <2> QED BY <2>1, <2>2, <2>3, SafeOpen
<1>2. PICK p : p = PrepareOnly(d)
  OBVIOUS
<1>3. /\ Fillable(p) /\ Outer(d, p) /\ Heard(d, p) /\ p.began = d.began /\ p.opened = d.opened
      /\ p.xruns = d.xruns /\ p.hw = (IF d.kind = "alsa" THEN "prepared" ELSE d.hw)
  BY <1>1, <1>2, PreparesOnly
<1>4. PICK n \in Nat : /\ n <= DvSpace /\ (n = 0) = (p.dir = "read" \/ p.kind = "arts")
                       /\ Filling(p, Prefilled(p), n)
                       /\ n = 0 => Prefilled(p) = p
  BY <1>3, Prefills
<1>5. PICK x : x = Prefilled(p)
  OBVIOUS
<1>6. Filling(p, x, n) /\ (n = 0 => x = p)
  BY <1>4, <1>5
<1>7. /\ Outer(d, x) /\ Heard(d, x) /\ x.began = d.began /\ x.opened = d.opened
      /\ x.running = FALSE /\ x.request = FALSE /\ x.hw = p.hw
      /\ (n = 0) = (d.dir = "read" \/ d.kind = "arts")
      /\ IF d.kind = "rtnull" THEN x.queue = <<>> /\ x.done = n
         ELSE Len(x.queue) = n /\ Silent(x.queue)
  BY <1>3, <1>4, <1>6 DEF Fillable, Filling, Outer, Heard
<1>8. PICK f \in {"off", "prepared", "on"} : f = "prepared"
  OBVIOUS
<1>9. PICK no \in BOOLEAN : no = FALSE
  OBVIOUS
<1>10. PICK q : q = SetReady(x, f, no)
  OBVIOUS
<1>11. x \in Device
  BY <1>7 DEF Outer
<1>12. /\ q \in Device /\ Heard(x, q) /\ Paced(x, q) /\ Steady(x, q)
       /\ q.phase = f /\ q.drained = no
       /\ q.kind = x.kind /\ q.dir = x.dir /\ q.ignore = x.ignore /\ q.trigger = x.trigger
       /\ q.sent = x.sent /\ q.used = x.used /\ q.hw = x.hw /\ q.queue = x.queue
  BY ONLY <1>8, <1>9, <1>10, <1>11, ReadySet
<1>13. Belief(q)
  <2>1. /\ ~q.lost /\ ~q.fault /\ q.opened /\ q.hw # "none"
    <3>1. ~d.lost /\ ~d.fault /\ d.opened /\ d.hw # "none"
      BY <1>1 DEF Safe, Belief, Open
    <3>2. q.lost = d.lost /\ q.fault = d.fault
      BY <1>7, <1>12 DEF Heard
    <3>3. q.opened = d.opened
      BY <1>7, <1>12 DEF Steady
    <3>4. q.hw # "none"
      BY <1>3, <1>7, <1>12, <3>1
    <3> QED BY <3>1, <3>2, <3>3, <3>4
  <2>2. q.running = FALSE /\ q.request = FALSE /\ q.phase = "prepared" /\ ~q.drained
    BY <1>7, <1>8, <1>9, <1>12 DEF Steady
  <2>3. q.kind # "alsa" => q.ignore
    BY <1>7, <1>12 DEF Safe, Belief, Outer
  <2>4. (q.hw # "none") = q.opened
    BY <2>1, <1>12, Kinds
  <2> QED BY <2>1, <2>2, <2>3, <2>4 DEF Belief
<1>14. Len(x.queue) <= DvSpace /\ x.queue \in Seq(Nat)
  <2>1. Len(x.queue) \in {0, n}
    BY <1>7
  <2> QED BY <1>4, <1>11, <2>1, DvAssumption, Kinds
<1>15. Room(q)
  BY <1>12, <1>13, <1>14, <1>7 DEF Room, Belief, Steady
<1>16. (x.queue = <<>>) = (Len(x.queue) = 0)
  BY <1>14, EmptySeq
<1>17. Place(q)
  <2>1. q.phase = "prepared" /\ q.queue = x.queue /\ q.kind = d.kind /\ q.dir = d.dir /\ q.used = d.used
        /\ q.hw = (IF d.kind = "alsa" THEN "prepared" ELSE d.hw)
    BY <1>3, <1>7, <1>8, <1>12 DEF Outer
  <2>2. CASE d.kind = "alsa"
    BY <1>7, <1>16, <2>1, <2>2 DEF Place, AlsaPlace
  <2>3. CASE d.kind = "rtnull"
    <3>1. q.queue = <<>> /\ q.done = n /\ q.hw \in {"none", "setup"}
      BY <1>7, <1>12, <2>1, <2>3 DEF Safe, Place, NullPlace, Paced
    <3>2. NullPlace(q)
      BY <1>4, <1>7, <2>1, <3>1 DEF NullPlace
    <3> QED BY <2>1, <2>3, <3>2 DEF Place
  <2>4. CASE d.kind \notin {"alsa", "rtnull"}
    <3>1. FreePlace(d)
      BY <1>1, <2>4, Kinds DEF Safe, Place
    <3>2. q.hw = "setup" /\ ~q.used
      BY <1>1, <2>1, <2>4, <3>1 DEF FreePlace, Open
    <3>3. d.dir = "read" => q.queue = <<>>
      BY <1>7, <1>16, <2>1, <2>4
    <3>4. FreePlace(q)
      BY <2>1, <3>2, <3>3 DEF FreePlace
    <3> QED BY <1>1, <2>1, <2>4, <3>4, Kinds DEF Place
  <2> QED BY <2>2, <2>3, <2>4
<1>18. WriteOrder(q)
  <2>1. SUFFICES ASSUME d.dir = "write", d.kind # "rtnull"
                 PROVE  InOrder(q.queue, q.last, q.sent)
    BY <1>7, <1>12 DEF WriteOrder, Outer
  <2>2. d.last = d.sent
    <3>1. d.hw # "suspended"
      BY <1>1, Kinds DEF Safe, Place, AlsaPlace, FreePlace, NullPlace
    <3> QED BY <1>1, <2>1, <3>1, NoneWaiting, Kinds DEF Safe, WriteOrder
  <2>3. InOrder(x.queue, d.last, d.last)
    BY <1>1, <1>7, <1>14, <2>1, SilenceInOrder, Kinds
  <2> QED BY <1>7, <1>12, <2>2, <2>3 DEF Outer, Heard
<1>19. ReadOrder(q)
  <2>1. SUFFICES ASSUME d.dir = "read" PROVE ReadOrder(q)
    BY <1>7, <1>12 DEF ReadOrder, Outer
  <2>2. x = p
    BY <1>6, <1>7, <2>1
  <2>3. q.last = d.last /\ q.now = d.now /\ q.known = d.known /\ q.xruns = d.xruns
    BY <1>3, <1>12, <2>2 DEF Heard, Steady
  <2>4. q.hw # "running"
    BY <1>3, <1>8, <1>12, <1>17, <2>2, Kinds DEF Place, AlsaPlace, FreePlace, NullPlace
  <2> QED BY <2>1, <2>3, <2>4 DEF Safe, ReadOrder
<1>20. Safe(q)
  BY <1>12, <1>13, <1>15, <1>17, <1>18, <1>19 DEF Safe
<1>21. PrepareDevice(d) = x
  BY <1>2, <1>5 DEF PrepareDevice
<1> QED BY <1>8, <1>9, <1>10, <1>20, <1>21 DEF SetReady

\* Starting.
LEMMA Starts ==
  ASSUME NEW d, Open(d)
  PROVE  LET s == StartDevice(d) IN
         /\ Outer(d, s) /\ Heard(d, s) /\ s.opened = d.opened /\ s.running = TRUE
         /\ s.request = d.request /\ s.xruns = d.xruns /\ s.queue = d.queue /\ s.done = d.done
         /\ d.kind = "rtnull" => s.began = d.now /\ s.hw = d.hw
         /\ d.kind = "alsa" => s.hw = IF d.hw = "prepared" /\ (d.dir = "read" \/ d.queue # <<>>)
                                      THEN "running" ELSE d.hw
         /\ d.kind \in {"oss", "arts"} => s.hw = IF SelfStarting(d) THEN d.hw ELSE "running"
<1>0. d \in Device /\ d.kind \in {"alsa", "oss", "arts", "rtnull"} /\ d.hw \in Hardware /\ d.now \in Nat
  BY Kinds DEF Open
<1>1. PICK y \in BOOLEAN : y = TRUE
  OBVIOUS
<1>2. CASE d.kind = "alsa"
  <2>1. PICK s : s = AlsaStart(d)
    OBVIOUS
  <2>2. /\ Same(d, s) /\ s.queue = d.queue /\ s.opened = d.opened
        /\ s.hw = (IF d.hw = "prepared" /\ (d.dir = "read" \/ d.queue # <<>>) THEN "running" ELSE d.hw)
        /\ s.running = TRUE /\ s.request = d.request /\ s.xruns = d.xruns
    BY <2>1, AlsaStarts
  <2>3. StartDevice(d) = s
    BY <1>2, <2>1 DEF StartDevice
  <2> QED BY <1>2, <2>2, <2>3 DEF Same, Paced
<1>3. CASE d.kind = "rtnull"
  <2>1. PICK a \in Nat : a = d.now
    BY <1>0
  <2>2. PICK s : s = SetBegan(d, y, a)
    OBVIOUS
  <2>3. /\ Outer(d, s) /\ Heard(d, s) /\ s.running = y /\ s.began = a
        /\ s.done = d.done /\ s.opened = d.opened /\ s.request = d.request /\ s.xruns = d.xruns
        /\ s.hw = d.hw /\ s.queue = d.queue
    BY ONLY <1>0, y \in BOOLEAN, a \in Nat, <2>2, BeganSet
  <2>4. StartDevice(d) = s
    BY <1>1, <1>3, <2>1, <2>2 DEF StartDevice, NullStart, SetBegan
  <2> QED BY <1>1, <1>3, <2>1, <2>3, <2>4
<1>4. CASE d.kind \in {"oss", "arts"}
  <2>1. PICK h : h = IF SelfStarting(d) THEN d.hw ELSE "running"
    OBVIOUS
  <2>2. h \in Hardware
    BY <1>0, <2>1 DEF Hardware
  <2>3. PICK p : p = d.prepared
    OBVIOUS
  <2>4. p \in BOOLEAN
    BY <1>0, <2>3 DEF Device
  <2>5. PICK b, s : b = SetBelief(d, y, p) /\ s = SetState(b, h)
    OBVIOUS
  <2>6. b = SetBelief(d, y, p)
    BY <2>5
  <2>7. /\ Same(d, b) /\ b.running = y /\ b.prepared = p /\ b.opened = d.opened
        /\ b.hw = d.hw /\ b.queue = d.queue /\ b.request = d.request /\ b.xruns = d.xruns
    BY ONLY <1>0, y \in BOOLEAN, <2>4, <2>6, BeliefSet
  <2>8. b \in Device /\ s = SetState(b, h)
    BY <2>5, <2>7 DEF Same, Outer
  <2>9. /\ Outer(b, s) /\ Heard(b, s) /\ Paced(b, s) /\ Steady(b, s)
        /\ s.hw = h /\ s.queue = b.queue
    BY ONLY <2>2, <2>8, StateSet
  <2>10. OssStart(d) = s
    <3>1. [d EXCEPT !.running = TRUE, !.prepared = d.prepared] = [d EXCEPT !.running = TRUE]
      BY <1>0 DEF Device
    <3>2. b = [d EXCEPT !.running = TRUE]
      BY <1>1, <2>3, <2>5, <3>1 DEF SetBelief
    <3>3. [d EXCEPT !.running = TRUE, !.hw = h] = [[d EXCEPT !.running = TRUE] EXCEPT !.hw = h]
      OBVIOUS
    <3> QED BY <2>1, <2>5, <3>2, <3>3 DEF OssStart, SetState
  <2>11. StartDevice(d) = s
    BY <1>4, <2>10 DEF StartDevice
  <2>12. Outer(d, s) /\ Heard(d, s) /\ s.done = d.done
    BY <2>7, <2>9 DEF Same, Outer, Heard, Paced
  <2> QED BY <1>1, <1>4, <2>1, <2>7, <2>9, <2>11, <2>12 DEF Steady
<1> QED BY <1>0, <1>2, <1>3, <1>4

\* start() after prepare().
LEMMA StartSafe ==
  ASSUME NEW d, Safe(d), d.phase = "prepared"
  PROVE  Safe([StartDevice(d) EXCEPT !.phase = "on", !.used = TRUE, !.known = d.xruns,
                 !.last = IF d.dir = "read" THEN d.now ELSE @])
<1>1. d \in Device /\ Open(d) /\ d.opened /\ d.request = FALSE
  <2>1. d \in Device /\ d.opened
    BY DEF Safe, Belief
  <2>2. d.request = FALSE
    BY <2>1, Kinds DEF Safe, Belief
  <2> QED BY <2>1, <2>2, SafeOpen
<1>2. PICK s : s = StartDevice(d)
  OBVIOUS
<1>3. /\ Outer(d, s) /\ Heard(d, s) /\ s.opened = d.opened /\ s.running = TRUE
      /\ s.request = d.request /\ s.xruns = d.xruns /\ s.queue = d.queue /\ s.done = d.done
      /\ d.kind = "rtnull" => s.began = d.now /\ s.hw = d.hw
      /\ d.kind = "alsa" => s.hw = IF d.hw = "prepared" /\ (d.dir = "read" \/ d.queue # <<>>)
                                   THEN "running" ELSE d.hw
      /\ d.kind \in {"oss", "arts"} => s.hw = IF SelfStarting(d) THEN d.hw ELSE "running"
  BY <1>1, <1>2, Starts
<1>4. PICK f \in {"off", "prepared", "on"} : f = "on"
  OBVIOUS
<1>5. PICK y \in BOOLEAN : y = TRUE
  OBVIOUS
<1>6. PICK k \in Nat : k = d.xruns
  BY <1>1, Kinds
<1>7. PICK l \in Nat : l = IF d.dir = "read" THEN d.now ELSE s.last
  BY <1>1, <1>3, Kinds DEF Heard
<1>8. PICK q : q = SetStarted(s, f, y, k, l)
  OBVIOUS
<1>9. s \in Device
  BY <1>3 DEF Outer
<1>10. /\ q \in Device /\ Paced(s, q) /\ Steady(s, q)
       /\ q.phase = f /\ q.used = y /\ q.known = k /\ q.last = l
       /\ q.kind = s.kind /\ q.dir = s.dir /\ q.ignore = s.ignore /\ q.trigger = s.trigger
       /\ q.sent = s.sent /\ q.drained = s.drained /\ q.now = s.now /\ q.lost = s.lost
       /\ q.fault = s.fault /\ q.hw = s.hw /\ q.queue = s.queue
  <2>1. s \in Device /\ q = SetStarted(s, f, y, k, l)
    BY <1>8, <1>9
  <2>2. f \in {"off", "prepared", "on"} /\ y \in BOOLEAN /\ k \in Nat /\ l \in Nat
    OBVIOUS
  <2>3. StartedAs(s, q, f, y, k, l)
    BY ONLY <2>1, <2>2, StartedSet
  <2> QED BY ONLY <2>3 DEF StartedAs
<1>11. /\ q.kind = d.kind /\ q.dir = d.dir /\ q.trigger = d.trigger /\ q.ignore = d.ignore
       /\ q.queue = d.queue /\ q.hw = s.hw /\ q.phase = "on" /\ q.request = FALSE
       /\ q.now = d.now /\ q.sent = d.sent /\ q.xruns = d.xruns /\ q.done = d.done
       /\ q.running = TRUE /\ q.opened = d.opened /\ q.began = s.began
  BY <1>1, <1>3, <1>4, <1>10 DEF Outer, Heard, Paced, Steady
<1>12. q.hw # "none" /\ q.hw # "suspended" /\ (q.kind = "alsa" => q.hw = "running")
  <2>1. d.kind = "alsa" => q.hw = "running"
    BY <1>1, <1>3, <1>11, Kinds DEF Safe, Place, AlsaPlace
  <2>2. d.kind = "rtnull" => q.hw \in {"none", "setup"} /\ q.hw = d.hw
    BY <1>3, <1>11 DEF Safe, Place, NullPlace
  <2>3. d.kind \in {"oss", "arts"} => q.hw \in {"setup", "running"}
    BY <1>1, <1>3, <1>11 DEF Safe, Place, FreePlace
  <2> QED BY <1>1, <1>11, <2>1, <2>2, <2>3, Kinds DEF Open
<1>13. Belief(q)
  <2>1. ~q.lost /\ ~q.fault /\ ~q.drained
    BY <1>3, <1>10 DEF Safe, Belief, Outer, Heard
  <2>2. q.kind # "alsa" => q.ignore
    BY <1>11 DEF Safe, Belief
  <2> QED BY <1>1, <1>11, <1>12, <2>1, <2>2, <1>10, Kinds DEF Belief
<1>14. Room(q)
  BY <1>11, <1>12 DEF Safe, Room
<1>15. Place(q)
  <2>1. CASE d.kind = "alsa"
    BY <1>11, <1>12, <2>1 DEF Place, AlsaPlace
  <2>2. CASE d.kind = "rtnull"
    <3>1. /\ d.queue = <<>> /\ d.hw \in {"none", "setup"} /\ d.done <= DvSpace
          /\ (d.dir = "read" => d.done = 0)
      BY <2>2 DEF Safe, Place, NullPlace
    <3>2. q.began = q.now /\ q.hw = d.hw
      BY <1>3, <1>11, <2>2
    <3>3. NullAvailable(q) >= 0
      BY <1>1, <1>11, <3>1, <3>2, DvAssumption, Kinds DEF NullAvailable
    <3>4. NullPlace(q)
      BY <1>11, <3>1, <3>2, <3>3 DEF NullPlace
    <3> QED BY <1>11, <2>2, <3>4 DEF Place
  <2>3. CASE d.kind \in {"oss", "arts"}
    <3>1. q.used = TRUE
      BY <1>5, <1>10
    <3>2. SelfStarting(q) = SelfStarting(d)
      BY <1>11 DEF SelfStarting
    <3>3. d.hw = "setup"
      BY <2>3 DEF Safe, Place, FreePlace
    <3>4. FreePlace(q)
      BY <1>3, <1>11, <2>3, <3>1, <3>2, <3>3 DEF FreePlace
    <3> QED BY <1>11, <2>3, <3>4 DEF Place
  <2> QED BY <1>1, <2>1, <2>2, <2>3, Kinds
<1>16. WriteOrder(q)
  <2>1. SUFFICES ASSUME d.dir = "write", d.kind # "rtnull" PROVE InOrder(q.queue, q.last, q.sent)
    BY <1>11 DEF WriteOrder
  <2>2. d.hw # "suspended"
    BY <1>1, Kinds DEF Safe, Place, AlsaPlace, FreePlace, NullPlace
  <2>3. q.last = d.last
    BY <1>3, <1>7, <1>10, <2>1 DEF Heard
  <2> QED BY <1>11, <2>1, <2>2, <2>3 DEF Safe, WriteOrder
<1>17. ReadOrder(q)
  <2>1. SUFFICES ASSUME d.dir = "read" PROVE ReadOrder(q)
    BY <1>11 DEF ReadOrder
  <2>2. q.last = d.now /\ q.known = d.xruns
    BY <1>6, <1>7, <1>10, <2>1
  <2>3. d.queue = <<>>
    BY <1>1, <2>1, Kinds DEF Safe, Place, AlsaPlace, FreePlace, NullPlace
  <2>4. Tells(q.queue, 0, q.last) /\ Len(q.queue) = 0
    BY <1>1, <1>11, <2>2, <2>3, NoneWaiting, Kinds
  <2> QED BY <1>1, <1>11, <2>2, <2>4, Kinds DEF ReadOrder
<1>18. Safe(q)
  BY <1>10, <1>13, <1>14, <1>15, <1>16, <1>17 DEF Safe
<1>19. q = [s EXCEPT !.phase = "on", !.used = TRUE, !.known = d.xruns,
                     !.last = IF d.dir = "read" THEN d.now ELSE @]
  BY <1>4, <1>5, <1>6, <1>7, <1>8 DEF SetStarted
<1> QED BY <1>2, <1>18, <1>19

\* A device that is suspended.
LEMMA SuspendSafe ==
  ASSUME NEW d, Safe(d), d.kind = "alsa", d.hw = "running", ~d.ignore
  PROVE  Safe([d EXCEPT !.hw = "suspended", !.queue = <<>>])
<1>1. d \in Device /\ d.opened /\ ~d.request /\ d.phase = "on"
  <2>1. d \in Device /\ d.opened
    BY DEF Safe, Belief
  <2>2. d.phase = "on" /\ ~d.request
    BY <2>1, Kinds DEF Safe, Place, AlsaPlace
  <2> QED BY <2>1, <2>2
<1>2. PICK h, e : h = "suspended" /\ e = <<>>
  OBVIOUS
<1>3. h \in Hardware /\ e \in Seq(Nat)
  BY <1>2 DEF Hardware
<1>4. PICK q : q = SetHw(d, h, e)
  OBVIOUS
<1>5. /\ Same(d, q) /\ q.hw = h /\ q.queue = e /\ q.opened = d.opened /\ q.prepared = d.prepared
      /\ q.running = d.running /\ q.request = d.request /\ q.xruns = d.xruns
  <2>1. d \in Device /\ h \in Hardware /\ e \in Seq(Nat) /\ q = SetHw(d, h, e)
    BY <1>1, <1>3, <1>4
  <2> QED BY ONLY <2>1, HardwareSet
<1>6. /\ q \in Device /\ q.kind = "alsa" /\ q.dir = d.dir /\ q.phase = "on" /\ ~q.request
      /\ q.last = d.last /\ q.now = d.now /\ q.known = d.known /\ q.ignore = d.ignore
  BY <1>1, <1>5 DEF Same, Outer, Heard
<1>7. Belief(q)
  BY <1>1, <1>2, <1>5 DEF Safe, Belief, Same, Outer, Heard
<1>8. Room(q)
  <2>1. Len(q.queue) = 0
    BY <1>2, <1>5
  <2> QED BY <1>2, <1>5, <2>1, DvAssumption DEF Room
<1>9. Place(q)
  <2>1. q.hw = "suspended" /\ q.queue = <<>>
    BY <1>2, <1>5
  <2>2. AlsaPlace(q)
    BY <1>6, <2>1, Kinds DEF AlsaPlace
  <2> QED BY <1>6, <2>2 DEF Place
<1>10. WriteOrder(q)
  BY <1>2, <1>5 DEF WriteOrder
<1>11. ReadOrder(q)
  BY <1>2, <1>5, <1>6 DEF Safe, ReadOrder
<1>12. Safe(q)
  BY <1>6, <1>7, <1>8, <1>9, <1>10, <1>11 DEF Safe
<1> QED BY <1>2, <1>4, <1>12 DEF SetHw

\* Closing.
LEMMA Closes ==
  ASSUME NEW d, Open(d), d.running = FALSE, d.request = FALSE, d.kind = "rtnull" => d.queue = <<>>
  PROVE  LET q == CloseDevice(d) IN
         /\ Outer(d, q) /\ Heard(d, q) /\ Paced(d, q) /\ q.hw = "none" /\ q.queue = <<>>
         /\ q.opened = FALSE /\ q.running = FALSE /\ q.request = FALSE /\ q.xruns = d.xruns
<1>0. d \in Device /\ d.kind \in {"alsa", "oss", "arts", "rtnull"}
  BY Kinds DEF Open
<1>1. PICK no \in BOOLEAN : no = FALSE
  OBVIOUS
<1>2. PICK h, e : h = "none" /\ e = <<>>
  OBVIOUS
<1>3. h \in Hardware /\ e \in Seq(Nat)
  BY <1>2 DEF Hardware
<1>4. CASE d.kind = "alsa"
  <2>1. PICK q : q = AlsaClose(d)
    OBVIOUS
  <2>2. /\ Same(d, q) /\ q.hw = "none" /\ q.queue = <<>> /\ q.opened = FALSE
        /\ q.running = d.running /\ q.request = d.request /\ q.xruns = d.xruns
    BY <2>1, AlsaCloses
  <2>3. CloseDevice(d) = q
    BY <1>4, <2>1 DEF CloseDevice
  <2> QED BY <2>2, <2>3 DEF Same
<1>5. ASSUME NEW b \in Device, Same(d, b), b.running = FALSE, b.request = FALSE, b.xruns = d.xruns,
             NEW q, q = SetClosed(b, h, e, no)
      PROVE  /\ Outer(d, q) /\ Heard(d, q) /\ Paced(d, q) /\ q.hw = "none" /\ q.queue = <<>>
             /\ q.opened = FALSE /\ q.running = FALSE /\ q.request = FALSE /\ q.xruns = d.xruns
  <2>1. /\ Outer(b, q) /\ Heard(b, q) /\ Paced(b, q)
        /\ q.hw = h /\ q.queue = e /\ q.opened = no
        /\ q.running = b.running /\ q.request = b.request /\ q.xruns = b.xruns
    BY ONLY b \in Device, q = SetClosed(b, h, e, no), <1>3, no \in BOOLEAN, ClosedSet
  <2>2. Outer(d, q) /\ Heard(d, q) /\ Paced(d, q)
    BY <1>5, <2>1 DEF Same, Outer, Heard, Paced
  <2> QED BY <1>1, <1>2, <1>5, <2>1, <2>2
<1>6. Same(d, d)
  BY <1>0 DEF Same, Outer, Heard, Paced
<1>7. CASE d.kind = "oss"
  <2>1. PICK b, q : b = SetBelief(d, no, no) /\ q = SetClosed(b, h, e, no)
    OBVIOUS
  <2>2. b = SetBelief(d, no, no)
    BY <2>1
  <2>3. /\ Same(d, b) /\ b.running = no /\ b.prepared = no /\ b.opened = d.opened
        /\ b.hw = d.hw /\ b.queue = d.queue /\ b.request = d.request /\ b.xruns = d.xruns
    BY ONLY <1>0, no \in BOOLEAN, <2>2, BeliefSet
  <2>4. b \in Device
    BY <2>3 DEF Same, Outer
  <2>5. CloseDevice(d) = q
    BY <1>1, <1>2, <1>7, <2>1 DEF CloseDevice, OssClose, BaseStop, SetBelief, SetClosed
  <2> QED BY <1>1, <1>5, <2>1, <2>3, <2>4, <2>5
<1>8. CASE d.kind = "arts"
  <2>1. PICK q : q = SetClosed(d, h, e, no)
    OBVIOUS
  <2>2. CloseDevice(d) = q
    BY <1>1, <1>2, <1>8, <2>1 DEF CloseDevice, SetClosed
  <2> QED BY <1>0, <1>5, <1>6, <2>1, <2>2
<1>9. CASE d.kind = "rtnull"
  <2>1. PICK q : q = SetClosed(d, h, e, no)
    OBVIOUS
  <2>2. CloseDevice(d) = q
    <3>1. [d EXCEPT !.hw = "none", !.queue = d.queue, !.opened = FALSE] = [d EXCEPT !.hw = "none", !.opened = FALSE]
      BY <1>0 DEF Device
    <3>2. q = [d EXCEPT !.hw = "none", !.queue = d.queue, !.opened = FALSE]
      BY <1>1, <1>2, <1>9, <2>1 DEF SetClosed
    <3> QED BY <1>9, <3>1, <3>2 DEF CloseDevice
  <2> QED BY <1>0, <1>5, <1>6, <2>1, <2>2
<1> QED BY <1>0, <1>4, <1>7, <1>8, <1>9

\* close() of a stopped device.
LEMMA CloseSafe ==
  ASSUME NEW d, Safe(d), d.phase = "off", d.opened
  PROVE  Safe([CloseDevice(d) EXCEPT !.last = IF d.dir = "write" THEN d.sent ELSE @])
<1>1. d \in Device /\ Open(d) /\ d.running = FALSE /\ d.request = FALSE
  <2>1. d \in Device
    BY DEF Safe
  <2>2. d.running = FALSE /\ d.request = FALSE
    BY <2>1, Kinds DEF Safe, Belief
  <2> QED BY <2>1, <2>2, SafeOpen
<1>2. d.kind = "rtnull" => d.queue = <<>>
  BY DEF Safe, Place, NullPlace
<1>3. PICK s : s = CloseDevice(d)
  OBVIOUS
<1>4. /\ Outer(d, s) /\ Heard(d, s) /\ Paced(d, s) /\ s.hw = "none" /\ s.queue = <<>>
      /\ s.opened = FALSE /\ s.running = FALSE /\ s.request = FALSE /\ s.xruns = d.xruns
  BY <1>1, <1>2, <1>3, Closes
<1>5. PICK l \in Nat : l = IF d.dir = "write" THEN d.sent ELSE s.last
  BY <1>1, <1>4, Kinds DEF Heard
<1>6. PICK q : q = SetLast(s, l)
  OBVIOUS
<1>7. s \in Device
  BY <1>4 DEF Outer
<1>8. /\ Outer(s, q) /\ Paced(s, q) /\ Steady(s, q)
      /\ q.last = l
      /\ q.now = s.now /\ q.known = s.known /\ q.lost = s.lost /\ q.fault = s.fault
      /\ q.hw = s.hw /\ q.queue = s.queue
  BY ONLY l \in Nat, <1>6, <1>7, LastSet
<1>9. /\ q \in Device /\ q.kind = d.kind /\ q.dir = d.dir /\ q.phase = "off" /\ q.hw = "none"
      /\ q.queue = <<>> /\ q.ignore = d.ignore /\ q.used = d.used /\ q.sent = d.sent
      /\ q.drained = d.drained /\ q.now = d.now /\ q.known = d.known /\ q.xruns = d.xruns
      /\ q.opened = FALSE /\ q.running = FALSE /\ q.request = FALSE
      /\ q.lost = d.lost /\ q.fault = d.fault
  BY <1>4, <1>8 DEF Outer, Heard, Steady
<1>10. Belief(q)
  BY <1>9 DEF Safe, Belief
<1>11. Room(q)
  <2>1. Len(q.queue) = 0
    BY <1>9
  <2> QED BY <1>9, <2>1, DvAssumption DEF Room
<1>12. Place(q)
  BY <1>1, <1>9, Kinds DEF Place, AlsaPlace, FreePlace, NullPlace
<1>13. WriteOrder(q)
  BY <1>1, <1>5, <1>8, <1>9, NoneWaiting, Kinds DEF WriteOrder
<1>14. ReadOrder(q)
  <2>1. d.dir = "read" => q.last = d.last
    BY <1>4, <1>5, <1>8 DEF Heard
  <2> QED BY <1>9, <2>1 DEF Safe, ReadOrder
<1>15. Safe(q)
  BY <1>9, <1>10, <1>11, <1>12, <1>13, <1>14 DEF Safe
<1> QED BY <1>3, <1>5, <1>6, <1>15 DEF SetLast

\* Stopping: what a drain lets play is heard, and what is dropped is not missed.
LEMMA Stops ==
  ASSUME NEW d, Safe(d), d.phase = "on", ~d.request, NEW drain \in BOOLEAN
  PROVE  LET q == StopDevice(d, drain) IN
         /\ Outer(d, q) /\ Paced(d, q) /\ q.opened = TRUE /\ q.running = FALSE
         /\ q.request = FALSE /\ q.xruns = d.xruns /\ q.now = d.now /\ q.known = d.known
         /\ q.fault = FALSE /\ q.lost = FALSE
         /\ IF d.kind = "alsa" THEN q.hw = "setup" /\ q.queue = <<>> ELSE q.hw = d.hw /\ q.queue = d.queue
         /\ IF d.kind = "alsa" /\ d.dir = "write" /\ drain /\ d.hw # "suspended"
            THEN q.last = d.sent ELSE q.last = d.last
<1>1. /\ d \in Device /\ Open(d) /\ d.running = TRUE /\ d.request = FALSE /\ d.opened = TRUE
      /\ d.fault = FALSE /\ d.lost = FALSE
  <2>1. d \in Device /\ d.opened /\ ~d.fault /\ ~d.lost /\ d.running
    BY DEF Safe, Belief
  <2>2. /\ d.running = TRUE /\ d.request = FALSE /\ d.opened = TRUE /\ d.fault = FALSE /\ d.lost = FALSE
    BY <2>1, Kinds
  <2> QED BY <2>1, <2>2, SafeOpen
<1>2. CASE d.kind = "alsa" /\ ~(drain /\ d.dir = "write" /\ d.hw = "running")
  <2>1. PICK q : q = AlsaStop(d, FALSE)
    OBVIOUS
  <2>2. /\ Same(d, q) /\ Open(q) /\ q.hw = "setup" /\ q.queue = <<>> /\ q.opened = d.opened
        /\ q.running = FALSE /\ q.request = d.request /\ q.xruns = d.xruns
    BY <1>1, <2>1, AlsaStops
  <2>3. AlsaStop(d, drain) = q
    <3>1. CASE drain /\ d.dir = "write"
      <4>1. PcmDrain(d) = PcmDrop(d)
        BY <1>2, <3>1, DrainedBy
      <4>2. AlsaStop(d, drain) = BaseStop(PcmDrain(d))
        BY <3>1 DEF AlsaStop
      <4>3. AlsaStop(d, FALSE) = BaseStop(PcmDrop(d))
        BY DEF AlsaStop
      <4> QED BY <2>1, <4>1, <4>2, <4>3
    <3>2. CASE ~(drain /\ d.dir = "write")
      BY <2>1, <3>2 DEF AlsaStop
    <3> QED BY <3>1, <3>2
  <2>4. StopDevice(d, drain) = q
    BY <1>1, <1>2, <2>3 DEF StopDevice
  <2>5. d.dir = "write" /\ drain /\ d.hw # "suspended" => d.last = d.sent
    <3>1. SUFFICES ASSUME d.dir = "write", drain, d.hw # "suspended" PROVE d.last = d.sent
      OBVIOUS
    <3>2. d.hw = "xrun" /\ d.queue = <<>>
      BY <1>1, <1>2, <3>1 DEF Safe, Place, AlsaPlace
    <3>3. InOrder(d.queue, d.last, d.sent)
      BY <1>2, <3>1 DEF Safe, WriteOrder
    <3> QED BY <1>1, <3>2, <3>3, NoneWaiting, Kinds
  <2> QED BY <1>1, <1>2, <2>2, <2>4, <2>5 DEF Same, Heard
<1>3. CASE d.kind = "alsa" /\ drain /\ d.dir = "write" /\ d.hw = "running"
  <2>1. PICK q : q = AlsaStop(d, TRUE)
    OBVIOUS
  <2>2. InOrder(d.queue, d.last, d.sent) /\ Len(d.queue) <= DvSpace
    BY <1>3 DEF Safe, WriteOrder, Room
  <2>3. /\ Outer(d, q) /\ Paced(d, q) /\ q.hw = "setup" /\ q.queue = <<>> /\ q.opened = d.opened
        /\ q.running = FALSE /\ q.request = d.request /\ q.xruns = d.xruns
        /\ q.now = d.now /\ q.known = d.known /\ q.fault = FALSE /\ q.lost = FALSE
        /\ q.last = d.sent
    BY <1>1, <1>3, <2>1, <2>2, AlsaDrains
  <2>4. StopDevice(d, drain) = q
    <3>1. drain = TRUE
      BY <1>3
    <3> QED BY <1>1, <1>3, <2>1, <3>1 DEF StopDevice
  <2> QED BY <1>1, <1>3, <2>3, <2>4
<1>4. CASE d.kind # "alsa"
  <2>1. PICK no \in BOOLEAN : no = FALSE
    OBVIOUS
  <2>2. PICK q : q = SetBelief(d, no, no)
    OBVIOUS
  <2>3. /\ Same(d, q) /\ q.running = no /\ q.prepared = no /\ q.opened = d.opened
        /\ q.hw = d.hw /\ q.queue = d.queue /\ q.request = d.request /\ q.xruns = d.xruns
    <3>1. d \in Device /\ no \in BOOLEAN /\ q = SetBelief(d, no, no)
      BY <1>1, <2>2
    <3> QED BY ONLY <3>1, BeliefSet
  <2>4. StopDevice(d, drain) = q
    BY <1>1, <1>4, <2>1, <2>2 DEF StopDevice, BaseStop, SetBelief
  <2> QED BY <1>1, <1>4, <2>1, <2>3, <2>4 DEF Same, Heard
<1> QED BY <1>2, <1>3, <1>4

\* stop() of a running device, with or without a drain.
LEMMA StopSafe ==
  ASSUME NEW d, Safe(d), d.phase = "on", ~d.request, NEW drain \in BOOLEAN
  PROVE  Safe([StopDevice(d, drain) EXCEPT !.phase = "off", !.drained = drain /\ d.hw # "suspended",
                 !.last = IF (drain /\ d.hw # "suspended") \/ d.kind # "alsa" \/ d.dir = "read"
                          THEN @ ELSE d.sent])
<1>0. d \in Device
  BY DEF Safe
<1>1. PICK s : s = StopDevice(d, drain)
  OBVIOUS
<1>2. /\ Outer(d, s) /\ Paced(d, s) /\ s.opened = TRUE /\ s.running = FALSE
      /\ s.request = FALSE /\ s.xruns = d.xruns /\ s.now = d.now /\ s.known = d.known
      /\ s.fault = FALSE /\ s.lost = FALSE
      /\ IF d.kind = "alsa" THEN s.hw = "setup" /\ s.queue = <<>> ELSE s.hw = d.hw /\ s.queue = d.queue
      /\ IF d.kind = "alsa" /\ d.dir = "write" /\ drain /\ d.hw # "suspended"
         THEN s.last = d.sent ELSE s.last = d.last
  BY <1>1, Stops
<1>3. PICK f \in {"off", "prepared", "on"} : f = "off"
  OBVIOUS
<1>4. PICK z \in BOOLEAN : z = (drain /\ d.hw # "suspended")
  OBVIOUS
<1>5. PICK l : l = IF (drain /\ d.hw # "suspended") \/ d.kind # "alsa" \/ d.dir = "read"
                   THEN s.last ELSE d.sent
  OBVIOUS
<1>6. l \in Nat /\ s \in Device
  BY <1>0, <1>2, <1>5, Kinds DEF Outer
<1>7. PICK q : q = SetStopped(s, f, z, l)
  OBVIOUS
<1>8. /\ q \in Device /\ Paced(s, q) /\ Steady(s, q)
      /\ q.phase = f /\ q.drained = z /\ q.last = l
      /\ q.kind = s.kind /\ q.dir = s.dir /\ q.ignore = s.ignore /\ q.trigger = s.trigger
      /\ q.sent = s.sent /\ q.used = s.used /\ q.now = s.now /\ q.known = s.known
      /\ q.lost = s.lost /\ q.fault = s.fault /\ q.hw = s.hw /\ q.queue = s.queue
  <2>1. f \in {"off", "prepared", "on"} /\ z \in BOOLEAN
    OBVIOUS
  <2>2. s \in Device /\ l \in Nat /\ q = SetStopped(s, f, z, l)
    BY <1>6, <1>7
  <2>3. StoppedAs(s, q, f, z, l)
    BY ONLY <2>1, <2>2, StoppedSet
  <2> QED BY ONLY <2>3 DEF StoppedAs
<1>9. /\ q.kind = d.kind /\ q.dir = d.dir /\ q.ignore = d.ignore /\ q.trigger = d.trigger
      /\ q.phase = "off" /\ q.used = d.used /\ q.sent = d.sent /\ q.now = d.now
      /\ q.known = d.known /\ q.xruns = d.xruns /\ q.opened = TRUE /\ q.running = FALSE
      /\ q.request = FALSE /\ q.lost = FALSE /\ q.fault = FALSE /\ q.hw = s.hw /\ q.queue = s.queue
  BY <1>2, <1>3, <1>8 DEF Outer, Steady
<1>10. d.hw # "none" /\ q.hw # "none" /\ d.hw \in Hardware
  BY <1>0, <1>2, <1>9, Kinds DEF Safe, Belief
<1>11. Belief(q)
  BY <1>9, <1>10 DEF Safe, Belief
<1>12. Room(q)
  <2>1. Len(q.queue) <= DvSpace
    <3>1. CASE d.kind = "alsa"
      <4>1. Len(q.queue) = 0
        BY <1>2, <1>9, <3>1
      <4> QED BY <4>1, DvAssumption
    <3>2. CASE d.kind # "alsa"
      BY <1>2, <1>9, <3>2 DEF Safe, Room
    <3> QED BY <3>1, <3>2
  <2> QED BY <1>10, <2>1 DEF Room
<1>13. Place(q)
  <2>1. CASE d.kind = "alsa"
    <3>1. AlsaPlace(q)
      BY <1>2, <1>9, <2>1 DEF AlsaPlace
    <3> QED BY <1>9, <2>1, <3>1 DEF Place
  <2>2. CASE d.kind = "rtnull"
    <3>1. NullPlace(q)
      BY <1>2, <1>9, <2>2 DEF Safe, Place, NullPlace
    <3> QED BY <1>9, <2>2, <3>1 DEF Place
  <2>3. CASE d.kind \in {"oss", "arts"}
    <3>1. FreePlace(q)
      BY <1>2, <1>9, <2>3 DEF Safe, Place, FreePlace
    <3> QED BY <1>9, <2>3, <3>1 DEF Place
  <2> QED BY <1>0, <2>1, <2>2, <2>3, Kinds
<1>14. WriteOrder(q)
  <2>1. SUFFICES ASSUME d.dir = "write", d.kind # "rtnull" PROVE InOrder(q.queue, q.last, q.sent)
    BY <1>9 DEF WriteOrder
  <2>2. CASE d.kind = "alsa"
    <3>1. q.queue = <<>> /\ q.last = d.sent
      BY <1>2, <1>5, <1>8, <1>9, <2>1, <2>2
    <3> QED BY <1>0, <1>9, <3>1, NoneWaiting, Kinds
  <2>3. CASE d.kind # "alsa"
    <3>1. q.queue = d.queue /\ q.last = d.last
      BY <1>2, <1>5, <1>8, <1>9, <2>3
    <3>2. d.hw # "suspended"
      BY <1>0, <2>1, <2>3, Kinds DEF Safe, Place, FreePlace
    <3> QED BY <1>9, <2>1, <3>1, <3>2 DEF Safe, WriteOrder
  <2> QED BY <2>2, <2>3
<1>15. ReadOrder(q)
  <2>1. SUFFICES ASSUME d.dir = "read" PROVE ReadOrder(q)
    BY <1>9 DEF ReadOrder
  <2>2. q.last = d.last
    BY <1>2, <1>5, <1>8, <2>1
  <2>3. q.hw = "running" => d.hw = "running" /\ q.queue = d.queue
    BY <1>2, <1>9
  <2> QED BY <1>9, <2>1, <2>2, <2>3 DEF Safe, ReadOrder
<1>16. Safe(q)
  BY <1>8, <1>11, <1>12, <1>13, <1>14, <1>15 DEF Safe
<1>17. q = [s EXCEPT !.phase = "off", !.drained = drain /\ d.hw # "suspended",
                     !.last = IF (drain /\ d.hw # "suspended") \/ d.kind # "alsa" \/ d.dir = "read"
                              THEN @ ELSE d.sent]
  BY <1>3, <1>4, <1>5, <1>7 DEF SetStopped
<1> QED BY <1>1, <1>16, <1>17

\* Time passes, and nothing else.
LEMMA WaitSafe ==
  ASSUME NEW d, Safe(d), d.kind = "rtnull" \/ (d.dir = "read" /\ d.hw = "xrun")
  PROVE  Safe([d EXCEPT !.now = @ + 1])
<1>1. d \in Device
  BY DEF Safe
<1>2. PICK n \in Nat : n = d.now + 1
  BY <1>1, Kinds
<1>3. PICK q : q = SetNow(d, n)
  OBVIOUS
<1>4. /\ Outer(d, q) /\ Paced(d, q) /\ Steady(d, q)
      /\ q.now = n
      /\ q.last = d.last /\ q.known = d.known /\ q.lost = d.lost /\ q.fault = d.fault
      /\ q.hw = d.hw /\ q.queue = d.queue
  BY ONLY <1>1, <1>3, n \in Nat, NowSet
<1>5. q \in Device /\ Belief(q) /\ Room(q)
  BY <1>4 DEF Safe, Belief, Room, Outer, Steady
<1>6. Place(q)
  <2>1. d.kind = "alsa" => AlsaPlace(q)
    BY <1>4 DEF Safe, Place, AlsaPlace, Outer, Steady
  <2>2. d.kind \in {"oss", "arts"} => FreePlace(q)
    BY <1>4 DEF Safe, Place, FreePlace, SelfStarting, Outer, Steady
  <2>3. d.kind = "rtnull" => NullPlace(q)
    <3>1. SUFFICES ASSUME d.kind = "rtnull" PROVE NullPlace(q)
      OBVIOUS
    <3>2. NullPlace(d)
      BY <3>1 DEF Safe, Place
    <3>3. NullAvailable(q) = NullAvailable(d) + 1
      <4>1. q.dir = d.dir /\ q.began = d.began /\ q.done = d.done /\ q.now = d.now + 1
        BY <1>2, <1>4 DEF Outer, Paced
      <4>2. d.now \in Nat /\ d.began \in Nat /\ d.done \in Nat /\ DvSpace \in Nat
        BY <1>1, DvAssumption, Kinds
      <4> QED BY ONLY <4>1, <4>2 DEF NullAvailable
    <3>4. NullAvailable(d) \in Int
      BY <1>1, DvAssumption, Kinds DEF NullAvailable
    <3> QED BY <1>4, <3>2, <3>3, <3>4 DEF NullPlace, Outer, Paced
  <2>4. q.kind = d.kind
    BY <1>4 DEF Outer
  <2> QED BY <1>1, <2>1, <2>2, <2>3, <2>4, Kinds DEF Place
<1>7. WriteOrder(q)
  BY <1>4 DEF Safe, WriteOrder, Outer
<1>8. ReadOrder(q)
  <2>1. d.hw # "running"
    BY DEF Safe, Place, NullPlace
  <2> QED BY <1>1, <1>2, <1>4, <2>1, Kinds DEF Safe, ReadOrder, Outer, Steady
<1>9. Safe(q)
  BY <1>5, <1>6, <1>7, <1>8 DEF Safe
<1> QED BY <1>2, <1>3, <1>9 DEF SetNow

\* The hardware plays.
LEMMA PlaySafe ==
  ASSUME NEW d, Safe(d), d.opened, Moves(d), d.dir = "write", d.kind # "rtnull"
  PROVE  Safe(Plays(d))
<1>1. d \in Device /\ d.hw # "suspended" /\ InOrder(d.queue, d.last, d.sent)
  BY DEF Safe, Moves, WriteOrder
<1>2. CASE d.queue = <<>> /\ d.kind # "alsa"
  BY <1>2 DEF Plays
<1>3. CASE d.queue = <<>> /\ d.kind = "alsa"
  <2>1. d.hw = "running" /\ d.phase = "on"
    BY <1>1, <1>3, Kinds DEF Moves, SelfStarting, Safe, Place, AlsaPlace
  <2>2. PICK h \in Hardware : h = "xrun"
    BY DEF Hardware
  <2>3. PICK q : q = SetState(d, h)
    OBVIOUS
  <2>4. /\ Outer(d, q) /\ Heard(d, q) /\ Paced(d, q) /\ Steady(d, q)
        /\ q.hw = h /\ q.queue = d.queue
    BY ONLY <1>1, <2>3, h \in Hardware, StateSet
  <2>5. Plays(d) = q
    BY <1>3, <2>2, <2>3 DEF Plays, SetState
  <2>6. Belief(q) /\ Room(q)
    BY <2>1, <2>2, <2>4 DEF Safe, Belief, Room, Outer, Heard, Steady
  <2>7. Place(q)
    <3>1. AlsaPlace(d)
      BY <1>3 DEF Safe, Place
    <3>2. q.kind = "alsa" /\ q.phase = "on" /\ q.request = d.request /\ q.queue = <<>> /\ q.hw = "xrun"
      BY <1>3, <2>1, <2>2, <2>4 DEF Outer, Steady
    <3>3. AlsaPlace(q)
      BY <2>1, <3>1, <3>2 DEF AlsaPlace
    <3> QED BY <3>2, <3>3 DEF Place
  <2>8. WriteOrder(q) /\ ReadOrder(q)
    BY <1>1, <2>2, <2>4 DEF WriteOrder, ReadOrder, Outer, Heard
  <2> QED BY <2>4, <2>5, <2>6, <2>7, <2>8 DEF Safe, Outer
<1>4. CASE d.queue # <<>>
  <2>1. PICK q : q = Plays(d)
    OBVIOUS
  <2>2. /\ Outer(d, q) /\ Paced(d, q) /\ Steady(d, q)
        /\ q.queue = Tail(d.queue) /\ q.hw = d.hw /\ q.now = d.now /\ q.known = d.known
        /\ q.fault = d.fault
        /\ q.last = (IF Head(d.queue) = 0 THEN d.last ELSE Head(d.queue))
        /\ q.lost = (d.lost \/ Head(d.queue) \notin {0, d.last + 1})
    BY <1>1, <1>4, <2>1, PlaysOne
  <2>3. Head(d.queue) \in {0, d.last + 1} /\ InOrder(q.queue, q.last, d.sent)
    BY <1>1, <1>4, <2>2, HeardInOrder, Kinds
  <2>4. Belief(q)
    BY <2>2, <2>3 DEF Safe, Belief, Outer, Steady
  <2>5. Room(q)
    <3>1. Len(q.queue) = Len(d.queue) - 1 /\ Len(d.queue) \in Nat
      BY <1>1, <1>4, <2>2, Tails, Kinds
    <3>2. d.hw # "none"
      BY DEF Moves
    <3> QED BY <2>2, <3>1, <3>2, DvAssumption DEF Safe, Room
  <2>6. Place(q)
    <3>1. /\ q.kind = d.kind /\ q.phase = d.phase /\ q.dir = "write" /\ q.used = d.used
          /\ q.hw = d.hw /\ q.request = d.request /\ SelfStarting(q) = SelfStarting(d)
      BY <2>2 DEF Outer, Steady, SelfStarting
    <3>2. CASE d.kind = "alsa"
      <4>1. d.hw = "running" /\ d.phase = "on" /\ ~d.request
        BY <1>1, <3>2, Kinds DEF Moves, SelfStarting, Safe, Place, AlsaPlace
      <4>2. AlsaPlace(q)
        BY <1>1, <3>1, <4>1, Kinds DEF AlsaPlace
      <4> QED BY <3>1, <3>2, <4>2 DEF Place
    <3>3. CASE d.kind \in {"oss", "arts"}
      <4>1. FreePlace(d)
        BY <3>3 DEF Safe, Place
      <4>2. FreePlace(q)
        BY <1>4, <3>1, <4>1 DEF FreePlace
      <4> QED BY <3>1, <3>3, <4>2 DEF Place
    <3> QED BY <1>1, <3>2, <3>3, Kinds
  <2>7. WriteOrder(q) /\ ReadOrder(q)
    BY <2>2, <2>3 DEF WriteOrder, ReadOrder, Outer
  <2> QED BY <2>1, <2>2, <2>4, <2>5, <2>6, <2>7 DEF Safe, Outer
<1> QED BY <1>2, <1>3, <1>4

\* The hardware captures.
LEMMA CaptureSafe ==
  ASSUME NEW d, Safe(d), d.opened, Moves(d), d.dir # "write", d.kind # "rtnull",
         Full(d) => d.kind = "alsa"
  PROVE  Safe(Captures(d))
<1>1. d \in Device /\ d.hw = "running" /\ d.dir = "read"
  <2>1. d \in Device
    BY DEF Safe
  <2> QED BY <2>1, Kinds DEF Moves, SelfStarting
<1>2. /\ d.last <= d.now /\ d.known <= d.xruns /\ d.last + Len(d.queue) = d.now
      /\ Tells(d.queue, 0, d.last)
  BY <1>1 DEF Safe, ReadOrder
<1>3. PICK q : q = Captures(d)
  OBVIOUS
<1>4. /\ Outer(d, q) /\ Paced(d, q) /\ Steady(d, q)
      /\ q.now = d.now + 1 /\ q.last = d.last /\ q.known = d.known /\ q.lost = d.lost
      /\ q.fault = d.fault
      /\ IF Full(d) THEN q.queue = d.queue /\ q.hw = "xrun"
         ELSE q.queue = Append(d.queue, d.now + 1) /\ q.hw = "running"
  BY <1>1, <1>3, CapturesOne, Overruns
<1>5. /\ q.kind = d.kind /\ q.phase = d.phase /\ q.dir = "read" /\ q.used = d.used
      /\ q.request = d.request /\ q.xruns = d.xruns /\ q \in Device
  BY <1>1, <1>4 DEF Outer, Steady
<1>6. Belief(q)
  BY <1>1, <1>4 DEF Safe, Belief, Outer, Steady
<1>7. Room(q)
  <2>1. CASE Full(d)
    BY <1>4, <2>1 DEF Safe, Room
  <2>2. CASE ~Full(d)
    <3>1. d.queue \in Seq(Nat) /\ d.now + 1 \in Nat
      BY <1>1, Kinds
    <3>2. Len(q.queue) = Len(d.queue) + 1 /\ Len(d.queue) \in Nat
      BY <1>4, <2>2, <3>1, Appends
    <3> QED BY <1>4, <2>2, <3>2, DvAssumption DEF Full, Room
  <2> QED BY <2>1, <2>2
<1>8. Place(q)
  <2>1. CASE d.kind = "alsa"
    <3>1. d.phase = "on" /\ ~d.request
      BY <1>1, <2>1, Kinds DEF Safe, Place, AlsaPlace
    <3>2. AlsaPlace(q)
      BY <1>1, <1>4, <1>5, <3>1, Kinds DEF AlsaPlace
    <3> QED BY <1>5, <2>1, <3>2 DEF Place
  <2>2. CASE d.kind \in {"oss", "arts"}
    <3>1. FreePlace(d) /\ ~Full(d)
      BY <2>2 DEF Safe, Place
    <3>2. FreePlace(q)
      BY <1>1, <1>4, <1>5, <3>1 DEF FreePlace
    <3> QED BY <1>5, <2>2, <3>2 DEF Place
  <2> QED BY <1>1, <2>1, <2>2, Kinds
<1>9. WriteOrder(q)
  BY <1>5 DEF WriteOrder
<1>10. ReadOrder(q)
  <2>1. d.last \in Nat /\ d.now \in Nat /\ d.queue \in Seq(Nat)
    BY <1>1, Kinds
  <2>2. CASE Full(d)
    BY <1>2, <1>4, <1>5, <2>1, <2>2 DEF ReadOrder
  <2>3. CASE ~Full(d)
    <3>1. PICK s, n, l : s = d.queue /\ n = d.now + 1 /\ l = d.last
      OBVIOUS
    <3>2. /\ s \in Seq(Nat) /\ n \in Nat /\ l \in Nat /\ Tells(s, 0, l)
          /\ l + Len(s) + 1 = n
      BY <1>2, <2>1, <3>1
    <3>3. Len(s) \in Nat /\ Len(Append(s, n)) = Len(s) + 1
      BY <3>2, Appends
    <3>4. 0 \in 0..Len(s) /\ n = l + (Len(s) - 0) + 1
      BY <3>2, <3>3
    <3>5. Tells(Append(s, n), 0, l)
      BY <3>2, <3>4, AppendTells
    <3>6. q.queue = Append(s, n) /\ q.last = l /\ q.now = n
      BY <1>4, <2>3, <3>1
    <3>7. q.last + Len(q.queue) = q.now
      BY <3>2, <3>3, <3>6
    <3>8. q.last <= q.now /\ q.known <= q.xruns
      BY <1>2, <1>4, <1>5, <2>1
    <3> QED BY <3>5, <3>6, <3>7, <3>8 DEF ReadOrder
  <2> QED BY <2>2, <2>3
<1>11. Safe(q)
  BY <1>5, <1>6, <1>7, <1>8, <1>9, <1>10 DEF Safe
<1> QED BY <1>3, <1>11

\* After a transfer; a device that closed itself has finished.
Passed(x) ==
  [x EXCEPT !.phase = IF x.opened THEN "on" ELSE "off",
            !.last = IF x.opened \/ x.dir = "read" THEN @ ELSE x.sent]
LEMMA Passes ==
  ASSUME NEW x \in Device
  PROVE  \E f, l : /\ f = (IF x.opened THEN "on" ELSE "off")
                   /\ l = (IF x.opened \/ x.dir = "read" THEN x.last ELSE x.sent)
                   /\ PhaseAs(x, Passed(x), f, l)
<1>1. PICK f : f = IF x.opened THEN "on" ELSE "off"
  OBVIOUS
<1>2. PICK l : l = IF x.opened \/ x.dir = "read" THEN x.last ELSE x.sent
  OBVIOUS
<1>3. PICK q : q = SetPhase(x, f, l)
  OBVIOUS
<1>4. f \in {"off", "prepared", "on"} /\ l \in Nat
  BY <1>1, <1>2, Kinds
<1>5. PhaseAs(x, q, f, l)
  BY ONLY x \in Device, <1>3, <1>4, PhaseSet
<1>6. Passed(x) = q
  BY <1>1, <1>2, <1>3 DEF Passed, SetPhase
<1> QED BY <1>1, <1>2, <1>5, <1>6

\* A block more has been sent.
LEMMA Sends ==
  ASSUME NEW w \in Device, NEW m \in Nat
  PROVE  LET x == [w EXCEPT !.sent = m] IN
         /\ x \in Device /\ Heard(w, x) /\ Paced(w, x) /\ Steady(w, x) /\ x.sent = m
         /\ x.kind = w.kind /\ x.dir = w.dir /\ x.ignore = w.ignore /\ x.trigger = w.trigger
         /\ x.phase = w.phase /\ x.used = w.used /\ x.drained = w.drained /\ x.hw = w.hw
         /\ x.queue = w.queue
<1>1. PICK x : x = SetSent(w, m)
  OBVIOUS
<1>2. /\ x \in Device /\ Heard(w, x) /\ Paced(w, x) /\ Steady(w, x) /\ x.sent = m
      /\ x.kind = w.kind /\ x.dir = w.dir /\ x.ignore = w.ignore /\ x.trigger = w.trigger
      /\ x.phase = w.phase /\ x.used = w.used /\ x.drained = w.drained /\ x.hw = w.hw
      /\ x.queue = w.queue
  BY ONLY w \in Device, m \in Nat, <1>1, SentSet
<1> QED BY <1>1, <1>2 DEF SetSent

\* What a transfer leaves of a device that is on.
LEMMA OnDevice ==
  ASSUME NEW d, Safe(d), d.phase = "on"
  PROVE  /\ d \in Device /\ Open(d) /\ d.opened = TRUE /\ d.fault = FALSE /\ d.lost = FALSE
         /\ d.drained = FALSE /\ d.running = ~d.request
<1>1. d \in Device /\ d.opened /\ ~d.fault /\ ~d.lost /\ ~d.drained /\ d.running = ~d.request
  BY DEF Safe, Belief
<1> QED BY <1>1, Kinds, SafeOpen

\* What a transfer of a device that goes on gives.
Carried(d, x) ==
  /\ x \in Device /\ x.kind = d.kind /\ x.dir = d.dir /\ x.ignore = d.ignore /\ x.trigger = d.trigger
  /\ x.phase = "on" /\ x.used = d.used /\ x.drained = FALSE /\ x.fault = FALSE /\ x.lost = FALSE

\* A transfer that carried its buffer, as the engine counts it.
LEMMA PassSafe ==
  ASSUME NEW d, Safe(d), d.phase = "on", NEW x, Carried(d, x), (x.hw # "none") = x.opened,
         x.opened => x.running = ~x.request, ~x.opened => ~x.running /\ ~x.request,
         x.request => x.kind = "alsa" /\ x.dir = "write", Len(x.queue) <= DvSpace,
         ~x.opened => x.kind = "alsa" /\ x.queue = <<>>,
         x.opened => Place(x),
         x.opened => WriteOrder(x),
         ReadOrder(x)
  PROVE  Safe(Passed(x))
<1>1. x \in Device
  BY DEF Carried
<1>2. PICK f, l : /\ f = (IF x.opened THEN "on" ELSE "off")
                  /\ l = (IF x.opened \/ x.dir = "read" THEN x.last ELSE x.sent)
                  /\ PhaseAs(x, Passed(x), f, l)
  BY <1>1, Passes
<1>3. PICK q : q = Passed(x)
  OBVIOUS
<1>4. /\ q \in Device /\ Paced(x, q) /\ Steady(x, q) /\ q.phase = f /\ q.last = l
      /\ q.kind = x.kind /\ q.dir = x.dir /\ q.ignore = x.ignore /\ q.trigger = x.trigger
      /\ q.sent = x.sent /\ q.used = x.used /\ q.drained = x.drained /\ q.now = x.now
      /\ q.known = x.known /\ q.lost = x.lost /\ q.fault = x.fault /\ q.hw = x.hw
      /\ q.queue = x.queue
  BY <1>2, <1>3 DEF PhaseAs
<1>5. Belief(q)
  <2>1. q.kind # "alsa" => q.ignore
    BY <1>4 DEF Safe, Belief, Carried
  <2>2. ~q.lost /\ ~q.fault /\ ~q.drained
    BY <1>4 DEF Carried
  <2>3. CASE x.opened
    <3>1. q.phase = "on" /\ q.opened /\ q.running = ~q.request /\ (q.hw # "none") = q.opened
      BY <1>2, <1>4, <2>3 DEF Steady
    <3>2. q.request => q.kind = "alsa" /\ q.dir = "write"
      BY <1>4 DEF Steady
    <3> QED BY <1>4, <2>1, <2>2, <3>1, <3>2, Kinds DEF Belief
  <2>4. CASE ~x.opened
    <3>1. q.phase = "off" /\ ~q.opened /\ ~q.running /\ ~q.request /\ (q.hw # "none") = q.opened
      BY <1>2, <1>4, <2>4 DEF Steady
    <3> QED BY <1>4, <2>1, <2>2, <3>1, Kinds DEF Belief
  <2> QED BY <2>3, <2>4
<1>6. Room(q)
  BY <1>4 DEF Room, Steady
<1>7. Place(q)
  <2>1. CASE x.opened
    <3>3. /\ q.kind = x.kind /\ q.dir = x.dir /\ q.phase = x.phase /\ q.hw = x.hw /\ q.queue = x.queue
          /\ q.request = x.request /\ q.ignore = x.ignore /\ q.used = x.used /\ q.trigger = x.trigger
          /\ q.done = x.done /\ q.now = x.now /\ q.began = x.began
      BY <1>2, <1>4, <2>1 DEF Steady, Paced, Carried
    <3>4. AlsaPlace(x) => AlsaPlace(q)
      BY <3>3 DEF AlsaPlace
    <3>5. FreePlace(x) => FreePlace(q)
      BY <3>3 DEF FreePlace, SelfStarting
    <3>6. NullPlace(x) => NullPlace(q)
      BY <3>3 DEF NullPlace, NullAvailable
    <3>7. Place(x)
      BY <2>1
    <3> QED BY <3>3, <3>4, <3>5, <3>6, <3>7 DEF Place
  <2>2. CASE ~x.opened
    <3>1. q.phase = "off" /\ q.kind = "alsa" /\ q.queue = <<>> /\ q.hw = "none"
      BY <1>2, <1>4, <2>2
    <3>2. AlsaPlace(q)
      BY <3>1 DEF AlsaPlace
    <3> QED BY <3>1, <3>2 DEF Place
  <2> QED BY <2>1, <2>2
<1>8. WriteOrder(q)
  <2>1. CASE x.opened
    <3>1. l = x.last
      BY <1>2, <2>1
    <3> QED BY <1>4, <2>1, <3>1 DEF WriteOrder
  <2>2. CASE ~x.opened
    <3>1. x.dir = "write" => q.queue = <<>> /\ q.last = q.sent
      BY <1>2, <1>4, <2>2
    <3> QED BY <1>4, <3>1, NoneWaiting, Kinds DEF WriteOrder
  <2> QED BY <2>1, <2>2
<1>9. ReadOrder(q)
  <2>1. x.dir = "read" => q.last = x.last
    BY <1>2, <1>4
  <2> QED BY <1>4, <2>1 DEF ReadOrder, Steady
<1> QED BY <1>3, <1>4, <1>5, <1>6, <1>7, <1>8, <1>9 DEF Safe

\* Writing to an ALSA device, through underruns.
LEMMA AlsaWriteSafe ==
  ASSUME NEW d, Safe(d), d.phase = "on", Returns(d), d.dir = "write", d.kind = "alsa"
  PROVE  Safe(Passed([AlsaWrite(d, d.sent + 1) EXCEPT !.sent = d.sent + 1]))
<1>1. /\ d \in Device /\ Open(d) /\ d.opened = TRUE /\ d.fault = FALSE /\ d.lost = FALSE
      /\ d.drained = FALSE /\ d.running = ~d.request
  BY OnDevice
<1>2. /\ d.hw \in {"prepared", "running", "xrun", "suspended"}
      /\ (d.hw = "prepared") = d.request /\ (d.hw = "suspended" => ~d.ignore)
      /\ (d.request => Len(d.queue) = 1) /\ (d.hw \in {"xrun", "suspended"} => d.queue = <<>>)
  BY DEF Safe, Place, AlsaPlace
<1>3. d.request => d.hw = "prepared" /\ d.queue # <<>>
  <2>1. d.queue = <<>> => Len(d.queue) = 0
    OBVIOUS
  <2>2. d.request \in BOOLEAN
    BY <1>1, Kinds
  <2>3. d.request => d.hw = "prepared"
    BY ONLY <1>2, <2>2
  <2>4. d.request => Len(d.queue) = 1
    BY ONLY <1>2
  <2> QED BY ONLY <2>1, <2>3, <2>4
<1>4. PICK m \in Nat : m = d.sent + 1
  BY <1>1, Kinds
<1>5. PICK w : w = AlsaWrite(d, m)
  OBVIOUS
<1>6. Same(d, w) /\ (Written(d, w, m) \/ Resumed(d, w, m) \/ GivenUp(d, w))
  BY <1>1, <1>2, <1>3, <1>5, AlsaWrites
<1>7. PICK x : x = [w EXCEPT !.sent = m]
  OBVIOUS
<1>8. w \in Device
  BY <1>6 DEF Same, Outer
<1>9. /\ x \in Device /\ Heard(w, x) /\ Paced(w, x) /\ Steady(w, x) /\ x.sent = m
      /\ x.kind = w.kind /\ x.dir = w.dir /\ x.ignore = w.ignore /\ x.trigger = w.trigger
      /\ x.phase = w.phase /\ x.used = w.used /\ x.drained = w.drained /\ x.hw = w.hw
      /\ x.queue = w.queue
  BY <1>7, <1>8, Sends
<1>10. Carried(d, x) /\ x.kind = "alsa" /\ x.dir = "write" /\ x.last = d.last
  BY <1>1, <1>6, <1>9 DEF Carried, Same, Outer, Heard
<1>11. /\ x.hw = w.hw /\ x.queue = w.queue /\ x.opened = w.opened /\ x.running = w.running
       /\ x.request = w.request
  BY <1>9 DEF Steady
<1>12. d.queue \in Seq(Nat) /\ d.sent \in Nat /\ d.last \in Nat /\ DvSpace \in Nat /\ DvSpace >= 2
  BY <1>1, DvAssumption, Kinds
<1>13. ReadOrder(x)
  BY <1>10 DEF ReadOrder
<1>14. d.hw # "suspended" => InOrder(d.queue, d.last, d.sent)
  BY DEF Safe, WriteOrder
<1>15. CASE Written(d, w, m)
  <2>1. /\ d.hw # "suspended" /\ w.opened = TRUE /\ w.queue = Append(d.queue, m) /\ w.request = FALSE
        /\ w.hw = "running" /\ w.running = TRUE
    BY <1>1, <1>2, <1>15, Kinds DEF Written
  <2>2. Len(x.queue) <= DvSpace
    <3>1. Accepts(d)
      BY <1>15 DEF Written, Accepts
    <3>2. ~Full(d)
      BY <3>1 DEF Returns
    <3>3. Len(x.queue) = Len(d.queue) + 1 /\ Len(d.queue) \in Nat
      BY <1>4, <1>11, <1>12, <2>1, Appends
    <3> QED BY <1>12, <3>2, <3>3 DEF Full
  <2>3. Place(x)
    <3>1. AlsaPlace(x)
      BY <1>10, <1>11, <2>1 DEF AlsaPlace, Carried
    <3> QED BY <1>10, <3>1 DEF Place
  <2>4. WriteOrder(x)
    <3>1. InOrder(Append(d.queue, d.sent + 1), d.last, d.sent + 1)
      BY <1>12, <1>14, <2>1, WritesInOrder
    <3> QED BY <1>4, <1>9, <1>10, <1>11, <2>1, <3>1 DEF WriteOrder
  <2>5. Safe(Passed(x))
    BY <1>10, <1>11, <1>13, <2>1, <2>2, <2>3, <2>4, PassSafe
  <2> QED BY <1>4, <1>5, <1>7, <2>5
<1>16. CASE Resumed(d, w, m)
  <2>1. /\ d.hw = "xrun" /\ w.opened = TRUE /\ w.hw = "prepared" /\ w.queue = <<m>>
        /\ w.running = FALSE /\ w.request = TRUE
    BY <1>1, <1>16 DEF Resumed
  <2>2. Len(x.queue) = 1 /\ d.queue = <<>>
    BY <1>2, <1>11, <2>1
  <2>3. Place(x)
    <3>1. AlsaPlace(x)
      BY <1>10, <1>11, <2>1, <2>2 DEF AlsaPlace, Carried
    <3> QED BY <1>10, <3>1 DEF Place
  <2>4. WriteOrder(x)
    <3>1. InOrder(Append(d.queue, d.sent + 1), d.last, d.sent + 1)
      BY <1>12, <1>14, <2>1, WritesInOrder
    <3>2. Append(d.queue, m) = <<m>>
      BY <2>2
    <3> QED BY <1>4, <1>9, <1>10, <1>11, <2>1, <3>1, <3>2 DEF WriteOrder
  <2>5. x.opened = TRUE /\ x.running = FALSE /\ x.request = TRUE /\ x.hw # "none" /\ Len(x.queue) <= DvSpace
    BY <1>11, <1>12, <2>1, <2>2
  <2>6. Safe(Passed(x))
    BY ONLY Safe(d), d.phase = "on", <1>10, <1>13, <2>3, <2>4, <2>5, PassSafe
  <2> QED BY <1>4, <1>5, <1>7, <2>6
<1>17. CASE GivenUp(d, w)
  <2>1. w.hw = "none" /\ w.queue = <<>> /\ w.opened = FALSE /\ w.running = FALSE /\ w.request = FALSE
    BY <1>17 DEF GivenUp
  <2>2. Len(x.queue) = 0
    BY <1>11, <2>1
  <2>3. /\ x.opened = FALSE /\ x.running = FALSE /\ x.request = FALSE /\ x.hw = "none"
        /\ x.queue = <<>> /\ Len(x.queue) <= DvSpace
    BY <1>11, <1>12, <2>1, <2>2
  <2>4. Safe(Passed(x))
    BY ONLY Safe(d), d.phase = "on", <1>10, <1>13, <2>3, PassSafe
  <2> QED BY <1>4, <1>5, <1>7, <2>4
<1> QED BY <1>6, <1>15, <1>16, <1>17

\* Writing to an OSS or an aRts device.
LEMMA FreeWriteSafe ==
  ASSUME NEW d, Safe(d), d.phase = "on", Returns(d), d.dir = "write", d.kind \in {"oss", "arts"}
  PROVE  Safe(Passed([Give(d, d.sent + 1) EXCEPT !.sent = d.sent + 1]))
<1>1. /\ d \in Device /\ Open(d) /\ d.opened = TRUE /\ d.fault = FALSE /\ d.lost = FALSE
      /\ d.drained = FALSE /\ d.running = ~d.request
  BY OnDevice
<1>2. FreePlace(d) /\ ~d.request
  BY DEF Safe, Belief, Place
<1>3. PICK m \in Nat : m = d.sent + 1
  BY <1>1, Kinds
<1>4. PICK w : w = Give(d, m)
  OBVIOUS
<1>5. Becomes(d, w, d.hw, Append(d.queue, m))
  BY <1>1, <1>4, Gives
<1>6. PICK x : x = [w EXCEPT !.sent = m]
  OBVIOUS
<1>7. w \in Device
  BY <1>5 DEF Becomes, Open
<1>8. /\ x \in Device /\ Heard(w, x) /\ Paced(w, x) /\ Steady(w, x) /\ x.sent = m
      /\ x.kind = w.kind /\ x.dir = w.dir /\ x.ignore = w.ignore /\ x.trigger = w.trigger
      /\ x.phase = w.phase /\ x.used = w.used /\ x.drained = w.drained /\ x.hw = w.hw
      /\ x.queue = w.queue
  BY <1>6, <1>7, Sends
<1>9. /\ Carried(d, x) /\ x.kind = d.kind /\ x.dir = "write" /\ x.last = d.last /\ x.trigger = d.trigger
  BY <1>1, <1>5, <1>8 DEF Carried, Becomes, Same, Outer, Heard
<1>10. /\ x.hw = d.hw /\ x.queue = Append(d.queue, m) /\ x.opened = TRUE
       /\ x.running = d.running /\ x.request = d.request
  BY <1>1, <1>5, <1>8 DEF Becomes, Steady
<1>11. d.queue \in Seq(Nat) /\ d.sent \in Nat /\ d.last \in Nat /\ DvSpace \in Nat
  BY <1>1, DvAssumption, Kinds
<1>12. Len(x.queue) <= DvSpace
  <2>1. ~Full(d)
    BY DEF Returns
  <2>2. Len(x.queue) = Len(d.queue) + 1 /\ Len(d.queue) \in Nat
    BY <1>3, <1>10, <1>11, Appends
  <2> QED BY <1>11, <2>1, <2>2 DEF Full
<1>13. Place(x)
  <2>1. FreePlace(x)
    BY <1>2, <1>9, <1>10 DEF FreePlace, SelfStarting, Carried
  <2> QED BY <1>9, <2>1 DEF Place
<1>14. WriteOrder(x)
  <2>1. d.hw # "suspended"
    BY <1>2 DEF FreePlace
  <2>2. InOrder(d.queue, d.last, d.sent)
    BY <2>1 DEF Safe, WriteOrder
  <2>3. InOrder(Append(d.queue, d.sent + 1), d.last, d.sent + 1)
    BY <1>11, <2>2, WritesInOrder
  <2> QED BY <1>3, <1>8, <1>9, <1>10, <2>3 DEF WriteOrder
<1>15. ReadOrder(x)
  BY <1>9 DEF ReadOrder
<1>16. x.hw # "none"
  BY <1>1, <1>10 DEF Open
<1>17. Safe(Passed(x))
  BY <1>1, <1>2, <1>9, <1>10, <1>12, <1>13, <1>14, <1>15, <1>16, PassSafe
<1> QED BY <1>3, <1>4, <1>6, <1>17

\* The null device transfers.
LEMMA NullIterates ==
  ASSUME NEW d, Safe(d), d.phase = "on", Returns(d), d.kind = "rtnull",
         NEW x, x \in Device, Heard(NullTransfer(d), x), Paced(NullTransfer(d), x),
         Steady(NullTransfer(d), x), x.kind = d.kind, x.dir = d.dir, x.ignore = d.ignore,
         x.trigger = d.trigger, x.phase = d.phase, x.used = d.used, x.drained = d.drained,
         x.hw = d.hw, x.queue = d.queue
  PROVE  Safe(Passed(x))
<1>1. /\ d \in Device /\ Open(d) /\ d.opened = TRUE /\ d.fault = FALSE /\ d.lost = FALSE
      /\ d.drained = FALSE /\ d.running = ~d.request
  BY OnDevice
<1>2. NullPlace(d) /\ ~d.request /\ Len(d.queue) <= DvSpace
  BY DEF Safe, Belief, Place, Room
<1>3. PICK w : w = NullTransfer(d)
  OBVIOUS
<1>4. /\ Outer(d, w) /\ Heard(d, w) /\ w.done = d.done + 1 /\ w.began = d.began
      /\ w.opened = d.opened /\ w.running = d.running /\ w.request = d.request
      /\ w.hw = d.hw /\ w.queue = d.queue /\ w.xruns \in {d.xruns, d.xruns + 1}
  BY <1>1, <1>3, NullTransfers
<1>5. Carried(d, x) /\ x.last = d.last /\ x.now = d.now /\ x.known = d.known
  BY <1>1, <1>3, <1>4 DEF Carried, Heard
<1>6. /\ x.opened = TRUE /\ x.running = d.running /\ x.request = d.request
      /\ x.xruns \in {d.xruns, d.xruns + 1} /\ x.done = d.done + 1 /\ x.began = d.began
  BY <1>1, <1>3, <1>4 DEF Steady, Paced
<1>7. Place(x)
  <2>1. d.now \in Nat /\ d.began \in Nat /\ d.done \in Nat /\ DvSpace \in Nat
    BY <1>1, DvAssumption, Kinds
  <2>2. NullAvailable(d) >= 1
    BY <1>1, <1>2 DEF Returns
  <2>3. NullAvailable(x) >= 0
    BY <1>5, <1>6, <2>1, <2>2 DEF NullAvailable
  <2>4. NullPlace(x)
    BY <1>2, <2>3 DEF NullPlace
  <2> QED BY <2>4 DEF Place
<1>8. WriteOrder(x)
  BY DEF WriteOrder
<1>9. ReadOrder(x)
  <2>1. d.hw # "running" /\ d.known \in Nat /\ d.xruns \in Nat
    BY <1>1, <1>2, Kinds DEF NullPlace
  <2> QED BY <1>5, <1>6, <2>1 DEF Safe, ReadOrder
<1>10. d.hw # "none"
  BY <1>1 DEF Open
<1> QED BY <1>1, <1>2, <1>5, <1>6, <1>7, <1>8, <1>9, <1>10, PassSafe

\* A write to the null device.
LEMMA NullWriteSafe ==
  ASSUME NEW d, Safe(d), d.phase = "on", Returns(d), d.kind = "rtnull"
  PROVE  Safe(Passed([NullTransfer(d) EXCEPT !.sent = d.sent + 1]))
<1>1. PICK w : w = NullTransfer(d)
  OBVIOUS
<1>2. d \in Device /\ d.sent + 1 \in Nat
  <2>1. d \in Device
    BY OnDevice
  <2>2. d.sent \in Nat
    BY <2>1, Kinds
  <2> QED BY <2>1, <2>2
<1>3. Outer(d, w) /\ w.hw = d.hw /\ w.queue = d.queue
  BY <1>1, <1>2, NullTransfers
<1>4. PICK x : x = [w EXCEPT !.sent = d.sent + 1]
  OBVIOUS
<1>5. w \in Device
  BY <1>3 DEF Outer
<1>6. /\ x \in Device /\ Heard(w, x) /\ Paced(w, x) /\ Steady(w, x)
      /\ x.kind = w.kind /\ x.dir = w.dir /\ x.ignore = w.ignore /\ x.trigger = w.trigger
      /\ x.phase = w.phase /\ x.used = w.used /\ x.drained = w.drained /\ x.hw = w.hw
      /\ x.queue = w.queue
  BY <1>2, <1>4, <1>5, Sends
<1>7. /\ x.kind = d.kind /\ x.dir = d.dir /\ x.ignore = d.ignore /\ x.trigger = d.trigger
      /\ x.phase = d.phase /\ x.used = d.used /\ x.drained = d.drained /\ x.hw = d.hw
      /\ x.queue = d.queue
  BY <1>3, <1>6 DEF Outer
<1>8. Safe(Passed(x))
  BY <1>1, <1>6, <1>7, NullIterates
<1> QED BY <1>1, <1>4, <1>8

\* A read from the null device.
LEMMA NullReadSafe ==
  ASSUME NEW d, Safe(d), d.phase = "on", Returns(d), d.kind = "rtnull"
  PROVE  Safe(Passed(NullTransfer(d)))
<1>1. PICK w : w = NullTransfer(d)
  OBVIOUS
<1>2. d \in Device
  BY OnDevice
<1>3. Outer(d, w) /\ w.hw = d.hw /\ w.queue = d.queue
  BY <1>1, <1>2, NullTransfers
<1>4. Heard(w, w) /\ Paced(w, w) /\ Steady(w, w)
  BY DEF Heard, Paced, Steady
<1>5. /\ w \in Device /\ w.kind = d.kind /\ w.dir = d.dir /\ w.ignore = d.ignore
      /\ w.trigger = d.trigger /\ w.phase = d.phase /\ w.used = d.used /\ w.drained = d.drained
  BY <1>3 DEF Outer
<1>6. Safe(Passed(w))
  BY <1>1, <1>3, <1>4, <1>5, NullIterates
<1> QED BY <1>1, <1>6

\* One block that waits.
LEMMA OneWaiting ==
  ASSUME NEW n \in Nat
  PROVE  <<n>> # <<>> /\ Head(<<n>>) = n /\ Tail(<<n>>) = <<>>
<1>1. PICK q : q = <<n>>
  OBVIOUS
<1>2. q \in Seq(Nat) /\ Len(q) = 1 /\ q[1] = n /\ q # <<>>
  BY <1>1
<1>3. Tail(q) \in Seq(Nat) /\ Len(Tail(q)) = 0 /\ Head(q) = n
  BY <1>2, Tails
<1>4. Tail(q) = <<>>
  BY <1>3, EmptySeq
<1> QED BY <1>1, <1>2, <1>3, <1>4

\* A block that is read in its turn, from a device that runs.
LEMMA ReadSafe ==
  ASSUME NEW d, Safe(d), d.phase = "on", d.dir = "read", d.hw = "running", d.queue # <<>>,
         d.kind # "rtnull"
  PROVE  Safe(Passed(Take(d)))
<1>1. /\ d \in Device /\ Open(d) /\ d.opened = TRUE /\ d.fault = FALSE /\ d.lost = FALSE
      /\ d.drained = FALSE /\ d.running = ~d.request
  BY OnDevice
<1>2. /\ d.last <= d.now /\ d.known <= d.xruns /\ d.last + Len(d.queue) = d.now
      /\ Tells(d.queue, 0, d.last) /\ Len(d.queue) <= DvSpace
  BY DEF Safe, ReadOrder, Room
<1>3. /\ d.queue \in Seq(Nat) /\ d.last \in Nat /\ d.now \in Nat /\ d.known \in Nat /\ d.xruns \in Nat
      /\ DvSpace \in Nat /\ d.request \in BOOLEAN
  BY <1>1, DvAssumption, Kinds
<1>4. PICK s, l, b : s = Tail(d.queue) /\ l = d.last /\ b = Head(d.queue)
  OBVIOUS
<1>5. b = l + 1 /\ Tells(s, 0, l + 1)
  BY <1>2, <1>3, <1>4, ReadInOrder
<1>6. Len(s) = Len(d.queue) - 1 /\ Len(d.queue) \in Nat /\ Len(d.queue) >= 1
  BY <1>3, <1>4, Tails
<1>7. PICK x : x = Take(d)
  OBVIOUS
<1>8. /\ Outer(d, x) /\ Paced(d, x) /\ Steady(d, x)
      /\ x.queue = s /\ x.hw = d.hw /\ x.now = d.now /\ x.known = d.xruns
      /\ x.fault = d.fault /\ x.last = b
      /\ x.lost = (d.lost \/ b <= l \/ (b > l + 1 /\ d.xruns = d.known))
  BY <1>1, <1>4, <1>7, TakesOne
<1>9. x.lost = FALSE
  <2>1. ~(b <= l) /\ ~(b > l + 1)
    BY <1>3, <1>4, <1>5
  <2>2. x.lost = (d.lost \/ b <= l \/ (b > l + 1 /\ d.xruns = d.known))
    BY <1>8
  <2> QED BY ONLY <1>1, <2>1, <2>2
<1>10. Carried(d, x) /\ x.dir = "read" /\ x.kind = d.kind
  BY <1>1, <1>8, <1>9 DEF Carried, Outer
<1>11. x.opened = TRUE /\ x.running = d.running /\ x.request = d.request /\ x.xruns = d.xruns
  BY <1>1, <1>8 DEF Steady
<1>12. ~d.request
  BY DEF Safe, Belief
<1>13. Len(x.queue) <= DvSpace /\ x.hw = "running"
  BY <1>2, <1>3, <1>6, <1>8
<1>14. Place(x)
  <2>1. CASE d.kind = "alsa"
    <3>1. AlsaPlace(x)
      BY <1>3, <1>10, <1>11, <1>12, <1>13 DEF AlsaPlace, Carried
    <3> QED BY <1>10, <2>1, <3>1 DEF Place
  <2>2. CASE d.kind # "alsa"
    <3>1. FreePlace(d)
      BY <1>1, <2>2, Kinds DEF Safe, Place
    <3>2. FreePlace(x)
      BY <1>10, <1>13, <3>1 DEF FreePlace, Carried
    <3> QED BY <1>10, <2>2, <3>2 DEF Place
  <2> QED BY <2>1, <2>2
<1>15. WriteOrder(x)
  BY <1>10 DEF WriteOrder
<1>16. ReadOrder(x)
  <2>1. x.last = l + 1 /\ x.now = d.now /\ x.known = d.xruns /\ x.queue = s
    BY <1>5, <1>8
  <2>2. Tells(x.queue, 0, x.last)
    BY <1>5, <2>1
  <2>3. x.last + Len(x.queue) = x.now
    <3>1. PICK k, r : k = Len(s) /\ r = Len(d.queue)
      OBVIOUS
    <3>2. k = r - 1 /\ l + r = d.now /\ r \in Nat
      BY <1>2, <1>4, <1>6, <3>1
    <3>3. (l + 1) + k = d.now
      BY <1>3, <1>4, <3>2
    <3> QED BY <2>1, <3>1, <3>3
  <2>4. x.last <= x.now /\ x.known <= x.xruns
    <3>1. Len(x.queue) \in Nat /\ x.last \in Nat
      BY <1>3, <1>4, <1>6, <2>1, <2>3, <1>8
    <3> QED BY <1>3, <1>11, <2>1, <2>3, <3>1
  <2> QED BY <2>2, <2>3, <2>4 DEF ReadOrder
<1>17. x.running = ~x.request /\ ~x.request
  BY <1>1, <1>11, <1>12
<1>18. Safe(Passed(x))
  BY ONLY Safe(d), d.phase = "on", <1>10, <1>11, <1>13, <1>14, <1>15, <1>16, <1>17, PassSafe
<1> QED BY <1>7, <1>18

\* Reading from an ALSA device, through overruns.
LEMMA AlsaReadSafe ==
  ASSUME NEW d, Safe(d), d.phase = "on", Returns(d), d.dir = "read", d.kind = "alsa"
  PROVE  Safe(Passed(AlsaRead(d)))
<1>1. /\ d \in Device /\ Open(d) /\ d.opened = TRUE /\ d.fault = FALSE /\ d.lost = FALSE
      /\ d.drained = FALSE /\ d.running = ~d.request
  BY OnDevice
<1>2. /\ d.hw \in {"running", "xrun", "suspended"} /\ d.request = FALSE
      /\ (d.hw = "suspended" => ~d.ignore)
  <2>1. ~d.request
    BY DEF Safe, Belief
  <2>2. d.request = FALSE
    BY <1>1, <2>1, Kinds
  <2> QED BY <2>2 DEF Safe, Place, AlsaPlace
<1>3. /\ d.last \in Nat /\ d.now \in Nat /\ d.known \in Nat /\ d.xruns \in Nat
      /\ DvSpace \in Nat /\ DvSpace >= 2 /\ d.last <= d.now /\ d.known <= d.xruns
  BY <1>1, DvAssumption, Kinds DEF Safe, ReadOrder
<1>4. CASE d.hw = "running"
  <2>1. d.queue # <<>>
    BY <1>4 DEF Returns
  <2>2. Safe(Passed(Take(d)))
    BY <1>4, <2>1, ReadSafe
  <2> QED BY <1>4, <2>2 DEF AlsaRead
<1>5. CASE d.hw # "running" /\ ~d.ignore
  <2>1. PICK x : x = GiveUp(d)
    OBVIOUS
  <2>2. /\ Same(d, x) /\ x.hw = "none" /\ x.queue = <<>> /\ x.opened = FALSE
        /\ x.running = FALSE /\ x.request = d.request
    BY <1>1, <2>1, GivesUp
  <2>3. Carried(d, x) /\ x.kind = "alsa" /\ x.dir = "read"
    BY <1>1, <2>2 DEF Carried, Same, Outer, Heard
  <2>4. /\ x.request = FALSE /\ x.opened = FALSE /\ x.running = FALSE /\ x.hw = "none"
        /\ x.queue = <<>> /\ Len(x.queue) <= DvSpace
    <3>1. Len(x.queue) = 0
      BY <2>2
    <3> QED BY <1>2, <1>3, <2>2, <3>1
  <2>5. x.known <= x.xruns
    <3>1. PICK p : p = AlsaStop(d, FALSE)
      OBVIOUS
    <3>2. Open(p) /\ ~p.running /\ p.xruns = d.xruns
      BY <1>1, <3>1, AlsaStops
    <3>3. AlsaClose(p).xruns = p.xruns
      BY <3>2, AlsaCloses
    <3>4. x.xruns = d.xruns
      BY <2>1, <3>1, <3>2, <3>3 DEF GiveUp
    <3> QED BY <1>3, <2>2, <3>4 DEF Same, Heard
  <2>6. ReadOrder(x)
    BY <1>3, <2>2, <2>5 DEF ReadOrder, Same, Heard
  <2>7. Safe(Passed(x))
    BY ONLY Safe(d), d.phase = "on", <2>3, <2>4, <2>6, PassSafe
  <2>8. AlsaRead(d) = x
    BY <1>5, <2>1 DEF AlsaRead
  <2> QED BY <2>7, <2>8
<1>6. CASE d.hw = "xrun" /\ d.ignore
  <2>1. PICK h, c, x : h = HandleXrunCapture(d) /\ c = Captures(h) /\ x = Take(c)
    OBVIOUS
  <2>2. /\ Same(d, h) /\ Open(h) /\ h.hw = "running" /\ h.queue = <<>> /\ h.opened = d.opened
        /\ h.running = TRUE /\ h.request = d.request /\ h.xruns = d.xruns + 1
    BY <1>1, <1>6, <2>1, CaptureResumes
  <2>3. h \in Device /\ ~Full(h)
    <3>1. Len(h.queue) = 0
      BY <2>2
    <3> QED BY <1>3, <2>2, <3>1 DEF Full, Open
  <2>4. /\ Outer(h, c) /\ Paced(h, c) /\ Steady(h, c)
        /\ c.queue = Append(h.queue, h.now + 1) /\ c.now = h.now + 1 /\ c.hw = h.hw
        /\ c.last = h.last /\ c.known = h.known /\ c.lost = h.lost /\ c.fault = h.fault
    BY <2>1, <2>3, CapturesOne
  <2>5. PICK n : n = d.now + 1
    OBVIOUS
  <2>6. c.queue = <<n>> /\ c.now = n /\ n \in Nat
    BY <1>3, <2>2, <2>4, <2>5 DEF Same, Heard
  <2>7. c \in Device /\ c.queue # <<>> /\ Head(c.queue) = n /\ Tail(c.queue) = <<>>
    BY <2>4, <2>6, OneWaiting DEF Outer
  <2>8. /\ Outer(c, x) /\ Paced(c, x) /\ Steady(c, x)
        /\ x.queue = Tail(c.queue) /\ x.hw = c.hw /\ x.now = c.now /\ x.known = c.xruns
        /\ x.fault = c.fault /\ x.last = Head(c.queue)
        /\ x.lost = (c.lost \/ Head(c.queue) <= c.last
                       \/ (Head(c.queue) > c.last + 1 /\ c.xruns = c.known))
    BY <2>1, <2>7, TakesOne
  <2>9. c.xruns = d.xruns + 1 /\ c.known = d.known /\ c.last = d.last /\ c.lost = FALSE
    BY <1>1, <2>2, <2>4 DEF Same, Heard, Steady
  <2>10. x.lost = FALSE
    <3>1. ~(n <= c.last) /\ c.xruns # c.known
      BY <1>3, <2>5, <2>9
    <3>2. x.lost = (c.lost \/ n <= c.last \/ (n > c.last + 1 /\ c.xruns = c.known))
      BY <2>7, <2>8
    <3> QED BY ONLY <2>9, <3>1, <3>2
  <2>11. Carried(d, x) /\ x.kind = "alsa" /\ x.dir = "read"
    BY <1>1, <2>2, <2>4, <2>8, <2>10 DEF Carried, Same, Outer, Heard
  <2>12. /\ x.opened = TRUE /\ x.running = TRUE /\ x.request = FALSE /\ x.hw = "running"
         /\ x.queue = <<>> /\ x.xruns = d.xruns + 1
    BY <1>1, <1>2, <2>2, <2>4, <2>7, <2>8, <2>9 DEF Steady
  <2>13. Len(x.queue) = 0 /\ Len(x.queue) <= DvSpace
    BY <1>3, <2>12
  <2>14. Place(x)
    <3>1. AlsaPlace(x)
      BY <2>11, <2>12 DEF AlsaPlace, Carried
    <3> QED BY <2>11, <3>1 DEF Place
  <2>15. WriteOrder(x)
    BY <2>11 DEF WriteOrder
  <2>16. ReadOrder(x)
    <3>1. x.last = n /\ x.now = n /\ x.known = d.xruns + 1
      BY <2>6, <2>7, <2>8, <2>9
    <3>2. Tells(<<>>, 0, n)
      BY <2>6, NoneWaiting
    <3> QED BY <1>3, <2>6, <2>12, <2>13, <3>1, <3>2 DEF ReadOrder
  <2>17. Safe(Passed(x))
    BY ONLY Safe(d), d.phase = "on", <2>11, <2>12, <2>13, <2>14, <2>15, <2>16, PassSafe
  <2>18. AlsaRead(d) = x
    BY <1>6, <2>1, <2>2 DEF AlsaRead
  <2> QED BY <2>17, <2>18
<1> QED BY <1>2, <1>4, <1>5, <1>6

\* Reading from an OSS or an aRts device.
LEMMA FreeReadSafe ==
  ASSUME NEW d, Safe(d), d.phase = "on", Returns(d), d.dir = "read", d.kind \in {"oss", "arts"}
  PROVE  Safe(Passed(Take(d)))
<1>1. d.hw = "running"
  BY DEF Safe, Place, FreePlace, SelfStarting
<1>2. d.queue # <<>>
  BY DEF Returns
<1> QED BY <1>1, <1>2, ReadSafe

-----------------------------------------------------------------------------
(* The theorem.                                                            *)

\* Where the devices keep what DevicesSound says: the engine does not stop
\* with a trigger pending, only a device that does not ignore underruns is
\* suspended, an OSS device, an aRts server or a null device does not run
\* over, OSS and aRts devices are opened again before they are started
\* again, only ALSA is drained, and an open succeeds.
DvKept ==
  /\ ~DvLateStop /\ DvSuspends \subseteq {FALSE} /\ DvRunsOver \subseteq {"alsa"}
  /\ DvRestarts \subseteq {"alsa", "rtnull"} /\ DvDrains \subseteq {"alsa"} /\ DvOpens \subseteq {TRUE}

\* A device is created closed, with nothing in it.
LEMMA DeviceInitSafe == DvInit => Safe(dv)
<1> SUFFICES ASSUME DvInit PROVE Safe(dv)
  OBVIOUS
<1>1. PICK k \in DvKinds, dir \in {"read", "write"}, ignore \in BOOLEAN, t \in BOOLEAN :
        dv = NewDevice(k, dir, ignore, t) /\ (k # "alsa" => ignore)
  BY DEF DvInit
<1>2. k \in {"alsa", "oss", "arts", "rtnull"}
  BY DvAssumption
<1>3. PICK d : d = dv
  OBVIOUS
<1>4. /\ d.kind = k /\ d.dir = dir /\ d.ignore = ignore /\ d.opened = FALSE /\ d.running = FALSE
      /\ d.request = FALSE /\ d.hw = "none" /\ d.queue = <<>> /\ d.now = 0 /\ d.sent = 0 /\ d.last = 0
      /\ d.xruns = 0 /\ d.known = 0 /\ d.phase = "off" /\ d.drained = FALSE /\ d.lost = FALSE
      /\ d.fault = FALSE
  BY <1>1, <1>3 DEF NewDevice
<1>5. d \in Device
  BY <1>1, <1>2, <1>3 DEF NewDevice, Device, Hardware
<1>6. Belief(d)
  BY <1>1, <1>4 DEF Belief
<1>7. Room(d)
  <2>1. Len(d.queue) = 0
    BY <1>4
  <2> QED BY <1>4, <2>1, DvAssumption DEF Room
<1>8. Place(d)
  BY <1>2, <1>4 DEF Place, AlsaPlace, FreePlace, NullPlace
<1>9. WriteOrder(d)
  <2>1. InOrder(<<>>, 0, 0)
    BY NoneWaiting
  <2> QED BY <1>4, <2>1 DEF WriteOrder
<1>10. ReadOrder(d)
  BY <1>4 DEF ReadOrder
<1> QED BY <1>3, <1>5, <1>6, <1>7, <1>8, <1>9, <1>10 DEF Safe

\* A step of the model is a call and the count of it.
LEMMA StepSafe ==
  ASSUME Safe(dv), NEW n, Safe(n), dv' = [n EXCEPT !.steps = dv.steps + 1]
  PROVE  Safe(dv')
<1>1. PICK i : i = dv.steps + 1
  OBVIOUS
<1>2. i \in Nat
  <2>1. PICK d : d = dv
    OBVIOUS
  <2>2. d \in Device
    BY <2>1 DEF Safe
  <2>3. d.steps \in Nat
    BY ONLY <2>2 DEF Device
  <2> QED BY ONLY <1>1, <2>1, <2>3
<1>3. PICK q : q = SetSteps(n, i)
  OBVIOUS
<1>4. Safe(q)
  BY ONLY Safe(n), <1>2, <1>3, SafeSame
<1>5. dv' = q
  BY <1>1, <1>3 DEF SetSteps
<1> QED BY <1>4, <1>5

\* A transfer of any kind of device, in either direction.
LEMMA IterateSafe ==
  ASSUME NEW d, Safe(d), d.phase = "on", Returns(d),
         NEW x, x = (IF d.dir = "write" THEN [WriteDevice(d, d.sent + 1) EXCEPT !.sent = d.sent + 1]
                     ELSE IF d.kind = "alsa" THEN AlsaRead(d)
                     ELSE IF d.kind = "rtnull" THEN NullTransfer(d) ELSE Take(d))
  PROVE  Safe(Passed(x))
<1>1. d.kind \in {"alsa", "oss", "arts", "rtnull"} /\ d.dir \in {"read", "write"}
  BY Kinds DEF Safe
<1>2. CASE d.dir = "write" /\ d.kind = "alsa"
  <2>1. x = [AlsaWrite(d, d.sent + 1) EXCEPT !.sent = d.sent + 1]
    BY <1>2 DEF WriteDevice
  <2> QED BY <1>2, <2>1, AlsaWriteSafe
<1>3. CASE d.dir = "write" /\ d.kind = "rtnull"
  <2>1. x = [NullTransfer(d) EXCEPT !.sent = d.sent + 1]
    BY <1>3 DEF WriteDevice
  <2> QED BY <1>3, <2>1, NullWriteSafe
<1>4. CASE d.dir = "write" /\ d.kind \in {"oss", "arts"}
  <2>1. x = [Give(d, d.sent + 1) EXCEPT !.sent = d.sent + 1]
    BY <1>4 DEF WriteDevice
  <2> QED BY <1>4, <2>1, FreeWriteSafe
<1>5. CASE d.dir = "read" /\ d.kind = "alsa"
  BY <1>5, AlsaReadSafe
<1>6. CASE d.dir = "read" /\ d.kind = "rtnull"
  BY <1>6, NullReadSafe
<1>7. CASE d.dir = "read" /\ d.kind \in {"oss", "arts"}
  BY <1>7, FreeReadSafe
<1> QED BY <1>1, <1>2, <1>3, <1>4, <1>5, <1>6, <1>7

\* Every call and every move of the hardware keeps what a device promises.
LEMMA DeviceNextSafe ==
  ASSUME DvKept
  PROVE  Safe(dv) /\ [DvNext]_dv => Safe(dv)'
<1> SUFFICES ASSUME Safe(dv), [DvNext]_dv PROVE Safe(dv')
  OBVIOUS
<1>1. CASE DvOpen
  <2>1. PICK ok \in DvOpens : DvStep([dv EXCEPT !.opened = ok, !.hw = "setup", !.used = FALSE])
    BY <1>1 DEF DvOpen
  <2>2. ok = TRUE /\ dv.phase = "off" /\ ~dv.opened
    BY <1>1 DEF DvOpen, DvKept
  <2>3. PICK n : n = [dv EXCEPT !.opened = TRUE, !.hw = "setup", !.used = FALSE]
    OBVIOUS
  <2>4. Safe(n)
    BY <2>2, <2>3, OpenSafe
  <2>5. dv' = [n EXCEPT !.steps = dv.steps + 1]
    BY <2>1, <2>2, <2>3 DEF DvStep
  <2> QED BY <2>4, <2>5, StepSafe
<1>2. CASE DvPrepare
  <2>1. PICK n : n = [PrepareDevice(dv) EXCEPT !.phase = "prepared", !.drained = FALSE]
    OBVIOUS
  <2>2. dv.phase = "off" /\ dv.opened /\ ~dv.running /\ (~dv.used \/ dv.kind \in {"alsa", "rtnull"})
    BY <1>2 DEF DvPrepare, DvKept
  <2>3. Safe(n)
    BY <2>1, <2>2, PrepareSafe
  <2>4. dv' = [n EXCEPT !.steps = dv.steps + 1]
    BY <1>2, <2>1 DEF DvPrepare, DvStep
  <2> QED BY <2>3, <2>4, StepSafe
<1>3. CASE DvStart
  <2>1. PICK n : n = [StartDevice(dv) EXCEPT !.phase = "on", !.used = TRUE, !.known = dv.xruns,
                        !.last = IF dv.dir = "read" THEN dv.now ELSE @]
    OBVIOUS
  <2>2. Safe(n)
    BY <1>3, <2>1, StartSafe DEF DvStart
  <2>3. dv' = [n EXCEPT !.steps = dv.steps + 1]
    BY <1>3, <2>1 DEF DvStart, DvStep
  <2> QED BY <2>2, <2>3, StepSafe
<1>4. CASE DvIterate
  <2>1. PICK x : x = (IF dv.dir = "write" THEN [WriteDevice(dv, dv.sent + 1) EXCEPT !.sent = dv.sent + 1]
                      ELSE IF dv.kind = "alsa" THEN AlsaRead(dv)
                      ELSE IF dv.kind = "rtnull" THEN NullTransfer(dv) ELSE Take(dv))
    OBVIOUS
  <2>2. PICK n : n = Passed(x)
    OBVIOUS
  <2>3. dv.phase = "on" /\ Returns(dv)
    BY <1>4 DEF DvIterate
  <2>4. Safe(n)
    BY <2>1, <2>2, <2>3, IterateSafe
  <2>5. dv' = [n EXCEPT !.steps = dv.steps + 1]
    BY <1>4, <2>1, <2>2 DEF DvIterate, DvStep, Passed
  <2> QED BY <2>4, <2>5, StepSafe
<1>5. CASE DvStop
  <2>1. PICK drain \in BOOLEAN :
          DvStep([StopDevice(dv, drain) EXCEPT !.phase = "off", !.drained = drain /\ dv.hw # "suspended",
                    !.last = IF (drain /\ dv.hw # "suspended") \/ dv.kind # "alsa" \/ dv.dir = "read"
                             THEN @ ELSE dv.sent])
    BY <1>5 DEF DvStop
  <2>2. PICK n : n = [StopDevice(dv, drain) EXCEPT !.phase = "off", !.drained = drain /\ dv.hw # "suspended",
                        !.last = IF (drain /\ dv.hw # "suspended") \/ dv.kind # "alsa" \/ dv.dir = "read"
                                 THEN @ ELSE dv.sent]
    OBVIOUS
  <2>3. dv.phase = "on" /\ ~dv.request
    BY <1>5 DEF DvStop, DvKept
  <2>4. Safe(n)
    BY <2>2, <2>3, StopSafe
  <2>5. dv' = [n EXCEPT !.steps = dv.steps + 1]
    BY <2>1, <2>2 DEF DvStep
  <2> QED BY <2>4, <2>5, StepSafe
<1>6. CASE DvClose
  <2>1. PICK n : n = [CloseDevice(dv) EXCEPT !.last = IF dv.dir = "write" THEN dv.sent ELSE @]
    OBVIOUS
  <2>2. Safe(n)
    BY <1>6, <2>1, CloseSafe DEF DvClose
  <2>3. dv' = [n EXCEPT !.steps = dv.steps + 1]
    BY <1>6, <2>1 DEF DvClose, DvStep
  <2> QED BY <2>2, <2>3, StepSafe
<1>7. CASE HwTick
  <2>1. CASE dv.kind = "rtnull" \/ (~Moves(dv) /\ dv.dir = "read" /\ dv.hw = "xrun")
    <3>1. PICK n : n = [dv EXCEPT !.now = @ + 1]
      OBVIOUS
    <3>2. Safe(n)
      BY <2>1, <3>1, WaitSafe
    <3>3. dv' = [n EXCEPT !.steps = dv.steps + 1]
      BY <1>7, <2>1, <3>1 DEF HwTick, DvStep
    <3> QED BY <3>2, <3>3, StepSafe
  <2>2. CASE dv.kind # "rtnull" /\ Moves(dv) /\ dv.dir = "write"
    <3>1. PICK n : n = Plays(dv)
      OBVIOUS
    <3>2. Safe(n)
      BY <1>7, <2>2, <3>1, PlaySafe DEF HwTick
    <3>3. dv' = [n EXCEPT !.steps = dv.steps + 1]
      BY <1>7, <2>2, <3>1 DEF HwTick, DvStep
    <3> QED BY <3>2, <3>3, StepSafe
  <2>3. CASE dv.kind # "rtnull" /\ Moves(dv) /\ dv.dir # "write"
    <3>1. PICK n : n = Captures(dv)
      OBVIOUS
    <3>2. dv.opened /\ (Full(dv) => dv.kind = "alsa")
      BY <1>7, <2>3 DEF HwTick, DvKept
    <3>3. Safe(n)
      BY <2>3, <3>1, <3>2, CaptureSafe
    <3>4. dv' = [n EXCEPT !.steps = dv.steps + 1]
      BY <1>7, <2>3, <3>1 DEF HwTick, DvStep
    <3> QED BY <3>3, <3>4, StepSafe
  <2>4. CASE dv.kind # "rtnull" /\ ~Moves(dv) /\ ~(dv.dir = "read" /\ dv.hw = "xrun")
    BY <1>7, <2>4 DEF HwTick
  <2> QED BY <2>1, <2>2, <2>3, <2>4
<1>8. CASE HwSuspend
  <2>1. PICK n : n = [dv EXCEPT !.hw = "suspended", !.queue = <<>>]
    OBVIOUS
  <2>2. dv.kind = "alsa" /\ dv.hw = "running" /\ ~dv.ignore
    BY <1>8 DEF HwSuspend, DvKept
  <2>3. Safe(n)
    BY <2>1, <2>2, SuspendSafe
  <2>4. dv' = [n EXCEPT !.steps = dv.steps + 1]
    BY <1>8, <2>1 DEF HwSuspend, DvStep
  <2> QED BY <2>3, <2>4, StepSafe
<1>9. CASE UNCHANGED dv
  BY <1>9
<1> QED BY <1>1, <1>2, <1>3, <1>4, <1>5, <1>6, <1>7, <1>8, <1>9 DEF DvNext

\* A device that keeps its promise is sound.
LEMMA SafeSound ==
  ASSUME DvKept, Safe(dv)
  PROVE  DevicesSound
<1>1. dv \in Device /\ Belief(dv) /\ Room(dv) /\ Place(dv) /\ WriteOrder(dv)
  BY DEF Safe
<1>2. DvSpace \in Nat /\ DvSpace >= 2
  BY DvAssumption
<1>3. DeviceKeepsAll
  <2>1. ~dv.lost
    BY <1>1 DEF Belief
  <2>2. SUFFICES ASSUME dv.drained, dv.dir = "write", dv.kind \in DvDrains PROVE dv.last = dv.sent
    BY <2>1 DEF DeviceKeepsAll
  <2>3. dv.kind = "alsa" /\ dv.phase = "off"
    BY <1>1, <2>2 DEF Belief, DvKept
  <2>4. dv.hw # "suspended" /\ dv.queue = <<>>
    BY <1>1, <2>3 DEF Place, AlsaPlace
  <2>5. InOrder(<<>>, dv.last, dv.sent)
    BY <1>1, <2>2, <2>3, <2>4 DEF WriteOrder
  <2> QED BY <1>1, <2>5, NoneWaiting, Kinds
<1>4. HandlesMatch
  BY <1>1 DEF Belief, HandlesMatch
<1>5. NeverStalls
  <2>1. SUFFICES ASSUME dv.phase = "on"
                 PROVE  dv.opened /\ (Returns(dv) \/ Moves(dv) \/ dv.kind = "rtnull")
    BY DEF NeverStalls
  <2>2. dv.opened
    BY <1>1, <2>1 DEF Belief
  <2>3. CASE dv.kind = "alsa"
    <3>1. /\ dv.hw \in {"prepared", "running", "xrun", "suspended"}
          /\ dv.hw = "prepared" => dv.request
          /\ dv.request => Len(dv.queue) = 1
      BY <1>1, <2>1, <2>3, Kinds DEF Place, AlsaPlace
    <3>2. CASE dv.hw = "running"
      BY <2>2, <3>2 DEF Moves
    <3>3. CASE dv.hw \in {"xrun", "suspended"}
      BY <2>2, <2>3, <3>3 DEF Returns, Accepts
    <3>4. CASE dv.hw = "prepared"
      <4>1. dv.request
        BY <3>1, <3>4
      <4>2. Len(dv.queue) = 1
        BY <3>1, <4>1
      <4>3. ~Full(dv)
        BY ONLY <1>2, <4>2 DEF Full
      <4>4. dv.dir = "write"
        BY <1>1, <4>1, Kinds DEF Belief
      <4> QED BY <2>2, <2>3, <4>3, <4>4 DEF Returns
    <3> QED BY <3>1, <3>2, <3>3, <3>4
  <2>4. CASE dv.kind \in {"oss", "arts"}
    <3>1. dv.hw \in {"none", "setup", "running"} /\ (dv.hw = "running" \/ SelfStarting(dv))
      BY <1>1, <2>1, <2>4 DEF Place, FreePlace
    <3>2. dv.hw # "none"
      BY <1>1, <2>2 DEF Belief
    <3>3. CASE dv.hw = "running"
      BY <2>2, <3>3 DEF Moves
    <3>4. CASE dv.hw = "setup" /\ dv.queue # <<>>
      BY <2>2, <3>1, <3>4 DEF Moves
    <3>5. CASE dv.hw = "setup" /\ dv.queue = <<>>
      <4>1. Len(dv.queue) = 0
        BY <3>5
      <4>2. ~Full(dv) /\ dv.dir = "write"
        BY <1>2, <3>1, <3>5, <4>1 DEF Full, SelfStarting
      <4> QED BY <2>2, <2>4, <4>2 DEF Returns
    <3> QED BY <3>1, <3>2, <3>3, <3>4, <3>5
  <2> QED BY <1>1, <2>2, <2>3, <2>4, Kinds
<1>6. NullPaced
  <2>1. SUFFICES ASSUME dv.kind = "rtnull", dv.running PROVE NullAvailable(dv) >= 0
    BY DEF NullPaced
  <2>2. dv.phase = "on"
    BY <1>1, <2>1, Kinds DEF Belief
  <2> QED BY <1>1, <2>1, <2>2 DEF Place, NullPlace
<1> QED BY <1>3, <1>4, <1>5, <1>6 DEF DevicesSound

\* From a start to the stop all that is written to a device is heard, in its
\* order, through underruns too, and what is read follows without a gap that
\* is not counted; handles are as the object believes, no transfer waits for
\* a device that does not move, and the null device keeps to its clock.
THEOREM DevicesSoundAlways ==
  ASSUME DvKept
  PROVE  DvSpec => []DevicesSound
<1>1. DvInit => Safe(dv)
  BY DeviceInitSafe
<1>2. Safe(dv) /\ [DvNext]_dv => Safe(dv)'
  BY DeviceNextSafe
<1>3. Safe(dv) => DevicesSound
  BY SafeSound
<1> QED BY <1>1, <1>2, <1>3, PTL DEF DvSpec
=============================================================================
