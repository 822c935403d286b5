------------------------------- MODULE Engine -------------------------------
(***************************************************************************)
(* The processing engine: ECA_ENGINE driven by its default driver on the   *)
(* engine thread, the commands ECA_CONTROL sends it through the message    *)
(* queue, and the life of the engine object and its thread.  A third       *)
(* thread, the watchdog, may call quit_async() at any time.                *)
(*                                                                         *)
(* Start and stop of the db server are instants here; DbServer models what *)
(* happens in them.  A definition that stands right before the one it      *)
(* varies, and that nothing uses, is a slip the properties must catch.     *)
(***************************************************************************)
EXTENDS Integers, Sequences, SequencesExt

CONSTANTS
  Length,       \* blocks of input, or up to the length limit
  Limit,        \* "none"; "stop" or "loop": at a maximum length
  OutputErrors, \* TRUE: an output may raise an error in an iteration
  DeviceBlocks, \* TRUE: an audio device may block an iteration for ever
  Signals,      \* TRUE: the watchdog may call quit_async()
  Calls,        \* the calls the user of ECA_CONTROL makes
  MaxQueue      \* bound: a call is made with fewer commands pending

AllCalls == {"start", "run", "launch", "halt", "stop", "stopsync", "setpos",
             "forward", "edit", "disconnect"}

ASSUME EngineAssumption ==
  /\ Length \in Nat \ {0} /\ MaxQueue \in Nat
  /\ Limit \in {"none", "stop", "loop"}
  /\ {OutputErrors, DeviceBlocks, Signals} \subseteq BOOLEAN
  /\ Calls \subseteq AllCalls

VARIABLES
  connected,   \* the session's chainsetup is connected and enabled
  created,     \* engine_repp # 0
  setup,       \* csetup_repp # 0 in the engine
  pid,         \* engine_pid_rep >= 0
  exited,      \* engine_exited_rep
  execres,     \* last_exec_res_rep < 0
  batch,       \* batchmode_enabled_rep
  queue,       \* command_queue_rep
  prepared, running, finished, \* flags of the engine
  outerr,      \* outputs_finished_rep > 0
  inputsdone,  \* inputs_not_finished_rep = 0
  wasrunning,  \* was_running_rep
  exitreq,     \* exit_request_rep of the driver
  pos,         \* position of the chainsetup, in blocks
  epc, after,  \* the engine thread's place, and where it goes after a stop
  ctl, call,   \* place of the thread in ECA_CONTROL, and the call it makes
  started,     \* processing_started in run()
  expired,     \* the timeout of wait_for_stop() has passed
  quit,        \* place of the watchdog in quit_async()
  seen         \* history: blocks, errors since the call of start() or run()

object   == <<connected, created, setup, batch>>
thread   == <<pid, exited, execres>>
flags    == <<prepared, running, finished, outerr, inputsdone>>
driver   == <<wasrunning, exitreq>>
place    == <<epc, after>>
control  == <<ctl, call, started, expired>>
vars == <<object, thread, queue, flags, driver, pos, place, control, quit, seen>>

Positions == 0 .. Length

\* ECA_ENGINE::status().
Status ==
  CASE ~setup   -> "notready"
    [] finished -> "finished"
    [] outerr   -> "error"
    [] running  -> "running"
    [] OTHER    -> "stopped"

\* is_running(), is_finished(), is_engine_ready_for_commands().
IsRunning  == created /\ Status = "running"
IsFinished == created /\ Status \in {"finished", "error"}
Ready      == created /\ pid /\ Status # "notready"

\* init_engine_state().
InitState == finished' = FALSE /\ inputsdone' = FALSE /\ outerr' = FALSE

Init ==
  /\ connected = FALSE /\ created = FALSE /\ setup = FALSE /\ batch = FALSE
  /\ pid = FALSE /\ exited = FALSE /\ execres = FALSE
  /\ queue = <<>>
  /\ prepared = FALSE /\ running = FALSE /\ finished = FALSE
  /\ outerr = FALSE /\ inputsdone = FALSE
  /\ wasrunning = FALSE /\ exitreq = FALSE
  /\ pos = 0
  /\ epc = "none" /\ after = "none"
  /\ ctl = "idle" /\ call = "none" /\ started = FALSE /\ expired = FALSE
  /\ quit = "idle" /\ seen = {}

-----------------------------------------------------------------------------
(* The engine thread: check_command_queue(). *)

\* start_normal_thread() and exec() up to the driver's loop.
ThreadStart ==
  /\ epc = "spawned"
  /\ pid' = TRUE /\ execres' = FALSE
  /\ exitreq' = FALSE /\ InitState
  /\ epc' = "commands"
  /\ UNCHANGED <<object, exited, queue, prepared, running, wasrunning, pos, after,
                 control, quit, seen>>

\* push_back() holds the lock of the queue.
Pushing == ctl \in {"push", "close"} \/ quit = "push"

\* The queue is empty, or busy: pop_front() fails on a lock that is taken.
LeaveQueue ==
  /\ epc = "commands" /\ (queue = <<>> \/ Pushing)
  /\ epc' = "decide"
  /\ UNCHANGED <<object, thread, queue, flags, driver, pos, after, control, quit,
                 seen>>

Pop(items) ==
  /\ epc = "commands" /\ queue # <<>> /\ Head(queue) \in items
  /\ queue' = Tail(queue)
  /\ UNCHANGED <<object, thread, flags, pos, control, quit, seen>>

\* Stops the operation if there is one, and goes on at the place next.
StopThen(next) ==
  IF prepared THEN epc' = "stop" /\ after' = next
              ELSE epc' = next /\ UNCHANGED after

\* ep_exit clears the queue.
HandleExit ==
  /\ epc = "commands" /\ queue # <<>> /\ Head(queue) = "exit"
  /\ queue' = <<>>
  /\ StopThen("exit")
  /\ UNCHANGED <<object, thread, flags, driver, pos, control, quit, seen>>

\* ECA_ENGINE_DEFAULT_DRIVER::exit(), after stop_operation().
DriverExit ==
  /\ epc = "exit"
  /\ exitreq' = TRUE
  /\ epc' = "decide"
  /\ UNCHANGED <<object, thread, queue, flags, wasrunning, pos, after, control,
                 quit, seen>>

\* ep_start: request_start() prepares, if necessary, and starts.
HandleStart ==
  /\ Pop({"start"})
  /\ epc' = IF Status = "running" THEN "commands"
            ELSE IF prepared THEN "start" ELSE "prepare"
  /\ UNCHANGED <<driver, after>>

StoppableIfRunning == Status = "running"
Stoppable == Status \in {"running", "finished"}

\* ep_stop, ep_stop_with_drain.
HandleStop ==
  /\ Pop({"stop", "drain"})
  /\ IF Stoppable THEN StopThen("commands") ELSE UNCHANGED place
  /\ UNCHANGED driver

\* ep_setpos, ep_forward, ep_rewind: conditional_stop().
HandleSeek ==
  \E kind \in {"setpos", "forward"} :
    /\ Pop({kind})
    /\ wasrunning' = (Status = "running")
    /\ IF Status = "running" THEN StopThen(kind) ELSE epc' = kind /\ UNCHANGED after
    /\ UNCHANGED exitreq

\* ep_exec_edit: the edit is executed on the engine thread.
HandleEdit ==
  /\ Pop({"edit"})
  /\ UNCHANGED <<driver, place>>

\* stop_operation() up to the stop of the servers.
StopOperation ==
  /\ epc = "stop"
  /\ prepared' = FALSE
  /\ epc' = "signalstop"
  /\ UNCHANGED <<object, thread, queue, running, finished, outerr, inputsdone,
                 driver, pos, after, control, quit, seen>>

SignalStopQuietly ==
  /\ epc = "signalstop"
  /\ epc' = after /\ after' = "none"
  /\ UNCHANGED <<object, thread, queue, flags, driver, pos, control, quit, seen>>

SignalStop ==
  /\ epc = "signalstop"
  /\ running' = FALSE
  /\ epc' = after /\ after' = "none"
  /\ UNCHANGED <<object, thread, queue, prepared, finished, outerr, inputsdone,
                 driver, pos, control, quit, seen>>

\* The seek itself, then conditional_start().  set_position() initializes the
\* engine state, change_position() does not.
Seek ==
  /\ epc \in {"setpos", "forward"}
  /\ pos' \in Positions
  /\ IF epc = "setpos" THEN InitState ELSE UNCHANGED <<finished, outerr, inputsdone>>
  /\ epc' = IF ~wasrunning THEN "commands"
            ELSE IF prepared THEN "start" ELSE "prepare"
  /\ UNCHANGED <<object, thread, queue, prepared, running, driver, after, control,
                 quit, seen>>

PrepareOperation ==
  /\ epc = "prepare"
  /\ prepared' = TRUE /\ InitState
  /\ epc' = "start"
  /\ UNCHANGED <<object, thread, queue, running, driver, pos, after, control, quit,
                 seen>>

StartOperation ==
  /\ epc = "start"
  /\ running' = TRUE
  /\ epc' = "commands"
  /\ UNCHANGED <<object, thread, queue, prepared, finished, outerr, inputsdone,
                 driver, pos, after, control, quit, seen>>

-----------------------------------------------------------------------------
(* The engine thread: the driver's loop and the end of exec(). *)

\* What the loop does after the commands.
Decide ==
  /\ epc = "decide"
  /\ epc' = CASE exitreq -> "end"
              [] ~exitreq /\ Status = "running" -> "iterate"
              [] ~exitreq /\ Status = "finished" /\ batch -> "end"
              [] ~exitreq /\ Status = "error" -> "end"
              [] OTHER -> "wait"
  /\ UNCHANGED <<object, thread, queue, flags, driver, pos, after, control, quit,
                 seen>>

\* engine_iteration(): a block, and what prehandle_ and
\* posthandle_control_position() do at the end of the input or at the limit.
Iterate ==
  LET next == IF pos < Length THEN pos + 1 ELSE pos
      over == next = Length
  IN /\ epc = "iterate"
     /\ \E error \in {FALSE, OutputErrors} :
          /\ outerr' = (outerr \/ error)
          /\ seen' = seen \cup {"block"} \cup (IF error THEN {"error"} ELSE {})
          /\ queue' = IF over /\ Limit = "stop" /\ ~outerr'
                        THEN Append(queue, "drain") ELSE queue
     /\ pos' = IF over /\ Limit = "loop" THEN 0 ELSE next
     /\ inputsdone' = (over /\ Limit = "none")
     /\ finished' = (finished \/ (over /\ Limit = "stop"))
     /\ epc' = "update"
     /\ UNCHANGED <<object, thread, prepared, running, driver, after, control,
                    quit>>

\* wait_for_commands(): a command has come or five seconds have passed.
WaitForCommands ==
  /\ epc = "wait"
  /\ epc' = "update"
  /\ UNCHANGED <<object, thread, queue, flags, driver, pos, after, control, quit,
                 seen>>

\* update_engine_state().
UpdateState ==
  LET done == inputsdone /\ ~outerr /\ ~finished
      failed == outerr /\ ~finished
  IN /\ epc = "update"
     /\ finished' = (finished \/ done)
     /\ queue' = IF running /\ done THEN Append(queue, "drain")
                 ELSE IF running /\ failed THEN Append(queue, "stop") ELSE queue
     /\ epc' = "commands"
     /\ UNCHANGED <<object, thread, prepared, running, outerr, inputsdone, driver,
                    pos, after, control, quit, seen>>

LoopEndAtOnce ==
  /\ epc = "end"
  /\ epc' = "execend"
  /\ UNCHANGED <<object, thread, queue, flags, driver, pos, after, control, quit,
                 seen>>

\* Out of the driver's loop.
LoopEnd ==
  /\ epc = "end"
  /\ StopThen("execend")
  /\ UNCHANGED <<object, thread, queue, flags, driver, pos, control, quit, seen>>

\* exec() after the driver: the result, then cleanup().
ExecEnd ==
  /\ epc = "execend"
  /\ setup' = FALSE
  /\ epc' = IF Status = "error" THEN "failed" ELSE "succeeded"
  /\ UNCHANGED <<connected, created, batch, thread, queue, flags, driver, pos,
                 after, control, quit, seen>>

\* run_engine() keeps the result and tells that the engine has exited.
ExecResult ==
  /\ epc \in {"failed", "succeeded"}
  /\ execres' = (epc = "failed") /\ exited' = TRUE
  /\ epc' = "exiting"
  /\ UNCHANGED <<object, pid, queue, flags, driver, pos, after, control, quit, seen>>

ThreadEnd ==
  /\ epc = "exiting"
  /\ pid' = FALSE
  /\ epc' = "gone"
  /\ UNCHANGED <<object, exited, execres, queue, flags, driver, pos, after, control,
                 quit, seen>>

EngineSteps ==
  \/ ThreadStart \/ LeaveQueue \/ HandleExit \/ DriverExit \/ HandleStart
  \/ HandleStop \/ HandleSeek \/ HandleEdit \/ StopOperation \/ SignalStop \/ Seek
  \/ PrepareOperation \/ StartOperation \/ Decide \/ WaitForCommands \/ UpdateState
  \/ LoopEnd \/ ExecEnd \/ ExecResult \/ ThreadEnd

-----------------------------------------------------------------------------
(* The thread in ECA_CONTROL: one at a time, as ECA_CONTROL_MT locks.  A     *)
(* call is made, pushes commands, waits, and returns.                        *)

engine == <<thread, flags, driver, pos, place>>

Goto(next) == ctl' = next /\ UNCHANGED <<call, started, expired>>

Return == ctl' = "idle" /\ call' = "none" /\ started' = FALSE /\ expired' = FALSE

\* The thread in ECA_CONTROL makes the call c and goes on at next.
Make(c, next) ==
  /\ ctl = "idle" /\ c \in Calls
  /\ Len(queue) < MaxQueue \/ c \in {"launch", "halt", "disconnect"}
  /\ ctl' = next /\ call' = c
  /\ seen' = IF c \in {"start", "run"} THEN {} ELSE seen
  /\ UNCHANGED <<object, engine, queue, started, expired, quit>>

\* connect_chainsetup() of a chainsetup that can be enabled.
Connect ==
  /\ ctl = "idle" /\ ~connected
  /\ connected' = TRUE
  /\ UNCHANGED <<created, setup, batch, engine, queue, control, quit, seen>>

\* action(): ec_start, ec_run, engine-launch.
CallStart  == connected /\ ~IsRunning /\ Make("start", "create")
CallRun    == connected /\ Make("run", "create")
CallLaunch == connected /\ ~Ready /\ Make("launch", IF created THEN "close" ELSE "create")

\* engine-halt, ec_stop, ec_stop_sync.
CallHalt     == Ready /\ Make("halt", "close")
CallStop     == created /\ Make("stop", "push")
CallStopSync == created /\ Make("stopsync", "push")

\* The engine thread seeks or edits; this one does if there is no engine.
CallMove ==
  connected /\ \E c \in {"setpos", "forward", "edit"} :
                 Make(c, IF Ready THEN "push" ELSE "direct")

CallDisconnectReady ==
  connected /\ Make("disconnect", IF Ready THEN "push" ELSE "disconnect")

CallDisconnect ==
  connected /\ Make("disconnect", IF Ready THEN "push"
                                  ELSE IF created THEN "close" ELSE "disconnect")

Direct ==
  /\ ctl = "direct"
  /\ IF call = "edit" THEN UNCHANGED pos ELSE pos' \in Positions
  /\ Return
  /\ UNCHANGED <<object, thread, queue, flags, driver, place, quit, seen>>

\* start() and run() create the engine if there is none, engine-launch does
\* when the old one is closed.
EngineThere ==
  /\ ctl = "create" /\ created
  /\ Goto("push")
  /\ UNCHANGED <<object, engine, queue, quit, seen>>

\* start_engine_sub() with a thread created.
Launch ==
  /\ ctl = "create" /\ ~created
  /\ created' = TRUE /\ setup' = TRUE /\ batch' = (call = "run")
  /\ queue' = <<>>
  /\ prepared' = FALSE /\ running' = FALSE /\ InitState
  /\ epc' = "spawned"
  /\ \/ call = "launch" /\ Return
     \/ call # "launch" /\ Goto("push")
  /\ UNCHANGED <<connected, thread, driver, pos, after, quit, seen>>

\* pthread_create() has failed.
LaunchFails ==
  /\ ctl = "create" /\ ~created
  /\ Return
  /\ UNCHANGED <<object, engine, queue, quit, seen>>

CommandOfCall == call

Command ==
  CASE call \in {"start", "run"} -> "start"
    [] call \in {"stop", "stopsync", "disconnect"} -> "stop"
    [] OTHER -> call

\* ECA_ENGINE::command().
Push ==
  /\ ctl = "push"
  /\ queue' = Append(queue, Command)
  /\ \/ call = "run" /\ Goto("loop")
     \/ call \in {"stopsync", "disconnect"} /\ Goto("wait")
     \/ call \notin {"run", "stopsync", "disconnect"} /\ Return
  /\ UNCHANGED <<object, engine, quit, seen>>

\* wait_for_stop(): the wait goes on after the timeout while the engine runs.
WaitForStop ==
  /\ ctl = "wait" /\ ~running
  /\ Goto("stopped")
  /\ UNCHANGED <<object, engine, queue, quit, seen>>

WaitExpires ==
  /\ ctl = "wait" /\ ~expired
  /\ expired' = TRUE
  /\ UNCHANGED <<object, engine, queue, ctl, call, started, quit, seen>>

\* The end of stop_on_condition(), in disconnect_chainsetup() too.
Stopped ==
  /\ ctl = "stopped"
  /\ IF call = "disconnect" THEN Goto("close") ELSE Return
  /\ UNCHANGED <<object, engine, queue, quit, seen>>

\* close_engine(): ep_exit, and the thread is joined.
Close ==
  /\ ctl = "close"
  /\ queue' = Append(queue, "exit")
  /\ Goto("join")
  /\ UNCHANGED <<object, engine, quit, seen>>

\* pthread_join() has returned: the engine is deleted.
Join ==
  /\ ctl = "join" /\ epc = "gone"
  /\ created' = FALSE /\ exited' = FALSE /\ queue' = <<>>
  /\ epc' = "none"
  /\ \/ call = "launch" /\ Goto("create")
     \/ call = "disconnect" /\ Goto("disconnect")
     \/ call = "halt" /\ Return
  /\ UNCHANGED <<connected, setup, batch, pid, execres, flags, driver, pos, after,
                 quit, seen>>

\* The session disables the chainsetup.
Disconnect ==
  /\ ctl = "disconnect"
  /\ connected' = FALSE
  /\ Return
  /\ UNCHANGED <<created, setup, batch, engine, queue, quit, seen>>

\* run(): the head of the loop; the body after 250 ms of sleep; the result.
RunLoop ==
  /\ ctl = "loop"
  /\ Goto(IF IsFinished THEN "result" ELSE "poll")
  /\ UNCHANGED <<object, engine, queue, quit, seen>>

RunPollRunning ==
  /\ ctl = "poll"
  /\ started' = (started \/ IsRunning)
  /\ ctl' = IF started /\ ~IsRunning THEN "result" ELSE "loop"
  /\ UNCHANGED <<object, engine, queue, call, expired, quit, seen>>

RunPoll ==
  /\ ctl = "poll"
  /\ started' = (started \/ IsRunning \/ IsFinished \/ exited)
  /\ ctl' = IF started /\ ~IsRunning THEN "result" ELSE "loop"
  /\ UNCHANGED <<object, engine, queue, call, expired, quit, seen>>

RunResult ==
  /\ ctl = "result"
  /\ Return
  /\ UNCHANGED <<object, engine, queue, quit, seen>>

-----------------------------------------------------------------------------
(* The watchdog thread in quit_async(), which takes no lock of ECA_CONTROL. *)

QuitCheck ==
  /\ Signals /\ quit = "idle" /\ Ready /\ Len(queue) < MaxQueue
  /\ quit' = "push"
  /\ UNCHANGED <<object, engine, queue, control, seen>>

\* The command, if the engine is still there to take it.
QuitPush ==
  /\ quit = "push"
  /\ quit' = "idle"
  /\ queue' = IF created THEN Append(queue, "exit") ELSE queue
  /\ UNCHANGED <<object, engine, control, seen>>

-----------------------------------------------------------------------------
Requests ==
  \/ Connect \/ CallStart \/ CallRun \/ CallLaunch \/ CallHalt \/ CallStop
  \/ CallStopSync \/ CallMove \/ CallDisconnect

ControlSteps ==
  \/ Direct \/ EngineThere \/ Launch \/ LaunchFails \/ Push \/ WaitForStop
  \/ WaitExpires \/ Stopped \/ Close \/ Join \/ Disconnect \/ RunLoop \/ RunPoll
  \/ RunResult

Next ==
  \/ EngineSteps \/ Iterate \/ Requests \/ ControlSteps \/ QuitCheck \/ QuitPush

Spec == Init /\ [][Next]_vars

\* Each thread is scheduled, and an iteration ends unless a device blocks.  Nobody
\* has to make a call, and nobody makes calls for ever faster than the engine
\* thread finds its queue empty: from some time on there are none.
Fairness ==
  /\ WF_vars(EngineSteps) /\ (~DeviceBlocks => WF_vars(Iterate))
  /\ WF_vars(ControlSteps) /\ WF_vars(QuitPush)
  /\ <>[][~(Requests \/ QuitCheck)]_vars

FairSpec == Spec /\ Fairness

-----------------------------------------------------------------------------
(* Properties. *)

EnginePlaces == {"commands", "exit", "stop", "signalstop", "setpos", "forward",
                 "prepare", "start", "decide", "iterate", "wait", "update", "end",
                 "execend"}
AfterExec == {"failed", "succeeded", "exiting", "gone"}
ControlPlaces == {"idle", "create", "push", "wait", "stopped", "close", "join",
                  "disconnect", "direct", "loop", "poll", "result"}
Commands == {"start", "stop", "drain", "setpos", "forward", "edit", "exit"}

\* Every variable has its type.
TypeOK ==
  /\ {connected, created, setup, pid, exited, execres, batch} \subseteq BOOLEAN
  /\ {prepared, running, finished, outerr, inputsdone} \subseteq BOOLEAN
  /\ {wasrunning, exitreq, started, expired} \subseteq BOOLEAN
  /\ queue \in Seq(Commands)
  /\ pos \in Positions
  /\ epc \in EnginePlaces \cup AfterExec \cup {"none", "spawned"}
  /\ after \in {"none", "commands", "exit", "setpos", "forward", "execend"}
  /\ ctl \in ControlPlaces /\ call \in Calls \cup {"none"}
  /\ quit \in {"idle", "push"}
  /\ seen \subseteq {"block", "error"}

\* While the engine thread is in exec(), nobody deletes the engine object and
\* nobody disables the chainsetup: close_engine() joins the thread, and
\* disconnect_chainsetup() closes the engine before the session disables.
EngineAlive == epc \in EnginePlaces => created /\ connected /\ setup

\* An engine that runs has been prepared, up to the last step of
\* stop_operation(): servers and devices are never started twice, and a stop
\* command always finds the operation to stop.
RunningPrepared == running /\ epc # "signalstop" => prepared

\* A thread that has left exec() has stopped servers and devices, whatever
\* made it leave: an exit, the end of a batch, or an error.
ExitStopped == epc \in AfterExec => ~prepared /\ ~running

\* A stop command that is queued behind any other command stops the engine.
StopObeyed == (running /\ Contains(queue, "stop")) ~> ~running

\* An engine that has processed its whole input stops.
FinishedStops == (finished /\ running) ~> ~running

\* Every call into ECA_CONTROL returns: start(), stop_on_condition(), run(),
\* close_engine(), disconnect_chainsetup().
CallsEnd == ctl # "idle" ~> ctl = "idle"

-----------------------------------------------------------------------------
(* What the documentation says of the calls. *)

\* "@post is_running() == false" of stop_on_condition().
StopSynced == ctl = "stopped" => ~IsRunning

\* "blocks until processing is finished": run() succeeds after it has
\* processed.
RunProcesses == ctl = "result" /\ ~execres => "block" \in seen

\* "negative on error, zero on success": run() tells of an output error.
RunReportsErrors == ctl = "result" /\ "error" \in seen => execres

\* "make sure that if the selected chainsetup is in use by the engine, the
\* edit is performed by the engine thread".
EditsInEngine == ctl = "direct" /\ call = "edit" => epc \notin EnginePlaces

\* start_operation() requires an engine that is not running.
StartsWhenStopped == epc = "start" => ~running

\* "negative on error, zero on success": a start() that succeeds starts.
StartObeyed == (ctl = "push" /\ call = "start") ~> running

\* The wait for the stop ends after five seconds.
WaitBounded == expired ~> ctl # "wait"

\* quit_async() is thread-safe: its engine is not deleted under it.
QuitSafe == quit = "push" => created

\* "case 3a-ii: engine error occured -> exit": an error ends the exec().
ErrorExits == outerr ~> epc \notin EnginePlaces
=============================================================================
