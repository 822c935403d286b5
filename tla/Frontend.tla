------------------------------- MODULE Frontend ------------------------------
(***************************************************************************)
(* The program, ecasound: main() with its loops for interactive and for    *)
(* batch use, the watchdog thread that takes the signals, the thread of    *)
(* the network server and that of the OSC interface, as far as they use    *)
(* ECA_CONTROL_MT and decide when the program ends.  Of the engine it has  *)
(* what its callers see; module Engine has the rest.  A definition that    *)
(* stands right before the one it varies, and that nothing uses, is a slip.*)
(***************************************************************************)
EXTENDS Integers, Sequences, FiniteSets, SequencesExt

CONSTANTS
  FeCommandLines, \* the arguments the program is started with
  FeCommands,     \* what is typed, and given with -E: "start", "stop", "run", "q"
  FeNetCommands,  \* what clients of the network server send
  FePaths,        \* the addresses of the OSC messages that arrive
  FeChains,       \* names of the chains of the chainsetup
  FeKinds,        \* signals, of "TERM", "INT" and "HUP"
  FeSignals,      \* bound on the signals
  FeLines,        \* bound on the lines typed
  FeCalls         \* bound on what clients send

ASSUME FeAssumption ==
  /\ FeCommands \subseteq {"start", "stop", "run", "q"}
  /\ FeNetCommands \subseteq {"start", "stop", "run"}
  /\ FeKinds \subseteq {"TERM", "INT", "HUP"}
  /\ {FeSignals, FeLines, FeCalls} \subseteq Nat

VARIABLE fe

-----------------------------------------------------------------------------
(* The command line: modes, the commands to pass ("next": the argument of  *)
(* -E comes), and whether only a text is asked for, or nothing.            *)

NoModes == [chat |-> FALSE, keep |-> FALSE, net |-> FALSE, osc |-> FALSE,
            commands |-> "none", help |-> FALSE]

Option(m, o) ==
  CASE m.help -> m
    [] ~m.help /\ m.commands = "next" -> [m EXCEPT !.commands = "given"]
    [] OTHER ->
         CASE o = "-c" -> [m EXCEPT !.chat = TRUE]
           [] o = "-C" -> [m EXCEPT !.chat = FALSE]
           [] o = "-K" -> [m EXCEPT !.keep = TRUE]
           [] o = "--server" -> [m EXCEPT !.net = TRUE]
           [] o = "--no-server" -> [m EXCEPT !.net = FALSE]
           [] o = "--osc-udp-port" -> [m EXCEPT !.osc = TRUE]
           [] o = "-E" -> [m EXCEPT !.commands = "next"]
           [] o = "--help" -> [m EXCEPT !.help = TRUE]
           [] OTHER -> m

ParseCommandLine(args) ==
  [FoldLeft(Option, NoModes, args) EXCEPT !.help = @ \/ args = <<>>]

(* The network or OSC: ECA_CONTROL_MT is shared while it processes.        *)
Shared(m) == m.net \/ m.osc

-----------------------------------------------------------------------------
(* The engine as its callers see it: "none" before it is created, "over"   *)
(* after exec(), in between what status() says.                            *)

Created(f, batch) ==
  [f EXCEPT !.engine = "starting", !.batch = batch, !.queue = <<>>,
            !.failed = FALSE, !.ended = "no"]

EngineReady(f) == f.engine \in {"idle", "running", "finished", "error"}

(* What is queued for an engine that is over is never handled.             *)
Queued(f, c) ==
  IF f.engine \in {"none", "over"} THEN f ELSE [f EXCEPT !.queue = Append(@, c)]

StartEngine(f) ==
  /\ f.engine = "starting"
  /\ fe' = [f EXCEPT !.engine = "idle"]

HandleQueued(f) ==
  /\ EngineReady(f) /\ f.engine # "error" /\ f.queue # <<>>
  /\ LET g == [f EXCEPT !.queue = Tail(@)] IN
     fe' = CASE Head(f.queue) = "start" -> [g EXCEPT !.engine = "running"]
             [] Head(f.queue) = "stop" -> [g EXCEPT !.engine = "idle"]
             [] Head(f.queue) = "exit" -> [g EXCEPT !.engine = "over", !.queue = <<>>]
             [] OTHER -> g

(* The end of the input in batch mode, or an error: exec() returns.        *)
LeaveExec(f) ==
  /\ f.engine = "error" \/ (f.engine = "finished" /\ f.batch /\ f.queue = <<>>)
  /\ fe' = [f EXCEPT !.engine = "over", !.failed = (f.engine = "error")]

Process(f) ==
  /\ f.engine = "running"
  /\ \/ fe' = [f EXCEPT !.engine = "finished", !.ended = "finished"]
     \/ fe' = [f EXCEPT !.engine = "error", !.ended = "failed"]

EngineTurn == StartEngine(fe) \/ HandleQueued(fe) \/ LeaveExec(fe)

-----------------------------------------------------------------------------
(* ECA_CONTROL_MT: one call at a time.  A call that waits keeps the lock.  *)

Nobody == [by |-> "nobody", waits |-> "not"]
Unlocked == fe.holds = Nobody
Waits(f, who, what) == [f EXCEPT !.holds = [by |-> who, waits |-> what]]

Connected(f, ok) == IF f.setup = "good" /\ ok THEN [f EXCEPT !.conn = TRUE] ELSE f

Start(f) ==
  IF ~f.conn \/ f.engine = "running" THEN f
  ELSE Queued(IF f.engine = "none" THEN Created(f, FALSE) ELSE f, "start")

Run(f, who, batch) ==
  Waits(Queued(IF f.engine = "none" THEN Created(f, batch) ELSE f, "start"),
        who, IF batch THEN "run" ELSE "keep")

CloseEngine(f, who, what) ==
  IF f.engine = "none" THEN f ELSE Waits(Queued(f, "exit"), who, what)

(* command(): ok, whether a chainsetup that has to be connected can be.    *)
Commanded(f, who, c, ok) ==
  LET g == IF f.conn THEN f ELSE Connected(f, ok) IN
  CASE c = "start" -> Start(g)
    [] c = "stop" -> Queued(f, "stop")
    [] c = "run" -> IF g.conn THEN Run(g, who, TRUE) ELSE g
    [] c = "q" -> CloseEngine(f, who, "close")

(* The loop of run(), every 250 ms: it notes that processing has started.  *)
NoteStarted ==
  /\ fe.holds.waits \in {"run", "keep"} /\ fe.engine \in {"running", "finished", "over"}
  /\ fe' = [fe EXCEPT !.holds.waits = IF @ = "run" THEN "started" ELSE "forever"]

(* It is left in batch mode when processing has finished, or has started   *)
(* and goes on no more; in any mode when it fails before it was noted, the *)
(* result then being an error whatever exec() returns.                     *)
RunReturns ==
  LET before == fe.holds.waits \in {"run", "keep"} /\ fe.engine = "error" IN
  /\ \/ before
     \/ fe.holds.waits = "run" /\ fe.engine = "finished"
     \/ fe.holds.waits = "started" /\ fe.engine # "running"
  /\ fe' = [fe EXCEPT !.holds = Nobody,
              !.ret = IF fe.holds.by = "main" /\ fe.pc = "ran" /\ (before \/ fe.failed) THEN 3 ELSE @]

CloseReturns ==
  /\ fe.holds.waits \in {"close", "reconnect"} /\ fe.engine = "over"
  /\ LET f == [fe EXCEPT !.engine = "none", !.queue = <<>>, !.holds = Nobody] IN
     fe' \in IF fe.holds.waits = "close" THEN {f}
            ELSE {Connected([f EXCEPT !.ended = "no"], ok) : ok \in BOOLEAN}

(* wait_for_stop(), with its time-out.                                     *)
StopReturns ==
  /\ fe.holds.waits = "stop"
  /\ fe' = [fe EXCEPT !.holds = Nobody]

Calls == NoteStarted \/ RunReturns \/ CloseReturns \/ StopReturns

-----------------------------------------------------------------------------
(* main()                                                                  *)

At(pc) == fe.pc = pc /\ fe.holds.by # "main"

(* A watchdog that cannot be created is waited for as if it had been.      *)
SetupSignals ==
  /\ At("signals")
  /\ \E wd \in {"new", "none"} : fe' = [fe EXCEPT !.wd = wd, !.pc = "wait_alive"]

WaitAlive ==
  /\ At("wait_alive") /\ fe.wd \notin {"none", "new"}
  /\ LET m == ParseCommandLine(fe.args) IN
     fe' = [fe EXCEPT !.args = <<>>, !.mode = m, !.ret = IF m.help THEN 1 ELSE 0,
                      !.pc = IF m.help THEN "exit" ELSE "objects"]

(* A chainsetup that is not valid is of no more use than none.             *)
CreateEcaObjects ==
  /\ At("objects")
  /\ \/ fe' = [fe EXCEPT !.ret = 1, !.pc = "launch"]
     \/ \E setup \in {"none", "good"} :
          fe' = [fe EXCEPT !.control = "made", !.setup = setup, !.pc = "launch"]

(* A server whose port is taken, or whose thread cannot be created, is     *)
(* none.                                                                   *)
LaunchServers ==
  /\ At("launch")
  /\ \E net \in IF fe.mode.net /\ fe.ret = 0 THEN {"up", "none"} ELSE {"none"} :
       fe' = [fe EXCEPT !.net = net, !.osc = fe.mode.osc /\ fe.ret = 0, !.pc = "commands"]

(* ecasound_pass_at_launch_commands(), whatever came before.               *)
PassAtLaunchCommands ==
  /\ At("commands")
  /\ IF fe.mode.commands # "given" THEN fe' = [fe EXCEPT !.pc = "loop"]
     ELSE IF fe.control = "none" THEN fe' = [fe EXCEPT !.fault = "main"]
     ELSE /\ Unlocked
          /\ \E c \in FeCommands, ok \in BOOLEAN :
               fe' = [Commanded(fe, "main", c, ok) EXCEPT !.pc = "loop"]

EnterLoop ==
  /\ At("loop")
  /\ fe' = [fe EXCEPT !.pc = CASE fe.ret # 0 -> "exit"
                                [] fe.ret = 0 /\ fe.mode.chat -> "ask"
                                [] fe.ret = 0 /\ ~fe.mode.chat -> "batch"]

(* ecasound_main_loop_interactive()                                        *)
Ask ==
  /\ At("ask")
  /\ fe' = [fe EXCEPT !.pc = IF fe.exit THEN "exit" ELSE "read"]

ReadCommandOnce ==
  /\ At("read")
  /\ \/ /\ fe.typed < FeLines /\ ~fe.eof
        /\ \E c \in FeCommands \cup {""} :
             fe' = [fe EXCEPT !.line = c, !.typed = @ + 1, !.pc = "line"]
     \/ fe' = [fe EXCEPT !.eof = TRUE, !.pc = "line"]
(* The console gives "q" at the end of its input, again and again.         *)
ReadCommand ==
  /\ At("read")
  /\ \/ /\ fe.typed < FeLines /\ ~fe.eof
        /\ \E c \in FeCommands \cup {""} :
             fe' = [fe EXCEPT !.line = c, !.typed = @ + 1, !.pc = "line"]
     \/ fe' = [fe EXCEPT !.line = "q", !.eof = TRUE, !.pc = "line"]

ExecuteLine ==
  /\ At("line")
  /\ IF fe.line = "" \/ fe.exit THEN fe' = [fe EXCEPT !.line = "", !.pc = "ask"]
     ELSE /\ Unlocked
          /\ \E ok \in BOOLEAN :
               fe' = [Commanded(fe, "main", fe.line, ok) EXCEPT !.pc = "check"]

CheckForQuit ==
  /\ At("check")
  /\ fe' = [fe EXCEPT !.exit = @ \/ fe.line = "q", !.line = "", !.pc = "ask"]

(* ecasound_main_loop_batch(): connect_chainsetup() disconnects first what *)
(* commands have connected already.                                        *)
BatchConnect ==
  /\ At("batch") /\ Unlocked
  /\ LET f == [fe EXCEPT !.conn = FALSE, !.ended = "no", !.pc = "go"] IN
     fe' \in IF fe.setup = "good" /\ fe.conn /\ fe.engine # "none"
             THEN {CloseEngine(f, "main", "reconnect")}
             ELSE {Connected(f, ok) : ok \in BOOLEAN}

BatchRun ==
  /\ At("go") /\ ~Shared(fe.mode) /\ Unlocked
  /\ fe' = CASE ~fe.conn -> [fe EXCEPT !.ret = 2, !.pc = "exit"]
             [] fe.conn /\ fe.exit -> [fe EXCEPT !.pc = "exit"]
             [] fe.conn /\ ~fe.exit ->
                  [Run(fe, "main", ~fe.mode.keep) EXCEPT !.pc = "ran"]

Ran == At("ran") /\ fe' = [fe EXCEPT !.pc = "exit"]

BatchStart ==
  /\ At("go") /\ Shared(fe.mode) /\ Unlocked
  /\ fe' = IF fe.conn \/ fe.mode.keep THEN [Start(fe) EXCEPT !.pc = "poll"]
           ELSE [fe EXCEPT !.ret = 2, !.exit = TRUE, !.pc = "poll"]

(* Once a second, until processing is finished or it is asked to exit.     *)
BatchPoll ==
  /\ At("poll")
  /\ fe.exit \/ (~fe.mode.keep /\ fe.engine \in {"finished", "error"})
  /\ fe' = [fe EXCEPT !.exit = TRUE, !.pc = "exit"]

(* The end: first the server's thread, then the engine, then the watchdog, *)
(* and only then what they use.                                            *)
RequestExit ==
  /\ At("exit")
  /\ fe' = [fe EXCEPT !.exit = @ \/ fe.mode.net, !.pc = "join_server"]

JoinServerLater == At("join_server") /\ fe' = [fe EXCEPT !.pc = "stop"]
JoinServer ==
  /\ At("join_server") /\ fe.net # "up"
  /\ fe' = [fe EXCEPT !.pc = "stop"]

StopControl ==
  /\ At("stop") /\ Unlocked
  /\ fe' = IF fe.control = "made" /\ fe.engine = "running"
           THEN [Waits(Queued(fe, "stop"), "main", "stop") EXCEPT !.pc = "disconnect"]
           ELSE [fe EXCEPT !.pc = "disconnect"]

DisconnectControl ==
  /\ At("disconnect") /\ Unlocked
  /\ fe' = IF fe.control = "made" /\ fe.conn
           THEN [CloseEngine([fe EXCEPT !.conn = FALSE], "main", "close") EXCEPT !.pc = "phase"]
           ELSE [fe EXCEPT !.pc = "phase"]

EnterPhase ==
  /\ At("phase")
  /\ fe' = [fe EXCEPT !.phase = "wait_for_wd", !.pc = "unblock"]

(* A SIGHUP for the watchdog only, and the other signals for main.         *)
UnblockMain ==
  /\ At("unblock")
  /\ fe' = [fe EXCEPT !.woken = TRUE, !.open = @ \cup {"main"}, !.pc = "join"]

JoinWatchdog ==
  /\ At("join") /\ fe.wd = "gone"
  /\ fe' = [fe EXCEPT !.phase = "one_thread", !.pc = "delete"]

(* ~ECASOUND_RUN_STATE(): the control object goes before the OSC server.   *)
DeleteControl ==
  /\ At("delete")
  /\ fe' = [fe EXCEPT !.control = IF @ = "made" THEN "deleted" ELSE @, !.pc = "free"]

FreeState ==
  /\ At("free")
  /\ fe' = [fe EXCEPT !.osc = FALSE, !.phase = "done", !.pc = "gone"]

Main ==
  \/ SetupSignals \/ WaitAlive \/ CreateEcaObjects \/ LaunchServers
  \/ PassAtLaunchCommands \/ EnterLoop \/ Ask \/ ExecuteLine \/ CheckForQuit
  \/ BatchConnect \/ BatchRun \/ Ran \/ BatchStart \/ BatchPoll
  \/ RequestExit \/ JoinServer \/ StopControl \/ DisconnectControl \/ EnterPhase
  \/ UnblockMain \/ JoinWatchdog \/ DeleteControl \/ FreeState

-----------------------------------------------------------------------------
(* ecasound_watchdog_thread()                                              *)

AnnounceAlive == fe.wd = "new" /\ fe' = [fe EXCEPT !.wd = "sigwait"]

SigWait ==
  /\ fe.wd = "sigwait"
  /\ \/ fe.woken /\ fe' = [fe EXCEPT !.wd = "out"]
     \/ \E s \in fe.pending : fe' = [fe EXCEPT !.pending = @ \ {s}, !.wd = "out"]

UnblockWatchdog ==
  /\ fe.wd = "out"
  /\ fe' = [fe EXCEPT !.open = @ \cup {"wd"}, !.wd = "request"]

(* quit_async() tests whether there is an engine that takes commands, and  *)
(* then uses the one that is there; it is called once, except for an       *)
(* interactive main loop, which is left to see the request.                *)
RequestByWatchdog ==
  /\ fe.wd = "request"
  /\ fe' = [fe EXCEPT !.exit = TRUE,
              !.wd = IF ~fe.mode.chat /\ EngineReady(fe) THEN "tested" ELSE "watch"]

(* Every 200 ms: an engine started in spite of the request is told again.  *)
Watch ==
  /\ fe.wd = "watch" /\ fe.phase # "wait_for_wd" /\ EngineReady(fe)
  /\ fe' = [fe EXCEPT !.wd = "tested"]

(* Another exit behind the first makes no difference.                      *)
UseEngine ==
  /\ fe.wd = "tested"
  /\ LET f == [fe EXCEPT !.wd = "watch"] IN
     fe' = CASE fe.engine = "none" -> [f EXCEPT !.fault = "watchdog"]
             [] "exit" \in Range(fe.queue) -> f
             [] OTHER -> Queued(f, "exit")

LeaveWatchdog ==
  /\ fe.wd = "watch" /\ fe.phase = "wait_for_wd"
  /\ fe' = [fe EXCEPT !.wd = "gone", !.open = @ \ {"wd"}]

Watchdog ==
  \/ AnnounceAlive \/ SigWait \/ UnblockWatchdog \/ RequestByWatchdog \/ Watch
  \/ UseEngine \/ LeaveWatchdog

(* Signals of the process: pending until a thread takes them or lets them  *)
(* in.                                                                     *)
SendSignal ==
  /\ fe.pc # "signals" /\ Len(fe.sent) < FeSignals
  /\ \E s \in FeKinds :
       fe' = [fe EXCEPT !.sent = Append(@, s), !.pending = @ \cup {s}]

(* ecasound_signal_handler(): no thread unblocks SIGHUP.                   *)
SignalHandler ==
  /\ fe.open # {}
  /\ \E s \in fe.pending \ {"HUP"} :
       LET f == [fe EXCEPT !.pending = @ \ {s}] IN
       fe' = CASE f.phase = "wait_for_wd" -> f
               [] f.phase # "wait_for_wd" /\ s = "INT" /\ ~f.ignored -> [f EXCEPT !.ignored = TRUE]
               [] OTHER -> [f EXCEPT !.pc = "killed"]

-----------------------------------------------------------------------------
(* The thread of the network server; module NetEci has the rest of it.     *)

ServeClient ==
  /\ fe.net = "up" /\ Unlocked /\ fe.served < FeCalls
  /\ \E c \in FeNetCommands, ok \in BOOLEAN :
       fe' = IF fe.control # "made" THEN [fe EXCEPT !.fault = "net"]
             ELSE [Commanded(fe, "net", c, ok) EXCEPT !.served = @ + 1]

LeaveServer ==
  /\ fe.net = "up" /\ fe.holds.by # "net" /\ fe.exit
  /\ fe' = [fe EXCEPT !.net = "gone"]

(* handle_osc_message(): the elements of the path in turn.  The last one   *)
(* has nothing behind it and stays; what is no number is 0.                *)
PopFront(p) == IF Len(p) > 1 THEN Tail(p) ELSE p
ToInt(e) == CASE e = "1" -> 1 [] e = "2" -> 2 [] OTHER -> 0

NoEdit == [chain |-> "", on |-> "", op |-> 0, param |-> 0]
ParamOf(p) ==
  IF p[1] = "param" THEN ToInt(PopFront(p)[1]) ELSE -1
ChainMessage(p) ==
  LET acts  == PopFront(p)
      op    == PopFront(acts)
      param == ParamOf(PopFront(op))
  IN IF p[1] \in FeChains /\ acts[1] \in {"op", "ctrl"} /\ param # -1
     THEN [chain |-> p[1], on |-> acts[1], op |-> ToInt(op[1]), param |-> param]
     ELSE NoEdit
OscEdit(p) ==
  LET component == PopFront(p) IN
  IF p[1] = "ecasound" /\ component[1] = "chain"
  THEN ChainMessage(PopFront(component)) ELSE NoEdit

(* execute_edit_on_connected(); without a connection nothing is done.      *)
OscMessage ==
  /\ fe.osc /\ fe.path = <<>>
  /\ IF fe.control = "deleted" THEN fe' = [fe EXCEPT !.fault = "osc"]
     ELSE /\ Unlocked
          /\ \E p \in FePaths :
               LET e == IF fe.conn THEN OscEdit(p) ELSE NoEdit
                   f == [fe EXCEPT !.path = p, !.edit = e, !.online = fe.conn]
               IN fe' = IF e # NoEdit /\ EngineReady(fe) THEN Queued(f, "edit") ELSE f

-----------------------------------------------------------------------------
FeBegin(args) ==
  [args |-> args, mode |-> NoModes, pc |-> "signals", ret |-> 0,
   control |-> "none", setup |-> "none", conn |-> FALSE, holds |-> Nobody,
   engine |-> "none", batch |-> FALSE, queue |-> <<>>, failed |-> FALSE,
   ended |-> "no",      \* history: how the processing has ended
   net |-> "none", served |-> 0,
   osc |-> FALSE, path |-> <<>>, edit |-> NoEdit, online |-> FALSE,
   line |-> "", typed |-> 0, eof |-> FALSE,
   exit |-> FALSE, wd |-> "none", phase |-> "none", woken |-> FALSE,
   open |-> {}, pending |-> {}, ignored |-> FALSE,
   sent |-> <<>>,       \* history: the signals sent
   fault |-> "none"]    \* the thread that has followed a null or stale pointer

FeInit == \E args \in FeCommandLines : fe = FeBegin(args)

Alive == fe.pc \notin {"gone", "killed"} /\ fe.fault = "none"
FeNext ==
  /\ Alive
  /\ \/ Main \/ ReadCommand \/ Calls \/ EngineTurn \/ Process(fe)
     \/ Watchdog \/ SendSignal \/ SignalHandler
     \/ ServeClient \/ LeaveServer \/ OscMessage

(* All threads are scheduled.  Nobody has to type or to send anything, the *)
(* input need not end.                                                     *)
FeFairness ==
  /\ WF_fe(Alive /\ Main) /\ WF_fe(Alive /\ Calls) /\ WF_fe(Alive /\ EngineTurn)
  /\ WF_fe(Alive /\ Watchdog) /\ WF_fe(Alive /\ LeaveServer)
FeSpec == FeInit /\ [][FeNext]_fe /\ FeFairness

-----------------------------------------------------------------------------
(* Properties.                                                             *)

(* Every field keeps its type.                                             *)
FeTypeOK ==
  /\ fe.engine \in {"none", "starting", "idle", "running", "finished", "error", "over"}
  /\ fe.ret \in 0 .. 3 /\ fe.conn \in BOOLEAN
  /\ fe.control \in {"none", "made", "deleted"}
  /\ fe.wd \in {"none", "new", "sigwait", "out", "request", "watch", "tested", "gone"}
  /\ fe.holds.by \in {"nobody", "main", "net"}
  /\ Range(fe.queue) \subseteq {"start", "stop", "exit", "edit"}

(* Once main has closed the engine nothing starts it again: the server's   *)
(* thread is gone by then, and before anything is deleted the watchdog is. *)
EndsInOrder ==
  /\ fe.pc \in {"phase", "unblock", "join", "delete", "free", "gone"}
       => (fe.holds.waits = "close" \/ fe.engine = "none") /\ ~fe.conn /\ fe.net # "up"
  /\ fe.pc \in {"unblock", "join", "delete", "free", "gone"} => fe.engine = "none"
  /\ fe.pc \in {"delete", "free", "gone"} => fe.wd = "gone"

(* Cleanup is skipped only for who insists: two signals, of which one is   *)
(* no SIGINT, or three; or there is nothing left to clean up.              *)
InsistedOn ==
  fe.pc = "killed" =>
    \/ Len(fe.sent) >= 3 \/ (Len(fe.sent) = 2 /\ Range(fe.sent) # {"INT"})
    \/ fe.phase \in {"one_thread", "done"} /\ fe.engine = "none" /\ ~fe.conn

(* The exit code says what became of the processing.  That it failed is    *)
(* not always said: run() may look before exec() has returned.             *)
ExitCodeTrue ==
  fe.pc = "gone" =>
    /\ (fe.ret = 1) = (fe.control = "none")
    /\ fe.mode.chat => fe.ret \in {0, 1}
    /\ ~fe.mode.chat /\ ~Shared(fe.mode) =>
         /\ fe.ret = 0 => fe.ended # "no" \/ fe.sent # <<>>
         /\ fe.ret = 2 => fe.ended = "no"
         /\ fe.ret = 3 => fe.ended = "failed"

(* No thread follows a pointer that is null, or to what has been deleted,  *)
(* but where main() leaves one: commands given with -E when the session    *)
(* could not be made, an OSC message between the two deletions of the end, *)
(* and an engine closed between the two steps of quit_async().  The        *)
(* server's thread never does, and the watchdog never outlives the control *)
(* object.                                                                 *)
NoneDangles ==
  /\ fe.fault # "net"
  /\ fe.fault = "main" => fe.control = "none" /\ fe.mode.commands = "given"
  /\ fe.fault = "osc" => fe.pc = "free"
  /\ fe.fault = "watchdog" => fe.control = "made" /\ fe.sent # <<>>

(* An OSC message edits what its address names, and nothing else does.     *)
OscExact ==
  LET p == fe.path
      full == /\ Len(p) = 7 /\ p[1] = "ecasound" /\ p[2] = "chain" /\ p[3] \in FeChains
              /\ p[4] \in {"op", "ctrl"} /\ p[6] = "param"
  IN fe.edit = IF full /\ fe.online
               THEN [chain |-> p[3], on |-> p[4], op |-> ToInt(p[5]), param |-> ToInt(p[7])]
               ELSE NoEdit

(* The program ends as it should: the five together.                       *)
ProgramSound == EndsInOrder /\ InsistedOn /\ ExitCodeTrue /\ NoneDangles /\ OscExact

(* A signal ends the program, whatever it is doing, unless it waits for a  *)
(* line that nobody types; so does the end of the console's input, and the *)
(* end of the processing in batch mode.  It stays if there is no watchdog, *)
(* for that one is waited for, if it was told to keep running, and, when   *)
(* only the input has ended, as long as a client of the server has the     *)
(* control object for a run.                                               *)
AskedToEnd == fe.sent # <<>> \/ fe.eof \/ (fe.pc = "ran" /\ fe.ended # "no")
Left ==
  fe.pc \in {"gone", "killed"} \/ (fe.pc = "read" /\ fe.exit) \/ fe.fault # "none"
StaysOn ==
  \/ fe.pc = "wait_alive" /\ fe.wd = "none"
  \/ fe.mode.keep /\ fe.holds.waits = "forever"
  \/ fe.sent = <<>> /\ fe.holds.by = "net" /\ fe.engine = "running"
ProgramEnds == AskedToEnd ~> (Left \/ StaysOn)
=============================================================================
