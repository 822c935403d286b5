----------------------------- MODULE JackDriver -----------------------------
(***************************************************************************)
(* The JACK engine driver (AUDIO_IO_JACK_MANAGER).  Three parties share it: *)
(* the engine thread inside exec(), which waits for commands and handles    *)
(* them with the driver lock held; the JACK thread, whose sync and process  *)
(* callbacks only try the lock and skip the cycle when it is taken; and the *)
(* callers of the control layer, who queue commands without any lock.       *)
(* The JACK transport is outside the program: every client may start, stop  *)
(* and relocate it, and when it waits for slow clients too long it rolls    *)
(* anyway.                                                                  *)
(*                                                                          *)
(* Positions are counted in blocks of one process cycle.  jk is what the    *)
(* parties share (the transport, the engine, the fields of the manager),    *)
(* jq the command queue, ex the engine thread.                              *)
(***************************************************************************)
EXTENDS Integers, Sequences

CONSTANTS
  JackModes,       \* the transport modes given with -G:jack ("" : none given)
  JackLength,      \* length of the chainsetup
  JackMaxPos,      \* bound: beyond it the transport is relocated to 0
  JackAhead,       \* 4096 / buffersize + 1, the first seek-ahead
  JackAheadLimit,  \* 65536 / buffersize
  JackQueue,       \* bound on the pending commands
  JackCommands,    \* what the users of the control layer ask for
  JackUserTurns,   \* bound on their commands
  JackOtherTurns,  \* bound on what happens to the transport outside
  JackShutdowns,   \* subset of {"gone", "changed"}
  JackErrors,      \* whether an output may fail: subset of BOOLEAN
  JackBatch,       \* whether the engine runs in batch mode
  JackActivate,    \* what jack_activate() may answer: subset of BOOLEAN
  JackRuns         \* bound on the calls of exec()

ASSUME JackAssumption ==
  /\ JackModes \subseteq {"", "none", "send", "recv", "sendrecv"}
  /\ {JackLength, JackMaxPos, JackQueue, JackUserTurns, JackOtherTurns,
      JackRuns} \subseteq Nat
  /\ JackAhead \in Nat \ {0} /\ JackAheadLimit \in Nat \ {0}
  /\ JackShutdowns \subseteq {"gone", "changed"}
  /\ JackErrors \subseteq BOOLEAN /\ JackActivate \subseteq BOOLEAN
  /\ JackBatch \in BOOLEAN
  /\ JackCommands \subseteq {"start", "stop", "drain", "prepare", "exit", "setpos"}

VARIABLES jk, jq, ex
jackVars == <<jk, jq, ex>>

Positions == 0 .. JackMaxPos
(* How far ahead a live seek aims: the length doubles while it is below the *)
(* limit.                                                                   *)
Aheads == 1 .. (2 * JackAheadLimit + JackAhead)
Reach == 0 .. (JackMaxPos + 2 * JackAheadLimit + JackAhead)
JackCommand ==
  [op : {"start", "stop", "drain", "prepare", "exit"}]
    \cup [op : {"setpos", "live"}, to : Reach]
Op(name) == [op |-> name]

Sends == jk.mode \in {"send", "sendrecv"}
Receives == jk.mode \in {"recv", "sendrecv"}

-----------------------------------------------------------------------------
(***************************************************************************)
(* The transport of the JACK server.  A start, or a relocation while it     *)
(* rolls, waits for the clients that registered a sync callback; others     *)
(* than this program may have one.                                          *)
(***************************************************************************)
TransportStart(d) ==
  IF d.tstate # "stopped" THEN d
  ELSE [d EXCEPT !.tstate = "starting", !.polled = FALSE, !.ready = FALSE]

(* The transport's own bound.                                               *)
Within(p) == IF p > JackMaxPos THEN JackMaxPos ELSE p

TransportStop(d) == [d EXCEPT !.tstate = "stopped", !.ready = FALSE]

TransportLocate(d, p) ==
  [d EXCEPT !.tpos = p, !.newpos = TRUE, !.polled = FALSE, !.ready = FALSE,
            !.tstate = IF @ = "rolling" /\ d.registered THEN "starting"
                       ELSE @]

-----------------------------------------------------------------------------
(***************************************************************************)
(* The operations of the engine that the driver and its callbacks use.      *)
(***************************************************************************)
Status(d) ==
  CASE d.finished -> "finished"
    [] ~d.finished /\ d.failed -> "error"
    [] ~d.finished /\ ~d.failed /\ d.running -> "running"
    [] OTHER -> "stopped"

InitEngineState(d) == [d EXCEPT !.finished = FALSE, !.failed = FALSE]
Prepare(d) ==
  IF d.prepared THEN d ELSE InitEngineState([d EXCEPT !.prepared = TRUE])
StartOperation(d) == [d EXCEPT !.running = TRUE]
StopOperation(d) ==
  IF d.prepared THEN [d EXCEPT !.prepared = FALSE, !.running = FALSE] ELSE d

(* AUDIO_IO_JACK_MANAGER::start() and stop(): a start or a stop that the    *)
(* callbacks asked for came from the transport and is not sent back to it.  *)
DriverStart(d) ==
  LET e == [StartOperation(Prepare(d)) EXCEPT !.starts = 0, !.rounds = 0]
  IN IF d.starts = 0 /\ Sends THEN TransportStart(e) ELSE e

DriverStopCounted(d) ==
  LET e == IF d.stops = 0 /\ Sends THEN TransportStop(d) ELSE d IN
  IF d.stops > 0 THEN [d EXCEPT !.stops = 0] ELSE StopOperation(e)

DriverStop(d) ==
  LET e == IF d.stops = 0 /\ Sends THEN TransportStop(d) ELSE d IN
  StopOperation([e EXCEPT !.stops = 0])

DriverExit(d) == StopOperation([d EXCEPT !.exiting = TRUE])

SetPositionSamples(d, p) ==
  LET was == Status(d) = "running"
      moved == InitEngineState([(IF was THEN StopOperation(d) ELSE d)
                                  EXCEPT !.epos = p])
  IN IF was THEN StartOperation(Prepare(moved)) ELSE moved

SetPositionLive(d, p) == InitEngineState([d EXCEPT !.epos = p])

(* One turn of check_command_queue().                                       *)
JackHandle(d, c) ==
  CASE c.op = "exit" -> DriverExit(d)
    [] c.op = "prepare" -> Prepare(d)
    [] c.op = "start" -> IF Status(d) = "running" THEN d ELSE DriverStart(d)
    [] c.op \in {"stop", "drain"} ->
         IF Status(d) \in {"running", "finished"} THEN DriverStop(d) ELSE d
    [] c.op = "setpos" -> SetPositionSamples(d, c.to)
    [] c.op = "live" -> SetPositionLive(d, c.to)

-----------------------------------------------------------------------------
(***************************************************************************)
(* The callbacks, as functions from what is shared, d, to what they leave   *)
(* and the commands they queue.                                             *)
(***************************************************************************)
Leaves(d, cs) == [d |-> d, cs |-> cs]

(* eca_jack_sync_start_seek_to()                                            *)
SeekTo(d) ==
  IF d.epos = d.tpos THEN Leaves(d, <<Op("prepare")>>)
  ELSE Leaves([d EXCEPT !.target = d.tpos],
              <<[op |-> "setpos", to |-> d.tpos], Op("prepare")>>)

(* eca_jack_sync_start_live_seek_to(): an engine that stands still is       *)
(* started, one that runs elsewhere is sent ahead of the transport.         *)
AheadAgain(d) ==
  d.target = -1 \/ d.target < d.tpos + 1 \/ d.target - d.ahead > d.tpos + 1

LiveSeekTo(d) ==
  LET longer == IF d.target = -1 THEN d.ahead
                ELSE IF d.ahead < JackAheadLimit THEN 2 * d.ahead
                ELSE JackAheadLimit
      goal == d.tpos + longer
  IN CASE ~d.running /\ (d.finished \/ d.tpos > JackLength) ->
            Leaves(d, <<>>)
       [] ~d.running /\ ~(d.finished \/ d.tpos > JackLength) ->
            IF d.prepared /\ d.epos = d.tpos
              THEN Leaves(StartOperation(d), <<>>)
              ELSE Leaves([d EXCEPT !.starts = 1], <<Op("start")>>)
       [] d.running /\ d.tpos >= JackLength ->
            Leaves([d EXCEPT !.stops = 1], <<Op("stop")>>)
       [] d.running /\ d.tpos < JackLength ->
            IF AheadAgain(d)
              THEN Leaves([d EXCEPT !.ahead = longer, !.target = goal],
                          <<[op |-> "live", to |-> goal]>>)
              ELSE Leaves(d, <<>>)

(* eca_jack_sync_callback() with the lock held.                             *)
SyncStopped(d) ==
  IF d.epos # d.tpos /\ d.target = -1 THEN SeekTo(d) ELSE Leaves(d, <<>>)

SyncStartingTrusting(d) ==
  CASE d.epos = d.tpos /\ d.prepared /\ d.running ->
         Leaves([d EXCEPT !.target = -1, !.ready = TRUE], <<>>)
    [] d.epos = d.tpos /\ ~(d.prepared /\ d.running) ->
         Leaves([d EXCEPT !.starts = 1], <<Op("start")>>)
    [] d.epos # d.tpos /\ d.target = -1 -> SeekTo(d)
    [] d.epos # d.tpos /\ d.target # -1 -> Leaves(d, <<>>)

SyncStarting(d) ==
  CASE d.epos = d.tpos /\ d.prepared /\ d.running ->
         Leaves([d EXCEPT !.target = -1, !.ready = TRUE], <<>>)
    [] d.epos = d.tpos /\ ~(d.prepared /\ d.running) ->
         Leaves([d EXCEPT !.starts = 1], <<Op("start")>>)
    [] d.epos # d.tpos /\ d.target = -1 -> SeekTo(d)
    [] d.epos # d.tpos /\ d.target # -1 ->
         IF d.target # d.tpos THEN SeekTo(d) ELSE Leaves(d, <<>>)

SyncCallback(d) ==
  CASE d.tstate = "stopped" -> SyncStopped(d)
    [] d.tstate = "starting" -> SyncStarting(d)
    [] d.tstate = "rolling" -> LiveSeekTo([d EXCEPT !.ready = TRUE])

(* eca_jack_process_engine_iteration(): one block, then the state of the    *)
(* engine; bad says that an output raised an error.                         *)
Iteration(d, bad) ==
  LET failed == d.failed \/ bad
      e == [d EXCEPT !.epos = @ + 1, !.failed = failed,
                     !.finished = ~failed /\ d.epos + 1 >= JackLength]
  IN CASE d.finished -> Leaves(d, <<>>)
       [] ~d.finished /\ failed -> Leaves(e, <<Op("stop")>>)
       [] ~d.finished /\ ~failed ->
            Leaves(e, IF e.finished THEN <<Op("drain")>> ELSE <<>>)

(* eca_jack_process_timebase_slave()                                        *)
TimebaseSlave(d, bad) ==
  LET later == [d EXCEPT !.rounds = IF @ > 3 THEN @ ELSE @ + 1]
      now == [d EXCEPT !.rounds = 0]
      run == Iteration(now, bad)
  IN CASE d.tstate = "stopped" ->
            IF d.running /\ later.rounds > 3
              THEN Leaves([later EXCEPT !.stops = 1], <<Op("stop")>>)
              ELSE Leaves(later, <<>>)
       [] d.tstate = "starting" -> Leaves(later, <<>>)
       [] d.tstate = "rolling" ->
            IF ~d.running \/ d.epos # d.tpos THEN LiveSeekTo(now)
            ELSE [run EXCEPT !.d.target = -1]

ProcessCallback(d, bad) ==
  IF d.mode \in {"none", "send"}
    THEN IF d.running THEN Iteration(d, bad) ELSE Leaves(d, <<>>)
    ELSE TimebaseSlave(d, bad)

-----------------------------------------------------------------------------
(* What the manager keeps when it has been opened, and an engine at rest.   *)
Manager(mode) ==
  [tstate |-> "stopped", tpos |-> 0, newpos |-> FALSE, polled |-> FALSE,
   ready |-> FALSE, attached |-> FALSE, registered |-> mode \in
   {"recv", "sendrecv"}, mode |-> mode, prepared |-> FALSE,
   running |-> FALSE, finished |-> FALSE, failed |-> FALSE, epos |-> 0,
   starts |-> 0, stops |-> 0, rounds |-> 0, target |-> -1,
   ahead |-> JackAhead, exiting |-> FALSE, shutdown |-> FALSE,
   active |-> FALSE, open |-> TRUE, engine |-> FALSE]

JackInit ==
  /\ \E mode \in JackModes, p \in Positions :
       jk = [Manager(mode) EXCEPT !.tpos = p]
  /\ jq = <<>>
  /\ ex = [pc |-> "idle", read |-> 0, runs |-> 0, user |-> 0, others |-> 0,
           seeks |-> 0, fault |-> FALSE]

(***************************************************************************)
(* exec(), the engine thread.                                               *)
(***************************************************************************)
(* exec() up to activate_server_connection(): the mode nobody gave becomes  *)
(* sendrecv, too late for the sync callback, which was or was not           *)
(* registered when the connection was opened.  A connection that asked for  *)
(* a shutdown in an earlier exec() is closed by connect_all_nodes().        *)
Exec ==
  /\ ex.pc \in {"idle", "done"} /\ ex.runs < JackRuns
  /\ \E ok \in JackActivate :
       LET d == Prepare(InitEngineState(jk))
           m == IF jk.mode = "" THEN "sendrecv" ELSE jk.mode
           on == [d EXCEPT !.mode = m, !.exiting = FALSE, !.stops = 0,
                           !.rounds = 0, !.starts = 0, !.engine = TRUE,
                           !.active = ok]
       IN jk' = IF ~ok THEN on
                ELSE IF jk.shutdown
                THEN [on EXCEPT !.open = FALSE, !.shutdown = FALSE]
                ELSE [on EXCEPT !.attached = TRUE, !.newpos = TRUE]
  /\ ex' = [ex EXCEPT !.pc = "seek", !.runs = @ + 1]
  /\ jq' = <<>>

InitialSeek ==
  /\ ex.pc = "seek"
  /\ jk' = IF jk.tstate = "stopped" /\ Sends THEN TransportLocate(jk, Within(jk.epos))
           ELSE jk
  /\ ex' = [ex EXCEPT !.pc = "wait", !.fault = ~jk.open]
  /\ UNCHANGED jq

(* wait_for_commands() returns, on a command or after its timeout; the      *)
(* position is read before the lock is taken.                               *)
Wake ==
  /\ ex.pc = "wait"
  /\ ex' = [ex EXCEPT !.pc = "lock", !.read = jk.epos]
  /\ UNCHANGED <<jk, jq>>

Lock == ex.pc = "lock" /\ ex' = [ex EXCEPT !.pc = "hold"]
        /\ UNCHANGED <<jk, jq>>

(* check_command_queue(), one command at a time with the lock held.         *)
HandleCommand ==
  /\ ex.pc = "hold" /\ jq # <<>> /\ ~jk.exiting
  /\ jk' = JackHandle(jk, Head(jq))
  /\ jq' = IF Head(jq).op = "exit" THEN <<>> ELSE Tail(jq)
  /\ UNCHANGED ex

(* The rest of the locked section: a position that changed is taken for a   *)
(* seek, and sent to the transport unless the transport asked for it.       *)
Unlock ==
  /\ ex.pc = "hold" /\ (jq = <<>> \/ jk.exiting)
  /\ jk' = IF ~jk.exiting /\ ex.read # jk.epos /\ Sends
              /\ jk.epos # jk.target
           THEN TransportLocate(jk, Within(jk.epos))
           ELSE jk
  /\ ex' = [ex EXCEPT !.pc = "test", !.read = 0]
  /\ UNCHANGED jq

OverDeaf == jk.exiting \/ (JackBatch /\ Status(jk) = "finished")

Over ==
  jk.exiting \/ (JackBatch /\ Status(jk) = "finished")
    \/ Status(jk) = "error" \/ jk.shutdown

Test ==
  /\ ex.pc = "test"
  /\ ex' = [ex EXCEPT !.pc = IF Over THEN "leave" ELSE "wait"]
  /\ UNCHANGED <<jk, jq>>

(* deactivate_server_connection(): a server that shut down is not asked.    *)
DeactivateLate(d) ==
  IF ~d.active THEN d ELSE StopOperation([d EXCEPT !.active = FALSE])

Deactivate(d) ==
  IF ~d.active THEN d
  ELSE StopOperation([d EXCEPT !.attached = @ /\ d.shutdown,
                               !.active = FALSE])

Leave ==
  /\ ex.pc = "leave"
  /\ jk' = Deactivate(jk)
  /\ ex' = [ex EXCEPT !.pc = "detach"]
  /\ UNCHANGED jq

Detach ==
  /\ ex.pc = "detach"
  /\ jk' = [jk EXCEPT !.exiting = FALSE, !.engine = FALSE]
  /\ ex' = [ex EXCEPT !.pc = "done"]
  /\ UNCHANGED jq

ExecStep ==
  \/ InitialSeek \/ Wake \/ Lock \/ HandleCommand \/ Unlock \/ Test
  \/ Leave \/ Detach

-----------------------------------------------------------------------------
(***************************************************************************)
(* The JACK thread.  In a cycle the sync callback comes first, when the     *)
(* transport was moved or waits to start; then the process callback; then   *)
(* the transport rolls on.                                                  *)
(***************************************************************************)
SyncDue ==
  jk.registered /\ ~jk.polled /\ (jk.newpos \/ jk.tstate = "starting")

Free == ex.pc # "hold"
Silent == jk.exiting \/ jk.shutdown

JackSync ==
  /\ jk.attached /\ SyncDue /\ Len(jq) < JackQueue
  /\ LET d == [jk EXCEPT !.polled = TRUE, !.newpos = FALSE]
         s == IF Silent \/ ~Free THEN Leaves(d, <<>>) ELSE SyncCallback(d)
     IN jk' = s.d /\ jq' = jq \o s.cs
  /\ UNCHANGED ex

RollOn(d) ==
  CASE d.tstate = "starting" /\ (d.ready \/ ~d.registered) ->
         [d EXCEPT !.tstate = "rolling", !.polled = FALSE, !.ready = FALSE]
    [] d.tstate = "rolling" /\ d.tpos < JackMaxPos ->
         [d EXCEPT !.tpos = @ + 1, !.polled = FALSE]
    [] d.tstate = "rolling" /\ d.tpos = JackMaxPos -> TransportLocate(d, 0)
    [] OTHER -> [d EXCEPT !.polled = FALSE]

JackProcess ==
  /\ jk.attached /\ ~SyncDue /\ Len(jq) < JackQueue
  /\ \E bad \in JackErrors :
       LET deaf == Silent \/ ~jk.engine \/ ~Free
           s == IF deaf THEN Leaves(jk, <<>>) ELSE ProcessCallback(jk, bad)
       IN jk' = RollOn(s.d) /\ jq' = jq \o s.cs
  /\ UNCHANGED ex

-----------------------------------------------------------------------------
(***************************************************************************)
(* The others: callers of the control layer, other clients, the server.     *)
(***************************************************************************)
JackUser ==
  /\ ex.pc \notin {"idle", "done"} /\ ex.user < JackUserTurns
  /\ Len(jq) < JackQueue
  /\ \E name \in JackCommands :
       \/ /\ name # "setpos"
          /\ jq' = Append(jq, Op(name))
          /\ ex' = [ex EXCEPT !.user = @ + 1]
       \/ /\ name = "setpos"
          /\ \E p \in Positions : jq' = Append(jq, [op |-> name, to |-> p])
          /\ ex' = [ex EXCEPT !.user = @ + 1, !.seeks = @ + 1]
  /\ UNCHANGED jk

OtherClient ==
  /\ ex.others < JackOtherTurns
  /\ \/ jk.tstate = "stopped" /\ jk' = TransportStart(jk)
     \/ jk.tstate # "stopped" /\ jk' = TransportStop(jk)
     \/ \E p \in Positions \ {jk.tpos} : jk' = TransportLocate(jk, p)
  /\ ex' = [ex EXCEPT !.others = @ + 1]
  /\ UNCHANGED jq

SyncTimeout ==
  /\ ex.others < JackOtherTurns
  /\ jk.tstate = "starting" /\ jk.registered
  /\ jk' = [jk EXCEPT !.tstate = "rolling", !.newpos = TRUE,
                      !.polled = FALSE, !.ready = FALSE]
  /\ ex' = [ex EXCEPT !.others = @ + 1]
  /\ UNCHANGED jq

(* The shutdown, sample rate and block size callbacks.                      *)
Shutdown ==
  /\ jk.attached /\ ~jk.shutdown
  /\ \E how \in JackShutdowns :
       jk' = [jk EXCEPT !.shutdown = TRUE, !.attached = how # "gone"]
  /\ UNCHANGED <<jq, ex>>

JackNext ==
  \/ Exec \/ ExecStep \/ JackSync \/ JackProcess
  \/ JackUser \/ OtherClient \/ SyncTimeout \/ Shutdown

(* The engine thread runs, wait_for_commands() times out after five         *)
(* seconds, and a JACK server that lives calls back in every cycle.  The    *)
(* engine thread sleeps between two locked sections for longer than a       *)
(* cycle, so the callbacks do not miss the lock for ever.                   *)
JackFairness ==
  /\ WF_jackVars(ExecStep)
  /\ SF_jackVars(Free /\ JackSync) /\ SF_jackVars(Free /\ JackProcess)
JackSpec == JackInit /\ [][JackNext]_jackVars /\ JackFairness

-----------------------------------------------------------------------------
(* The types of the driver's state, within the named bounds.                *)
JackTypeOK ==
  /\ jk.tstate \in {"stopped", "starting", "rolling"}
  /\ jk.tpos \in Positions /\ jk.epos \in Nat
  /\ jk.target \in Reach \cup {-1} /\ jk.ahead \in Aheads
  /\ jk.starts \in {0, 1} /\ jk.stops \in {0, 1} /\ jk.rounds \in 0 .. 4
  /\ \A f \in {"newpos", "polled", "ready", "attached", "registered",
               "prepared", "running", "finished", "failed", "exiting",
               "shutdown", "active", "open", "engine"} : jk[f] \in BOOLEAN
  /\ \A i \in DOMAIN jq : jq[i] \in JackCommand
  /\ ex.pc \in {"idle", "seek", "wait", "lock", "hold", "test", "leave",
                "detach", "done"}

(* Once exec() is over the engine is at rest, and no callback that is still *)
(* to come uses it: either the client is deactivated, or the shutdown flag  *)
(* keeps the callbacks from the engine pointer, which the sync callback     *)
(* does not test.                                                           *)
LeavesClean ==
  ex.pc \in {"detach", "done"} =>
    /\ ~jk.running /\ ~jk.prepared
    /\ jk.attached => jk.shutdown

(* exec() returns once it has been asked to exit, or the server shut down   *)
(* or changed its rate or its block size, whatever the queue holds.         *)
JackExits ==
  (jk.engine /\ (jk.exiting \/ jk.shutdown
                  \/ \E i \in DOMAIN jq : jq[i].op = "exit"))
    ~> (ex.pc = "done")

(* A transport that stays stopped stops the engine for good: starts that    *)
(* were queued or asked for by the user meanwhile do not keep it going      *)
(* (process_timebase_slave(), case 2.1).                                    *)
FollowsStop ==
  <>[](Receives /\ jk.attached /\ jk.tstate = "stopped")
    => <>[](~jk.running)

(* A transport that waits for ecasound does not wait for ever: the sync     *)
(* callback seeks, starts the engine and answers, however the commands of   *)
(* the user and the moves of the others fall in between, if the user does   *)
(* not seek.                                                                *)
TransportWaits == jk.tstate = "starting" /\ jk.registered
TransportAnswered == jk.tstate # "starting" \/ ~jk.attached \/ ~jk.engine
SyncAnswered == [](ex.seeks = 0) => (TransportWaits ~> TransportAnswered)

(* The same, the user's seeks included.                                     *)
SyncAlwaysAnswered == TransportWaits ~> TransportAnswered

(* A pending count of starts asked for by the transport has its command in  *)
(* the queue: no later start of the user is mistaken for it.                *)
StartsMatched ==
  (jk.engine /\ jk.starts > 0) => \E i \in DOMAIN jq : jq[i].op = "start"

(* The transport is relocated only for a seek that the user asked for.      *)
NoSpuriousLocate ==
  [][Unlock /\ ex.seeks = 0 => jk'.newpos = jk.newpos]_jackVars

(* initial_seek() queries a connection that is open.                        *)
ClientAlive == ~ex.fault

(* A client that could not be activated leaves exec().                      *)
FailedActivationEnds ==
  (ex.pc = "seek" /\ ~jk.active) ~> (ex.pc = "done")
=============================================================================
