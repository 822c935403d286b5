------------------------------ MODULE DbServer ------------------------------
(***************************************************************************)
(* Double-buffered disk i/o: AUDIO_IO_DB_SERVER's i/o thread, the          *)
(* AUDIO_IO_DB_CLIENT proxies and the engine thread that uses both.  The   *)
(* i/o thread moves blocks between the child audio objects and the rings;  *)
(* the engine thread moves them between the rings and the engine, starts,  *)
(* stops, flushes and seeks.  A block is named by its position in its      *)
(* audio object, counted in blocks.                                        *)
(*                                                                         *)
(* A definition that stands right before the one it varies, and that       *)
(* nothing uses, is a slip the properties must catch (see the README).     *)
(***************************************************************************)
EXTENDS DbBuffer

CONSTANTS
  NClients,   \* number of registered clients, in registration order
  Readers,    \* clients opened with io_read; the others are io_write
  Seekable,   \* clients whose child supports seeking
  Length,     \* blocks in each child; bounds the positions
  SlowIO,     \* TRUE: disk i/o may outlast the 5 second timed waits
  LiveSeek,   \* TRUE: the engine seeks without stopping (looping, live seek)
  WriteErrors \* TRUE: a child may raise an error on a write (disk full)

Clients == 1 .. NClients
Writers == Clients \ Readers

ASSUME DbServerAssumption ==
  /\ NClients \in Nat \ {0}
  /\ Readers \subseteq Clients /\ Seekable \subseteq Clients
  /\ Length \in Nat
  /\ {SlowIO, LiveSeek, WriteErrors} \subseteq BOOLEAN

Position == 0 .. Length

VARIABLES
  readptr, writeptr,  \* [Clients -> Slots]: readptr_rep, writeptr_rep
  finished,           \* [Clients -> BOOLEAN]: finished_rep of the ring
  sbufs,              \* [Clients -> [Slots -> Int]]: the block in each slot
  childpos,           \* [Clients -> Position]: the child's position
  childerr,           \* [Clients -> BOOLEAN]: a write to the child failed
  pos,                \* [Clients -> Position]: the db client's position
  clientfin,          \* [Clients -> BOOLEAN]: the db client's finished_rep
  moved,              \* [Clients -> Int]: block that left the ring last
  registered,         \* clients with an entry in clients_rep
  running, stopreq, exitreq, full,  \* the server's flags
  iopc, iop,          \* i/o thread: place in io_thread(), client served
  processed, passive, \* its locals; passive_rounds saturates at 2
  epc, cur,           \* engine thread: place in the code, client used
  waits, blocked,     \* the condition it is to wait on; whether it waits
  goal, todo, target  \* what it does to each client, those left, new position

ring   == <<readptr, writeptr, finished, sbufs>>
child  == <<childpos, childerr>>
client == <<pos, clientfin>>
flags  == <<running, stopreq, exitreq, full>>
io     == <<iopc, iop, processed, passive>>
job    == <<goal, todo, target>>
eng    == <<epc, cur, waits, blocked, job>>
vars   == <<ring, child, client, moved, registered, flags, io, eng>>

RS(c) == ReadSpace(readptr[c], writeptr[c])
WS(c) == WriteSpace(readptr[c], writeptr[c])

\* child()->finished(): end of stream, or a failed write.
ChildFinished(c) ==
  IF c \in Readers THEN childpos[c] = Length ELSE childerr[c]

Init ==
  /\ readptr = [c \in Clients |-> 0] /\ writeptr = [c \in Clients |-> 0]
  /\ finished = [c \in Clients |-> FALSE]
  /\ sbufs = [c \in Clients |-> [s \in Slots |-> -1]]
  /\ childpos = [c \in Clients |-> 0] /\ pos = [c \in Clients |-> 0]
  /\ childerr = [c \in Clients |-> FALSE]
  /\ clientfin = [c \in Clients |-> FALSE]
  /\ moved = [c \in Clients |-> -1]
  /\ registered = Clients
  /\ running = FALSE /\ stopreq = FALSE /\ exitreq = FALSE /\ full = FALSE
  /\ iopc = "none" /\ iop = 0 /\ processed = FALSE /\ passive = 0
  /\ epc = "idle" /\ cur = 0 /\ waits = "none" /\ blocked = FALSE
  /\ goal = "none" /\ todo = {} /\ target = 0

-----------------------------------------------------------------------------
(* The i/o thread. *)

IoNextAlways == iopc' = "scan" /\ iop' = iop + 1

IoNextUnlessSkipped ==
  IF iop = NClients \/ finished[iop] \/ iop \notin registered
    THEN iopc' = "endpass" /\ UNCHANGED iop
    ELSE iopc' = "scan" /\ iop' = iop + 1

\* The next client to look at, or the end of the pass.
IoNextClient ==
  IF iop = NClients THEN iopc' = "endpass" /\ UNCHANGED iop
                    ELSE iopc' = "scan" /\ iop' = iop + 1

\* pthread_cond_broadcast: wakes the engine thread if it is blocked on cond;
\* a signal sent before the wait begins is lost.
Signal(cond) ==
  LET wake == blocked /\ waits = cond
  IN /\ waits' = (IF wake THEN "none" ELSE waits)
     /\ blocked' = (blocked /\ ~wake)
     /\ UNCHANGED <<epc, cur, job>>

\* running_rep is set: a new pass over the clients begins.
IoTop ==
  /\ iopc = "top" /\ running
  /\ processed' = FALSE
  /\ iopc' = "scan" /\ iop' = 1
  /\ UNCHANGED <<ring, child, client, moved, registered, flags, passive, eng>>

\* Room in the ring of a reader, or data in the ring of a writer.
TransferSpace(c) == IF c \in Readers THEN WS(c) ELSE RS(c)

\* Skip a client, or find room (data) in its ring and start a transfer.
IoScan ==
  /\ iopc = "scan"
  /\ LET served == iop \in registered /\ ~finished[iop]
     IN /\ finished' = IF served /\ ChildFinished(iop)
                         THEN [finished EXCEPT ![iop] = TRUE] ELSE finished
        /\ IF served /\ ~ChildFinished(iop) /\ TransferSpace(iop) > 0
             THEN iopc' = "transfer" /\ UNCHANGED iop
             ELSE IoNextClient
  /\ UNCHANGED <<readptr, writeptr, sbufs, child, client, moved, registered,
                 flags, processed, passive, eng>>

\* clients_rep[p]->read_buffer(): child to ring.
IoReadBuffer ==
  /\ iopc = "transfer" /\ iop \in Readers
  /\ sbufs' = [sbufs EXCEPT ![iop][writeptr[iop]] = childpos[iop]]
  /\ childpos' = [childpos EXCEPT ![iop] = IF @ < Length THEN @ + 1 ELSE @]
  /\ iopc' = "mark"
  /\ UNCHANGED <<readptr, writeptr, finished, childerr, client, moved,
                 registered, flags, iop, processed, passive, eng>>

\* A child writes the block in the read slot, or raises an error.
ChildWrite(c) ==
  \/ /\ childpos' = [childpos EXCEPT ![c] = IF @ < Length THEN @ + 1 ELSE @]
     /\ moved' = [moved EXCEPT ![c] = sbufs[c][readptr[c]]]
     /\ UNCHANGED childerr
  \/ /\ WriteErrors
     /\ childerr' = [childerr EXCEPT ![c] = TRUE]
     /\ UNCHANGED <<childpos, moved>>

\* clients_rep[p]->write_buffer(): ring to child.
IoWriteBuffer ==
  /\ iopc = "transfer" /\ iop \in Writers
  /\ ChildWrite(iop)
  /\ iopc' = "mark"
  /\ UNCHANGED <<ring, client, registered, flags, iop, processed, passive, eng>>

\* The ring is marked as finished before its pointer is advanced.
IoMark ==
  /\ iopc = "mark"
  /\ finished' = [finished EXCEPT ![iop] = @ \/ ChildFinished(iop)]
  /\ iopc' = "advance"
  /\ UNCHANGED <<readptr, writeptr, sbufs, child, client, moved, registered,
                 flags, iop, processed, passive, eng>>

IoAdvance ==
  /\ iopc = "advance"
  /\ IF iop \in Readers
       THEN /\ writeptr' = [writeptr EXCEPT ![iop] = Advanced(@)]
            /\ UNCHANGED readptr
       ELSE /\ readptr' = [readptr EXCEPT ![iop] = Advanced(@)]
            /\ UNCHANGED writeptr
  /\ processed' = TRUE
  /\ IoNextClient
  /\ UNCHANGED <<finished, sbufs, child, client, moved, registered, flags,
                 passive, eng>>

\* End of a pass: a stop request, an idle round, or business as usual.
IoEndPass ==
  /\ iopc = "endpass"
  /\ \/ /\ stopreq
        /\ iopc' = "stop" /\ UNCHANGED <<passive, full>>
     \/ /\ ~stopreq /\ processed
        /\ iopc' = "top" /\ passive' = 0 /\ UNCHANGED full
     \/ /\ ~stopreq /\ ~processed /\ passive = 0
        /\ iopc' = "wait" /\ passive' = 1 /\ UNCHANGED full
     \/ /\ ~stopreq /\ ~processed /\ passive > 0
        /\ iopc' = "signalfull" /\ passive' = 2 /\ full' = TRUE
  /\ UNCHANGED <<ring, child, client, moved, registered, running, stopreq,
                 exitreq, iop, processed, eng>>

IoSignalFull ==
  /\ iopc = "signalfull"
  /\ Signal("full")
  /\ iopc' = "wait"
  /\ UNCHANGED <<ring, child, client, moved, registered, flags, iop, processed,
                 passive>>

\* wait_for_client_activity() gives up after 100 msec.
IoWaitTimeout ==
  /\ iopc = "wait"
  /\ iopc' = "top"
  /\ UNCHANGED <<ring, child, client, moved, registered, flags, iop, processed,
                 passive, eng>>

AcknowledgeOnly == stopreq' = FALSE /\ full' = FALSE /\ UNCHANGED running
AcknowledgeStop == stopreq' = FALSE /\ full' = FALSE /\ running' = FALSE

IoStop ==
  /\ iopc = "stop"
  /\ AcknowledgeStop
  /\ iopc' = "signalstop"
  /\ UNCHANGED <<ring, child, client, moved, registered, exitreq, iop,
                 processed, passive, eng>>

IoSignalStop ==
  /\ iopc = "signalstop"
  /\ Signal("stop")
  /\ iopc' = "top"
  /\ UNCHANGED <<ring, child, client, moved, registered, flags, iop, processed,
                 passive>>

\* Writers whose ring still holds blocks that flush() would write out.
Unflushed == {c \in registered \cap Writers : ~finished[c] /\ RS(c) > 0}

\* flush(): one queued block to the child.
FlushWrite(c) ==
  /\ c \in Unflushed
  /\ ChildWrite(c)

ResetReadptr(C) ==
  /\ readptr' = [c \in Clients |-> IF c \in C THEN 0 ELSE readptr[c]]
  /\ finished' = [c \in Clients |-> finished[c] /\ c \notin C]
  /\ UNCHANGED <<writeptr, sbufs>>

ResetPointers(C) ==
  /\ readptr' = [c \in Clients |-> IF c \in C THEN 0 ELSE readptr[c]]
  /\ writeptr' = [c \in Clients |-> IF c \in C THEN 0 ELSE writeptr[c]]
  /\ UNCHANGED <<finished, sbufs>>

\* reset() on the rings of C.
ResetRings(C) ==
  /\ readptr' = [c \in Clients |-> IF c \in C THEN 0 ELSE readptr[c]]
  /\ writeptr' = [c \in Clients |-> IF c \in C THEN 0 ELSE writeptr[c]]
  /\ finished' = [c \in Clients |-> finished[c] /\ c \notin C]
  /\ UNCHANGED sbufs

\* Exit request seen while not running: flush() and leave the loop.  The
\* destructor runs after every client has been unregistered, so that no
\* ring is left to write out.
IoExit ==
  /\ iopc = "top" /\ ~running /\ exitreq
  /\ Unflushed = {}
  /\ ResetRings(registered)
  /\ iopc' = "exited"
  /\ UNCHANGED <<child, client, moved, registered, flags, iop, processed,
                 passive, eng>>

IoThread ==
  \/ IoTop \/ IoScan \/ IoReadBuffer \/ IoWriteBuffer \/ IoMark \/ IoAdvance
  \/ IoEndPass \/ IoSignalFull \/ IoWaitTimeout \/ IoStop \/ IoSignalStop
  \/ IoExit

-----------------------------------------------------------------------------
(* The engine thread. *)

At(place) == epc = place /\ waits = "none"

\* pserver.start(); the first call creates the i/o thread.
StartServer ==
  /\ stopreq' = FALSE /\ running' = TRUE
  /\ iopc' = IF iopc = "none" THEN "top" ELSE iopc
  /\ UNCHANGED <<exitreq, full, iop, processed, passive>>

\* pserver.stop().
StopServer == stopreq' = TRUE /\ UNCHANGED <<running, exitreq, full>>

WaitForNothing(cond, from, to) ==
  /\ At(from)
  /\ epc' = to
  /\ UNCHANGED <<ring, child, client, moved, registered, flags, io, cur, waits,
                 blocked, job>>

\* wait_for_full(), wait_for_stop(): a timed wait, if the server is running.
WaitFor(cond, from, to) ==
  /\ At(from)
  /\ waits' = IF running THEN cond ELSE "none"
  /\ epc' = to
  /\ UNCHANGED <<ring, child, client, moved, registered, flags, io, cur, blocked,
                 job>>

\* The wait begins some time after is_running() has been read.
EngineBlock ==
  /\ waits # "none" /\ ~blocked
  /\ blocked' = TRUE
  /\ UNCHANGED <<ring, child, client, moved, registered, flags, io, epc, cur,
                 waits, job>>

\* A timed wait ends without its signal: the stop was signalled before the
\* wait began, or (SlowIO) the i/o thread needs more than 5 seconds.
NeverExpires == FALSE
WaitExpires == SlowIO \/ (waits = "stop" /\ ~running /\ iopc # "signalstop")

EngineTimeout ==
  /\ blocked /\ WaitExpires
  /\ waits' = "none" /\ blocked' = FALSE
  /\ UNCHANGED <<ring, child, client, moved, registered, flags, io, epc, cur, job>>

\* Begin to treat the clients of C one by one.
Begin(work, C) == goal' = work /\ todo' = C /\ epc' = "each"

\* prepare_operation(): start_io() on each client, then start_servers().
EngineStart ==
  /\ At("idle") /\ registered # {}
  /\ Begin("start", registered)
  /\ UNCHANGED <<ring, child, client, moved, registered, flags, io, cur, waits,
                 blocked, target>>

EnginePrefill == WaitFor("full", "prefill", "prefilled")

\* A place of the engine thread that only leads on to the next one.
Move(from, to) ==
  /\ At(from)
  /\ epc' = to
  /\ UNCHANGED <<ring, child, client, moved, registered, flags, io, cur, waits,
                 blocked, job>>

EnginePrefilled == Move("prefilled", "active")

\* signal_client_activity() ends wait_for_client_activity().
SignalActivity ==
  /\ iopc' = IF iopc = "wait" THEN "top" ELSE iopc
  /\ UNCHANGED <<iop, processed, passive>>

\* AUDIO_IO_DB_CLIENT::read_buffer(): data, or an empty ring.
ReadBegin(c) ==
  /\ At("active") /\ c \in registered \cap Readers /\ ~clientfin[c]
  /\ cur' = c
  /\ epc' = IF RS(c) > 0 THEN "read" ELSE "underrun"
  /\ UNCHANGED <<ring, child, client, moved, registered, flags, io, waits,
                 blocked, job>>

Read ==
  /\ At("read")
  /\ moved' = [moved EXCEPT ![cur] = sbufs[cur][readptr[cur]]]
  /\ readptr' = [readptr EXCEPT ![cur] = Advanced(@)]
  /\ pos' = [pos EXCEPT ![cur] = IF @ < Length THEN @ + 1 ELSE @]
  /\ SignalActivity
  /\ epc' = "active" /\ cur' = 0
  /\ UNCHANGED <<writeptr, finished, sbufs, child, clientfin, registered, flags,
                 waits, blocked, job>>

\* An empty ring: end of stream if the ring is marked finished, else an xrun.
Underrun ==
  /\ At("underrun")
  /\ clientfin' = [clientfin EXCEPT ![cur] = @ \/ finished[cur]]
  /\ epc' = "active" /\ cur' = 0
  /\ UNCHANGED <<ring, child, pos, moved, registered, flags, io, waits, blocked,
                 job>>

\* AUDIO_IO_DB_CLIENT::write_buffer(): room, or a full ring.
WriteBegin(c) ==
  /\ At("active") /\ c \in registered \cap Writers /\ ~clientfin[c]
  /\ pos[c] < Length
  /\ cur' = c
  /\ epc' = IF WS(c) > 0 THEN "write" ELSE "overrun"
  /\ UNCHANGED <<ring, child, client, moved, registered, flags, io, waits,
                 blocked, job>>

Write ==
  /\ At("write")
  /\ sbufs' = [sbufs EXCEPT ![cur][writeptr[cur]] = pos[cur]]
  /\ writeptr' = [writeptr EXCEPT ![cur] = Advanced(@)]
  /\ pos' = [pos EXCEPT ![cur] = IF @ < Length THEN @ + 1 ELSE @]
  /\ SignalActivity
  /\ epc' = "active" /\ cur' = 0
  /\ UNCHANGED <<readptr, finished, child, clientfin, moved, registered, flags,
                 waits, blocked, job>>

\* A full ring: an output error, or a wait for the i/o thread to empty it.
Overrun ==
  /\ At("overrun")
  /\ clientfin' = [clientfin EXCEPT ![cur] = @ \/ finished[cur]]
  /\ IF finished[cur]
       THEN epc' = "active" /\ cur' = 0 /\ UNCHANGED waits
       ELSE /\ epc' = "retry" /\ UNCHANGED cur
            /\ waits' = IF running THEN "full" ELSE "none"
  /\ UNCHANGED <<ring, child, pos, moved, registered, flags, io, blocked, job>>

\* After the wait: write, or drop the block and restart the db server.
OverrunRetry ==
  /\ At("retry")
  /\ IF WS(cur) > 0
       THEN epc' = "write" /\ UNCHANGED <<cur, job>>
       ELSE Begin("live", {cur}) /\ target' = pos[cur] /\ cur' = 0
  /\ UNCHANGED <<ring, child, client, moved, registered, flags, io, waits,
                 blocked>>

\* stop_servers(), called to stop or, by conditional_stop(), for a seek.
EngineStop ==
  /\ At("active")
  /\ \/ goal' = "none" /\ UNCHANGED target
     \/ goal' = "restart" /\ target' \in Position
  /\ StopServer
  /\ epc' = "stopping"
  /\ UNCHANGED <<ring, child, client, moved, registered, io, cur, waits, blocked,
                 todo>>

EngineStopping == WaitFor("stop", "stopping", "stopped")

EngineStopped == Move("stopped", IF goal = "none" THEN "idle" ELSE "flush")

\* ECA_CHAINSETUP::seek_position() while the engine is stopped, or, with
\* LiveSeek, while it runs (posthandle_control_position() when looping,
\* set_position_samples_live()).
SeekBegin ==
  /\ \/ At("idle") /\ registered # {} /\ goal' = "idle"
     \/ At("active") /\ LiveSeek /\ goal' = "live"
  /\ target' \in Position
  /\ epc' = "flush"
  /\ UNCHANGED <<ring, child, client, moved, registered, flags, io, cur, waits,
                 blocked, todo>>

\* flush() on the engine thread: a block of c to its child.
Flush(c) ==
  /\ At("flush")
  /\ FlushWrite(c)
  /\ cur' = c /\ epc' = "flushed"
  /\ UNCHANGED <<ring, client, registered, flags, io, waits, blocked, job>>

FlushAdvance ==
  /\ At("flushed")
  /\ finished' = [finished EXCEPT ![cur] = @ \/ ChildFinished(cur)]
  /\ readptr' = [readptr EXCEPT ![cur] = Advanced(@)]
  /\ epc' = "flush" /\ cur' = 0
  /\ UNCHANGED <<writeptr, sbufs, child, client, moved, registered, flags, io,
                 waits, blocked, job>>

\* The seek of ECA_CHAINSETUP goes on with each client.
FlushDone ==
  /\ At("flush") /\ Unflushed = {}
  /\ ResetRings(registered)
  /\ Begin(goal, registered)
  /\ UNCHANGED <<child, client, moved, registered, flags, io, cur, waits,
                 blocked, target>>

\* Whether the work on client c needs the i/o thread out of the way: a seek
\* of a child that can, start_io() of one that cannot and is not at its
\* beginning, the destruction of the client.
NeedsPause(c) ==
  CASE goal = "start"   -> c \notin Seekable /\ pos[c] # 0
    [] goal = "destroy" -> TRUE
    [] OTHER            -> c \in Seekable

\* pause_db_server_if_running(), or what a client does without it: a client
\* whose child cannot seek takes the position of the child.
EachClient(c) ==
  /\ At("each") /\ c \in todo /\ \A d \in todo : c <= d
  /\ todo' = todo \ {c}
  /\ IF NeedsPause(c)
       THEN /\ cur' = c
            /\ IF running THEN epc' = "pause" /\ StopServer
                          ELSE epc' = "quiet" /\ UNCHANGED flags
            /\ UNCHANGED pos
       ELSE /\ pos' = IF goal = "start" THEN pos
                                        ELSE [pos EXCEPT ![c] = childpos[c]]
            /\ UNCHANGED <<cur, epc, flags>>
  /\ UNCHANGED <<ring, child, clientfin, moved, registered, io, waits, blocked,
                 goal, target>>

EnginePause == WaitFor("stop", "pause", "paused")

\* seek_position(): move the child and reset the ring.
Reseek ==
  /\ childpos' = [childpos EXCEPT ![cur] = target]
  /\ pos' = [pos EXCEPT ![cur] = target]
  /\ clientfin' = [clientfin EXCEPT ![cur] = FALSE]
  /\ ResetRings({cur})
  /\ UNCHANGED registered

\* start_io(): the position of the child is what it is; reset the ring.
StartIo ==
  /\ pos' = [pos EXCEPT ![cur] = childpos[cur]]
  /\ ResetRings({cur})
  /\ UNCHANGED <<childpos, clientfin, registered>>

\* ~AUDIO_IO_DB_CLIENT: unregister_client().
Unregister ==
  /\ registered' = registered \ {cur}
  /\ UNCHANGED <<ring, childpos, pos, clientfin>>

\* The work itself, then restore_db_server_state() if the server was paused.
ServeClient ==
  /\ waits = "none" /\ epc \in {"quiet", "paused"}
  /\ CASE goal = "start"   -> StartIo
       [] goal = "destroy" -> Unregister
       [] OTHER            -> Reseek
  /\ IF epc = "paused"
       THEN StartServer /\ epc' = IF goal = "destroy" THEN "each" ELSE "restore"
       ELSE UNCHANGED <<flags, io>> /\ epc' = "each"
  /\ cur' = 0
  /\ UNCHANGED <<childerr, moved, waits, blocked, job>>

EngineRestore == WaitFor("full", "restore", "restored")

EngineRestored == Move("restored", "each")

\* All clients have been treated.  conditional_start() prepares the engine
\* again after a seek that stopped it.
EachDone ==
  /\ At("each") /\ todo = {}
  /\ CASE goal = "start"   -> StartServer /\ epc' = "prefill" /\ UNCHANGED job
       [] goal = "restart" -> /\ Begin("start", registered)
                              /\ UNCHANGED <<flags, io, target>>
       [] OTHER            -> /\ epc' = IF goal = "live" THEN "active" ELSE "idle"
                              /\ UNCHANGED <<flags, io, job>>
  /\ UNCHANGED <<ring, child, client, moved, registered, cur, waits, blocked>>

\* ~ECA_CHAINSETUP, or the removal of an audio object: a client is destroyed.
DestroyClient(c) ==
  /\ At("idle") /\ c \in registered
  /\ Begin("destroy", {c})
  /\ UNCHANGED <<ring, child, client, moved, registered, flags, io, cur, waits,
                 blocked, target>>

\* ~AUDIO_IO_DB_SERVER: request the exit and join the i/o thread.
ExitRequest ==
  /\ At("idle") /\ registered = {}
  /\ stopreq' = TRUE /\ exitreq' = TRUE
  /\ epc' = "join"
  /\ UNCHANGED <<ring, child, client, moved, registered, running, full, io, cur,
                 waits, blocked, job>>

Join == iopc \in {"none", "exited"} /\ Move("join", "done")

\* Steps the engine thread goes on with by itself.
EngineProgress ==
  \/ EngineBlock \/ EngineTimeout \/ EnginePrefill \/ EnginePrefilled
  \/ Read \/ Underrun \/ Write \/ Overrun \/ OverrunRetry
  \/ EngineStopping \/ EngineStopped
  \/ (\E c \in Clients : Flush(c) \/ EachClient(c))
  \/ FlushAdvance \/ FlushDone \/ EnginePause \/ ServeClient \/ EngineRestore
  \/ EngineRestored \/ EachDone \/ Join

\* Steps that somebody asks for: a command, the next block, the end.
EngineRequest ==
  \/ EngineStart \/ EngineStop \/ SeekBegin \/ ExitRequest
  \/ \E c \in Clients : ReadBegin(c) \/ WriteBegin(c) \/ DestroyClient(c)

\* The server and its clients have been destroyed.
Done == epc = "done" /\ UNCHANGED vars

Next == IoThread \/ EngineProgress \/ EngineRequest \/ Done

Spec == Init /\ [][Next]_vars

\* Both threads keep running; what is asked of them is up to the user.
FairSpec == Spec /\ WF_vars(IoThread) /\ WF_vars(EngineProgress)

-----------------------------------------------------------------------------
(* Properties. *)

IoPlaces == {"none", "top", "scan", "transfer", "mark", "advance", "endpass",
             "signalfull", "wait", "stop", "signalstop", "exited"}

EnginePlaces == {"idle", "prefill", "prefilled", "active", "read", "underrun",
                 "write", "overrun", "retry", "stopping", "stopped", "flush",
                 "flushed", "each", "pause", "paused", "quiet", "restore",
                 "restored", "join", "done"}

Goals == {"none", "idle", "start", "restart", "live", "destroy"}

DataTypes ==
  /\ readptr \in [Clients -> Slots] /\ writeptr \in [Clients -> Slots]
  /\ finished \in [Clients -> BOOLEAN]
  /\ sbufs \in [Clients -> [Slots -> Position \cup {-1}]]
  /\ childpos \in [Clients -> Position] /\ pos \in [Clients -> Position]
  /\ childerr \in [Clients -> BOOLEAN] /\ clientfin \in [Clients -> BOOLEAN]
  /\ moved \in [Clients -> Position \cup {-1}]

FlagTypes ==
  /\ running \in BOOLEAN /\ stopreq \in BOOLEAN /\ exitreq \in BOOLEAN
  /\ full \in BOOLEAN /\ processed \in BOOLEAN /\ blocked \in BOOLEAN

PlaceTypes ==
  /\ registered \subseteq Clients
  /\ iopc \in IoPlaces /\ iop \in 0 .. NClients /\ passive \in 0 .. 2
  /\ epc \in EnginePlaces /\ cur \in 0 .. NClients
  /\ waits \in {"none", "full", "stop"}
  /\ goal \in Goals /\ todo \subseteq Clients /\ target \in Position

\* The types of the variables of audioio-db-server.h, audioio-db-buffer.h and
\* audioio-db-client.h, and of the threads' places in the code.
TypeOK == DataTypes /\ FlagTypes /\ PlaceTypes

\* The i/o thread is inside a pass over the clients.
IoInPass == iopc \in {"scan", "transfer", "mark", "advance", "endpass", "stop"}

\* The rings share no lock: the two threads never copy to and from the same
\* slot of a ring at the same time (the engine thread in read_buffer() or
\* write_buffer(), the i/o thread in its transfer).
SlotExclusion ==
  \A c \in Clients :
    iopc = "transfer" /\ iop = c /\ cur = c /\ (At("read") \/ At("write"))
      => readptr[c] # writeptr[c]

\* Whoever moves a child, resets a ring, flushes, or unregisters a client has
\* the i/o thread outside its pass: what DBC_CHECK(is_running() != true) after
\* wait_for_stop() is to ensure (audioio-db-client.cpp).
ServerPaused ==
  \/ At("quiet") \/ At("paused") \/ At("flush") \/ At("flushed")
    => ~running /\ ~IoInPass

\* One block of c is on its way: moved, its pointer not advanced yet.
UnderWay(c) == \/ iopc \in {"mark", "advance"} /\ iop = c
               \/ epc = "flushed" /\ cur = c

Moved(c) == IF UnderWay(c) THEN 1 ELSE 0

\* The ring of c holds the blocks from first on, in order and unaltered.
RingHolds(c, first) ==
  \A k \in 0 .. Buffers - 1 :
    k < RS(c) => sbufs[c][SlotAt(readptr[c], k)] = first + k

ReaderRing(c) == /\ childpos[c] = pos[c] + RS(c) + Moved(c)
                 /\ RingHolds(c, pos[c])
                 /\ UnderWay(c) => sbufs[c][writeptr[c]] = pos[c] + RS(c)

WriterRing(c) == /\ pos[c] = childpos[c] + RS(c) - Moved(c)
                 /\ RingHolds(c, childpos[c] - Moved(c))

\* A seek is about to set both ends of c anew.
Seeking(c) == /\ goal \in {"idle", "restart", "live"}
              /\ c \in todo \/ (cur = c /\ epc \in {"quiet", "pause", "paused"})

\* Whatever the two threads are in the middle of, the ring of a client holds
\* exactly the blocks between the position of its child and its own position,
\* until a write to the child has failed.
RingConsistent ==
  \A c \in registered :
    ~Seeking(c) => IF c \in Readers THEN ReaderRing(c)
                                    ELSE childerr[c] \/ WriterRing(c)

\* wait_for_full() in start_servers(): the engine starts with every input
\* buffered as far as it can be.
PrefilledOnStart ==
  At("prefilled") =>
    \A c \in registered \cap Readers : WS(c) = 0 \/ ChildFinished(c)

\* Both: what io_thread() and reset() leave in the rings is what the engine
\* thread goes on with.
RingsSound == RingConsistent /\ PrefilledOnStart

\* A client reports the end of its stream only if its child is at its end: no
\* seek leaves a stale finished flag behind, in the ring or in the client.
EndOfStreamReal ==
  \A c \in Readers : finished[c] \/ clientfin[c] => childpos[c] = Length

\* The double-buffering layer keeps the promise of BlockStream: the engine
\* reads what the child holds, and the child is written what the engine wrote,
\* block by block and in order, up to the first write error; read_buffer() and
\* write_buffer() of the client, the i/o thread's transfers and every seek
\* refine its steps.
ReadStream(c)  == INSTANCE BlockStream WITH Capacity <- Buffers - 1,
                    in <- childpos[c], out <- pos[c], moved <- moved[c]
WriteStream(c) == INSTANCE BlockStream WITH Capacity <- Buffers - 1,
                    in <- pos[c], out <- childpos[c], moved <- moved[c]

StreamsInOrder ==
  /\ \A c \in Readers : ReadStream(c)!StreamInit
  /\ \A c \in Writers : WriteStream(c)!StreamInit
  /\ [][/\ \A c \in Readers : ReadStream(c)!StreamStep
        /\ \A c \in Writers : childerr'[c] \/ WriteStream(c)!StreamStep]_vars

\* The i/o thread has something to do for c: room in a reader's ring, or a
\* block in a writer's, while nobody asks it to stop.
Serviceable(c) ==
  /\ running /\ ~stopreq /\ c \in registered /\ ~ChildFinished(c)
  /\ (IF c \in Readers THEN WS(c) ELSE RS(c)) > 0

\* One i/o thread serves all clients in turn: a client that can be served from
\* some time on is served again and again, whatever the others do, finish or
\* are removed.
EveryClientServed ==
  \A c \in Clients :
    \/ []<>~Serviceable(c)
    \/ []<><<IF c \in Readers THEN writeptr'[c] # writeptr[c]
                              ELSE readptr'[c] # readptr[c]>>_ring

\* Each operation of the engine thread that waits for the i/o thread comes to
\* an end: start, stop, seek, an overrun, destroying a client and the server.
OperationsEnd ==
  epc \notin {"idle", "active", "done"} ~> epc \in {"idle", "active", "done"}

\* A request to stop is obeyed.
StopObeyed == (running /\ stopreq) ~> ~running

(* Properties that the code does not have. *)

\* NEWS says that double-buffered mode no longer discards the end of a file:
\* a client that reports the end of its stream has delivered all of it.
EndOfStreamDelivered == \A c \in Readers : clientfin[c] => pos[c] = Length

\* audioio-db-buffer.cpp: advance_read_pointer() cannot be called from multiple
\* concurrent execution contexts.
SingleAdvancer ==
  \A c \in Clients : ~(iopc = "advance" /\ iop = c /\ epc = "flushed" /\ cur = c)

\* audioio-db-server.cpp: the server has flushed all buffers after an exit
\* request: what was written to a client has reached its child.
FlushedOnExit ==
  iopc = "exited" => \A c \in Writers : childerr[c] \/ childpos[c] = pos[c]

\* audioio-db-client.cpp: an overrun breaks rt-safety and not the recording:
\* after the wait there is room for the block, unless the child has failed.
OverrunRecovers == At("retry") => WS(cur) > 0 \/ finished[cur]

\* audioio-db-client.cpp, restore_db_server_state(): a server that was paused
\* runs again.
RestoredRuns == At("restored") => running
=============================================================================
