# ecasound: a verification project

TLA+ models of ecasound's engine and of what surrounds it, from the options a user
gives to the blocks a device plays; the TLC configurations that check them; and
proofs checked by TLAPS. Everything is translated from the sources in `src/`; where a
comment, the manual, `NEWS` or a precondition says something else than the code does,
section 6 shows the difference.

Contents: [inventory](#1-inventory) · [modules](#2-modules-and-the-code) ·
[runs](#3-runs) · [bounds and fairness](#4-bounds-and-fairness) ·
[proofs](#5-proofs) · [disagreements](#6-where-code-and-documentation-disagree) ·
[not modelled](#7-what-is-not-modelled) · [what is left](#8-what-is-left)

## 1. Inventory

ecasound processes audio in *chains* from inputs to outputs. A *chainsetup* owns
the objects; a *session* owns the chainsetups, one of which may be connected to
the *engine*. A control interface (ECI) drives all of it from a console, from a
network connection, from OSC or from a client library.

Threads: the control thread, with more of them behind a mutex in `ECA_CONTROL_MT`
(network server, OSC); the engine thread, in `exec()` of a driver; the i/o thread
of the double-buffering server; the i/o thread of the MIDI server; JACK's callback
thread; and a watchdog, which waits for signals. Forked encoders and decoders are
processes of their own.

| component | state | operations | interacts with | module |
|---|---|---|---|---|
| **db buffer** `audioio-db-buffer.cpp` | two atomic pointers, `finished_rep` | spaces, advance, reset | server and client, without a lock | `DbBuffer` |
| **db server** `audioio-db-server.cpp` | clients, four flags, three condition variables | `start`, `stop`, `wait_for_*`, `flush`, `io_thread` | all rings, children, engine thread | `DbServer` |
| **db client** `audioio-db-client.cpp` | position, `finished_rep` | read, write, seek, `start_io`, destructor | its ring; pauses the server | `DbServer` |
| **engine** `eca-engine.cpp` | status flags, command queue | `exec`, `command`, prepare, start, stop, seek, iteration | driver, servers, control | `Engine` |
| **signal flow** `eca-engine.cpp`, `eca-chain.cpp`, `audioio-loop.cpp` | chain slots, a shared buffer, loop blocks | inputs to chains, process, mix | objects, chains | `SignalFlow` |
| **engine control** `eca-control*.cpp` | engine pointer, thread, last result | `start`, `run`, `stop`, `quit_async`, close, edit | engine, session | `Engine`, `Session`, `EciCommands` |
| **session** `eca-session.cpp` | chainsetups, selected, connected | add, remove, select, connect, load, edit | chainsetups, engine | `Session` |
| **chainsetup** `eca-chainsetup*.cpp` | objects, chains, proxies, buffering | enable, disable, add, attach, remove, options | objects, db server | `Chainsetup`, `Settings` |
| **chain** `eca-chain.cpp` | operators, controllers, selections | edits by two threads, init, process | chainsetup, engine | `ChainOps`, `ChannelEffects` |
| **effects, controllers** `audiofx_*.cpp`, `osc-*`, `*envelope*` | parameters, derived values, memory | set, init, process | chain, user | `EffectParams`, `DelayLines`, `Dynamics` |
| **sample buffer** `samplebuffer.cpp` | channels of memory | resize, copy, silence, resample | everything that has audio | `SampleBuffer` |
| **audio objects** `audioio-*.cpp` | position, file or child | open, seek, read, write, close | engine, libraries, processes | `AudioFile`, `LibraryFile`, `Streams`, `ForkedStream` |
| **devices** `audioio_alsa.cpp`, `audioio-oss.cpp`, … | state of hardware, flags | prepare, start, stop, read, write | engine, hardware | `Devices` |
| **JACK** `plugins/audioio_jack*.cpp` | requests, transport; connection, ports | `exec`, callbacks; open, register, cycle | engine from two threads, JACK | `JackDriver`, `JackPorts` |
| **MIDI server** `midi-server.cpp` | flags, running status, followed values | start, stop, enable, disable, parse | engine, device | `MidiServer` |
| **network server** `eca-neteci-server.cpp` | connections, buffers | poll, parse, answer, remove | `ECA_CONTROL_MT` | `NetEci` |
| **client library** `ecasoundc_sa.c` | pipes, counters, parser | init, command, cleanup | an ecasound process | `EciClient` |
| **program** `ecasound.cpp`, OSC interface | phases, threads, signals | main loops, watchdog | everything | `Frontend` |
| factory, maps, presets, loggers, consoles, kvutils, tools, bindings | | | | none, section 7 |

What is hard, and what makes it correct:

* **Double buffering.** Two threads share rings without a lock; the timed waits have
  no predicate; a seek resets both ends of every ring; the end of a stream is a flag of
  its own. Correct: no slot has two users, what leaves a ring is what went in, in order;
  rings are reset only when the i/o thread is out of its pass; no wait hangs.
* **Engine and control.** Commands of callers meet commands of the engine to itself; the
  object outlives its thread. Correct: the engine never works on deleted objects,
  what was started is stopped whatever ends it, every call returns.
* **Session, chainsetup, chain.** Objects are named by index, by name and by pointer,
  by threads that do not wait for each other; `enable()` fails half-way; commands
  disconnect and reconnect on their own. Correct: indices, names and pointers mean what
  they meant; what a command took away it gives back.
* **Settings.** A chainsetup is built by options in any order, read from a file in two
  passes, and written as such a file. Correct: what is loaded is what was saved.
* **Audio objects and effects.** Ends, loops and segments lie within blocks; parameters
  change one at a time under a running engine; memory is reused when sizes change.
  Correct: what is heard is the samples of the file, at their position; nothing is left
  of what was there before.
* **Other programs.** Processes die, answers come in parts or late, transports move,
  MIDI bytes interleave, signals come at any moment. Correct: every process is waited
  for once, every answer goes with its command, the program ends.

Every hazard, at its line, is in `PROJECT.json` with the properties that would catch it. Its
map gives, for each definition that stands for lines of its own, which ones these are; a short
helper whose lines the definition that uses it covers goes with that definition.

## 2. Modules and the code

**`DbServer`** (with `DbBuffer`, and `BlockStream` as its abstract specification).
`iopc` is the i/o thread's place in `io_thread()`, one action for each access to what
both threads share: a pass scans each client (`IoScan`), copies a block (`IoReadBuffer`,
`IoWriteBuffer`), publishes the end of the stream (`IoMark`) and advances the pointer
(`IoAdvance`), in this order, since the order is what matters. `epc` is the engine
thread's place: `EngineStart`…`EnginePrefilled` are `start_servers()`, `ReadBegin`/`Read`
and `WriteBegin`/`Write`/`Overrun` the client's buffer calls, `EngineStop`…`FlushDone`
`stop_servers()` and the flush, `SeekBegin`…`EachDone` the seek of every client with the
pause and restart it makes, `DestroyClient`…`Join` the end. A condition variable is a wait
(`WaitFor`, `EngineBlock`) that a signal ends only if it comes during it (`Signal`), or a
time-out (`EngineTimeout`). A block of audio is named by its position in its object. The
refinement maps the abstract `in`, `out` to the positions of child and client (the
other way round for outputs).

**`Engine`.** `epc` is the engine thread's place in `exec()`: `HandleStart`…`HandleEdit`
are the branches of `check_command_queue()`, `Decide`, `Iterate`, `UpdateState`, `LoopEnd`
the loop body, `ExecEnd`…`ThreadEnd` the way out. `ctl` is the place of the control thread
(`ECA_CONTROL_MT` serializes callers): `Call…` are the entries, `EngineThere`/`Launch`
`start_engine_sub()`, `Push` the command, `WaitForStop`/`Stopped` the synchronous stop,
`Close`/`Join` `close_engine()`, `RunLoop`/`RunPoll`/`RunResult` `run()`. `quit` is the
watchdog in `quit_async()`, which takes no lock. `Engine` takes `start_servers()` and
`stop_servers()` as instants; `DbServer` models every step inside them, and
`OperationsEnd` of `DbServer` is what makes the instants legitimate.

| module | state | actions | what it abstracts |
|---|---|---|---|
| `ChainOps` | operators and controllers of each chain, what is selected, edits in the queue | one per command (`CopAdd`, `CtrlAdd`, `CopRemove`, …); `HandleEdit` is the engine's `execute_edit()` | samples; an object is a number never used again |
| `Chainsetup` | chains with indices, inputs and outputs with proxies, open objects | adding, removing, attaching, `Enable` with an object that fails, `Disable` | formats other than the rate |
| `Erasing` | – | what is left of a sequence when elements are erased; used by the two above | – |
| `Session` | chainsetups by pointer and name, selected twice, connected, enabled | one per command; `Command` wraps each in `Precondition` and `Reconnect` as `action()` does | the inside of a chainsetup |
| `EciCommands` | pointers to selected objects, freed addresses | `EcCommand`: preconditions, any command of the tables, reconnection; `EcBare`: a call without them | texts |
| `Settings` | the options in force, the user's and the active parameters, a file | `GiveOption`, `EditSetting`, connect, save, load | a word is an option with a value of a small set |
| `JackDriver` | `jk` shared state, `jq` commands, `ex` the engine thread | `ExecStep`, the callbacks `JackSync`, `JackProcess`, other clients, `Shutdown` | positions in cycles |
| `JackPorts` | server, ports by pointer, nodes, connections | register, open, activate, `JpCycle`, a server that dies or resizes | samples are their port and cycle |
| `MidiServer` | flags, parser, followed values, received bytes | `IoThread` byte by byte, calls of engine and control, the sender | a byte is its class and value |
| `NetEci` | connections and buffers | `NetServer` (one poll), clients that send, cut and hang up | a line is a few pieces |
| `EciClient` | the handle's counters and parser, the child's pipe | `EciCaller`, `EciChild`, time-outs, death | a message is its pieces |
| `Frontend` | `main()`, watchdog, servers, engine as callers see it, signals | `Main`, `Calls`, `Watchdog`, `ServeClient`, `OscMessage`, … | all other commands |
| `ForkedStream` | objects, processes, the call that blocks | `ForkCall` of an object, `ForkReturns`, `ProcessOf`, `Crashes` | a process works in coded frames |
| `Streams` | one object over a file, its position and the child's | open, seek, read, write, close | sample n is the number n |
| `AudioFile`, `LibraryFile`, together `SoundFiles` | an object, its file, what stdio or the library holds | the same, and a program that ends without closing | frames are numbers |
| `EffectParams` | parameters, derived values | set, rate, init, save and load | a derived value is what it was computed from |
| `DelayLines`, `Dynamics` | the memory of one effect | set, init, process | a sample is its time, or its level |
| `ChannelEffects` | channels on the way through a chain | init, process, set, bypass | a sample is the channels it depends on |
| `SampleBuffer` (refines `SampleMatrix`) | memory, channels, length | every operation that resizes, copies, clears | a sample is the set of its sources |
| `SignalFlow` (refines `Mixdown`) | slots, the shared buffer, loop devices | `SfIterate` (the whole iteration), seek, restart, mute | a sample tells input, channel and time |
| `Devices` | one device, its hardware | calls of the engine, `HwTick`, `HwSuspend` | a block is its number |

`SetupMC`, `PeersMC` and `AudioMC` give several modules to TLC at once: a variable
`which` picks, in the first state, the component that the behaviour is one of, and the
others stay as they are. Each behaviour of each component is one of the composition; the
components of such a module do not act on each other. Components that do are in one
module (`DbServer`, `Engine`, `SignalFlow`, `JackDriver`, …). Properties with several
names in them (`OperatorsSound`, `FilesSound`, …) are conjunctions of named parts, and a
counterexample is attributed by checking the parts.

A few definitions vary the one they stand right before (`NoGap` before `WriteSpace`,
`ReconnectIdle` before `Reconnect`, …) and nothing uses them. Each is a plausible slip;
with it in the place of the original, a property of the runs fails. This is how each
property is known to depend on the code: `PROJECT.json`, "mutants".

## 3. Runs

Distinct states are of TLC with these configurations.

| run | states | checks | shows |
|---|---|---|---|
| `db_two_clients` | 988,520 | `TypeOK`, `SlotExclusion`, `ServerPaused`, `RingsSound`, `EveryClientServed` | a reader that cannot seek and a writer: neither starves the other; no slot is used by both threads; rings, children and registration are only touched outside the pass; each ring holds exactly the blocks between its two ends; the engine starts with full input rings |
| `db_reader` | 129,796 | `EndOfStreamReal`, `StreamsInOrder`, `StopObeyed` | blocks arrive in order (refinement of `BlockStream`), no stale end after a seek, a stop is seen |
| `db_writer` | 263,885 | `StreamsInOrder` | queued blocks reach the child, in order, up to the first error |
| `db_slow_disk` | 511,726 | `OperationsEnd` | with waits that time out and live seeks no operation hangs |
| `engine_commands` | 4,326,670 | `TypeOK`, `EngineAlive`, `RunningPrepared`, `ExitStopped` | no thread works on deleted or disabled objects; nothing is started twice or left started |
| `engine_calls` | 78,502 | `StopObeyed`, `FinishedStops`, `CallsEnd` | a queued stop and the end of the input stop the engine; every call returns |
| `engine_batch` | 76,450 | `CallsEnd` | a signal or an error never leaves `run()` or a disconnect hanging |
| `setup` | 778,238 | `TypeOK`, `OperatorsSound`, `SetupSound`, `ControllersGoWithOperator`, `RemovalsExact`, `SessionSound`, `UserServed` | what a session is made of, edited in every order: operators are initialised before they are processed and edits hit what they named; indices, proxies and open objects agree; commands give back the connection they took; commands act on what is selected; what is loaded is what was saved |
| `peers` | 564,495 | `TypeOK`, `LeavesClean`, `TraceExact`, `AnswersMatch`, `FollowsStop`, `WaitsAnswered` | `exec()` of JACK leaves no callback with an engine; followed controllers have the value sent last; every answer goes with its command, over network and pipes, written in one part or several; a program asked to end does end or stays for a reason that is named, with the exit code it should have; JACK's transport is answered |
| `audio` | 528,556 | `TypeOK`, `ForksSound`, `StreamsExact`, `FilesSound`, `EffectsExact`, `RealtimeSound`, `WaitsEnd`, `IsMatrix`, `FlowMixes` | what is read is the file's samples at their position; processes are waited for; derived values are those of the current parameters; buffers are matrices (refinement); the engine mixes what its inputs give (refinement of `Mixdown`); devices and JACK ports match what the program believes |
| `db_end_of_stream` | violation | `EndOfStreamDelivered` | section 6 |
| `engine_run_error` | violation | `RunReportsErrors` | section 6 |

Deadlock is checked in the runs of `DbServer` and `Engine`, where the only state in which
nothing can happen is the end of the program, an explicit action. The three compositions
stop where a bound on the steps is reached, and say `CHECK_DEADLOCK FALSE`.

The parts of the composed properties: `RingsSound` = `RingConsistent` and
`PrefilledOnStart`. `EveryClientServed`: a client that is `Serviceable` from some time on (its ring has room, or
blocks, for the server) is served again and again. `OperatorsSound` = `ProcessReady` (what is processed is initialised),
`PendingEditsExact` (a queued edit hits what the user saw). `SetupSound` =
`IndicesValid`, `ProxiesExact`. `SessionSound` = `ConnectedOnly`,
`ConnectionGivenBack`, `HotSwapKeeps`. `UserServed` = `RoundTrip` (chains), `EnabledOpen` (chainsetup), `CommandsSound`, `SettingsSound`
(`LoadedAsSaved`, `SavedTwice`, `PassesUnseen`, `RefusedHarmless`). `AnswersMatch` =
`SessionExact` (network), `AnswerCurrent` (client library), `ProgramSound` (`EndsInOrder`,
`InsistedOn`, `ExitCodeTrue`, `NoneDangles`, `OscExact`). `WaitsAnswered` = `SyncAnswered`
(JACK), `ProgramEnds`. `ForksSound` = `NothingLeft`, `EncodesAll`, `DeliversFile`.
`FilesSound` = `FilesExact`, `LibraryExact`. `EffectsExact` = `ParamsExact`, `LinesExact`,
`DynamicsExact`, `ChannelsExact`. `RealtimeSound` = `DevicesSound`, `JackPortsSound`.

## 4. Bounds and fairness

* `Buffers` (2, 3): 2 is the smallest ring that moves anything, 3 the smallest with
  more than one block queued; wrap-around, full and empty all occur. `Length` (1–4)
  is larger than the ring, so that pointers wrap and the end is met with the ring
  full and empty. `NClients`: two, one of each direction, in the run about shared state;
  three slots and three blocks for both would be 27 million states. The theorems of
  section 5 hold for every ring, length and number of clients.
* `Length` of `Engine`: 2 blocks, so that an iteration may or may not be the last.
  `MaxQueue`: a call is made only with fewer commands pending; two commands behind each
  other, with the engine's own stop among them, give every order. `passive` stops
  counting at 2, the only threshold the code tests.
* `setup`: two chains and three operators or controllers with two pending edits (an
  index shifts below, at and above the edited one); a file, a device and a loop device,
  one of each class that is treated differently; two chainsetups and two names;
  four commands after the objects exist (`EcSteps`), four options of a theme (`OptSteps`).
* `peers`: of JACK, two things that happen to the driver (`JackTurns`), of the user, of other clients of
  the transport (`JackOtherTurns = 2`) or of the server; with three instead the properties hold
  too; two MIDI channels, controllers and values, five received bytes (a message,
  running status and a real-time byte between); two network clients, lines of one to
  three pieces cut anywhere, a buffer that must grow, answers written in two parts (`NetWrites = 2`); two commands to the client library
  with a time-out, a log message and a death; two signals and a line of input.
* `audio`: files of a few blocks whose length is no multiple of the block, seeks to the
  start, the middle and beyond the end; values of parameters at, below and above their
  limits; signal flows with a shared input, a shared output, a loop device and realtime
  devices; the number of calls per behaviour (`…Steps`) is what lets each kind of call
  follow each other at least once.
* Disk that is never slower than the five second waits (`SlowIO = FALSE`), except in
  `db_slow_disk`; no seek during processing (`LiveSeek = FALSE`), except there. The
  constants `EcLoose`, `OptLoose`, `MidiForeign`, `JackActivate`, `Dv…`, `Sb…`, … admit further situations
  in which the code does not do what is documented; section 6 tells what happens then. The modules of the
  program, of effects, streams and files have no such constants: all that the code
  allows is in the run, and the property names the case in which what it says is not so.

Fairness. `DbServer`: weak fairness of the i/o thread and of the engine thread inside an
operation (both are scheduled threads; time-outs are steps of the latter); none for
what a user asks. `Engine`: weak fairness of the engine thread, of an iteration unless
`DeviceBlocks`, of a call under way, of the watchdog inside `quit_async()`; and callers
pause at last (`<>[][~(Requests \/ QuitCheck)]_vars`): a caller that queues starts for ever
keeps `check_command_queue()` from leaving its loop. `JackDriver`: weak fairness of
the engine thread, strong fairness of the callbacks that find the lock free (they only
try it, and JACK calls them every cycle). `MidiServer`: the i/o thread and its end.
`NetEci`: the server's thread. `Frontend`: `main()`, a call under way, the engine's turn, the
watchdog, the server's leaving; not the user, the clients or the signals.
`ForkedStream`: every process does its work (`ProcessOf`), a call returns when what it
waits for has come (`ForkReturns`).

Simplifications of data, named. Atomic integers are sequentially consistent, and so are
plain flags that are read without a lock. Registration and opening of objects precede the
model of `DbServer`; readers of a failed child are left out, and after a write error a
writer's stream is followed no further.

## 5. Proofs

TLAPS checks all of the following for every value of the constants. The named
assumptions of the modules (`BuffersAssumption`, `DbServerAssumption`,
`EngineAssumption`, `ForkAssumption`, `SessionAssumption`, …) give the constants their
types; TLC evaluates them in the runs. A theorem that needs more says so in its
`ASSUME`, and the last column says what is false without it. The inductive invariants were
checked by TLC before they were proved, on the runs' instances and on larger ones.

| theorem | states | under |
|---|---|---|
| `DbServerProofs!SpaceShared` | read and write space add up to the size less one | – |
| `DbServerProofs!TypeCorrect` | `[]TypeOK` | – |
| `DbServerProofs!ServerAlwaysPaused`, `SlotsExclusive` | `[]ServerPaused`, `[]SlotExclusion` | `~SlowIO`, `~LiveSeek` |
| `DbServerProofs!EndsAreReal` | `[]EndOfStreamReal` | – |
| `DbServerProofs!RingsAlwaysSound` | `[]RingsSound` | `~SlowIO`, `~LiveSeek`, `Writers \subseteq Seekable` |
| `DbServerProofs!StreamsRefined` | `StreamsInOrder`: `DbServer` implements `BlockStream` for every client | the same three |
| `EngineProofs!TypeCorrect`, `NeverOrphaned`, `PreparedToRun`, `LeavesStopped` | `[]TypeOK`, `[]EngineAlive`, `[]RunningPrepared`, `[]ExitStopped` | – |
| `EngineProofs!DevicesSoundAlways` | `[]DevicesSound`, of `RealtimeSound` the part about devices | `DvKept`: the restrictions of `Audio.cfg` |
| `SetupProofs!ChainTyped`, `OperatorsAlwaysSound`, `ControllersAlwaysGo` | `[]ChainTypeOK`, `[]OperatorsSound`, `ControllersGoWithOperator` | – |
| `SetupProofs!SetupAlwaysSound` | `[]SetupSound` | – |
| `SetupProofs!RemovalsAlwaysExact` | `RemovalsExact` | `~LoopTwice` |
| `SessionProofs!SessionTyped`, `SessionAlwaysSound` | `[]SessionTypeOK`, `SessionSound` | – |
| `PeersProofs!LeftClean`, `DriverTyped` | `[]LeavesClean`, `[]JackTypeOK` | `ActivatesAgain` |
| `PeersProofs!FollowedExactly`, `ListenerTyped` | `[]TraceExact`, `[]MidiTypeOK` | `MidiForeign = {}` |
| `PeersProofs!ClientTyped`, `ClientAlwaysCurrent` | `[]EciTypeOK`, `[]AnswerCurrent` | `PlainTypes` |
| `NetProofs!ServerTyped` | `[]NetTypeOK` | `Buffers(S)` for some `S`, `PlainLines`, `~NetAfterQuit` |
| `NetProofs!SessionAlwaysExact` | `[]SessionExact` | the same three |
| `FrontendProofs!ProgramTyped`, `ProgramAlwaysSound` | `[]FeTypeOK`, `[]ProgramSound` | `WholeAddresses` |
| `PeersProofs!AnswersAlwaysMatch` | `[]AnswersMatch` of the composition `PeersMC` | those of its three parts: `Buffers(S)`, `PlainLines`, `~NetAfterQuit`, `PlainTypes`, `WholeAddresses` |
| `PeersProofs!PeersTyped` | `[]TypeOK` of the composition | the same, `ActivatesAgain`, `MidiForeign = {}` |
| `AudioProofs!EachDelivers` | `[]DeliversFile` | – |
| `AudioProofs!NothingIsLeft` | `[]NothingLeft` | – |
| `AudioProofs!AllIsEncoded` | `[]EncodesAll` | `~ForkKills` |
| `AudioProofs!ForksAlwaysSound` | `[]ForksSound`, the three together | `~ForkKills` |
| `AudioProofs!BufferIsMatrix` | `IsMatrix`: `SampleBuffer` implements `SampleMatrix` | `~SbNarrowInit`, `~SbInitAgain`, `~SbEmptyResample`, ranges that begin at 0 |
| `AudioProofs!FilesAlwaysSound` | `[]FilesSound`, of both kinds of files side by side | – |

**`DbServer`.** The invariant is `IInv` = `TypeInv /\ Handshake /\ RoomKept /\ Chosen /\
RingsEmptied /\ RingInv /\ EndOfStreamReal /\ FillInv`. `TypeInv` adds to the types that a
thread that uses a client has picked one (`PlacesOK`). `Handshake` says for each place of
one thread what it knows about the flags and the place of the other: a stop is
acknowledged outside the pass, and then only the engine thread can set `running`. This
gives `ServerPaused`. `RoomKept`: the room a thread has found stays until it
advances its own pointer, since the other thread only adds to it; with `Handshake`, where the
rings are reset, it gives `SlotExclusion`. `Chosen`: each thread knows why it is at its
client. `RingsEmptied`: which clients a seek or a restart has already reset.
`RingInv`: the blocks in the ring are the ones between the positions of child and
client, counted with what is under way (copied and not yet advanced, or advanced
and not yet taken). `FillInv`: "full" is signalled by a pass that found nothing to do
since the start, so that a wait for it ends with filled rings. The refinement is proved step by step:
every action is a step of `BlockStream` of at most one client (`Touches`),
or leaves `in` and `out` of all of them as they were.

Without `~SlowIO` a stop is acknowledged after its caller has gone on. Without `~LiveSeek`
both threads advance a read pointer. Without `Writers \subseteq Seekable` a spurious "full"
ends the wait of an overrun: the block is dropped and the next seek sets the client's
position to the child's with blocks still in the ring, so that
`RingsSound` is false (TLC finds it with `NClients = 2`, `Readers = {}`, `Seekable = {1}`,
`WriteErrors = TRUE`). The engine's outputs that are double-buffered are files, most of
which can be positioned.

**`Engine`.** One invariant, `TypeOK /\ CallPlaces /\ Lifetime /\ Operation` (theorem
`Invariance`). `Lifetime` ties the engine object to its thread (an object exists
exactly while its thread has not been joined) and to the connection; `Operation` says for each
place of the engine thread what of the operation is on; `CallPlaces` which
call may be where.

**`Devices`.** `Safe` has five parts. `Belief`: what the object believes of its handle is so, and which flags its phase
allows. `Room`: no more waits than the hardware has space for. `Place`: where the handle of each kind may be
in each phase; an ALSA output with a trigger pending has exactly one buffer in it, so that the next write finds room
and starts it, which is why no transfer waits for a device that does not move. `WriteOrder`: what waits to be played is some
silence and then the last buffers written, without a gap (`InOrder`). A prefill, an underrun and a
write all keep that, and after a drain it says that everything was heard. `ReadOrder` says the same of a
capture. A prefill and a drain repeat one call; their lemmas (`Prefills`, `DrainsAll`) go by
induction over the interval (`Induct`). `DvKept` excludes what section 6 tells of these drivers: a stop
with the trigger pending, a suspension of a device that ignores underruns, and what an inherited
`stop(bool)` that does nothing leaves of an OSS or aRts device started twice; an open that fails; and
an OSS or aRts buffer that runs over, which the driver neither sees nor counts.

**`ChainOps`.** `ChainInv` adds to the types and to the two parts of `OperatorsSound` that edits
wait only while there is an engine (`Queued`), that they are additions or name an index at
which something was (`EditsProper`), and that an operator is selected in the middle of `cop-set`
(`Setting`). The argument is that whatever happens while edits wait `Extends` the chains:
objects are appended, never taken out, so an index goes on standing for the same object.
Removals are commands that close the engine, which first does the edits it has (`OfflineStep`).
For `ControllersGoWithOperator` the lemma `WithoutRest` says what erasing leaves; it counts the
places that stay, and that each number up to their count is the rank of one of them is
a matter of injections between finite sets, not of induction.

**`Chainsetup`.** `SetupInv` types the chains by the objects there are (`Fitting`: an index is
at most the length of its side), and says of each side (`Side`) that devices and loop
devices have no proxy and that an object is there once, unless it is a loop device and
`LoopTwice`, and of both (`Apart`) that only a loop device is an input and an output. Both are needed: a removal tells the chains
the *last* place of the object and erases the *first*, and uncounts the proxy of the last. For an object with a proxy the
two are one place, so the count stays exact (`ErasedEntry`); for a loop device added twice
they are not, which leaves the indices valid but not where they were, and is why
`RemovalsAlwaysExact` needs `~LoopTwice`. Proxies are counted as the cardinality of the places that have one; a
removal is a bijection of the others (`ProxyRemoved`). What `enable()` makes of the buffering is one
lemma (`ModeSwitched`), with a case for each of the three outcomes of `Switched`. The lemmas about what erasing
leaves (module `Erasing`, used by `ChainOps` and `Chainsetup`) come first in `SetupProofs`. `EnabledOpen` stays with TLC:
`Opened` is a fold over the objects.

**`Session`.** `Rest(ses)` holds between commands: `Fine` (`Known`: the pointers are null
or to chainsetups of the session; `Single`: at most the connected one is enabled;
`Driven`: an engine has a connected chainsetup; `Listed`: no chainsetup and no name
twice), and, of ECA_CONTROL's and ECA_SESSION's selection, that one is the other or
null (`Agreed`), that nothing has the temporary name (`Plain`), and that there is a pointer
left (`Room`). In the middle of a command only `Fine` holds: `cs-edit` has two copies
of one chainsetup. There is a lemma for each function the handlers are composed of
(`Connects`, `Disconnects`, `Removes`, `Loads`, `Swaps`, …), one for the preconditions (`Prepares`),
one for the reconnection (`Reconnects`), and then one step for each command. The three
parts of `SessionSound` follow: what holds in every state, what a command that disconnects gives
back, and which names `cs-edit` leaves. All are about behaviours before a
fault: what happens after a null pointer was followed is not modelled.

**`JackDriver`.** `JackTyped /\ JackSound(jk) /\ Resting /\ Shuts /\ Unanswered`: the types include the
counters of starts and stops that callbacks asked for, which stay at one; between two
`exec()` the engine is neither prepared nor running, and attached only if the shutdown
flag is set, which every callback tests first; while the client is not
activated, no callback has changed anything. `ActivatesAgain` excludes a later activation that fails after a
shutdown: the flag of the shutdown is still set, `exec()` ends without stopping,
with the engine prepared.

**`MidiServer`.** The bytes that wait are read by the parser in a state that depends on
when it will read them (it may be reset in between). The invariant says that *some* course of
the parser over the waiting bytes, with real-time bytes skipped, ends in the sender's values
(`Understood`, by `Leads`), where a course is a pair of functions from the bytes read to
parser and values; a byte received extends the course at its end, a byte read shortens it at its
start. `MidiForeign = {}`: only whole controller and real-time messages are sent; the
three kinds of bytes it excludes break the running status (section 6).

**`ForkedStream`.** `Typed`, `Owners` (a pid and a pipe are of the object that forked them),
`StartedOpen` (what is started is open), `Attached` (what is started holds the pipe of its process, unless
that has ended), and one invariant for each theorem: `NoneLeft` (a process that its object does not know has been waited
for and its pipe is closed, or it was dead when it was forgotten), `Writing` (with `Encoded`: of a process that was waited for
without having failed, everything is encoded), `Reading` (the upcoming sample of the pipe is the
position, to within one coded frame). An object whose process has
ended by itself and that is started again forgets that one (`lost`): it stays a zombie, its
pipe open, but it is dead, which is what `Attached` is needed for. With `ForkKills` closing without stopping kills the encoder
with what it has not encoded.

**`NetEci`.** `NetInv(S)` is `NetTyped(S) /\ Rounds` and, of every client, `Exact /\ Answered /\
Flow`. `Flow` is what makes it inductive: lines arrive in chunks cut anywhere, so what a client
has sent is one sequence of pieces in which every line has a mark (`Marks`) where it ends, and
`Place` says where in it the server is: the lines before are parsed, the
buffer holds a first part of the next one, and behind it the wire holds the rest,
piece by piece. Parsing reads a chunk with a recursive function over its pieces; the lemmas follow it by
induction over the interval (`Induct`) and show that it moves the place along and yields just the
lines between the two. `Exact`: what was executed and what is going to be are the lines sent, in their order, with
nothing behind a quit. `Answered`: one answer for each, the last perhaps still to be written. `Rounds`
says where in its round the server may know of whom. `S` is the set of sizes that a
buffer grows through by doubling; `Buffers(S)` says that a line and its carriage return leave room in the largest one,
`PlainLines` that a line has no end of line in it.

**`EciClient`.** `EciInv` is `EciTyped /\ Awaiting /\ Asked /\ Piped /\ Valued`. The pipe holds the
rest of one message and whole ones behind it, logs among them, and the
parser of the library is anywhere in the first; `Piped` says that there is a course of the parser through all that is in the pipe
(`Reads`) which ends between two messages with every answer counted, and which stays in states that
*fit* the answers (`Fit`): no more are counted than were given, the type is that of the last one, and at the end of
an answer what was collected is its content. A piece read takes the first state off the course; an
answer adds a message to its end, and a lemma for each part of a message (log level, size, type,
content, the two line ends) shows how the parser goes through it. `Awaiting` and `Asked` count: while none is lost, one answer is
awaited at a time, so the last counted is that of the last command (`Valued`).
`PlainTypes`: a type is not a carriage return.

**`Frontend`.** `FeInv` is `FeTyped /\ Locks /\ Engines /\ Stages /\ Codes /\ Signals /\ Outcome /\
OscExact`: who holds the lock of `ECA_CONTROL_MT` and where `main()` is meanwhile; that there is an engine
only for what is connected, or while it is closed; the phases of the end in their order;
which code can have been set at each place; that each signal that had an effect was sent, counted
against those sent; and, of a batch run with nobody else to command, what became of the engine and
which code says so. A thread that follows a null or stale pointer is the last step of a behaviour, and what holds
up to it does not hold behind it: `Upheld` is `FeInv` before it and `FeTypeOK /\ ProgramSound` after it. That each of the
three steps of that kind leaves `ProgramSound` true is the lemma `Faults`; that the server's thread takes none is
in `Stages`, and that they are the only ones is the case analysis of the theorem. `WholeAddresses`: an address with a
parameter has all its seven parts; of a shorter one the last part stands for all that follow.

**The composition.** `PeersMC` picks a component; a step is one of that component and leaves the
others' variables alone, so each keeps its invariant, and the conjunction of them is inductive. The two theorems are
about the very formulas of the run `peers`.

**`AudioFile`, `LibraryFile`.** `AfInv` is one conjunction about the object and its file (`FileKept`).
`Content`: the file with all the writes that wait in stdio's buffer is what was wanted, of a CDR file with
silence behind it. `Waiting`: each of these writes leaves the file at least as long, which is why a program that
ends with only some of them done loses nothing of what was there before. `Header`: between sessions the size in the
header of a wave file is that of the data, or none, and then no other chunk follows. `There`: the file
is where the object believes it is, for mmap up to its end. `Lengths`, `Given`, `Sectors`: what
the object knows of the length, what was read last, and that a closed CDR file is whole
sectors. `LfInv` (`Steady`): between two calls the library's position is the object's, who is finished is at the end, and
the file holds what was written (`Whole`, which also holds in the middle of a call).
All of this is kept up to the first call by which object and file go apart: `afLost` and `lfLost` note it, and each of
the lemmas about such a call says that it is noted (`FilesExact`, `LibraryExact` name the calls).
The theorem is about `FilesSpec`, both kinds of files side by side; the composition runs one at a time.

**`SampleBuffer`.** `SbInv` is the invariant `Sound`: every channel, in use or not, has all the memory that is
reserved, and so has the block the resampler copies from once there is one. It is what narrowing needs: a channel
that goes out of use keeps its memory and is made longer with the others. `View` is what is
in use. Two lemmas say what the two ways to change the shape do to it (`Lengthens`, `Widens`: what
was there before, and silence), one what writing a part of some channels does (`Writes`); each operation
is a composition of these, shown to be an operation of the matrix (`Reshapes`, `Fills`, `Overs`,
`Puts`, `Adds`, …), and there is one lemma for each disjunct of `SbNext`. Without the hypotheses accesses leave
the memory (section 6).

What stays with TLC, and why. Everything temporal under fairness: `EveryClientServed`,
`OperationsEnd`, `StopObeyed`, `FinishedStops`, `CallsEnd`, `FollowsStop`, `WaitsAnswered`, `WaitsEnd`
(the prover has no rule for them). Recursive functions over an interval of numbers can be
proved about, since an induction over an interval is a matter of finite sets (`NetProofs!Induct`); what is
defined with the folds of the library, whose induction takes an operator, cannot:
`Chainsetup`'s `EnabledOpen`, `ChainOps`'s `RoundTrip`, `SettingsSound` and the part of `CommandsSound` that
is about selected chains (together `UserServed`, with the `TypeOK` of `SetupMC`); `FlowMixes`, the channels of a chain and the
loading of parameters (in `EffectsExact`), resampled streams (in `StreamsExact`) and the cycle of JACK's ports
(in `RealtimeSound`). `EffectParams` is a table, finite by
nature, that TLC covers entirely. And what is not proved yet: section 8.

## 6. Where code and documentation disagree

The first two rows are runs, and findings in `PROJECT.json` with the quotations.
The others are properties, or widened constants, that TLC finds violated in the model of the
code; they belong to no run. To see one, set the constant in the configuration named or add the property to it.
Where a row says "in the run", the case is part of the model that is checked, and the property named says, by
the definition in brackets, exactly where it does not hold.

| module, property or constants | what happens |
|---|---|
| `DbEndOfStream.cfg`, `EndOfStreamDelivered` | the end of a stream is published before the block it follows: a client that finds its ring empty in between reports the end and never delivers that block |
| `EngineRunError.cfg`, `RunReportsErrors` | `run()` reads the result of `exec()` before it is there and returns success after an output error |
| `DbServer`, `OverrunRecovers`; `RingsSound` with an output that cannot seek | a stale "full" signal ends the wait of an overrun; the block being recorded is dropped, and the next seek forgets what is in the ring |
| `DbServer`, `SingleAdvancer` (`LiveSeek`) | a seek while running lets both threads advance one read pointer |
| `DbServer`, `FlushedOnExit` | the flush at exit finds no client registered: queued blocks are lost |
| `DbServer`, `RestoredRuns` (`SlowIO`) | a stop acknowledged after its wait timed out stops the restarted server |
| `Engine`, `RunProcesses` | a second `run()` meets the finished engine of the first and returns success without processing |
| `Engine`, `CallsEnd` with `run` after the end of the input | the stop queued at the end of the previous input stops what `run()` has just started, which then waits for ever (`eca-control-base.cpp:186`, against the comment at 134) |
| `Engine`, `StopSynced` | `stop_on_condition()` returns before a start that is still queued, or during a seek |
| `Engine`, `EditsInEngine` | before the new thread has set its pid, edits go around the queue |
| `Engine`, `StartsWhenStopped` | a start handled between the end of the input and the stop it queued starts a running engine |
| `Engine`, `StartObeyed` | a start queued while a batch run ends returns success and is never popped |
| `Engine`, `WaitBounded` (`DeviceBlocks`) | the timed wait of `wait_for_stop()` does not end when the device hangs |
| `Engine`, `QuitSafe` | `quit_async()` may use an engine that is being deleted |
| `Engine`, `ErrorExits`, `FinishedStops` with `OutputErrors` and a limit | a seek resets an error nobody has reacted to; an output error in the iteration that meets the limit leaves the engine running and finished |
| `ChainOps`, `AddsWhereAsked`, `TargetsAlive`, `CopSetExact`, `SelectionValid` | edits wait while chains and selections change: an operator is added to another chain than its edit names, a controller is left with an object of another chain or a deleted one, a parameter of another operator is set; after a removal the selection is no operator's index |
| `Chainsetup`, `LockedRates`, `AllProxied` (`Files = {1, 2}`), `SelectedRemoved`, `ClosedWhenDisabled`, `NoneDangling` (`LoopTwice`) | an object opened at a rate of its own is used at another (against `eca-chainsetup.cpp:1835`); proxied and direct objects mix in double-buffering mode; a chain selected twice is removed once; what was opened before an object that failed stays open; a loop device added twice and removed once leaves a dangling pointer |
| `Session`, `NoFault` | two empty names are equal: with nothing selected and nothing connected a null pointer is followed; `cs-remove` of a connected chainsetup that a new one had deselected frees it (`eca-control-objects.cpp:96`) |
| `Session`, `SelectionsAgree`, `EditLosesNothing` | the two selections differ after a refused `cs-add`; `cs-edit` removes the chainsetup before the editor is started |
| `EciCommands`, `EcLoose` with "unselected", "adopted", "unstarted", "loaded"; `SelectionKept` | calls of the C++ interface without the interactive mode's preconditions follow null or stale pointers (contracts at `eca-control-objects.cpp:387, 407`) |
| `Settings`, `SavingChangesNothing` and `OptLoose` ("forced", "muted", "served", "split", "fine", "modes", "late", "nested", "several", "removed") | what is saved is the active, not the user's buffering mode; muting, bypass, `-G`, MMC and MIDI sync are not saved; parameters lose their third decimal; controllers of controllers are lost; `-a:all` in a file means later chains too; `-pn` with several chains adds to the wrong ones |
| `JackDriver`, `StartsMatched`, `NoSpuriousLocate`, `ClientAlive` (`JackRuns = 2`) | requests of user and callback share a counter: a start of the user is taken for one of the transport, and the transport is relocated though nobody sought; the second `exec()` queries a connection that is closed |
| `JackDriver`, `FailedActivationEnds` and `LeavesClean` with `JackActivate = {TRUE, FALSE}` | `exec()` does not end, or ends with the engine prepared |
| `MidiServer`, `TraceExact` with `MidiForeign` "voice", "cut" or "status"; `MidiStarted`, `MidiStops` with errors | a byte of another message is taken as a value; a start is lost when a stop is pending; a stop is never acknowledged when reading fails |
| `NetEci`, `SessionExact` (`again`), or with a line longer than the buffer; `QuitFinal` | an answer written in parts is sent again from its first byte (in the run: `SessionExact` claims its length and place only); what a client sent behind its `quit` is executed |
| `EciClient`, `NoFalseLoss` | the library counts its reads and not the time: an engine that answers in time, but in many parts, is declared lost (`ecasoundc_sa.c:1023`) |
| `Frontend`, `NoneDangles` (in the run: it names these cases) | commands of `-E` follow a null pointer when the session could not be made (`ecasound.cpp:417`); the OSC server is stopped after what it uses is deleted (175); `quit_async()` uses an engine that was closed between its two steps (`eca-control-base.cpp:302`) |
| `Frontend`, `ExitCodeTrue` (in the run: only that a code of failure is right) | `run()` may look before `exec()` has returned, and the exit code is then 0 after an error (`eca-control-base.cpp:180-220`) |
| `Frontend`, `ProgramEnds` (in the run: `StaysOn`) | `-K` without a server never returns (manual, SIGNALS); `main()` waits for a watchdog thread that could not be made; a quit from the console waits for the lock that a client's `run` holds |
| `ForkedStream`, what is `lost`; `EncodesAll` with `ForkKills`, `ForkSound` with `ForkFast` or `ForkCrash` | a reader at its end that is sought and read again forks without having waited for the first process, which stays a zombie, its pipe open (section 5); a decoder that dies before it opens its named pipe blocks the caller for ever |
| `Streams`, `EwfLoops`, `ReverseExact`, `ResampleFull`; `SequencerExact` (in the run: `OddLoop`, `Crosses`, `early`), `ResampleWhole` (`old`) | a segment that does not start with the file is not looped over as a whole (users' guide, EWF); reversing drops the last partial block (manual 552); an end within a resampled block is announced with samples left; a block that crosses the offset begins with what was in the buffer (`audioio-seqbase.cpp:237`); what is left of a resampled block is played after a seek (`audioio-resample.cpp:270`) |
| `AudioFile`, `FilesExact` (in the run: `afLost`) | a wave file is updated by the sample format of the object and not its own, and its data block takes in the chunks behind it; a CDR file is padded where its writer is; in a build with 64-bit offsets it does not move to its start (`audioio-cdr.cpp:141`) |
| `LibraryFile`, `LibraryExact` (in the run: `lfLost`) | update mode truncates what cannot be updated (manual 311), and an output that is opened again starts where it was; an output of libaudiofile that is sought starts over and is finished for good; a seek beyond the end may end at the last frame; `out_position()` (`eca-audio-position.h:117`) is never true |
| `EffectParams` "eemp", "kog"; `DelayLines`, `LinesUsable` and `TapExact` (in the run: `set`, `made`, `off`) | the constructor of the pulse gate resets the periods its parameters had given; an oscillator makes its table again only when a point of it is set; delays and the flanger use lines that were not sized before `init()` (DBC checks at `audiofx_timebased.cpp:857`), or sized for fewer taps; a running delay that is changed keeps queues of the wrong length (168, 141) |
| `Dynamics`, `NgHeld`, `SourcePure` with a shorter preset; `PeakKept` (in the run: `missed`) | the noise gate forgets its hold time (manual 743); a peak between read and clear is lost (manual 666, `audiofx_analysis.cpp:341`) |
| `ChannelEffects`, `StateForAll` (in the run: `Fits`) | a parameter or bypass that makes a chain wider while running gives later filters more channels than they have memory |
| `SampleBuffer` with `SbNarrowInit`, `SbInitAgain` or `SbEmptyResample`; `SbRanges` with a range that begins after 0 | accesses outside of the memory: `make_silent_range()` clears as many samples as the end of the range says (`samplebuffer.cpp:452`, against its reference version at 466; all callers begin at 0) |
| `SignalFlow`, `FlowMixes` with a loop device added twice | the second output is never written (manual 507) |
| `Devices` with `DvLateStop`, `DvSuspends`, `DvRunsOver`, `DvRestarts` or `DvDrains` with "oss", `DvOpens` with `FALSE` | `stop(void)` does not override `stop(bool)` (`audioio-device.h:155-172`); a suspended device is not resumed |
| `JackPorts` with `JpDies` "closed", `JpResizes` "idle" or "active" | a server that dies between two opens leaves the count of the connection wrong; a change of the buffer size is not passed on |

Seen while reading, with no property of their own: `remove_midi_device()` does not
unregister; the JACK default mode never registers the sync callback; a change of `-n` is not noticed by the
hot swap; `eci_init_r()` follows a null pointer after a failed read of the pid; `ao-add` without
an argument is refused although the handler has a default; non-interleaved ALSA reads go to
another buffer than the one allocated; `EFFECT_CHANNEL_ORDER::clone()` loses its map; the second
SIGHUP is not handled; recording to an EWF file saves length 0; a wave header of odd chunks is misread.

## 7. What is not modelled

Of the modelled components: the values of samples where no property needs them
(gains, coefficients, interpolation); multitrack latency beyond whole blocks;
commands only the JACK driver sends (`ep_prepare`, `ep_setpos_live_samples`) in `Engine`; `run(false)`;
commands that only answer a question; two threads inside `ECA_CONTROL` at once (excluded by
`ECA_CONTROL_MT`), except `quit_async()`; `is_empty()` of the queue blocking beyond 1024
messages; opening and closing of the children of db clients; `wait_for_flush()`, which nothing
calls; sending of MMC and MIDI sync; LADSPA and LV2 plugins.

Not at all: object factory, maps, presets and resources (tables and text), loggers and
consoles (formatting), kvutils apart from what its users' modules have of it, tools and language
bindings (they issue ECI commands).

## 8. What is left

Modules and runs are complete but for what section 7 lists. These invariants are model-checked only and
nothing known stands against proving them, in the order of what they say about the system:

1. `SequencerExact`, `ReverseButLast` and `ToneInPhase` of `StreamsExact`: that what is read of a stream is its part of the
   file. Each class is a short argument about intervals, of which `Streams` has many.
2. `LinesExact` and `DynamicsExact` of `EffectsExact`, and the `TypeOK` of `AudioMC` as far as it is not about folds.
