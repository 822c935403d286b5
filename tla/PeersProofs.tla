----------------------------- MODULE PeersProofs -----------------------------
(***************************************************************************)
(* Proofs about the parts that face another program: the end of exec() in  *)
(* JackDriver, the parser of MidiServer, the handle of EciClient; and, with *)
(* NetProofs and FrontendProofs, what PeersMC composes of them.            *)
(***************************************************************************)
EXTENDS PeersMC, NetProofs, FrontendProofs

-----------------------------------------------------------------------------
(***************************************************************************)
(* JackDriver, for every transport mode, length and bound: the engine is   *)
(* left at rest and no callback can reach it.                              *)
(***************************************************************************)
\* The numbers of the manager.
Targets == Reach \cup {-1}
Pending == {0, 1}
Late == 0 .. 4

\* What the manager and the engine are; the engine's own position has no bound.
JackState ==
  [tstate : {"stopped", "starting", "rolling"}, tpos : Positions, newpos : BOOLEAN,
   polled : BOOLEAN, ready : BOOLEAN, attached : BOOLEAN, registered : BOOLEAN,
   mode : {"", "none", "send", "recv", "sendrecv"}, prepared : BOOLEAN,
   running : BOOLEAN, finished : BOOLEAN, failed : BOOLEAN, epos : Nat,
   starts : Pending, stops : Pending, rounds : Late, target : Targets, ahead : Aheads,
   exiting : BOOLEAN, shutdown : BOOLEAN, active : BOOLEAN, open : BOOLEAN,
   engine : BOOLEAN]

Orders == [op : {"start", "stop", "drain", "prepare", "exit"}]
            \cup [op : {"setpos", "live"}, to : Reach]

ExecState ==
  [pc : {"idle", "seek", "wait", "lock", "hold", "test", "leave", "detach", "done"},
   read : Nat, runs : Nat, user : Nat, others : Nat, seeks : Nat, fault : BOOLEAN]

JackTyped == jk \in JackState /\ jq \in Seq(Orders) /\ ex \in ExecState

\* An engine that runs has been prepared, so that it can be stopped.
JackSound(d) == d \in JackState /\ (d.running => d.prepared)

\* The fields that say whether callbacks come and what they may use.
Kept(d, e) ==
  /\ e.attached = d.attached /\ e.shutdown = d.shutdown /\ e.active = d.active
  /\ e.exiting = d.exiting

\* What happens to the transport alone.
TransportMoved(d, e) ==
  /\ Kept(d, e)
  /\ e.prepared = d.prepared /\ e.running = d.running
  /\ e.finished = d.finished /\ e.failed = d.failed

\* An engine that has neither ended nor failed.
Clear(d) == ~d.finished /\ ~d.failed

-----------------------------------------------------------------------------
(* The transport. *)

\* The bounds of the numbers.
LEMMA JackNumbers ==
  /\ JackMaxPos \in Nat /\ Positions \subseteq Nat /\ Positions \subseteq Reach
  /\ Reach \subseteq Targets /\ -1 \in Targets /\ 0 \in Positions
  /\ 0 \in Pending /\ 1 \in Pending /\ 0 \in Late /\ JackAhead \in Aheads
  /\ \A p \in Nat : Within(p) \in Positions
  /\ \A p \in Positions, n \in Aheads : p + n \in Reach
  /\ \A n \in Aheads : n < JackAheadLimit => 2 * n \in Aheads
  /\ JackAheadLimit \in Aheads
  /\ \A n \in Late : ~(n > 3) => n + 1 \in Late
<1>1. /\ JackMaxPos \in Nat /\ JackAheadLimit \in Nat \ {0} /\ JackAhead \in Nat \ {0}
  BY JackAssumption
<1> QED BY <1>1 DEF Positions, Reach, Targets, Pending, Late, Aheads, Within

\* The client's calls of the JACK transport keep the connection and the engine.
LEMMA TransportMoves ==
  ASSUME NEW d, JackSound(d)
  PROVE  /\ JackSound(TransportStart(d)) /\ TransportMoved(d, TransportStart(d))
         /\ JackSound(TransportStop(d)) /\ TransportMoved(d, TransportStop(d))
         /\ \A p \in Positions : /\ JackSound(TransportLocate(d, p))
                                 /\ TransportMoved(d, TransportLocate(d, p))
         /\ JackSound(RollOn(d)) /\ TransportMoved(d, RollOn(d))
<1> USE DEF JackSound, TransportMoved, Kept
<1>1. JackSound(TransportStart(d)) /\ TransportMoved(d, TransportStart(d))
  <2>1. CASE d.tstate = "stopped"
    BY <2>1 DEF TransportStart, JackState
  <2>2. CASE d.tstate # "stopped"
    BY <2>2 DEF TransportStart
  <2> QED BY <2>1, <2>2
<1>2. JackSound(TransportStop(d)) /\ TransportMoved(d, TransportStop(d))
  BY DEF TransportStop, JackState
<1>3. ASSUME NEW q \in Positions
      PROVE  JackSound(TransportLocate(d, q)) /\ TransportMoved(d, TransportLocate(d, q))
  <2>1. PICK v \in {"stopped", "starting", "rolling"} :
          TransportLocate(d, q) = [d EXCEPT !.tpos = q, !.newpos = TRUE, !.polled = FALSE,
                                            !.ready = FALSE, !.tstate = v]
    BY DEF TransportLocate, JackState
  <2>2. PICK e : e = [d EXCEPT !.tpos = q, !.newpos = TRUE]
    OBVIOUS
  <2>3. e \in JackState /\ TransportMoved(d, e) /\ (e.running => e.prepared)
    BY <2>2 DEF JackState
  <2>4. PICK i : i = [e EXCEPT !.polled = FALSE, !.ready = FALSE]
    OBVIOUS
  <2>5. i \in JackState /\ TransportMoved(e, i) /\ (i.running => i.prepared)
    <3>1. e \in JackState /\ (e.running => e.prepared)
      BY <2>3
    <3>2. i \in JackState
      BY ONLY <2>4, <3>1 DEF JackState
    <3>3. Kept(e, i) /\ i.prepared = e.prepared /\ i.running = e.running
      BY ONLY <2>4, <3>1 DEF JackState, Kept
    <3>4. i.finished = e.finished /\ i.failed = e.failed
      BY ONLY <2>4, <3>1 DEF JackState
    <3> QED BY ONLY <3>1, <3>2, <3>3, <3>4 DEF TransportMoved
  <2>6. PICK h : h = [i EXCEPT !.tstate = v]
    OBVIOUS
  <2>7. h \in JackState /\ TransportMoved(i, h) /\ (h.running => h.prepared)
    BY <2>5, <2>6 DEF JackState
  <2>8. TransportLocate(d, q) = h
    BY <2>1, <2>2, <2>6, <2>4 DEF JackState
  <2> QED BY ONLY <2>3, <2>5, <2>7, <2>8 DEF JackSound, TransportMoved, Kept
<1>4. JackSound(RollOn(d)) /\ TransportMoved(d, RollOn(d))
  <2>1. JackMaxPos \in Nat /\ d.tpos \in 0..JackMaxPos
        /\ d.tstate \in {"stopped", "starting", "rolling"}
    BY JackAssumption DEF JackState, Positions
  <2>2. CASE d.tstate = "starting"
    BY <2>2 DEF RollOn, JackState
  <2>3. CASE d.tstate = "stopped"
    BY <2>3 DEF RollOn, JackState
  <2>4. CASE d.tstate = "rolling"
    <3>1. CASE d.tpos < JackMaxPos
      <4>1. RollOn(d) = [d EXCEPT !.tpos = d.tpos + 1, !.polled = FALSE]
        BY <2>1, <2>4, <3>1 DEF RollOn
      <4>2. d.tpos + 1 \in Positions
        BY <2>1, <3>1 DEF Positions
      <4>3. RollOn(d) \in JackState
        BY <4>1, <4>2 DEF JackState
      <4> QED BY <4>1, <4>3 DEF JackState
    <3>2. CASE d.tpos = JackMaxPos
      <4>1. RollOn(d) = TransportLocate(d, 0)
        BY <2>1, <2>4, <3>2 DEF RollOn
      <4> QED BY <4>1, <1>3, JackNumbers
    <3> QED BY <2>1, <3>1, <3>2
  <2> QED BY <2>1, <2>2, <2>3, <2>4
<1> QED BY <1>1, <1>2, <1>3, <1>4

-----------------------------------------------------------------------------
(* The operations of the engine. *)

\* The operations of the engine that the driver calls keep what an engine may be in;
\* StopOperation() leaves it neither prepared nor running.
LEMMA Operations ==
  ASSUME NEW d, JackSound(d)
  PROVE  /\ JackSound(InitEngineState(d)) /\ Kept(d, InitEngineState(d)) /\ Clear(InitEngineState(d))
         /\ JackSound(Prepare(d)) /\ Kept(d, Prepare(d)) /\ Prepare(d).prepared
         /\ JackSound(StopOperation(d)) /\ Kept(d, StopOperation(d))
         /\ ~StopOperation(d).prepared /\ ~StopOperation(d).running
         /\ d.prepared => JackSound(StartOperation(d)) /\ Kept(d, StartOperation(d))
         /\ Clear(d) => /\ Clear(Prepare(d)) /\ Clear(StopOperation(d))
                        /\ Clear(StartOperation(d))
<1> USE DEF JackSound, Kept, Clear
<1>1. JackSound(InitEngineState(d)) /\ Kept(d, InitEngineState(d)) /\ Clear(InitEngineState(d))
  BY DEF InitEngineState, JackState
<1>2. JackSound(Prepare(d)) /\ Kept(d, Prepare(d)) /\ Prepare(d).prepared
      /\ (Clear(d) => Clear(Prepare(d)))
  <2>1. CASE d.prepared
    BY <2>1 DEF Prepare
  <2>2. CASE ~d.prepared
    BY <2>2 DEF Prepare, InitEngineState, JackState
  <2> QED BY <2>1, <2>2
<1>3. JackSound(StopOperation(d)) /\ Kept(d, StopOperation(d))
      /\ ~StopOperation(d).prepared /\ ~StopOperation(d).running
      /\ (Clear(d) => Clear(StopOperation(d)))
  <2>1. CASE d.prepared
    <3>1. PICK e : e = [d EXCEPT !.prepared = FALSE, !.running = FALSE]
      OBVIOUS
    <3>2. StopOperation(d) = e
      BY <2>1, <3>1 DEF StopOperation
    <3>3. JackSound(e)
      BY <3>1 DEF JackState
    <3>4. Kept(d, e) /\ ~e.prepared /\ ~e.running /\ (Clear(d) => Clear(e))
      BY <3>1 DEF JackState
    <3> QED BY <3>2, <3>3, <3>4
  <2>2. CASE ~d.prepared
    <3>1. StopOperation(d) = d /\ d.running \in BOOLEAN
      BY <2>2 DEF StopOperation, JackState
    <3> QED BY <2>2, <3>1
  <2> QED BY <2>1, <2>2
<1>4. /\ d.prepared => JackSound(StartOperation(d)) /\ Kept(d, StartOperation(d))
      /\ Clear(d) => Clear(StartOperation(d))
  BY DEF StartOperation, JackState
<1> QED BY <1>1, <1>2, <1>3, <1>4
\* A command leaves the connection alone; exit stops the engine.
JackHandles(d, e) ==
  /\ JackSound(e)
  /\ e.attached = d.attached /\ e.shutdown = d.shutdown /\ e.active = d.active
  /\ Clear(d) => Clear(e)
  /\ e.exiting = d.exiting \/ (~e.prepared /\ ~e.running)

\* start() of the driver prepares and starts the engine, then rolls the transport.
LEMMA DriverStarts ==
  ASSUME NEW d, JackSound(d)
  PROVE  JackHandles(d, DriverStart(d))
<1>1. PICK f : f = StartOperation(Prepare(d))
  OBVIOUS
<1>2. JackSound(f) /\ Kept(d, f) /\ (Clear(d) => Clear(f))
  BY <1>1, Operations DEF Kept
<1>3. PICK e : e = [f EXCEPT !.starts = 0, !.rounds = 0]
  OBVIOUS
<1>4. JackSound(e) /\ Kept(d, e) /\ (Clear(d) => Clear(e))
  BY <1>2, <1>3, JackNumbers DEF JackSound, Kept, Clear, JackState
<1>5. DriverStart(d) = TransportStart(e) \/ DriverStart(d) = e
  BY <1>1, <1>3 DEF DriverStart
<1>6. JackSound(TransportStart(e)) /\ TransportMoved(e, TransportStart(e))
  BY <1>4, TransportMoves
<1> QED BY <1>4, <1>5, <1>6 DEF JackHandles, Kept, TransportMoved, Clear

\* stop() and exit() of the driver.
LEMMA DriverStops ==
  ASSUME NEW d, JackSound(d)
  PROVE  JackHandles(d, DriverStop(d)) /\ JackHandles(d, DriverExit(d))
<1>1. JackHandles(d, DriverStop(d))
  <2>1. PICK e : /\ e \in {d, TransportStop(d)}
                 /\ DriverStop(d) = StopOperation([e EXCEPT !.stops = 0])
    BY DEF DriverStop
  <2>2. JackSound(e) /\ TransportMoved(d, e)
    BY <2>1, TransportMoves DEF TransportMoved, Kept
  <2>3. PICK f : f = [e EXCEPT !.stops = 0]
    OBVIOUS
  <2>4. JackSound(f) /\ TransportMoved(d, f)
    BY <2>2, <2>3, JackNumbers DEF JackSound, TransportMoved, Kept, JackState
  <2>5. /\ JackSound(StopOperation(f)) /\ Kept(f, StopOperation(f))
        /\ Clear(f) => Clear(StopOperation(f))
    BY <2>4, Operations
  <2> QED BY <2>1, <2>3, <2>4, <2>5 DEF JackHandles, TransportMoved, Kept, Clear
<1>2. JackHandles(d, DriverExit(d))
  <2>1. PICK f : f = [d EXCEPT !.exiting = TRUE]
    OBVIOUS
  <2>2. /\ JackSound(f) /\ (Clear(d) => Clear(f))
        /\ f.attached = d.attached /\ f.shutdown = d.shutdown /\ f.active = d.active
    BY <2>1 DEF JackSound, Clear, JackState
  <2>3. /\ JackSound(StopOperation(f)) /\ Kept(f, StopOperation(f))
        /\ ~StopOperation(f).prepared /\ ~StopOperation(f).running
        /\ Clear(f) => Clear(StopOperation(f))
    BY <2>2, Operations
  <2> QED BY <2>1, <2>2, <2>3 DEF DriverExit, JackHandles, Kept
<1> QED BY <1>1, <1>2

\* Both ways of setting the position.
LEMMA Seeks ==
  ASSUME NEW d, JackSound(d), NEW p \in Nat
  PROVE  JackHandles(d, SetPositionSamples(d, p)) /\ JackHandles(d, SetPositionLive(d, p))
<1>1. ASSUME NEW g, JackSound(g), NEW h, h = InitEngineState([g EXCEPT !.epos = p])
      PROVE  JackSound(h) /\ Kept(g, h) /\ Clear(h)
  <2>1. PICK f : f = [g EXCEPT !.epos = p]
    OBVIOUS
  <2>2. JackSound(f) /\ Kept(g, f)
    BY <1>1, <2>1 DEF JackSound, Kept, JackState
  <2>3. JackSound(h) /\ Kept(f, h) /\ Clear(h)
    BY <1>1, <2>1, <2>2, Operations
  <2> QED BY <2>2, <2>3 DEF Kept
<1>2. JackHandles(d, SetPositionLive(d, p))
  BY <1>1 DEF SetPositionLive, JackHandles, Kept
<1>3. JackHandles(d, SetPositionSamples(d, p))
  <2>1. PICK g : g = IF Status(d) = "running" THEN StopOperation(d) ELSE d
    OBVIOUS
  <2>2. JackSound(g) /\ Kept(d, g)
    BY <2>1, Operations DEF Kept
  <2>3. PICK h : h = InitEngineState([g EXCEPT !.epos = p])
    OBVIOUS
  <2>4. JackSound(h) /\ Kept(d, h) /\ Clear(h)
    BY <1>1, <2>2, <2>3 DEF Kept
  <2>5. PICK k : k = StartOperation(Prepare(h))
    OBVIOUS
  <2>6. JackSound(k) /\ Kept(h, k) /\ Clear(k)
    BY <2>4, <2>5, Operations DEF Kept
  <2>7. SetPositionSamples(d, p) \in {h, k}
    BY <2>1, <2>3, <2>5 DEF SetPositionSamples
  <2> QED BY <2>4, <2>6, <2>7 DEF JackHandles, Kept
<1> QED BY <1>2, <1>3

\* Every command of the queue is handled within an iteration of exec().
LEMMA CommandsHandled ==
  ASSUME NEW d, JackSound(d), NEW c \in Orders
  PROVE  JackHandles(d, JackHandle(d, c))
<1>1. JackHandles(d, d)
  BY DEF JackHandles
<1>2. CASE c.op = "start"
  BY <1>1, <1>2, DriverStarts DEF JackHandle
<1>3. CASE c.op \in {"stop", "drain"}
  BY <1>1, <1>3, DriverStops DEF JackHandle
<1>4. CASE c.op = "prepare"
  BY <1>4, Operations DEF JackHandle, JackHandles, Kept
<1>5. CASE c.op = "exit"
  BY <1>5, DriverStops DEF JackHandle
<1>6. CASE c.op \in {"setpos", "live"}
  <2>1. c.to \in Reach /\ Reach \subseteq Nat
    BY <1>6 DEF Orders, Reach
  <2>2. CASE c.op = "setpos"
    BY <2>1, <2>2, Seeks DEF JackHandle
  <2>3. CASE c.op = "live"
    BY <2>1, <2>3, Seeks DEF JackHandle
  <2> QED BY <1>6, <2>2, <2>3
<1> QED BY <1>2, <1>3, <1>4, <1>5, <1>6 DEF Orders

-----------------------------------------------------------------------------
(* The callbacks. *)

\* A callback leaves the connection alone and queues commands.
CallsBack(d, s) == JackSound(s.d) /\ Kept(d, s.d) /\ s.cs \in Seq(Orders)

\* The types of the fields a callback reads.
LEMMA Fields ==
  ASSUME NEW d, JackSound(d)
  PROVE  /\ d.tpos \in Positions /\ d.tpos \in Nat /\ d.epos \in Nat /\ d.rounds \in Late
         /\ d.rounds \in Nat /\ d.ahead \in Aheads /\ d.ahead \in Nat
         /\ d.target \in Int /\ d.epos + 1 \in Nat
         /\ d.failed \in BOOLEAN /\ d.finished \in BOOLEAN /\ d.running \in BOOLEAN
         /\ d.tstate \in {"stopped", "starting", "rolling"}
<1>1. d \in JackState
  BY DEF JackSound
<1>2. /\ d.tpos \in Positions /\ d.epos \in Nat /\ d.rounds \in Late
      /\ d.ahead \in Aheads /\ d.target \in Targets
  BY <1>1 DEF JackState
<1>3. d.tpos \in Nat /\ d.rounds \in Nat /\ d.ahead \in Nat /\ d.target \in Int
  <2>1. Positions \subseteq Nat /\ Late \subseteq Nat /\ Aheads \subseteq Nat
        /\ Targets \subseteq Int
    BY DEF Positions, Late, Aheads, Targets, Reach
  <2> QED BY <1>2, <2>1
<1>4. /\ d.failed \in BOOLEAN /\ d.finished \in BOOLEAN /\ d.running \in BOOLEAN
      /\ d.tstate \in {"stopped", "starting", "rolling"}
  BY <1>1 DEF JackState
<1>5. d.epos + 1 \in Nat
  BY <1>2
<1> QED BY <1>2, <1>4, <1>5, <1>3

\* Noting a position of the transport disturbs nothing else.
LEMMA Retargeted ==
  ASSUME NEW d, JackSound(d), NEW t \in Targets, NEW e, e = [d EXCEPT !.target = t]
  PROVE  JackSound(e) /\ Kept(d, e)
<1>1. e \in JackState
  BY DEF JackSound, JackState
<1> QED BY <1>1 DEF JackSound, Kept, JackState

\* The lists of commands that the callbacks leave behind.
LEMMA CommandsQueued ==
  ASSUME NEW d, NEW e, JackSound(e), Kept(d, e),
         NEW name \in {"start", "stop", "drain", "prepare"}
  PROVE  /\ CallsBack(d, Leaves(e, <<>>))
         /\ CallsBack(d, Leaves(e, <<Op(name)>>))
<1>1. Op(name) \in Orders
  BY DEF Op, Orders
<1> QED BY <1>1 DEF CallsBack, Leaves

\* The lists with a position.
LEMMA SeeksQueued ==
  ASSUME NEW d, NEW e, JackSound(e), Kept(d, e), NEW p \in Reach
  PROVE  /\ CallsBack(d, Leaves(e, <<[op |-> "live", to |-> p]>>))
         /\ CallsBack(d, Leaves(e, <<[op |-> "setpos", to |-> p], Op("prepare")>>))
<1>1. /\ Op("prepare") \in Orders
      /\ [op |-> "live", to |-> p] \in Orders /\ [op |-> "setpos", to |-> p] \in Orders
  BY DEF Op, Orders
<1> QED BY <1>1 DEF CallsBack, Leaves

\* A callback that follows the transport while the engine is stopped.
LEMMA SeekToCalls ==
  ASSUME NEW d, JackSound(d)
  PROVE  CallsBack(d, SeekTo(d))
<1>1. CASE d.epos = d.tpos
  BY <1>1, CommandsQueued DEF SeekTo, Kept
<1>2. CASE d.epos # d.tpos
  <2>1. PICK e : e = [d EXCEPT !.target = d.tpos]
    OBVIOUS
  <2>2. JackSound(e) /\ Kept(d, e) /\ d.tpos \in Reach
    BY <2>1, Fields, JackNumbers, Retargeted
  <2> QED BY <1>2, <2>1, <2>2, SeeksQueued DEF SeekTo
<1> QED BY <1>1, <1>2

\* A callback that follows a transport which has moved.
LEMMA LiveSeekCalls ==
  ASSUME NEW d, JackSound(d)
  PROVE  CallsBack(d, LiveSeekTo(d))
<1>1. Kept(d, d)
  BY DEF Kept
<1>2. CASE ~d.running /\ (d.finished \/ d.tpos > JackLength)
  <2>1. LiveSeekTo(d) = Leaves(d, <<>>)
    BY <1>2 DEF LiveSeekTo
  <2> QED BY <1>1, <2>1, CommandsQueued
<1>3. CASE ~d.running /\ ~(d.finished \/ d.tpos > JackLength)
  <2>1. CASE d.prepared /\ d.epos = d.tpos
    <3>1. LiveSeekTo(d) = Leaves(StartOperation(d), <<>>)
      BY <1>3, <2>1 DEF LiveSeekTo
    <3>2. JackSound(StartOperation(d)) /\ Kept(d, StartOperation(d))
      BY <2>1, Operations
    <3> QED BY <3>1, <3>2, CommandsQueued
  <2>2. CASE ~(d.prepared /\ d.epos = d.tpos)
    <3>1. PICK e : e = [d EXCEPT !.starts = 1]
      OBVIOUS
    <3>2. LiveSeekTo(d) = Leaves(e, <<Op("start")>>)
      BY <1>3, <2>2, <3>1 DEF LiveSeekTo
    <3>3. JackSound(e) /\ Kept(d, e)
      BY <3>1, JackNumbers DEF JackSound, Kept, JackState
    <3> QED BY <3>2, <3>3, CommandsQueued
  <2> QED BY <2>1, <2>2
<1>4. d.tpos \in Nat /\ d.ahead \in Nat /\ JackLength \in Nat /\ JackAheadLimit \in Nat
  BY JackAssumption, Fields
<1>5. CASE d.running /\ d.tpos >= JackLength
  <2>1. PICK e : e = [d EXCEPT !.stops = 1]
    OBVIOUS
  <2>2. LiveSeekTo(d) = Leaves(e, <<Op("stop")>>)
    BY <1>4, <1>5, <2>1 DEF LiveSeekTo
  <2>3. JackSound(e) /\ Kept(d, e)
    BY <2>1, JackNumbers DEF JackSound, Kept, JackState
  <2> QED BY <2>2, <2>3, CommandsQueued
<1>6. CASE d.running /\ ~(d.tpos >= JackLength)
  <2>1. CASE ~AheadAgain(d)
    <3>1. LiveSeekTo(d) = Leaves(d, <<>>)
      BY <1>4, <1>6, <2>1 DEF LiveSeekTo
    <3> QED BY <1>1, <3>1, CommandsQueued
  <2>2. CASE AheadAgain(d)
    <3>1. PICK longer : longer = IF d.target = -1 THEN d.ahead
                                 ELSE IF d.ahead < JackAheadLimit THEN 2 * d.ahead
                                 ELSE JackAheadLimit
      OBVIOUS
    <3>2. longer \in Aheads
      BY <3>1, Fields, JackNumbers
    <3>3. PICK e : e = [d EXCEPT !.ahead = longer, !.target = d.tpos + longer]
      OBVIOUS
    <3>4. LiveSeekTo(d) = Leaves(e, <<[op |-> "live", to |-> d.tpos + longer]>>)
      BY <1>4, <1>6, <2>2, <3>1, <3>3 DEF LiveSeekTo
    <3>5. d.tpos + longer \in Reach /\ d.tpos + longer \in Targets
      BY <3>2, Fields, JackNumbers
    <3>6. JackSound(e) /\ Kept(d, e)
      BY <3>2, <3>3, <3>5 DEF JackSound, Kept, JackState
    <3> QED BY <3>4, <3>5, <3>6, SeeksQueued
  <2> QED BY <2>1, <2>2
<1> QED BY <1>2, <1>3, <1>5, <1>6 DEF JackSound, JackState

\* The sync callback.
LEMMA SyncCalls ==
  ASSUME NEW d, JackSound(d)
  PROVE  CallsBack(d, SyncCallback(d))
<1>1. Kept(d, d)
  BY DEF Kept
<1>2. CASE d.tstate = "stopped"
  BY <1>1, <1>2, CommandsQueued, SeekToCalls DEF SyncCallback, SyncStopped
<1>3. CASE d.tstate = "starting"
  <2>1. PICK e : e = [d EXCEPT !.target = -1, !.ready = TRUE]
    OBVIOUS
  <2>2. PICK f : f = [d EXCEPT !.starts = 1]
    OBVIOUS
  <2>3. JackSound(e) /\ Kept(d, e)
    <3>1. PICK t \in Targets : t = -1
      BY JackNumbers
    <3>2. e = [d EXCEPT !.target = t, !.ready = TRUE]
      BY <2>1, <3>1
    <3>3. e \in JackState
      BY <3>2 DEF JackSound, JackState
    <3> QED BY <3>2, <3>3 DEF JackSound, Kept, JackState
  <2>4. JackSound(f) /\ Kept(d, f)
    BY <2>2, JackNumbers DEF JackSound, Kept, JackState
  <2>5. SyncCallback(d) \in {Leaves(e, <<>>), Leaves(f, <<Op("start")>>),
                             SeekTo(d), Leaves(d, <<>>)}
    BY <1>3, <2>1, <2>2 DEF SyncCallback, SyncStarting
  <2> QED BY <1>1, <2>3, <2>4, <2>5, CommandsQueued, SeekToCalls
<1>4. CASE d.tstate = "rolling"
  <2>1. PICK e : e = [d EXCEPT !.ready = TRUE]
    OBVIOUS
  <2>2. JackSound(e) /\ Kept(d, e)
    BY <2>1 DEF JackSound, Kept, JackState
  <2>3. SyncCallback(d) = LiveSeekTo(e)
    BY <1>4, <2>1 DEF SyncCallback
  <2> QED BY <2>2, <2>3, LiveSeekCalls DEF CallsBack, Kept
<1> QED BY <1>2, <1>3, <1>4 DEF JackSound, JackState

\* One block of the engine in the process callback.
LEMMA IterationCalls ==
  ASSUME NEW d, JackSound(d), NEW bad \in BOOLEAN
  PROVE  CallsBack(d, Iteration(d, bad))
<1>1. PICK failed \in BOOLEAN : failed = (d.failed \/ bad)
  BY DEF JackSound, JackState
<1>2. PICK over \in BOOLEAN : over = (~failed /\ d.epos + 1 >= JackLength)
  OBVIOUS
<1>3. PICK e : e = [d EXCEPT !.epos = d.epos + 1, !.failed = failed, !.finished = over]
  OBVIOUS
<1>4. d.epos + 1 \in Nat
  BY Fields
<1>5. JackSound(e) /\ Kept(d, e) /\ Kept(d, d)
  BY <1>3, <1>4 DEF JackSound, Kept, JackState
<1>6. Iteration(d, bad) \in {Leaves(d, <<>>), Leaves(e, <<Op("stop")>>),
                             Leaves(e, <<Op("drain")>>), Leaves(e, <<>>)}
  BY <1>1, <1>2, <1>3 DEF Iteration, JackSound, JackState
<1> QED BY <1>5, <1>6, CommandsQueued

\* The process callback.
LEMMA ProcessCalls ==
  ASSUME NEW d, JackSound(d), NEW bad \in BOOLEAN
  PROVE  CallsBack(d, ProcessCallback(d, bad))
<1>1. CASE d.mode \in {"none", "send"}
  <2>1. Kept(d, d)
    BY DEF Kept
  <2> QED BY <1>1, <2>1, CommandsQueued, IterationCalls DEF ProcessCallback
<1>2. CASE d.mode \notin {"none", "send"}
  <2>1. PICK later : later = [d EXCEPT !.rounds = IF d.rounds > 3 THEN d.rounds ELSE d.rounds + 1]
    OBVIOUS
  <2>2. PICK now : now = [d EXCEPT !.rounds = 0]
    OBVIOUS
  <2>3. PICK stopping : stopping = [later EXCEPT !.stops = 1]
    OBVIOUS
  <2>4. PICK n \in Late : n = IF d.rounds > 3 THEN d.rounds ELSE d.rounds + 1
    BY Fields, JackNumbers
  <2>5. JackSound(later) /\ Kept(d, later)
    BY <2>1, <2>4 DEF JackSound, Kept, JackState
  <2>6. JackSound(now) /\ Kept(d, now)
    BY <2>2, JackNumbers DEF JackSound, Kept, JackState
  <2>7. JackSound(stopping) /\ Kept(d, stopping)
    BY <2>3, <2>5, JackNumbers DEF JackSound, Kept, JackState
  <2>8. PICK run : run = Iteration(now, bad)
    OBVIOUS
  <2>9. CallsBack(now, run) /\ CallsBack(now, LiveSeekTo(now))
    BY <2>6, <2>8, IterationCalls, LiveSeekCalls
  <2>10. PICK tracked : tracked = [run EXCEPT !.d.target = -1]
    OBVIOUS
  <2>11. run = Leaves(run.d, run.cs)
    BY <2>8 DEF Iteration, Leaves
  <2>12. CallsBack(now, tracked)
    <3>1. tracked.cs = run.cs /\ tracked.d = [run.d EXCEPT !.target = -1]
      BY <2>10, <2>11 DEF Leaves
    <3>2. JackSound(tracked.d) /\ Kept(run.d, tracked.d)
      <4>1. JackSound(run.d) /\ -1 \in Targets
        BY <2>9, JackNumbers DEF CallsBack
      <4> QED BY <3>1, <4>1, Retargeted
    <3> QED BY <2>9, <3>1, <3>2 DEF CallsBack, Kept
  <2>13. ProcessCallback(d, bad) \in {Leaves(stopping, <<Op("stop")>>), Leaves(later, <<>>),
                                      LiveSeekTo(now), tracked}
    <3>1. ProcessCallback(d, bad) = TimebaseSlave(d, bad)
      BY <1>2 DEF ProcessCallback
    <3> QED BY <2>1, <2>2, <2>3, <2>8, <2>10, <3>1, Fields DEF TimebaseSlave
  <2>14. /\ CallsBack(d, Leaves(stopping, <<Op("stop")>>)) /\ CallsBack(d, Leaves(later, <<>>))
         /\ CallsBack(d, LiveSeekTo(now)) /\ CallsBack(d, tracked)
    <3>1. CallsBack(d, Leaves(stopping, <<Op("stop")>>)) /\ CallsBack(d, Leaves(later, <<>>))
      BY <2>5, <2>7, CommandsQueued
    <3> QED BY <3>1, <2>6, <2>9, <2>12 DEF CallsBack, Kept
  <2> QED BY <2>13, <2>14
<1> QED BY <1>1, <1>2

-----------------------------------------------------------------------------
(* The invariant. *)

AtRest == ex.pc \in {"idle", "detach", "done"}

\* Outside exec() the engine rests, and only a server that has shut down still
\* knows the client.
Resting ==
  AtRest => ~jk.running /\ ~jk.prepared /\ ~jk.active /\ (jk.attached => jk.shutdown)

\* A shutdown needs a client that was active before.
Shuts ==
  /\ ex.pc = "idle" => ~jk.shutdown
  /\ ex.pc # "idle" => ex.runs > 0
  /\ JackShutdowns = {} => ~jk.shutdown

\* Without an active client no callback comes, so that only a command ends exec().
Unanswered ==
  ~AtRest /\ ~jk.active =>
    /\ ~jk.attached /\ ~jk.shutdown /\ Clear(jk)
    /\ jk.exiting => ~jk.prepared /\ ~jk.running
    /\ ex.pc = "leave" => jk.exiting

JackInv == JackTyped /\ JackSound(jk) /\ Resting /\ Shuts /\ Unanswered

\* If jack_activate() fails in a later exec() than one that was shut down, the
\* flag of the shutdown ends exec() with the engine prepared.
ActivatesAgain == FALSE \in JackActivate => JackRuns <= 1 \/ JackShutdowns = {}

\* The driver before the first exec().
LEMMA InitJack == JackInit => JackInv
<1> SUFFICES ASSUME JackInit PROVE JackInv
  OBVIOUS
<1>1. PICK mode \in JackModes, p \in Positions : jk = [Manager(mode) EXCEPT !.tpos = p]
  BY DEF JackInit
<1>2. JackAhead \in Aheads /\ 0 \in Pending /\ 0 \in Late /\ 0 \in Positions
      /\ JackModes \subseteq {"", "none", "send", "recv", "sendrecv"}
  BY JackAssumption, JackNumbers
<1>3. /\ p \in Positions /\ -1 \in Targets /\ mode \in {"", "none", "send", "recv", "sendrecv"}
      /\ (mode \in {"recv", "sendrecv"}) \in BOOLEAN
  <2>1. p \in Positions /\ -1 \in Targets
    BY JackNumbers
  <2>2. (mode \in {"recv", "sendrecv"}) \in BOOLEAN
    OBVIOUS
  <2> QED BY <1>2, <2>1, <2>2
<1>4. jk \in JackState
  BY <1>1, <1>2, <1>3 DEF Manager, JackState
<1>5. ~jk.running /\ ~jk.prepared /\ ~jk.active /\ ~jk.attached /\ ~jk.shutdown
  BY <1>1 DEF Manager
<1>6. ex \in ExecState /\ ex.pc = "idle" /\ jq \in Seq(Orders)
  BY DEF JackInit, ExecState
<1> QED BY <1>4, <1>5, <1>6
           DEF JackInv, JackTyped, JackSound, Resting, Shuts, Unanswered, AtRest

\* Every call, command, callback and shutdown keeps the invariant.
LEMMA NextJack ==
  ASSUME ActivatesAgain, JackInv, [JackNext]_jackVars
  PROVE  JackInv'
<1>1. /\ jk \in JackState /\ jq \in Seq(Orders) /\ ex \in ExecState
      /\ JackSound(jk) /\ Resting /\ Shuts /\ Unanswered
  BY DEF JackInv, JackTyped
<1>2. jk.attached \in BOOLEAN /\ jk.shutdown \in BOOLEAN /\ jk.active \in BOOLEAN
      /\ jk.exiting \in BOOLEAN
  BY <1>1 DEF JackState
<1>3. CASE Exec
  <2>1. PICK d : d = Prepare(InitEngineState(jk))
    OBVIOUS
  <2>2. JackSound(d) /\ Kept(jk, d) /\ Clear(d)
    BY <1>1, <2>1, Operations DEF Kept
  <2>3. PICK m : m = IF jk.mode = "" THEN "sendrecv" ELSE jk.mode
    OBVIOUS
  <2>4. m \in {"", "none", "send", "recv", "sendrecv"}
    BY <1>1, <2>3 DEF JackState
  <2>5. PICK ok \in JackActivate :
          \E on : /\ on = [d EXCEPT !.mode = m, !.exiting = FALSE, !.stops = 0,
                                    !.rounds = 0, !.starts = 0, !.engine = TRUE,
                                    !.active = ok]
                  /\ jk' = IF ~ok THEN on
                           ELSE IF jk.shutdown
                           THEN [on EXCEPT !.open = FALSE, !.shutdown = FALSE]
                           ELSE [on EXCEPT !.attached = TRUE, !.newpos = TRUE]
    BY <1>3, <2>1, <2>3 DEF Exec
  <2>6. PICK on : /\ on = [d EXCEPT !.mode = m, !.exiting = FALSE, !.stops = 0,
                                    !.rounds = 0, !.starts = 0, !.engine = TRUE,
                                    !.active = ok]
                  /\ jk' = IF ~ok THEN on
                           ELSE IF jk.shutdown
                           THEN [on EXCEPT !.open = FALSE, !.shutdown = FALSE]
                           ELSE [on EXCEPT !.attached = TRUE, !.newpos = TRUE]
    BY <2>5
  <2>7. ok \in BOOLEAN /\ 0 \in Pending /\ 0 \in Late
    BY JackAssumption, JackNumbers
  <2>8. on \in JackState
    BY <2>2, <2>4, <2>6, <2>7 DEF JackSound, JackState
  <2>9. /\ on.running => on.prepared
        /\ on.attached = jk.attached /\ on.shutdown = jk.shutdown
        /\ on.active = ok /\ ~on.exiting /\ Clear(on)
    BY <2>2, <2>6, <2>7 DEF JackSound, Kept, Clear, JackState
  <2>10. /\ jk' \in JackState /\ (jk'.running => jk'.prepared)
         /\ jk'.active = ok /\ ~jk'.exiting /\ Clear(jk')
         /\ ~ok => jk'.attached = jk.attached /\ jk'.shutdown = jk.shutdown
         /\ jk'.shutdown => jk.shutdown
    <3>1. CASE ~ok
      BY <2>6, <2>8, <2>9, <3>1
    <3>2. CASE ok /\ jk.shutdown
      <4>1. jk' = [on EXCEPT !.open = FALSE, !.shutdown = FALSE]
        BY <2>6, <3>2
      <4>2. jk' \in JackState
        BY <2>8, <4>1 DEF JackState
      <4> QED BY <2>8, <2>9, <3>2, <4>1, <4>2 DEF JackState, Clear
    <3>3. CASE ok /\ ~jk.shutdown
      <4>1. jk' = [on EXCEPT !.attached = TRUE, !.newpos = TRUE]
        BY <2>6, <3>3
      <4>2. jk' \in JackState
        BY <2>8, <4>1 DEF JackState
      <4> QED BY <2>8, <2>9, <3>3, <4>1, <4>2 DEF JackState, Clear
    <3> QED BY <2>7, <3>1, <3>2, <3>3
  <2>11. AtRest /\ ex.runs \in Nat /\ ex.runs < JackRuns /\ JackRuns \in Nat
    BY <1>1, <1>3, JackAssumption DEF Exec, AtRest, ExecState
  <2>12. ~ok => ~jk.shutdown /\ ~jk.attached
    <3>1. CASE ok
      BY <3>1
    <3>2. CASE JackShutdowns = {}
      BY <1>1, <1>2, <2>11, <3>2 DEF Shuts, Resting
    <3>3. CASE ex.pc = "idle"
      BY <1>1, <1>2, <2>11, <3>3 DEF Shuts, Resting
    <3>4. CASE ex.pc # "idle" /\ JackRuns <= 1
      BY <1>1, <2>11, <3>4 DEF Shuts
    <3> QED BY <2>7, <3>1, <3>2, <3>3, <3>4 DEF ActivatesAgain
  <2>13. /\ jq' \in Seq(Orders) /\ ex' \in ExecState /\ ex'.pc = "seek" /\ ex'.runs > 0
    <3>1. jq' = <<>> /\ ex' = [ex EXCEPT !.pc = "seek", !.runs = ex.runs + 1]
      BY <1>3 DEF Exec
    <3>2. ex.runs + 1 \in Nat /\ ex.runs + 1 > 0
      BY <2>11
    <3>3. ex' \in ExecState
      BY <1>1, <3>1, <3>2 DEF ExecState
    <3> QED BY <1>1, <3>1, <3>2, <3>3 DEF ExecState
  <2>14. JackShutdowns = {} => ~jk'.shutdown
    BY <1>1, <1>2, <2>10 DEF Shuts
  <2> QED BY <2>7, <2>10, <2>12, <2>13, <2>14
          DEF JackInv, JackTyped, JackSound, Resting, Shuts, Unanswered, AtRest
<1>4. CASE InitialSeek
  <2>1. PICK p \in Positions : jk' = jk \/ jk' = TransportLocate(jk, p)
    BY <1>1, <1>4, Fields, JackNumbers DEF InitialSeek
  <2>2. JackSound(jk') /\ TransportMoved(jk, jk')
    BY <1>1, <2>1, TransportMoves DEF TransportMoved, Kept
  <2>3. /\ ex.pc = "seek" /\ ex'.pc = "wait" /\ ex' \in ExecState /\ ex'.runs = ex.runs
        /\ jq' = jq
    <3>1. (~jk.open) \in BOOLEAN
      OBVIOUS
    <3> QED BY <1>1, <1>4, <3>1 DEF InitialSeek, ExecState
  <2> QED BY <1>1, <2>2, <2>3
          DEF JackInv, JackTyped, JackSound, TransportMoved, Kept, Resting, Shuts, Unanswered, AtRest, Clear
<1>5. CASE Wake \/ Lock \/ Test
  <2>1. jk' = jk /\ jq' = jq
    BY <1>5 DEF Wake, Lock, Test
  <2>2. /\ ex' \in ExecState /\ ex'.runs = ex.runs
        /\ ex.pc \in {"wait", "lock", "test"}
        /\ ex'.pc \in {"lock", "hold", "wait", "leave"}
    BY <1>1, <1>5, Fields DEF Wake, Lock, Test, ExecState
  <2>3. ex'.pc = "leave" => Over
    BY <1>1, <1>5 DEF Wake, Lock, Test, ExecState
  <2>4. ~AtRest /\ ~jk.active /\ ex'.pc = "leave" => jk.exiting
    BY <1>1, <2>3 DEF Over, Status, Unanswered, Clear
  <2> QED BY <1>1, <2>1, <2>2, <2>4
          DEF JackInv, JackTyped, JackSound, Resting, Shuts, Unanswered, AtRest, Clear
<1>6. CASE HandleCommand
  <2>1. Head(jq) \in Orders /\ jq' \in Seq(Orders)
    BY <1>1, <1>6 DEF HandleCommand
  <2>2. JackHandles(jk, jk')
    BY <1>1, <1>6, <2>1, CommandsHandled DEF HandleCommand
  <2>3. ex' = ex /\ ex.pc = "hold" /\ ~jk.exiting
    BY <1>6 DEF HandleCommand
  <2> QED BY <1>1, <1>2, <2>1, <2>2, <2>3
          DEF JackInv, JackTyped, JackSound, JackHandles, Resting, Shuts, Unanswered, AtRest, Clear
<1>7. CASE Unlock
  <2>1. PICK p \in Positions : jk' = jk \/ jk' = TransportLocate(jk, p)
    BY <1>1, <1>7, Fields, JackNumbers DEF Unlock
  <2>2. JackSound(jk') /\ TransportMoved(jk, jk')
    BY <1>1, <2>1, TransportMoves DEF TransportMoved, Kept
  <2>3. /\ ex.pc = "hold" /\ ex'.pc = "test" /\ ex' \in ExecState /\ ex'.runs = ex.runs
        /\ jq' = jq
    BY <1>1, <1>7 DEF Unlock, ExecState
  <2> QED BY <1>1, <2>2, <2>3
          DEF JackInv, JackTyped, JackSound, TransportMoved, Kept, Resting, Shuts, Unanswered, AtRest, Clear
<1>8. CASE Leave
  <2>1. /\ ex.pc = "leave" /\ ex'.pc = "detach" /\ ex' \in ExecState /\ ex'.runs = ex.runs
        /\ jq' = jq
    BY <1>1, <1>8 DEF Leave, ExecState
  <2>2. CASE jk.active
    <3>1. PICK e : e = [jk EXCEPT !.attached = jk.attached /\ jk.shutdown, !.active = FALSE]
      OBVIOUS
    <3>2. jk' = StopOperation(e)
      BY <1>8, <2>2, <3>1 DEF Leave, Deactivate
    <3>3. PICK on \in BOOLEAN : on = (jk.attached /\ jk.shutdown)
      OBVIOUS
    <3>4. /\ JackSound(e) /\ ~e.active /\ (e.attached => jk.shutdown)
          /\ e.shutdown = jk.shutdown
      <4>1. e \in JackState
        <5>1. e = [jk EXCEPT !.attached = on, !.active = FALSE]
          BY <3>1, <3>3
        <5> QED BY <1>1, <5>1 DEF JackState
      <4> QED BY <1>1, <3>1, <4>1 DEF JackSound, JackState
    <3>5. /\ JackSound(jk') /\ Kept(e, jk') /\ ~jk'.prepared /\ ~jk'.running
      BY <3>2, <3>4, Operations
    <3> QED BY <1>1, <2>1, <3>4, <3>5
            DEF JackInv, JackTyped, JackSound, Kept, Resting, Shuts, Unanswered, AtRest
  <2>3. CASE ~jk.active
    <3>1. jk' = jk
      BY <1>8, <2>3 DEF Leave, Deactivate
    <3> QED BY <1>1, <1>2, <2>1, <2>3, <3>1
            DEF JackInv, JackTyped, JackSound, Resting, Shuts, Unanswered, AtRest
  <2> QED BY <2>2, <2>3
<1>9. CASE Detach
  <2>1. /\ ex.pc = "detach" /\ ex'.pc = "done" /\ ex' \in ExecState /\ ex'.runs = ex.runs
        /\ jq' = jq /\ jk' = [jk EXCEPT !.exiting = FALSE, !.engine = FALSE]
    BY <1>1, <1>9 DEF Detach, ExecState
  <2>2. /\ jk' \in JackState /\ jk'.attached = jk.attached /\ jk'.shutdown = jk.shutdown
        /\ jk'.active = jk.active /\ jk'.running = jk.running /\ jk'.prepared = jk.prepared
    BY <1>1, <2>1 DEF JackState
  <2> QED BY <1>1, <2>1, <2>2
          DEF JackInv, JackTyped, JackSound, Resting, Shuts, Unanswered, AtRest
<1>10. CASE JackSync \/ JackProcess
  <2>1. PICK s : CallsBack(jk, s) /\ JackSound(jk') /\ jq' = jq \o s.cs /\ ex' = ex
                 /\ TransportMoved(s.d, jk') /\ (Silent => TransportMoved(jk, s.d))
    <3>1. CASE JackSync
      <4>1. PICK d : d = [jk EXCEPT !.polled = TRUE, !.newpos = FALSE]
        OBVIOUS
      <4>2. JackSound(d) /\ TransportMoved(jk, d)
        BY <1>1, <4>1 DEF JackSound, TransportMoved, Kept, JackState
      <4>3. PICK s : s = IF Silent \/ ~Free THEN Leaves(d, <<>>) ELSE SyncCallback(d)
        OBVIOUS
      <4>4. jk' = s.d /\ jq' = jq \o s.cs /\ ex' = ex
        BY <3>1, <4>1, <4>3 DEF JackSync
      <4>5. CallsBack(d, s)
        BY <4>2, <4>3, SyncCalls, CommandsQueued DEF Kept
      <4>6. Silent => s.d = d
        BY <4>3 DEF Leaves
      <4>7. CallsBack(jk, s)
        BY <4>2, <4>5 DEF CallsBack, Kept, TransportMoved
      <4> QED BY <4>2, <4>4, <4>6, <4>7 DEF CallsBack, TransportMoved, Kept
    <3>2. CASE JackProcess
      <4>1. PICK bad, s :
              /\ bad \in JackErrors
              /\ s = IF Silent \/ ~jk.engine \/ ~Free THEN Leaves(jk, <<>>)
                     ELSE ProcessCallback(jk, bad)
              /\ jk' = RollOn(s.d) /\ jq' = jq \o s.cs /\ ex' = ex
        BY <3>2 DEF JackProcess
      <4>2. bad \in BOOLEAN
        BY <4>1, JackAssumption
      <4>3. CallsBack(jk, s)
        BY <1>1, <4>1, <4>2, ProcessCalls, CommandsQueued DEF Kept
      <4>4. Silent => s.d = jk
        BY <4>1 DEF Leaves
      <4>5. JackSound(jk') /\ TransportMoved(s.d, jk')
        BY <4>1, <4>3, TransportMoves DEF CallsBack
      <4> QED BY <4>1, <4>3, <4>4, <4>5 DEF CallsBack, TransportMoved, Kept
    <3> QED BY <1>10, <3>1, <3>2
  <2>2. jk.attached
    BY <1>10 DEF JackSync, JackProcess
  <2>3. jq' \in Seq(Orders)
    BY <1>1, <2>1 DEF CallsBack
  <2>4. AtRest => Silent
    BY <1>1, <2>2 DEF Resting, Silent
  <2> QED BY <1>1, <1>2, <2>1, <2>2, <2>3, <2>4
          DEF JackInv, JackTyped, JackSound, CallsBack, TransportMoved, Kept, Resting, Shuts, Unanswered, AtRest
<1>11. CASE JackUser
  <2>1. PICK name, o :
          /\ name \in JackCommands
          /\ \/ name # "setpos" /\ o = Op(name)
             \/ name = "setpos" /\ \E p \in Positions : o = [op |-> name, to |-> p]
          /\ jq' = Append(jq, o) /\ jk' = jk
    BY <1>11 DEF JackUser
  <2>2. o \in Orders
    <3>1. name \in {"start", "stop", "drain", "prepare", "exit", "setpos"}
      BY <2>1, JackAssumption
    <3>2. CASE name = "setpos"
      BY <2>1, <3>2, JackNumbers DEF Orders
    <3>3. CASE name # "setpos"
      BY <2>1, <3>1, <3>3 DEF Op, Orders
    <3> QED BY <3>2, <3>3
  <2>3. ex' \in ExecState /\ ex'.pc = ex.pc /\ ex'.runs = ex.runs
    <3>1. ex.user + 1 \in Nat /\ ex.seeks + 1 \in Nat
      BY <1>1 DEF ExecState
    <3>2. CASE ex' = [ex EXCEPT !.user = ex.user + 1]
      BY <1>1, <3>1, <3>2 DEF ExecState
    <3>3. CASE ex' = [ex EXCEPT !.user = ex.user + 1, !.seeks = ex.seeks + 1]
      BY <1>1, <3>1, <3>3 DEF ExecState
    <3> QED BY <1>11, <3>2, <3>3 DEF JackUser
  <2> QED BY <1>1, <2>1, <2>2, <2>3
          DEF JackInv, JackTyped, JackSound, Resting, Shuts, Unanswered, AtRest, Clear
<1>12. CASE OtherClient \/ SyncTimeout
  <2>1. JackSound(jk') /\ TransportMoved(jk, jk')
    <3>1. CASE OtherClient
      <4>1. PICK p \in Positions :
              jk' \in {TransportStart(jk), TransportStop(jk), TransportLocate(jk, p)}
        BY <3>1, JackNumbers DEF OtherClient
      <4> QED BY <1>1, <4>1, TransportMoves
    <3>2. CASE SyncTimeout
      BY <1>1, <3>2 DEF SyncTimeout, JackSound, TransportMoved, Kept, JackState
    <3> QED BY <1>12, <3>1, <3>2
  <2>2. ex' \in ExecState /\ ex'.pc = ex.pc /\ ex'.runs = ex.runs /\ jq' = jq
    BY <1>1, <1>12 DEF OtherClient, SyncTimeout, ExecState
  <2> QED BY <1>1, <2>1, <2>2
          DEF JackInv, JackTyped, JackSound, TransportMoved, Kept, Resting, Shuts, Unanswered, AtRest, Clear
<1>13. CASE Shutdown
  <2>1. PICK how \in JackShutdowns :
          jk' = [jk EXCEPT !.shutdown = TRUE, !.attached = how # "gone"]
    BY <1>13 DEF Shutdown
  <2>2. (how # "gone") \in BOOLEAN
    OBVIOUS
  <2>3. /\ jk' \in JackState /\ jk'.shutdown /\ jk'.active = jk.active
        /\ jk'.running = jk.running /\ jk'.prepared = jk.prepared
    BY <1>1, <2>1, <2>2 DEF JackState
  <2>4. jk.attached /\ ~jk.shutdown /\ jq' = jq /\ ex' = ex
    BY <1>13 DEF Shutdown
  <2> QED BY <1>1, <1>2, <2>1, <2>3, <2>4
          DEF JackInv, JackTyped, JackSound, Resting, Shuts, Unanswered, AtRest
<1>14. CASE UNCHANGED jackVars
  BY <1>1, <1>14 DEF jackVars, JackInv, JackTyped, JackSound, Resting, Shuts, Unanswered, AtRest, Clear
<1> QED BY <1>3, <1>4, <1>5, <1>6, <1>7, <1>8, <1>9, <1>10, <1>11, <1>12, <1>13, <1>14
        DEF JackNext, ExecStep

\* Once exec() is over the engine is at rest, and a callback that is still to come
\* finds the shutdown flag before it would use the engine: LeavesClean, for every
\* order of commands, callbacks, moves of the transport and shutdowns, if no later
\* activation of a client that was shut down fails.
THEOREM LeftClean ==
  ASSUME ActivatesAgain
  PROVE  JackSpec => []LeavesClean
<1>1. JackInv => LeavesClean
  BY DEF JackInv, Resting, AtRest, LeavesClean
<1>2. JackSpec => []JackInv
  BY InitJack, NextJack, PTL DEF JackSpec
<1> QED BY <1>1, <1>2, PTL

\* What the invariant says of the types.
LEMMA JackTypes == JackInv => JackTypeOK
<1> SUFFICES ASSUME JackInv PROVE JackTypeOK
  OBVIOUS
<1>1. jk \in JackState /\ jq \in Seq(Orders) /\ ex \in ExecState
  BY DEF JackInv, JackTyped
<1>2. /\ jk.tstate \in {"stopped", "starting", "rolling"}
      /\ jk.tpos \in Positions /\ jk.epos \in Nat
      /\ jk.target \in Reach \cup {-1} /\ jk.ahead \in Aheads
      /\ jk.starts \in {0, 1} /\ jk.stops \in {0, 1} /\ jk.rounds \in 0 .. 4
  BY <1>1 DEF JackState, Targets, Pending, Late
<1>3. /\ jk.newpos \in BOOLEAN /\ jk.polled \in BOOLEAN /\ jk.ready \in BOOLEAN
      /\ jk.attached \in BOOLEAN /\ jk.registered \in BOOLEAN /\ jk.prepared \in BOOLEAN
      /\ jk.running \in BOOLEAN /\ jk.finished \in BOOLEAN /\ jk.failed \in BOOLEAN
      /\ jk.exiting \in BOOLEAN /\ jk.shutdown \in BOOLEAN /\ jk.active \in BOOLEAN
      /\ jk.open \in BOOLEAN /\ jk.engine \in BOOLEAN
  BY <1>1 DEF JackState
<1>4. \A f \in {"newpos", "polled", "ready", "attached", "registered",
                "prepared", "running", "finished", "failed", "exiting",
                "shutdown", "active", "open", "engine"} : jk[f] \in BOOLEAN
  BY <1>3
<1>5. \A i \in DOMAIN jq : jq[i] \in JackCommand
  <2>1. Orders = JackCommand
    BY DEF Orders, JackCommand
  <2> QED BY <1>1, <2>1
<1>6. ex.pc \in {"idle", "seek", "wait", "lock", "hold", "test", "leave",
                "detach", "done"}
  BY <1>1 DEF ExecState
<1> QED BY <1>2, <1>4, <1>5, <1>6 DEF JackTypeOK

(* The positions that the driver and its callbacks exchange stay within    *)
(* the transport's length and the largest seek-ahead, and at most one      *)
(* start and one stop of the transport's are pending.                      *)
THEOREM DriverTyped ==
  ASSUME ActivatesAgain
  PROVE  JackSpec => []JackTypeOK
<1>1. JackSpec => []JackInv
  BY InitJack, NextJack, PTL DEF JackSpec
<1> QED BY <1>1, JackTypes, PTL

-----------------------------------------------------------------------------
(***************************************************************************)
(* MidiServer, for any number of channels and controllers and any amount   *)
(* of received bytes: what the parser makes of the bytes that wait is what *)
(* the sender meant.                                                       *)
(***************************************************************************)
\* The parser's part of the server's state.
ParserOf(s) == [status |-> s.status, channel |-> s.channel, number |-> s.number]
HeardChannels == MidiChannels \cup {-1}
HeardNumbers == MidiData \cup {-1}
Parser ==
  [status : {"none", "cc", "voice"}, channel : HeardChannels, number : HeardNumbers]

Values == UNION {[S -> MidiData] : S \in SUBSET Controllers}

Server ==
  [running : BOOLEAN, stop : BOOLEAN, exit : BOOLEAN,
   thread : {"none", "top", "read", "clear", "rest", "gone"},
   status : {"none", "cc", "voice"}, channel : HeardChannels, number : HeardNumbers]

Sender ==
  [truth : Values, sent : Nat, last : MidiChannels \cup {-1}, turns : Nat,
   wanted : BOOLEAN, joining : BOOLEAN]

MidiTyped ==
  /\ ms \in Server /\ mt \in Values /\ line \in Seq(Byte) /\ mc \in Sender

\* P and T are what the parser and the values are before and after each byte of l.
ByteCourse(P, T, l) ==
  \A k \in 1..Len(l) : /\ P[k] = ParseByte(P[k - 1], l[k])
                       /\ T[k] = Followed(P[k - 1], T[k - 1], l[k])

\* Parsing the bytes l leads from the parser p and the values t to q and u.
Leads(p, t, l, q, u) ==
  \E P, T : /\ P[0] = p /\ T[0] = t /\ ByteCourse(P, T, l)
            /\ P[Len(l)] = q /\ T[Len(l)] = u

\* Once what has been received is parsed the values are the sender's, no half of a
\* message is left, and the running status is the one the sender counts on.
Understood ==
  \E q \in Parser :
    /\ Leads(ParserOf(ms), mt, line, q, mc.truth)
    /\ ms.thread # "none" =>
         q.number = -1 /\ (mc.last # -1 => q.status = "cc" /\ q.channel = mc.last)

\* A device that is not open gives nothing, and its sender starts afresh.
Unplugged == ms.thread = "none" => line = <<>> /\ mc.last = -1

MidiInv == MidiTyped /\ Unplugged /\ Understood

-----------------------------------------------------------------------------
(* Parsing a sequence of bytes. *)

\* No bytes change nothing.
LEMMA LeadsNothing ==
  ASSUME NEW p, NEW t
  PROVE  /\ Leads(p, t, <<>>, p, t)
         /\ \A q, u : Leads(p, t, <<>>, q, u) => q = p /\ u = t
<1>1. Leads(p, t, <<>>, p, t)
  <2>1. PICK P, T : P = [k \in {0} |-> p] /\ T = [k \in {0} |-> t]
    OBVIOUS
  <2>2. P[0] = p /\ T[0] = t /\ Len(<<>>) = 0 /\ ByteCourse(P, T, <<>>)
    BY <2>1 DEF ByteCourse
  <2> QED BY <2>2 DEF Leads
<1>2. ASSUME NEW q, NEW u, Leads(p, t, <<>>, q, u) PROVE q = p /\ u = t
  BY <1>2 DEF Leads
<1> QED BY <1>1, <1>2

\* One byte.
LEMMA LeadsOne ==
  ASSUME NEW p, NEW t, NEW b
  PROVE  Leads(p, t, <<b>>, ParseByte(p, b), Followed(p, t, b))
<1>1. PICK P, T : /\ P = [k \in {0, 1} |-> IF k = 0 THEN p ELSE ParseByte(p, b)]
                  /\ T = [k \in {0, 1} |-> IF k = 0 THEN t ELSE Followed(p, t, b)]
  OBVIOUS
<1>2. /\ P[0] = p /\ P[1] = ParseByte(p, b)
      /\ T[0] = t /\ T[1] = Followed(p, t, b)
  BY <1>1
<1>3. Len(<<b>>) = 1 /\ <<b>>[1] = b /\ ByteCourse(P, T, <<b>>)
  BY <1>2 DEF ByteCourse
<1> QED BY <1>2, <1>3 DEF Leads

\* The first byte is parsed, and then the others.
LEMMA LeadsTail ==
  ASSUME NEW S, NEW l \in Seq(S), l # <<>>, NEW p, NEW t, NEW q, NEW u,
         Leads(p, t, l, q, u)
  PROVE  Leads(ParseByte(p, Head(l)), Followed(p, t, Head(l)), Tail(l), q, u)
<1>1. PICK P, T : /\ P[0] = p /\ T[0] = t /\ ByteCourse(P, T, l)
                  /\ P[Len(l)] = q /\ T[Len(l)] = u
  BY DEF Leads
<1>2. PICK n \in Nat : Len(l) = n + 1 /\ Len(Tail(l)) = n
  <2>1. Len(l) \in Nat /\ Len(l) # 0
    BY EmptySeq
  <2>2. Len(Tail(l)) = Len(l) - 1
    BY HeadTailProperties
  <2>3. Len(l) - 1 \in Nat /\ Len(l) = (Len(l) - 1) + 1
    BY <2>1
  <2> QED BY <2>2, <2>3
<1>3. \A k \in 1..n : Tail(l)[k] = l[k + 1] /\ k + 1 \in 1..Len(l) /\ k - 1 \in 0..n
  BY <1>2
<1>4. PICK R, U : R = [k \in 0..n |-> P[k + 1]] /\ U = [k \in 0..n |-> T[k + 1]]
  OBVIOUS
<1>5. \A k \in 0..n : R[k] = P[k + 1] /\ U[k] = T[k + 1]
  BY <1>4
<1>6. R[0] = ParseByte(p, Head(l)) /\ U[0] = Followed(p, t, Head(l))
  <2>1. 1 \in 1..Len(l) /\ Head(l) = l[1] /\ 0 \in 0..n
    BY <1>2
  <2>2. P[1] = ParseByte(P[0], l[1]) /\ T[1] = Followed(P[0], T[0], l[1])
    BY <1>1, <2>1 DEF ByteCourse
  <2> QED BY <1>1, <1>5, <2>1, <2>2
<1>7. ByteCourse(R, U, Tail(l))
  <2>1. SUFFICES ASSUME NEW k \in 1..n
                 PROVE  /\ R[k] = ParseByte(R[k - 1], Tail(l)[k])
                        /\ U[k] = Followed(R[k - 1], U[k - 1], Tail(l)[k])
    BY <1>2 DEF ByteCourse
  <2>2. /\ P[k + 1] = ParseByte(P[k + 1 - 1], l[k + 1])
        /\ T[k + 1] = Followed(P[k + 1 - 1], T[k + 1 - 1], l[k + 1])
    BY <1>1, <1>3 DEF ByteCourse
  <2>3. /\ R[k] = P[k + 1] /\ U[k] = T[k + 1]
        /\ R[k - 1] = P[k] /\ U[k - 1] = T[k] /\ k + 1 - 1 = k
    BY <1>2, <1>3, <1>5
  <2> QED BY <1>3, <2>2, <2>3
<1>8. R[n] = q /\ U[n] = u
  BY <1>1, <1>2, <1>5
<1> QED BY <1>2, <1>6, <1>7, <1>8 DEF Leads

\* One sequence after another.
LEMMA LeadsOn ==
  ASSUME NEW S, NEW l \in Seq(S), NEW m \in Seq(S), NEW p, NEW t, NEW q, NEW u,
         NEW r, NEW v, Leads(p, t, l, q, u), Leads(q, u, m, r, v)
  PROVE  Leads(p, t, l \o m, r, v)
<1>1. PICK P1, T1 : /\ P1[0] = p /\ T1[0] = t /\ ByteCourse(P1, T1, l)
                    /\ P1[Len(l)] = q /\ T1[Len(l)] = u
  BY DEF Leads
<1>2. PICK P2, T2 : /\ P2[0] = q /\ T2[0] = u /\ ByteCourse(P2, T2, m)
                    /\ P2[Len(m)] = r /\ T2[Len(m)] = v
  BY DEF Leads
<1>3. PICK a \in Nat, b \in Nat : a = Len(l) /\ b = Len(m)
  OBVIOUS
<1>4. /\ Len(l \o m) = a + b
      /\ \A k \in 1..a : (l \o m)[k] = l[k]
      /\ \A k \in (a + 1)..(a + b) : (l \o m)[k] = m[k - a]
  BY <1>3
<1>5. PICK P, T : /\ P = [k \in 0..(a + b) |-> IF k <= a THEN P1[k] ELSE P2[k - a]]
                  /\ T = [k \in 0..(a + b) |-> IF k <= a THEN T1[k] ELSE T2[k - a]]
  OBVIOUS
<1>6. /\ \A k \in 0..a : P[k] = P1[k] /\ T[k] = T1[k]
      /\ \A k \in a..(a + b) : P[k] = P2[k - a] /\ T[k] = T2[k - a]
  <2>1. \A k \in 0..a : P[k] = P1[k] /\ T[k] = T1[k]
    BY <1>5
  <2>2. ASSUME NEW k \in a..(a + b) PROVE P[k] = P2[k - a] /\ T[k] = T2[k - a]
    <3>1. CASE k = a
      BY <1>1, <1>2, <1>3, <2>1, <3>1
    <3>2. CASE k > a
      BY <1>5, <3>2
    <3> QED BY <3>1, <3>2
  <2> QED BY <2>1, <2>2
<1>7. ByteCourse(P, T, l \o m)
  <2>1. SUFFICES ASSUME NEW k \in 1..(a + b)
                 PROVE  /\ P[k] = ParseByte(P[k - 1], (l \o m)[k])
                        /\ T[k] = Followed(P[k - 1], T[k - 1], (l \o m)[k])
    BY <1>4 DEF ByteCourse
  <2>2. CASE k <= a
    <3>1. k \in 1..a /\ k \in 0..a /\ k - 1 \in 0..a
      BY <2>2
    <3>2. P1[k] = ParseByte(P1[k - 1], l[k]) /\ T1[k] = Followed(P1[k - 1], T1[k - 1], l[k])
      BY <1>1, <1>3, <3>1 DEF ByteCourse
    <3> QED BY <1>4, <1>6, <3>1, <3>2
  <2>3. CASE k > a
    <3>1. PICK n \in 1..b : n = k - a
      BY <2>3
    <3>2. k \in (a + 1)..(a + b) /\ k \in a..(a + b) /\ k - 1 \in a..(a + b) /\ k - 1 - a = n - 1
      BY <2>3, <3>1
    <3>3. P2[n] = ParseByte(P2[n - 1], m[n]) /\ T2[n] = Followed(P2[n - 1], T2[n - 1], m[n])
      BY <1>2, <1>3, <3>1 DEF ByteCourse
    <3>4. /\ P[k] = P2[n] /\ T[k] = T2[n] /\ (l \o m)[k] = m[n]
          /\ P[k - 1] = P2[n - 1] /\ T[k - 1] = T2[n - 1]
      BY <1>4, <1>6, <3>1, <3>2
    <3> QED BY <3>3, <3>4
  <2> QED BY <1>3, <2>2, <2>3
<1>8. P[0] = p /\ T[0] = t /\ P[a + b] = r /\ T[a + b] = v
  <2>1. 0 \in 0..a /\ a + b \in a..(a + b) /\ (a + b) - a = b
    OBVIOUS
  <2> QED BY <1>1, <1>2, <1>3, <1>6, <2>1
<1> QED BY <1>4, <1>7, <1>8 DEF Leads

-----------------------------------------------------------------------------
(* The parser and the messages. *)

\* A parser that has heard of no channel and of no controller yet.
LEMMA HeardNothing ==
  /\ MidiChannels \subseteq HeardChannels /\ MidiData \subseteq HeardNumbers
  /\ -1 \in HeardChannels /\ -1 \in HeardNumbers
BY DEF HeardChannels, HeardNumbers

\* Parsing a byte changes the parser's part of the server only, and values stay
\* values.
LEMMA ByteParsed ==
  ASSUME NEW s \in Server, NEW t \in Values, NEW b \in Byte
  PROVE  /\ ParseByte(s, b) \in Server /\ ParseByte(s, b).thread = s.thread
         /\ ParserOf(ParseByte(s, b)) = ParseByte(ParserOf(s), b)
         /\ Followed(ParserOf(s), t, b) = Followed(s, t, b)
         /\ Followed(s, t, b) \in Values
<1>1. /\ MidiChannels \subseteq HeardChannels /\ MidiData \subseteq HeardNumbers
      /\ -1 \in HeardChannels /\ -1 \in HeardNumbers
  BY HeardNothing
<1>2. CASE b.class = "data"
  <2>1. b \in [class : {"data"}, v : MidiData]
    BY <1>2 DEF Byte
  <2>2. b.v \in MidiData /\ b.v \in HeardNumbers
    BY <1>1, <2>1
  <2>3. PICK n \in HeardNumbers : n = IF s.number = -1 THEN b.v ELSE -1
    BY <1>1, <2>2
  <2>4. ParseByte(s, b) \in {s, [s EXCEPT !.number = n]}
    BY <1>2, <2>3 DEF ParseByte, NoteData
  <2>5. ParseByte(s, b) \in Server /\ ParseByte(s, b).thread = s.thread
    BY <2>4 DEF Server
  <2>6. Listening(ParserOf(s)) = Listening(s)
    BY DEF Listening, ParserOf
  <2>7. ParserOf(ParseByte(s, b)) = ParseByte(ParserOf(s), b)
    <3>1. CASE ~Listening(s)
      BY <1>2, <2>6, <3>1 DEF ParseByte, NoteData
    <3>2. CASE Listening(s)
      <4>1. ParseByte(s, b) = [s EXCEPT !.number = n]
        BY <1>2, <2>3, <3>2 DEF ParseByte, NoteData
      <4>2. ParseByte(ParserOf(s), b) = [ParserOf(s) EXCEPT !.number = n]
        BY <1>2, <2>3, <2>6, <3>2 DEF ParseByte, NoteData, ParserOf
      <4> QED BY <4>1, <4>2 DEF ParserOf, Server
    <3> QED BY <3>1, <3>2
  <2>8. Followed(ParserOf(s), t, b) = Followed(s, t, b)
    BY <2>6 DEF Followed, ParserOf
  <2>9. Followed(s, t, b) \in Values
    <3>1. PICK S \in SUBSET Controllers : t \in [S -> MidiData]
      BY DEF Values
    <3>2. Followed(s, t, b) \in {t, [t EXCEPT ![<<s.channel, s.number>>] = b.v]}
      BY DEF Followed
    <3>3. [t EXCEPT ![<<s.channel, s.number>>] = b.v] \in [S -> MidiData]
      BY <2>2, <3>1
    <3> QED BY <3>1, <3>2, <3>3 DEF Values
  <2> QED BY <2>5, <2>7, <2>8, <2>9
<1>3. CASE b.class # "data"
  <2>1. ParseByte(s, b) = NoteStatus(s, b) /\ ParseByte(ParserOf(s), b) = NoteStatus(ParserOf(s), b)
        /\ Followed(s, t, b) = t /\ Followed(ParserOf(s), t, b) = t
    BY <1>3 DEF ParseByte, Followed
  <2>2. CASE b.class = "cc"
    <3>1. b.ch \in HeardChannels
      BY <1>1, <2>2 DEF Byte
    <3> QED BY <2>1, <2>2, <3>1 DEF NoteStatus, ParserOf, Server
  <2>3. CASE b.class \in {"voice", "common", "realtime"}
    <3>1. CASE b.class = "voice"
      BY <1>1, <2>1, <3>1 DEF NoteStatus, ParserOf, Server
    <3>2. CASE b.class = "common"
      BY <1>1, <2>1, <3>2 DEF NoteStatus, ParserOf, Server
    <3>3. CASE b.class = "realtime"
      BY <1>1, <2>1, <3>3 DEF NoteStatus, ParserOf, Server
    <3> QED BY <2>3, <3>1, <3>2, <3>3
  <2>4. b.class \in {"cc", "voice", "common", "realtime"}
    BY <1>3 DEF Byte
  <2> QED BY <2>2, <2>3, <2>4
<1> QED BY <1>2, <1>3

\* Real-time bytes are passed over wherever they come.
LEMMA TickLeads ==
  ASSUME NEW q, NEW t, NEW gap \in BOOLEAN,
         NEW tick, tick = IF gap THEN <<Status0("realtime")>> ELSE <<>>
  PROVE  Leads(q, t, tick, q, t)
<1>1. CASE gap
  <2>1. /\ ParseByte(q, Status0("realtime")) = q
        /\ Followed(q, t, Status0("realtime")) = t
    BY DEF ParseByte, NoteStatus, Followed, Status0
  <2> QED BY <1>1, <2>1, LeadsOne
<1>2. CASE ~gap
  BY <1>2, LeadsNothing
<1> QED BY <1>1, <1>2

\* A controller message sets the value, if that controller is followed, whether or
\* not it begins with a status byte.
LEMMA MessageLeads ==
  ASSUME NEW q \in Parser, NEW t, q.number = -1, NEW last, NEW gap \in BOOLEAN,
         NEW ch \in MidiChannels, NEW n \in MidiData, NEW v \in MidiData,
         last # -1 => q.status = "cc" /\ q.channel = last,
         NEW tick, tick = IF gap THEN <<Status0("realtime")>> ELSE <<>>
  PROVE  Leads(q, t,
               (IF last = ch THEN <<>> ELSE <<[class |-> "cc", ch |-> ch]>>)
                 \o tick \o <<Data(n)>> \o tick \o <<Data(v)>>,
               [status |-> "cc", channel |-> ch, number |-> -1],
               IF <<ch, n>> \in DOMAIN t THEN [t EXCEPT ![<<ch, n>>] = v] ELSE t)
<1> DEFINE begin == IF last = ch THEN <<>> ELSE <<[class |-> "cc", ch |-> ch]>>
           set == IF <<ch, n>> \in DOMAIN t THEN [t EXCEPT ![<<ch, n>>] = v] ELSE t
<1>1. /\ n \in HeardNumbers /\ -1 \in HeardNumbers
      /\ ch # -1 /\ n # -1
  BY MidiAssumption DEF HeardNumbers
<1>2. PICK p : p = [status |-> "cc", channel |-> ch, number |-> -1]
  OBVIOUS
<1>3. PICK r : r = [status |-> "cc", channel |-> ch, number |-> n]
  OBVIOUS
<1>4. /\ begin \in Seq(Byte) /\ tick \in Seq(Byte)
      /\ <<Data(n)>> \in Seq(Byte) /\ <<Data(v)>> \in Seq(Byte)
  <2>1. /\ Data(n) \in Byte /\ Data(v) \in Byte /\ Status0("realtime") \in Byte
        /\ [class |-> "cc", ch |-> ch] \in Byte
    BY DEF Byte, Data, Status0
  <2>2. <<>> \in Seq(Byte) /\ \A b \in Byte : <<b>> \in Seq(Byte)
    OBVIOUS
  <2> QED BY <2>1, <2>2
<1>5. Leads(q, t, begin, p, t)
  <2>1. CASE last = ch
    <3>1. q = p
      BY <1>1, <1>2, <2>1 DEF Parser
    <3> QED BY <2>1, <3>1, LeadsNothing
  <2>2. CASE last # ch
    <3>1. PICK b : b = [class |-> "cc", ch |-> ch]
      OBVIOUS
    <3>2. ParseByte(q, b) = p /\ Followed(q, t, b) = t
      BY <1>2, <3>1 DEF ParseByte, NoteStatus, Followed, Parser
    <3>3. Leads(q, t, <<b>>, p, t)
      BY <3>2, LeadsOne
    <3> QED BY <2>2, <3>1, <3>3
  <2> QED BY <2>1, <2>2
<1>6. Leads(p, t, <<Data(n)>>, r, t)
  <2>1. ParseByte(p, Data(n)) = r /\ Followed(p, t, Data(n)) = t
    BY <1>1, <1>2, <1>3 DEF ParseByte, NoteData, Listening, Followed, Data
  <2> QED BY <2>1, LeadsOne
<1>7. Leads(r, t, <<Data(v)>>, p, set)
  <2>1. ParseByte(r, Data(v)) = p /\ Followed(r, t, Data(v)) = set
    BY <1>1, <1>2, <1>3 DEF ParseByte, NoteData, Listening, Followed, Data
  <2> QED BY <2>1, LeadsOne
<1>8. Leads(p, t, tick, p, t) /\ Leads(r, t, tick, r, t)
  BY TickLeads
<1> HIDE DEF begin, set
<1>9. begin \o tick \in Seq(Byte) /\ Leads(q, t, begin \o tick, p, t)
  <2>1. Leads(q, t, begin \o tick, p, t)
    BY <1>4, <1>5, <1>8, LeadsOn
  <2> QED BY <1>4, <2>1, ConcatProperties
<1>10. /\ begin \o tick \o <<Data(n)>> \in Seq(Byte)
      /\ Leads(q, t, begin \o tick \o <<Data(n)>>, r, t)
  <2>1. Leads(q, t, begin \o tick \o <<Data(n)>>, r, t)
    BY <1>4, <1>6, <1>9, LeadsOn
  <2> QED BY <1>4, <1>9, <2>1, ConcatProperties
<1>11. /\ begin \o tick \o <<Data(n)>> \o tick \in Seq(Byte)
       /\ Leads(q, t, begin \o tick \o <<Data(n)>> \o tick, r, t)
  <2>1. Leads(q, t, begin \o tick \o <<Data(n)>> \o tick, r, t)
    BY <1>4, <1>8, <1>10, LeadsOn
  <2> QED BY <1>4, <1>10, <2>1, ConcatProperties
<1>12. Leads(q, t, begin \o tick \o <<Data(n)>> \o tick \o <<Data(v)>>, p, set)
  BY <1>4, <1>7, <1>11, LeadsOn
<1> QED BY <1>2, <1>12 DEF begin, set

\* A system common message ends the running status, and its data byte is passed over.
LEMMA CommonLeads ==
  ASSUME NEW q \in Parser, NEW t, NEW n
  PROVE  Leads(q, t, <<Status0("common"), Data(n)>>,
               [q EXCEPT !.status = "none", !.channel = -1], t)
<1>1. PICK b, c : b = Status0("common") /\ c = Data(n)
  OBVIOUS
<1>2. PICK p : p = [q EXCEPT !.status = "none", !.channel = -1]
  OBVIOUS
<1>3. ParseByte(q, b) = p /\ Followed(q, t, b) = t
  BY <1>1, <1>2 DEF ParseByte, NoteStatus, Followed, Status0
<1>4. ParseByte(p, c) = p /\ Followed(p, t, c) = t
  BY <1>1, <1>2 DEF ParseByte, NoteData, Listening, Followed, Data, Parser
<1>5. Leads(q, t, <<b>>, p, t) /\ Leads(p, t, <<c>>, p, t)
  BY <1>3, <1>4, LeadsOne
<1>6. <<b>> \in Seq({b, c}) /\ <<c>> \in Seq({b, c})
  OBVIOUS
<1>7. Leads(q, t, <<b>> \o <<c>>, p, t)
  BY <1>5, <1>6, LeadsOn
<1>8. <<b>> \o <<c>> = <<b, c>>
  <2>1. <<b, c>> \in Seq({b, c}) /\ <<b>> \o <<c>> \in Seq({b, c})
    BY <1>6, ConcatProperties
  <2>2. /\ Len(<<b>> \o <<c>>) = 2 /\ (<<b>> \o <<c>>)[1] = b
        /\ (<<b>> \o <<c>>)[2] = c
    BY <1>6
  <2>3. /\ Len(<<b, c>>) = 2
        /\ \A i \in 1..2 : (<<b>> \o <<c>>)[i] = <<b, c>>[i]
    <3>1. \A i \in 1..2 : i = 1 \/ i = 2
      OBVIOUS
    <3> QED BY <2>2, <3>1
  <2>4. PICK d, e : d = <<b>> \o <<c>> /\ e = <<b, c>>
    OBVIOUS
  <2>5. d \in Seq({b, c}) /\ e \in Seq({b, c}) /\ Len(d) = Len(e)
        /\ \A i \in 1..Len(d) : d[i] = e[i]
    BY <2>1, <2>2, <2>3, <2>4
  <2>6. d = e
    BY <2>5, SeqEqual
  <2> QED BY <2>4, <2>6
<1> QED BY <1>1, <1>2, <1>7, <1>8

-----------------------------------------------------------------------------
(* The invariant. *)

\* The server starts with nothing waiting and nothing parsed.
LEMMA InitMidi ==
  ASSUME MidiInit
  PROVE  MidiInv
<1>1. ms \in Server /\ ms.thread = "none"
  BY HeardNothing DEF MidiInit, Server
<1>2. line = <<>> /\ line \in Seq(Byte) /\ mt = <<>>
  BY DEF MidiInit
<1>3. <<>> \in Values
  <2>1. <<>> \in [{} -> MidiData] /\ {} \in SUBSET Controllers
    OBVIOUS
  <2> QED BY <2>1 DEF Values
<1>4. mc \in Sender /\ mc.truth = <<>> /\ mc.last = -1
  BY <1>3 DEF MidiInit, Sender
<1>5. ParserOf(ms) \in Parser
  BY <1>1 DEF ParserOf, Parser, Server
<1>6. Leads(ParserOf(ms), mt, line, ParserOf(ms), mc.truth)
  BY <1>2, <1>4, LeadsNothing
<1>7. Understood
  BY <1>1, <1>5, <1>6 DEF Understood
<1> QED BY <1>1, <1>2, <1>3, <1>4, <1>7 DEF MidiInv, MidiTyped, Unplugged

\* Every step of the i/o thread, of the callers and of a sender that sends whole
\* messages keeps the invariant.
LEMMA NextMidi ==
  ASSUME MidiForeign = {}, MidiInv, [MidiNext]_midiVars
  PROVE  MidiInv'
<1>1. /\ ms \in Server /\ mt \in Values /\ line \in Seq(Byte) /\ mc \in Sender
      /\ mc.truth \in Values /\ -1 \in Int /\ mc.turns \in Nat /\ mc.turns + 1 \in Nat
      /\ mc.sent + 1 \in Nat
  <2>1. mc \in Sender
    BY DEF MidiInv, MidiTyped
  <2>2. mc.truth \in Values /\ mc.turns \in Nat /\ mc.sent \in Nat
    BY <2>1 DEF Sender
  <2> QED BY <2>2 DEF MidiInv, MidiTyped
<1>2. PICK q \in Parser :
        /\ Leads(ParserOf(ms), mt, line, q, mc.truth)
        /\ ms.thread # "none" =>
             q.number = -1 /\ (mc.last # -1 => q.status = "cc" /\ q.channel = mc.last)
  BY DEF MidiInv, Understood
<1>3. ms.thread = "none" => line = <<>> /\ mc.last = -1
  BY DEF MidiInv, Unplugged
<1>4. line = <<>> => q = ParserOf(ms) /\ mt = mc.truth
  <2>1. SUFFICES ASSUME line = <<>> PROVE q = ParserOf(ms) /\ mt = mc.truth
    OBVIOUS
  <2>2. Leads(ParserOf(ms), mt, <<>>, q, mc.truth)
    BY <1>2, <2>1
  <2> QED BY <2>2, LeadsNothing
\* The thread and the flags change, the parser does not.
<1>5. ASSUME ms' \in Server, ParserOf(ms') = ParserOf(ms),
             ms'.thread = "none" <=> ms.thread = "none",
             mt' = mt, line' = line,
             mc' \in Sender, mc'.truth = mc.truth, mc'.last = mc.last
      PROVE  MidiInv'
  <2>1. Understood'
    BY <1>2, <1>5 DEF Understood
  <2> QED BY <1>1, <1>3, <1>5, <2>1 DEF MidiInv, MidiTyped, Unplugged
\* Nothing is under way, and the values are what the sender takes them for.
<1>6. ASSUME line' = <<>>, mt' = mc'.truth, mc'.last = -1 \/ ms'.thread # "none",
             ms' \in Server, mc' \in Sender, mt' \in Values,
             ms'.thread # "none" =>
               ms'.number = -1
               /\ (mc'.last # -1 => ms'.status = "cc" /\ ms'.channel = mc'.last)
      PROVE  MidiInv'
  <2>1. /\ ParserOf(ms') \in Parser
        /\ ParserOf(ms').number = ms'.number /\ ParserOf(ms').status = ms'.status
        /\ ParserOf(ms').channel = ms'.channel
    BY <1>6 DEF ParserOf, Parser, Server
  <2>2. Leads(ParserOf(ms'), mt', line', ParserOf(ms'), mc'.truth)
    BY <1>6, LeadsNothing
  <2>3. Understood'
    BY <1>6, <2>1, <2>2 DEF Understood
  <2> QED BY <1>6, <2>3 DEF MidiInv, MidiTyped, Unplugged
\* A message is received.
<1>7. ASSUME NEW bytes \in Seq(Byte), Sent(bytes), NEW r \in Parser, mc' \in Sender,
             Leads(q, mc.truth, bytes, r, mc'.truth), r.number = -1,
             mc'.last # -1 => r.status = "cc" /\ r.channel = mc'.last
      PROVE  MidiInv'
  <2>1. /\ line' = line \o bytes /\ ms' = ms /\ mt' = mt /\ ms.thread # "none"
    BY <1>7 DEF Sent
  <2>2. line' \in Seq(Byte)
    BY <1>1, <2>1, ConcatProperties
  <2>3. Leads(ParserOf(ms), mt, line \o bytes, r, mc'.truth)
    BY <1>1, <1>2, <1>7, LeadsOn
  <2>4. Understood'
    BY <1>7, <2>1, <2>3 DEF Understood
  <2> QED BY <1>1, <1>7, <2>1, <2>2, <2>4 DEF MidiInv, MidiTyped, Unplugged
<1>8. CASE IoIdle \/ IoSelect \/ IoRead \/ IoClear \/ IoRest
  <2>1. ASSUME NEW thread \in {"top", "read", "clear", "rest", "gone"},
               \/ ms' = [ms EXCEPT !.thread = thread]
               \/ ms' = [ms EXCEPT !.stop = FALSE, !.thread = thread]
               \/ ms' = [ms EXCEPT !.running = FALSE, !.thread = thread]
        PROVE  ms' \in Server /\ ParserOf(ms') = ParserOf(ms) /\ ms'.thread # "none"
    BY <1>1, <2>1 DEF Server, ParserOf
  <2>2. ms' \in Server /\ ParserOf(ms') = ParserOf(ms) /\ ms'.thread # "none"
    BY <1>8, <2>1 DEF IoIdle, IoSelect, IoRead, IoClear, IoRest
  <2>3. ms.thread # "none" /\ UNCHANGED <<mt, line, mc>>
    BY <1>8 DEF IoIdle, IoSelect, IoRead, IoClear, IoRest
  <2> QED BY <1>1, <1>5, <2>2, <2>3
<1>9. CASE IoByte
  <2>1. PICK b \in Byte : b = Head(line) /\ line # <<>>
    BY <1>1, <1>9, HeadTailProperties DEF IoByte
  <2>2. /\ ms' = ParseByte(ms, b) /\ mt' = Followed(ms, mt, b) /\ line' = Tail(line) /\ mc' = mc
        /\ ms.thread = "read"
    BY <1>9, <2>1 DEF IoByte
  <2>3. /\ ms' \in Server /\ ms'.thread = "read" /\ mt' \in Values
        /\ ParserOf(ms') = ParseByte(ParserOf(ms), b)
        /\ mt' = Followed(ParserOf(ms), mt, b)
    BY <1>1, <2>2, ByteParsed
  <2>4. line' \in Seq(Byte)
    BY <1>1, <2>1, <2>2, HeadTailProperties
  <2>5. Leads(ParserOf(ms'), mt', line', q, mc.truth)
    BY <1>1, <1>2, <2>1, <2>2, <2>3, LeadsTail
  <2>6. Understood'
    BY <1>2, <2>2, <2>3, <2>5 DEF Understood
  <2> QED BY <1>1, <2>2, <2>3, <2>4, <2>6 DEF MidiInv, MidiTyped, Unplugged
<1>10. CASE MidiEnable
  <2>1. /\ ms' \in Server /\ ms'.thread = "top" /\ ms'.number = -1
        /\ UNCHANGED <<mt, line>> /\ line = <<>> /\ mc.last = -1
    BY <1>1, <1>3, <1>10, HeardNothing DEF MidiEnable, Server
  <2>2. mc' \in Sender /\ mc'.truth = mc.truth /\ mc'.last = -1
    <3>1. mc' = [mc EXCEPT !.turns = mc.turns + 1, !.wanted = FALSE]
      BY <1>10 DEF MidiEnable
    <3> QED BY <1>1, <2>1, <3>1 DEF Sender
  <2> QED BY <1>1, <1>4, <1>6, <2>1, <2>2
<1>11. CASE MidiStart \/ MidiStop \/ MidiDisable
  <2>1. ms' \in Server /\ ParserOf(ms') = ParserOf(ms) /\ ms'.thread = ms.thread
    BY <1>1, <1>11 DEF MidiStart, MidiStop, MidiDisable, Server, ParserOf
  <2>2. mc' \in Sender /\ mc'.truth = mc.truth /\ mc'.last = mc.last
    <3>1. CASE MidiStart
      <4>1. mc' = [mc EXCEPT !.turns = mc.turns + 1, !.wanted = TRUE]
        BY <3>1 DEF MidiStart
      <4> QED BY <1>1, <4>1 DEF Sender
    <3>2. CASE MidiStop
      BY <1>1, <3>2 DEF MidiStop, Sender
    <3>3. CASE MidiDisable
      BY <1>1, <3>3 DEF MidiDisable, Sender
    <3> QED BY <1>11, <3>1, <3>2, <3>3
  <2>3. UNCHANGED <<mt, line>>
    BY <1>11 DEF MidiStart, MidiStop, MidiDisable
  <2> QED BY <1>5, <2>1, <2>2, <2>3
<1>12. CASE MidiJoined
  <2>1. ms' \in Server /\ ms'.thread = "none" /\ line' = <<>> /\ mt' = mt
    BY <1>1, <1>12 DEF MidiJoined, Server
  <2>2. mc' \in Sender /\ mc'.truth = mt /\ mc'.last = -1
    BY <1>1, <1>12 DEF MidiJoined, Sender
  <2> QED BY <1>1, <1>6, <2>1, <2>2
<1>13. CASE MidiReset
  <2>1. /\ ms' \in Server /\ ms'.thread # "none" /\ ms'.number = -1
        /\ line = <<>> /\ UNCHANGED <<mt, line>>
    BY <1>1, <1>13, HeardNothing DEF MidiReset, Server
  <2>2. mc' = [mc EXCEPT !.last = -1]
    BY <1>13 DEF MidiReset
  <2>3. mc' \in Sender /\ mc'.truth = mc.truth /\ mc'.last = -1
    BY <1>1, <2>2 DEF Sender
  <2> QED BY <1>1, <1>4, <1>6, <2>1, <2>3
<1>14. CASE MidiFollow \/ MidiUnfollow
  <2>1. mt' \in Values
    <3>1. PICK S \in SUBSET Controllers : mt \in [S -> MidiData]
      BY <1>1 DEF Values
    <3>2. CASE MidiFollow
      <4>1. PICK c \in Controllers, v \in MidiData :
              mt' = [k \in DOMAIN mt \cup {c} |-> IF k = c THEN v ELSE mt[k]]
        BY <3>2 DEF MidiFollow
      <4>2. mt' \in [S \cup {c} -> MidiData] /\ S \cup {c} \in SUBSET Controllers
        BY <3>1, <4>1
      <4> QED BY <4>2 DEF Values
    <3>3. CASE MidiUnfollow
      <4>1. PICK c \in DOMAIN mt : mt' = [k \in DOMAIN mt \ {c} |-> mt[k]]
        BY <3>3 DEF MidiUnfollow
      <4>2. mt' \in [S \ {c} -> MidiData] /\ S \ {c} \in SUBSET Controllers
        BY <3>1, <4>1
      <4> QED BY <4>2 DEF Values
    <3> QED BY <1>14, <3>2, <3>3
  <2>2. mc' \in Sender /\ mc'.truth = mt' /\ mc'.last = mc.last
    <3>1. CASE MidiFollow
      <4>1. mc' = [mc EXCEPT !.turns = mc.turns + 1, !.truth = mt']
        BY <3>1 DEF MidiFollow
      <4> QED BY <1>1, <2>1, <4>1 DEF Sender
    <3>2. CASE MidiUnfollow
      BY <1>1, <2>1, <3>2 DEF MidiUnfollow, Sender
    <3> QED BY <1>14, <3>1, <3>2
  <2>3. line = <<>> /\ UNCHANGED <<ms, line>>
    BY <1>14 DEF MidiFollow, MidiUnfollow
  <2>4. q = ParserOf(ms)
    BY <1>4, <2>3
  <2>5. q.number = ms.number /\ q.status = ms.status /\ q.channel = ms.channel
    BY <2>4 DEF ParserOf
  <2> QED BY <1>1, <1>2, <1>3, <1>6, <2>1, <2>2, <2>3, <2>5
<1>15. CASE SendController
  <2>1. PICK ch \in MidiChannels, n \in MidiData, v \in MidiData, gap \in BOOLEAN :
          /\ Sent((IF mc.last = ch THEN <<>> ELSE <<[class |-> "cc", ch |-> ch]>>)
                    \o (IF gap THEN <<Status0("realtime")>> ELSE <<>>) \o <<Data(n)>>
                    \o (IF gap THEN <<Status0("realtime")>> ELSE <<>>) \o <<Data(v)>>)
          /\ mc' = [mc EXCEPT !.sent = mc.sent + 1, !.last = ch,
                      !.truth = IF <<ch, n>> \in DOMAIN mc.truth
                                THEN [mc.truth EXCEPT ![<<ch, n>>] = v] ELSE mc.truth]
    BY <1>15 DEF SendController
  <2>2. PICK tick : tick = IF gap THEN <<Status0("realtime")>> ELSE <<>>
    OBVIOUS
  <2>3. PICK begin : begin = IF mc.last = ch THEN <<>> ELSE <<[class |-> "cc", ch |-> ch]>>
    OBVIOUS
  <2>4. PICK bytes : bytes = begin \o tick \o <<Data(n)>> \o tick \o <<Data(v)>>
    OBVIOUS
  <2>5. PICK truth : truth = IF <<ch, n>> \in DOMAIN mc.truth
                             THEN [mc.truth EXCEPT ![<<ch, n>>] = v] ELSE mc.truth
    OBVIOUS
  <2>6. Sent(bytes) /\ mc' = [mc EXCEPT !.sent = mc.sent + 1, !.last = ch, !.truth = truth]
    BY <2>1, <2>2, <2>3, <2>4, <2>5
  <2>7. bytes \in Seq(Byte)
    <3>1. /\ Data(n) \in Byte /\ Data(v) \in Byte /\ Status0("realtime") \in Byte
          /\ [class |-> "cc", ch |-> ch] \in Byte
      BY DEF Byte, Data, Status0
    <3>2. <<>> \in Seq(Byte) /\ \A b \in Byte : <<b>> \in Seq(Byte)
      OBVIOUS
    <3>3. begin \in Seq(Byte) /\ tick \in Seq(Byte)
      BY <2>2, <2>3, <3>1, <3>2
    <3>4. begin \o tick \in Seq(Byte)
      BY <3>3, ConcatProperties
    <3>5. begin \o tick \o <<Data(n)>> \in Seq(Byte)
      BY <3>1, <3>2, <3>4, ConcatProperties
    <3>6. begin \o tick \o <<Data(n)>> \o tick \in Seq(Byte)
      BY <3>3, <3>5, ConcatProperties
    <3>7. begin \o tick \o <<Data(n)>> \o tick \o <<Data(v)>> \in Seq(Byte)
      BY <3>1, <3>2, <3>6, ConcatProperties
    <3> QED BY <2>4, <3>7
  <2>8. truth \in Values
    <3>1. PICK S \in SUBSET Controllers : mc.truth \in [S -> MidiData]
      BY <1>1 DEF Values
    <3>2. truth \in [S -> MidiData]
      BY <2>5, <3>1
    <3> QED BY <3>2 DEF Values
  <2>9. mc' \in Sender /\ mc'.truth = truth /\ mc'.last = ch
    BY <1>1, <2>6, <2>8 DEF Sender
  <2>10. ms.thread # "none"
    BY <2>6 DEF Sent
  <2>11. PICK r : r = [status |-> "cc", channel |-> ch, number |-> -1]
    OBVIOUS
  <2>12. r \in Parser /\ r.number = -1 /\ r.status = "cc" /\ r.channel = ch
    BY <1>1, <2>11, HeardNothing DEF Parser
  <2>13. Leads(q, mc.truth, bytes, r, truth)
    BY <1>2, <2>2, <2>3, <2>4, <2>5, <2>10, <2>11, MessageLeads
  <2> QED BY <1>7, <2>6, <2>7, <2>9, <2>12, <2>13
<1>16. CASE SendOther
  <2>1. PICK n \in MidiData :
          /\ Sent(<<Status0("common"), Data(n)>>)
          /\ mc' = [mc EXCEPT !.sent = mc.sent + 1, !.last = -1]
    BY <1>16 DEF SendOther
  <2>2. mc' \in Sender /\ mc'.truth = mc.truth /\ mc'.last = -1
    BY <1>1, <2>1 DEF Sender
  <2>3. PICK b \in Byte, c \in Byte : b = Status0("common") /\ c = Data(n)
    BY DEF Byte, Data, Status0
  <2>4. <<Status0("common"), Data(n)>> \in Seq(Byte)
    BY <2>3
  <2>5. PICK r : r = [q EXCEPT !.status = "none", !.channel = -1]
    OBVIOUS
  <2>6. r \in Parser /\ r.number = -1
    BY <1>1, <1>2, <2>1, <2>5, HeardNothing DEF Parser, Sent
  <2>7. Leads(q, mc.truth, <<Status0("common"), Data(n)>>, r, mc'.truth)
    BY <2>2, <2>5, CommonLeads
  <2> QED BY <1>7, <2>1, <2>2, <2>4, <2>6, <2>7
<1>17. CASE UNCHANGED midiVars
  BY <1>1, <1>17, <1>5 DEF midiVars
<1> QED BY <1>8, <1>9, <1>10, <1>11, <1>12, <1>13, <1>14, <1>15, <1>16, <1>17
        DEF MidiNext, IoThread, MidiCalls

\* Once everything that was received is parsed, each controller that is followed has
\* the value of the last message sent to it: for any number of channels, controllers
\* and bytes, with real-time bytes between any two others, running status, and a
\* server that is stopped, disabled and enabled, if messages are sent whole and with
\* a status byte after the parser was reset.
THEOREM FollowedExactly ==
  ASSUME MidiForeign = {}
  PROVE  MidiSpec => []TraceExact
<1>1. MidiInv => TraceExact
  <2>1. SUFFICES ASSUME MidiInv, line = <<>> PROVE mt = mc.truth
    BY DEF TraceExact
  <2>2. PICK q : Leads(ParserOf(ms), mt, <<>>, q, mc.truth)
    BY <2>1 DEF MidiInv, Understood
  <2> QED BY <2>2, LeadsNothing
<1>2. MidiSpec => []MidiInv
  BY InitMidi, NextMidi, PTL DEF MidiSpec
<1> QED BY <1>1, <1>2, PTL

\* What the invariant says of the types.
LEMMA MidiTypes == MidiInv => MidiTypeOK
<1> SUFFICES ASSUME MidiInv PROVE MidiTypeOK
  OBVIOUS
<1>1. ms \in Server /\ mt \in Values /\ line \in Seq(Byte)
  BY DEF MidiInv, MidiTyped
<1>2. /\ ms.thread \in {"none", "top", "read", "clear", "rest", "gone"}
      /\ ms.running \in BOOLEAN /\ ms.stop \in BOOLEAN /\ ms.exit \in BOOLEAN
      /\ ms.status \in {"none", "cc", "voice"}
      /\ ms.channel \in MidiChannels \cup {-1} /\ ms.number \in MidiData \cup {-1}
  BY <1>1 DEF Server, HeardChannels, HeardNumbers
<1>3. \A f \in {"running", "stop", "exit"} : ms[f] \in BOOLEAN
  BY <1>2
<1>4. DOMAIN mt \subseteq Controllers /\ \A c \in DOMAIN mt : mt[c] \in MidiData
  <2>1. PICK C \in SUBSET Controllers : mt \in [C -> MidiData]
    BY <1>1 DEF Values
  <2> QED BY <2>1
<1> QED BY <1>1, <1>2, <1>3, <1>4 DEF MidiTypeOK

(* The parser's running status and half-read controller are of the         *)
(* channels and values a device may send, and so are the values that are   *)
(* followed.                                                               *)
THEOREM ListenerTyped ==
  ASSUME MidiForeign = {}
  PROVE  MidiSpec => []MidiTypeOK
<1>1. MidiSpec => []MidiInv
  BY InitMidi, NextMidi, PTL DEF MidiSpec
<1> QED BY <1>1, MidiTypes, PTL

-----------------------------------------------------------------------------
(***************************************************************************)
(* EciClient, for any number of commands, log messages and lost reads: the *)
(* answer that the handle holds is the one to the command sent last.       *)
(***************************************************************************)
(* The name of a type is not an end of line.                               *)
PlainTypes == "cr" \notin EciTypes

EciKinds == {"num", "sp", "cr", "lf", "text"} \cup EciTypes
EciPieces == [k : EciKinds, v : Int]
ParserStates ==
  {"init", "loglevel", "msgsize", "type", "lf1", "content", "lf2", "cr3", "lf3"}
EciParsers ==
  [st : ParserStates, ret : BOOLEAN, phase : {"none", "reading", "validate"},
   buf : Seq(EciPieces), size : Int]
Answers == [type : EciTypes, content : Seq(EciPieces)]
EciHandles ==
  [pc : {"none", "init", "ready", "command", "cleanup", "gone"}, sent : Nat,
   seen : Nat, lost : BOOLEAN, type : EciTypes \cup {None},
   vals : [EciTypes -> Seq(EciPieces)], parser : EciParsers,
   tries : 0 .. EciReads - 1, wait : BOOLEAN]
Children ==
  [alive : BOOLEAN, todo : Seq(Nat), pipe : Seq(EciPieces), said : Seq(Answers),
   logs : 0 .. EciLogs, times : 0 .. EciTimeouts]

(* What reading a piece depends on and changes, but for the values.        *)
Cores == [parser : EciParsers, type : EciTypes \cup {None}, seen : Nat]
Core(e) == [parser |-> e.parser, type |-> e.type, seen |-> e.seen]
Stores(c, x) == c.parser.st = "lf3" /\ x.k = "lf" /\ c.parser.ret
Advance(c, x) ==
  [parser |-> Collected(Moved(c.parser, x), x),
   type |-> IF c.parser.st = "type" /\ x.k = "cr" THEN c.parser.buf[1].k ELSE c.type,
   seen |-> IF Stores(c, x) THEN c.seen + 1 ELSE c.seen]

(* What is at hand fits the answers given: no more are counted, the type   *)
(* is that of the last once it is counted, and at the end of an answer the *)
(* type and the content are its own.                                       *)
Fit(said) ==
  {c \in Cores :
     /\ c.seen <= Len(said)
     /\ c.seen = Len(said) /\ c.seen # 0 => c.type = said[c.seen].type
     /\ c.parser.st = "lf3" /\ c.parser.ret =>
          /\ c.seen < Len(said) /\ c.type = said[c.seen + 1].type
          /\ c.parser.buf = said[c.seen + 1].content}

(* Reading l leads from c to q and stays in G.                             *)
Reads(G, c, l, q) ==
  \E R : /\ R[0] = c /\ R[Len(l)] = q
         /\ \A k \in 0..Len(l) : R[k] \in G
         /\ \A k \in 1..Len(l) : R[k] = Advance(R[k - 1], l[k])

(* The handle is not given back.                                           *)
Held == ec.pc \notin {"cleanup", "gone"}

EciTyped == ec \in EciHandles /\ eo \in Children

(* One answer is awaited at a time, unless one is lost.                    *)
Awaiting ==
  /\ ec.pc = "none" => ec.sent = 0 /\ ec.seen = 0
  /\ ec.pc \in {"init", "command"} /\ ~ec.lost => ec.seen + 1 = ec.sent
  /\ ec.pc = "ready" /\ ~ec.lost => ec.seen = ec.sent /\ ec.sent # 0

(* Nothing is answered that has not been asked.                            *)
Asked == Len(eo.said) + Len(eo.todo) <= ec.sent

(* What is in the pipe are the rest of a message and whole ones.           *)
Piped ==
  Held => \E q : /\ Reads(Fit(eo.said), Core(ec), eo.pipe, q)
                 /\ q.parser.st = "init" /\ q.seen = Len(eo.said)

ValuesOf(a) == [NoValues EXCEPT ![a.type] = a.content]
Valued ==
  Held /\ ~ec.lost =>
    ec.vals = IF ec.pc = "ready" THEN ValuesOf(eo.said[ec.sent]) ELSE NoValues

EciInv == EciTyped /\ Awaiting /\ Asked /\ Piped /\ Valued

-----------------------------------------------------------------------------
(* Reading one sequence of pieces after another.                           *)

\* Two pieces.
LEMMA ReadsTwo ==
  ASSUME NEW G, NEW a, NEW b, NEW c0 \in G, NEW c1 \in G, NEW c2 \in G,
         c1 = Advance(c0, a), c2 = Advance(c1, b)
  PROVE  Reads(G, c0, <<a, b>>, c2)
<1>1. PICK R : R = [k \in 0..2 |-> IF k = 0 THEN c0 ELSE IF k = 1 THEN c1 ELSE c2]
  OBVIOUS
<1>2. R[0] = c0 /\ R[1] = c1 /\ R[2] = c2
  BY <1>1
<1>3. /\ Len(<<a, b>>) = 2 /\ <<a, b>>[1] = a /\ <<a, b>>[2] = b
      /\ \A k \in 1..2 : k = 1 \/ k = 2
      /\ \A k \in 0..2 : k = 0 \/ k = 1 \/ k = 2
      /\ 1 - 1 = 0 /\ 2 - 1 = 1
  OBVIOUS
<1>4. \A k \in 1..2 : R[k] = Advance(R[k - 1], <<a, b>>[k])
  BY <1>2, <1>3
<1> QED BY <1>2, <1>3, <1>4 DEF Reads

\* Three pieces.
LEMMA ReadsThree ==
  ASSUME NEW G, NEW a, NEW b, NEW c, NEW c0 \in G, NEW c1 \in G, NEW c2 \in G,
         NEW c3 \in G, c1 = Advance(c0, a), c2 = Advance(c1, b), c3 = Advance(c2, c)
  PROVE  Reads(G, c0, <<a, b, c>>, c3)
<1>1. PICK R : R = [k \in 0..3 |-> IF k = 0 THEN c0 ELSE IF k = 1 THEN c1
                                   ELSE IF k = 2 THEN c2 ELSE c3]
  OBVIOUS
<1>2. R[0] = c0 /\ R[1] = c1 /\ R[2] = c2 /\ R[3] = c3
  BY <1>1
<1>3. /\ Len(<<a, b, c>>) = 3 /\ <<a, b, c>>[1] = a /\ <<a, b, c>>[2] = b /\ <<a, b, c>>[3] = c
      /\ \A k \in 1..3 : k = 1 \/ k = 2 \/ k = 3
      /\ \A k \in 0..3 : k = 0 \/ k = 1 \/ k = 2 \/ k = 3
      /\ 1 - 1 = 0 /\ 2 - 1 = 1 /\ 3 - 1 = 2
  OBVIOUS
<1>4. \A k \in 1..3 : R[k] = Advance(R[k - 1], <<a, b, c>>[k])
  BY <1>2, <1>3
<1> QED BY <1>2, <1>3, <1>4 DEF Reads

\* No piece.
LEMMA ReadsNone ==
  ASSUME NEW G, NEW c \in G
  PROVE  Reads(G, c, <<>>, c)
<1>1. PICK R : R = [k \in 0..0 |-> c]
  OBVIOUS
<1>2. R[0] = c /\ Len(<<>>) = 0 /\ \A k \in 0..0 : k = 0
  BY <1>1
<1> QED BY <1>2 DEF Reads

\* One sequence after another.
LEMMA ReadsOn ==
  ASSUME NEW G, NEW X, NEW l \in Seq(X), NEW m \in Seq(X), NEW c, NEW q, NEW r,
         Reads(G, c, l, q), Reads(G, q, m, r)
  PROVE  Reads(G, c, l \o m, r)
<1>1. PICK R1 : /\ R1[0] = c /\ R1[Len(l)] = q /\ \A k \in 0..Len(l) : R1[k] \in G
                /\ \A k \in 1..Len(l) : R1[k] = Advance(R1[k - 1], l[k])
  BY DEF Reads
<1>2. PICK R2 : /\ R2[0] = q /\ R2[Len(m)] = r /\ \A k \in 0..Len(m) : R2[k] \in G
                /\ \A k \in 1..Len(m) : R2[k] = Advance(R2[k - 1], m[k])
  BY DEF Reads
<1>3. PICK a \in Nat, b \in Nat : a = Len(l) /\ b = Len(m)
  OBVIOUS
<1>4. /\ Len(l \o m) = a + b
      /\ \A k \in 1..a : (l \o m)[k] = l[k]
      /\ \A k \in (a + 1)..(a + b) : (l \o m)[k] = m[k - a]
  BY <1>3
<1>5. PICK R : R = [k \in 0..(a + b) |-> IF k <= a THEN R1[k] ELSE R2[k - a]]
  OBVIOUS
<1>6. /\ \A k \in 0..a : R[k] = R1[k]
      /\ \A k \in a..(a + b) : R[k] = R2[k - a]
  <2>1. \A k \in 0..a : R[k] = R1[k]
    BY <1>5
  <2>2. ASSUME NEW k \in a..(a + b) PROVE R[k] = R2[k - a]
    <3>1. CASE k = a
      BY <1>1, <1>2, <1>3, <2>1, <3>1
    <3>2. CASE k > a
      BY <1>5, <3>2
    <3> QED BY <3>1, <3>2
  <2> QED BY <2>1, <2>2
<1>7. ASSUME NEW k \in 1..(a + b) PROVE R[k] = Advance(R[k - 1], (l \o m)[k])
  <2>1. CASE k <= a
    <3>1. k \in 1..a /\ k \in 0..a /\ k - 1 \in 0..a
      BY <2>1
    <3>2. R1[k] = Advance(R1[k - 1], l[k])
      BY <1>1, <1>3, <3>1
    <3> QED BY <1>4, <1>6, <3>1, <3>2
  <2>2. CASE k > a
    <3>1. PICK n \in 1..b : n = k - a
      BY <2>2
    <3>2. k \in (a + 1)..(a + b) /\ k \in a..(a + b) /\ k - 1 \in a..(a + b) /\ k - 1 - a = n - 1
      BY <2>2, <3>1
    <3>3. R2[n] = Advance(R2[n - 1], m[n])
      BY <1>2, <1>3, <3>1
    <3>4. R[k] = R2[n] /\ (l \o m)[k] = m[n] /\ R[k - 1] = R2[n - 1]
      BY <1>4, <1>6, <3>1, <3>2
    <3> QED BY <3>3, <3>4
  <2>3. k <= a \/ k > a
    OBVIOUS
  <2> QED BY <2>1, <2>2, <2>3
<1>8. ASSUME NEW k \in 0..(a + b) PROVE R[k] \in G
  <2>1. CASE k \in 0..a
    BY <1>1, <1>3, <1>6, <2>1
  <2>2. CASE k \in a..(a + b)
    <3>1. k - a \in 0..b
      BY <2>2
    <3> QED BY <1>2, <1>3, <1>6, <2>2, <3>1
  <2> QED BY <2>1, <2>2
<1>9. R[0] = c /\ R[a + b] = r
  <2>1. 0 \in 0..a /\ a + b \in a..(a + b) /\ a + b - a = b
    OBVIOUS
  <2> QED BY <1>1, <1>2, <1>3, <1>6, <2>1
<1> QED BY <1>4, <1>7, <1>8, <1>9 DEF Reads

\* What is read stays in a larger set too.
LEMMA ReadsIn ==
  ASSUME NEW G, NEW H, G \subseteq H, NEW c, NEW l, NEW q, Reads(G, c, l, q)
  PROVE  Reads(H, c, l, q)
BY DEF Reads

\* What is read first, and the rest.
LEMMA ReadsFrom ==
  ASSUME NEW G, NEW X, NEW l \in Seq(X), NEW n \in 0..Len(l), NEW c, NEW q, NEW R,
         R[0] = c, R[Len(l)] = q, \A k \in 0..Len(l) : R[k] \in G,
         \A k \in 1..Len(l) : R[k] = Advance(R[k - 1], l[k])
  PROVE  Reads(G, R[n], SubSeq(l, n + 1, Len(l)), q)
<1>1. PICK L \in Nat : L = Len(l)
  OBVIOUS
<1>2. n \in 0..L /\ n \in Nat
  BY <1>1
<1>3. PICK m : m = SubSeq(l, n + 1, Len(l))
  OBVIOUS
<1>4. Len(m) = L - n /\ \A k \in 1..L-n : m[k] = l[k + n]
  <2>1. /\ Len(SubSeq(l, n + 1, L)) = (IF n + 1 <= L THEN L - (n + 1) + 1 ELSE 0)
        /\ \A k \in 1..L - (n + 1) + 1 : SubSeq(l, n + 1, L)[k] = l[(n + 1) + k - 1]
    <3>1. CASE n + 1 <= L
      <4>1. n + 1 \in 1..Len(l) + 1 /\ L \in n + 1 - 1..Len(l)
        BY <1>1, <1>2, <3>1
      <4> QED BY <1>1, <1>2, <4>1, <3>1, SubSeqProperties, SMTT(30)
    <3>2. CASE ~(n + 1 <= L)
      <4>1. n = L
        BY <1>2, <3>2
      <4>2. SubSeq(l, n + 1, L) = <<>>
        BY <1>1, <4>1
      <4>3. 1..L - (n + 1) + 1 = {}
        BY <1>2, <4>1
      <4> QED BY <3>2, <4>2, <4>3
    <3> QED BY <3>1, <3>2
  <2>2. L - (n + 1) + 1 = L - n /\ \A k \in Int : (n + 1) + k - 1 = k + n
    BY <1>2
  <2>3. ~(n + 1 <= L) => L - n = 0
    BY <1>2
  <2>4. Len(m) = L - n
    BY <1>1, <1>2, <1>3, <2>1, <2>2, <2>3
  <2>5. \A k \in 1..L-n : m[k] = l[(n + 1) + k - 1] /\ (n + 1) + k - 1 = k + n
    BY <1>1, <1>2, <1>3, <2>1, <2>2
  <2> QED BY <2>4, <2>5
<1>5. PICK T : T = [k \in 0..L-n |-> R[k + n]]
  OBVIOUS
<1>6. \A k \in 0..L-n : T[k] = R[k + n] /\ k + n \in 0..L
  BY <1>2, <1>5
<1>7. \A k \in 1..L-n : k \in 0..L-n /\ k - 1 \in 0..L-n /\ k + n \in 1..L /\ (k - 1) + n = (k + n) - 1
  BY <1>2
<1>8. 0 \in 0..L-n /\ L - n \in 0..L-n /\ 0 + n = n /\ (L - n) + n = L
  BY <1>2
<1>9. T[0] = R[n] /\ T[L - n] = q
  BY <1>1, <1>6, <1>8
<1>10. \A k \in 0..L-n : T[k] \in G
  BY <1>1, <1>6
<1>11. \A k \in 1..L-n : T[k] = Advance(T[k - 1], m[k])
  BY <1>1, <1>4, <1>6, <1>7
<1>12. Reads(G, R[n], m, q)
  BY <1>4, <1>9, <1>10, <1>11 DEF Reads
<1> QED BY <1>3, <1>12

-----------------------------------------------------------------------------
(* The parser on the pieces of a message.                                  *)

\* The first and the second piece of a token.
LEMMA Appends ==
  ASSUME NEW a, NEW b
  PROVE  Append(<<>>, a) = <<a>> /\ Append(<<a>>, b) = <<a, b>>
<1>1. \A x \in {a, b} : Append(<<>>, x) = <<x>>
  <2>1. ASSUME NEW x \in {a, b} PROVE Append(<<>>, x) = <<x>>
    <3>1. PICK u : u = Append(<<>>, x)
      OBVIOUS
    <3>2. u \in Seq({a, b}) /\ Len(u) = 1 /\ u[1] = x
      BY <3>1
    <3>3. PICK v : v = <<x>>
      OBVIOUS
    <3>4. v \in Seq({a, b}) /\ Len(v) = 1 /\ v[1] = x
      BY <3>3
    <3>5. u = v
      BY <3>2, <3>4
    <3> QED BY <3>1, <3>3, <3>5
  <2> QED BY <2>1
<1>2. Append(<<a>>, b) = <<a, b>>
  <2>1. PICK w : w = <<a>>
    OBVIOUS
  <2>2. w \in Seq({a, b}) /\ Len(w) = 1 /\ w[1] = a
    BY <2>1
  <2>3. PICK u : u = Append(w, b)
    OBVIOUS
  <2>4. u \in Seq({a, b}) /\ Len(u) = 2 /\ u[1] = a /\ u[2] = b
    BY <2>2, <2>3
  <2>5. PICK v : v = <<a, b>>
    OBVIOUS
  <2>6. v \in Seq({a, b}) /\ Len(v) = 2 /\ v[1] = a /\ v[2] = b
    BY <2>5
  <2>7. \A i \in 1..2 : i = 1 \/ i = 2
    OBVIOUS
  <2>8. u = v
    BY <2>4, <2>6, <2>7
  <2> QED BY <2>1, <2>3, <2>5, <2>8
<1> QED BY <1>1, <1>2

\* The parser, the type and the counter together.
Scanner(st, lv, phase, buf, size) ==
  [st |-> st, ret |-> lv = RetLevel, phase |-> phase, buf |-> buf, size |-> size]
ParserAt(st, lv, phase, buf, size, type, seen) ==
  [parser |-> Scanner(st, lv, phase, buf, size), type |-> type, seen |-> seen]

\* A token of one piece, and of two.
OnePiece(x) == <<x>>
TwoPieces(x, y) == <<x, y>>

\* A token begins.
LEMMA TokenBegins ==
  ASSUME NEW st, NEW lv, NEW phase, NEW buf, NEW z
  PROVE  Begin(Scanner(st, lv, phase, buf, z)) = Scanner(st, lv, "reading", <<>>, z)
<1>1. PICK r, e : r = Scanner(st, lv, phase, buf, z) /\ e = <<>>
  OBVIOUS
<1>2. /\ r.st = st /\ r.ret = (lv = RetLevel) /\ r.size = z
      /\ DOMAIN r = {"st", "ret", "phase", "buf", "size"}
  BY <1>1 DEF Scanner
<1>3. PICK q : q = [r EXCEPT !.phase = "reading", !.buf = e]
  OBVIOUS
<1>4. /\ q.st = st /\ q.ret = (lv = RetLevel) /\ q.size = z /\ q.phase = "reading" /\ q.buf = e
      /\ DOMAIN q = {"st", "ret", "phase", "buf", "size"}
  BY <1>2, <1>3
<1>5. q = [x \in DOMAIN q |-> q[x]]
  BY <1>3
<1>6. q = [st |-> st, ret |-> lv = RetLevel, phase |-> "reading", buf |-> e, size |-> z]
  BY <1>4, <1>5
<1> QED BY <1>1, <1>3, <1>6 DEF Scanner, Begin

\* A token collects its pieces.
LEMMA Grows ==
  ASSUME NEW st, NEW lv, NEW buf, NEW z, NEW a
  PROVE  Collected(Scanner(st, lv, "reading", buf, z), a)
           = Scanner(st, lv, "reading", Append(buf, a), z)
<1>1. ASSUME NEW e
      PROVE  [Scanner(st, lv, "reading", buf, z) EXCEPT !.buf = e]
               = Scanner(st, lv, "reading", e, z)
  BY DEF Scanner
<1>2. PICK e : e = Append(buf, a)
  OBVIOUS
<1>3. /\ Scanner(st, lv, "reading", buf, z).phase = "reading"
      /\ Scanner(st, lv, "reading", buf, z).buf = buf
  BY DEF Scanner
<1>4. [Scanner(st, lv, "reading", buf, z) EXCEPT !.buf = Append(@, a)]
        = [Scanner(st, lv, "reading", buf, z) EXCEPT !.buf = e]
  BY <1>2, <1>3
<1> QED BY <1>1, <1>2, <1>3, <1>4 DEF Collected

\* The first piece of a token is collected.
LEMMA GrowsFirst ==
  ASSUME NEW st, NEW lv, NEW z, NEW a
  PROVE  Collected(Scanner(st, lv, "reading", <<>>, z), a)
           = Scanner(st, lv, "reading", <<a>>, z)
<1>1. PICK e : e = <<>>
  OBVIOUS
<1>2. Collected(Scanner(st, lv, "reading", e, z), a)
        = Scanner(st, lv, "reading", Append(e, a), z)
  BY Grows
<1>3. Append(e, a) = <<a>>
  BY <1>1, Appends
<1> QED BY <1>1, <1>2, <1>3

\* One more piece is collected.
LEMMA GrowsNext ==
  ASSUME NEW st, NEW lv, NEW z, NEW a, NEW b
  PROVE  Collected(Scanner(st, lv, "reading", <<a>>, z), b)
           = Scanner(st, lv, "reading", <<a, b>>, z)
<1>1. PICK e : e = <<a>>
  OBVIOUS
<1>2. Collected(Scanner(st, lv, "reading", e, z), b)
        = Scanner(st, lv, "reading", Append(e, b), z)
  BY Grows
<1>3. Append(e, b) = <<a, b>>
  BY <1>1, Appends
<1> QED BY <1>1, <1>2, <1>3

\* Elsewhere nothing is collected.
LEMMA Stays ==
  ASSUME NEW st, NEW lv, NEW phase, phase # "reading", NEW buf, NEW z, NEW a
  PROVE  Collected(Scanner(st, lv, phase, buf, z), a) = Scanner(st, lv, phase, buf, z)
BY DEF Collected, Scanner

\* A number begins a message.
LEMMA LevelBegins ==
  ASSUME NEW lv, NEW phase, NEW buf, NEW z, NEW y, NEW s, NEW n
  PROVE  Advance(ParserAt("init", lv, phase, buf, z, y, s), Num(n))
           = ParserAt("loglevel", lv, "reading", OnePiece(Num(n)), z, y, s)
<1>1. Moved(Scanner("init", lv, phase, buf, z), Num(n))
        = Scanner("loglevel", lv, "reading", <<>>, z)
  <2>1. PICK p, e : p = Scanner("init", lv, phase, buf, z) /\ e = <<>>
    OBVIOUS
  <2>2. p.st = "init" /\ Num(n).k = "num"
    BY <2>1 DEF Scanner, Num
  <2>3. Moved(p, Num(n)) = [Begin(p) EXCEPT !.st = "loglevel"]
    BY <2>2 DEF Moved
  <2>4. Begin(p) = Scanner("init", lv, "reading", e, z)
    BY <2>1, TokenBegins
  <2>5. [Scanner("init", lv, "reading", e, z) EXCEPT !.st = "loglevel"]
          = Scanner("loglevel", lv, "reading", e, z)
    BY DEF Scanner
  <2> QED BY <2>1, <2>3, <2>4, <2>5
<1>2. Collected(Scanner("loglevel", lv, "reading", <<>>, z), Num(n))
        = Scanner("loglevel", lv, "reading", <<Num(n)>>, z)
  BY GrowsFirst
<1> QED BY <1>1, <1>2 DEF Scanner, Advance, ParserAt, Stores, Num, Sym, OnePiece, TwoPieces

\* The level ends.
LEMMA LevelEnds ==
  ASSUME NEW lv, NEW n, NEW z, NEW y, NEW s
  PROVE  Advance(ParserAt("loglevel", lv, "reading", OnePiece(Num(n)), z, y, s), Sym("sp"))
           = ParserAt("msgsize", n, "none", OnePiece(Num(n)), z, y, s)
<1>1. PICK e : e = OnePiece(Num(n))
  OBVIOUS
<1>2. e[1].v = n /\ Sym("sp").k = "sp"
  BY <1>1 DEF Num, Sym, OnePiece
<1>3. Moved(Scanner("loglevel", lv, "reading", e, z), Sym("sp"))
        = Scanner("msgsize", n, "none", e, z)
  <2>1. PICK p : p = Scanner("loglevel", lv, "reading", e, z)
    OBVIOUS
  <2>2. /\ p.st = "loglevel" /\ p.buf = e /\ p.size = z
        /\ DOMAIN p = {"st", "ret", "phase", "buf", "size"} /\ p = [x \in DOMAIN p |-> p[x]]
    BY <2>1 DEF Scanner
  <2>3. Moved(p, Sym("sp")) = [Done(p, "msgsize") EXCEPT !.ret = (p.buf[1].v = RetLevel)]
    BY <1>2, <2>2 DEF Moved
  <2>4. PICK d : d = Done(p, "msgsize")
    OBVIOUS
  <2>5. /\ d.st = "msgsize" /\ d.phase = "none" /\ d.buf = e /\ d.size = z
        /\ DOMAIN d = {"st", "ret", "phase", "buf", "size"} /\ d = [x \in DOMAIN d |-> d[x]]
    BY <2>2, <2>4 DEF Done
  <2>6. PICK f : f = [d EXCEPT !.ret = (e[1].v = RetLevel)]
    OBVIOUS
  <2>7. /\ f.st = "msgsize" /\ f.phase = "none" /\ f.buf = e /\ f.size = z
        /\ f.ret = (n = RetLevel)
        /\ DOMAIN f = {"st", "ret", "phase", "buf", "size"} /\ f = [x \in DOMAIN f |-> f[x]]
    BY <1>2, <2>5, <2>6
  <2>8. f = Scanner("msgsize", n, "none", e, z)
    BY <2>7 DEF Scanner
  <2> QED BY <2>1, <2>2, <2>3, <2>4, <2>6, <2>8
<1>4. Collected(Scanner("msgsize", n, "none", e, z), Sym("sp")) = Scanner("msgsize", n, "none", e, z)
  BY Stays
<1> QED BY <1>1, <1>3, <1>4 DEF Scanner, Advance, ParserAt, Stores, Num, Sym

\* The size begins.
LEMMA SizeBegins ==
  ASSUME NEW lv, NEW buf, NEW z, NEW y, NEW s, NEW n
  PROVE  Advance(ParserAt("msgsize", lv, "none", buf, z, y, s), Num(n))
           = ParserAt("msgsize", lv, "reading", OnePiece(Num(n)), z, y, s)
<1>1. Moved(Scanner("msgsize", lv, "none", buf, z), Num(n)) = Scanner("msgsize", lv, "reading", <<>>, z)
  <2>1. PICK p : p = Scanner("msgsize", lv, "none", buf, z)
    OBVIOUS
  <2>2. p.st = "msgsize" /\ p.phase = "none" /\ Num(n).k = "num"
    BY <2>1 DEF Scanner, Num
  <2>3. Moved(p, Num(n)) = TokenOf(p)
    BY <2>2 DEF Moved
  <2>4. TokenOf(p) = Begin(p)
    BY <2>2 DEF TokenOf
  <2> QED BY <2>1, <2>3, <2>4, TokenBegins
<1>2. Collected(Scanner("msgsize", lv, "reading", <<>>, z), Num(n))
        = Scanner("msgsize", lv, "reading", <<Num(n)>>, z)
  BY GrowsFirst
<1> QED BY <1>1, <1>2 DEF Scanner, Advance, ParserAt, Stores, Num, Sym, OnePiece, TwoPieces

\* The size of an answer.
LEMMA ReturnSize ==
  ASSUME NEW z, NEW y, NEW s, NEW n
  PROVE  Advance(ParserAt("msgsize", RetLevel, "reading", OnePiece(Num(n)), z, y, s), Sym("sp"))
           = ParserAt("type", RetLevel, "none", OnePiece(Num(n)), n, y, s)
<1>1. Moved(Scanner("msgsize", RetLevel, "reading", <<Num(n)>>, z), Sym("sp"))
        = Scanner("type", RetLevel, "none", <<Num(n)>>, n)
  BY TokenBegins DEF Moved, Scanner, Done, Num, Sym
<1>2. Collected(Scanner("type", RetLevel, "none", <<Num(n)>>, n), Sym("sp"))
        = Scanner("type", RetLevel, "none", <<Num(n)>>, n)
  BY Stays
<1> QED BY <1>1, <1>2 DEF Scanner, Advance, ParserAt, Stores, Num, Sym, OnePiece, TwoPieces

\* The size of a log message.
LEMMA LogSize ==
  ASSUME NEW z, NEW y, NEW s, NEW n
  PROVE  Advance(ParserAt("msgsize", GenLevel, "reading", OnePiece(Num(n)), z, y, s), Sym("cr"))
           = ParserAt("lf1", GenLevel, "none", OnePiece(Num(n)), n, y, s)
<1>1. Moved(Scanner("msgsize", GenLevel, "reading", <<Num(n)>>, z), Sym("cr"))
        = Scanner("lf1", GenLevel, "none", <<Num(n)>>, n)
  <2>1. PICK e : e = <<Num(n)>>
    OBVIOUS
  <2>2. PICK p : p = Scanner("msgsize", GenLevel, "reading", e, z)
    OBVIOUS
  <2>3. ~(GenLevel = RetLevel) /\ Sym("cr").k = "cr" /\ e[1].v = n
    BY <2>1 DEF GenLevel, RetLevel, Sym, Num
  <2>4. /\ p.st = "msgsize" /\ ~p.ret /\ p.buf = e /\ p.size = z
        /\ DOMAIN p = {"st", "ret", "phase", "buf", "size"}
    BY <2>2, <2>3 DEF Scanner
  <2>5. Moved(p, Sym("cr")) = [Done(p, "lf1") EXCEPT !.size = n]
    BY <2>3, <2>4 DEF Moved
  <2>6. PICK d : d = Done(p, "lf1")
    OBVIOUS
  <2>7. /\ d.st = "lf1" /\ d.phase = "none" /\ d.buf = e /\ ~d.ret /\ d.ret \in BOOLEAN
        /\ DOMAIN d = {"st", "ret", "phase", "buf", "size"} /\ d = [x \in DOMAIN d |-> d[x]]
    <3>1. d.ret = p.ret /\ p.ret = (GenLevel = RetLevel)
      BY <2>2, <2>4, <2>6 DEF Done, Scanner
    <3> QED BY <2>3, <2>4, <2>6, <3>1 DEF Done
  <2>8. PICK f : f = [d EXCEPT !.size = n]
    OBVIOUS
  <2>9. /\ f.st = "lf1" /\ f.phase = "none" /\ f.buf = e /\ f.size = n
        /\ f.ret = (GenLevel = RetLevel)
        /\ DOMAIN f = {"st", "ret", "phase", "buf", "size"} /\ f = [x \in DOMAIN f |-> f[x]]
    BY <2>3, <2>7, <2>8
  <2>10. f = Scanner("lf1", GenLevel, "none", e, n)
    BY <2>9 DEF Scanner
  <2> QED BY <2>1, <2>2, <2>5, <2>6, <2>8, <2>10
<1>2. Collected(Scanner("lf1", GenLevel, "none", <<Num(n)>>, n), Sym("cr"))
        = Scanner("lf1", GenLevel, "none", <<Num(n)>>, n)
  BY Stays
<1> QED BY <1>1, <1>2 DEF Scanner, Advance, ParserAt, Stores, Num, Sym, GenLevel, RetLevel, OnePiece, TwoPieces

\* The type begins.
LEMMA TypeBegins ==
  ASSUME NEW buf, NEW z, NEW y, NEW s, NEW t, t # "cr"
  PROVE  Advance(ParserAt("type", RetLevel, "none", buf, z, y, s), Sym(t))
           = ParserAt("type", RetLevel, "reading", OnePiece(Sym(t)), z, y, s)
<1>1. Moved(Scanner("type", RetLevel, "none", buf, z), Sym(t))
        = Scanner("type", RetLevel, "reading", <<>>, z)
  <2>1. PICK p : p = Scanner("type", RetLevel, "none", buf, z)
    OBVIOUS
  <2>2. p.st = "type" /\ p.phase = "none" /\ Sym(t).k # "cr"
    BY <2>1 DEF Scanner, Sym
  <2>3. Moved(p, Sym(t)) = TokenOf(p)
    BY <2>2 DEF Moved
  <2>4. TokenOf(p) = Begin(p)
    BY <2>2 DEF TokenOf
  <2> QED BY <2>1, <2>3, <2>4, TokenBegins
<1>2. Collected(Scanner("type", RetLevel, "reading", <<>>, z), Sym(t))
        = Scanner("type", RetLevel, "reading", <<Sym(t)>>, z)
  BY GrowsFirst
<1> QED BY <1>1, <1>2 DEF Scanner, Advance, ParserAt, Stores, Num, Sym, OnePiece, TwoPieces

\* The type ends.
LEMMA TypeEnds ==
  ASSUME NEW z, NEW y, NEW s, NEW t, t # "cr"
  PROVE  Advance(ParserAt("type", RetLevel, "reading", OnePiece(Sym(t)), z, y, s), Sym("cr"))
           = ParserAt("lf1", RetLevel, "none", OnePiece(Sym(t)), z, t, s)
<1>1. Moved(Scanner("type", RetLevel, "reading", <<Sym(t)>>, z), Sym("cr"))
        = Scanner("lf1", RetLevel, "none", <<Sym(t)>>, z)
  BY TokenBegins DEF Moved, Scanner, Done, Num, Sym
<1>2. Collected(Scanner("lf1", RetLevel, "none", <<Sym(t)>>, z), Sym("cr"))
        = Scanner("lf1", RetLevel, "none", <<Sym(t)>>, z)
  BY Stays
<1> QED BY <1>1, <1>2 DEF Scanner, Advance, ParserAt, Stores, Num, Sym, OnePiece, TwoPieces

\* The header ends.
LEMMA ContentFollows ==
  ASSUME NEW lv, NEW buf, NEW z, NEW y, NEW s
  PROVE  Advance(ParserAt("lf1", lv, "none", buf, z, y, s), Sym("lf"))
           = ParserAt("content", lv, "none", buf, z, y, s)
<1>1. Moved(Scanner("lf1", lv, "none", buf, z), Sym("lf"))
        = Scanner("content", lv, "none", buf, z)
  BY TokenBegins DEF Moved, Scanner, Done, Num, Sym
<1>2. Collected(Scanner("content", lv, "none", buf, z), Sym("lf"))
        = Scanner("content", lv, "none", buf, z)
  BY Stays
<1> QED BY <1>1, <1>2 DEF Scanner, Advance, ParserAt, Stores, Num, Sym

\* The content begins.
LEMMA ContentBegins ==
  ASSUME NEW lv, NEW buf, NEW z, NEW y, NEW s, NEW a, a.k = "text"
  PROVE  Advance(ParserAt("content", lv, "none", buf, z, y, s), a)
           = ParserAt("content", lv, "reading", OnePiece(a), z, y, s)
<1>1. Moved(Scanner("content", lv, "none", buf, z), a)
        = Scanner("content", lv, "reading", <<>>, z)
  BY TokenBegins, SMTT(30) DEF Moved, Scanner, Done, Num, Sym, TokenOf
<1>2. Collected(Scanner("content", lv, "reading", <<>>, z), a)
        = Scanner("content", lv, "reading", <<a>>, z)
  BY GrowsFirst
<1> QED BY <1>1, <1>2 DEF Scanner, Advance, ParserAt, Stores, Num, Sym, OnePiece, TwoPieces

\* The content goes on.
LEMMA ContentGoesOn ==
  ASSUME NEW lv, NEW z, NEW y, NEW s, NEW a, NEW b, b.k = "text"
  PROVE  Advance(ParserAt("content", lv, "reading", OnePiece(a), z, y, s), b)
           = ParserAt("content", lv, "reading", TwoPieces(a, b), z, y, s)
<1>1. Moved(Scanner("content", lv, "reading", <<a>>, z), b)
        = Scanner("content", lv, "reading", <<a>>, z)
  BY TokenBegins DEF Moved, Scanner, Done, Num, Sym, TokenOf
<1>2. Collected(Scanner("content", lv, "reading", <<a>>, z), b)
        = Scanner("content", lv, "reading", <<a, b>>, z)
  BY GrowsNext
<1> QED BY <1>1, <1>2 DEF Scanner, Advance, ParserAt, Stores, Num, Sym, OnePiece, TwoPieces

\* There is no content.
LEMMA ContentEmpty ==
  ASSUME NEW lv, NEW buf, NEW y, NEW s
  PROVE  Advance(ParserAt("content", lv, "none", buf, 0, y, s), Sym("cr"))
           = ParserAt("lf2", lv, "validate", <<>>, 0, y, s)
<1>1. Moved(Scanner("content", lv, "none", buf, 0), Sym("cr"))
        = Scanner("lf2", lv, "validate", <<>>, 0)
  BY TokenBegins DEF Moved, Scanner, Done, Num, Sym
<1>2. Collected(Scanner("lf2", lv, "validate", <<>>, 0), Sym("cr"))
        = Scanner("lf2", lv, "validate", <<>>, 0)
  BY Stays
<1> QED BY <1>1, <1>2 DEF Scanner, Advance, ParserAt, Stores, Num, Sym, OnePiece, TwoPieces

\* The content ends.
LEMMA ContentEnds ==
  ASSUME NEW lv, NEW buf, NEW z, NEW y, NEW s, z # 0
  PROVE  Advance(ParserAt("content", lv, "reading", buf, z, y, s), Sym("cr"))
           = ParserAt("lf2", lv, "validate", buf, z, y, s)
<1>1. Moved(Scanner("content", lv, "reading", buf, z), Sym("cr"))
        = Scanner("lf2", lv, "validate", buf, z)
  BY DEF Moved, Scanner, Sym
<1>2. Collected(Scanner("lf2", lv, "validate", buf, z), Sym("cr"))
        = Scanner("lf2", lv, "validate", buf, z)
  BY Stays
<1> QED BY <1>1, <1>2 DEF Scanner, Advance, ParserAt, Stores, Num, Sym

\* Its end of line.
LEMMA SecondEnd ==
  ASSUME NEW lv, NEW buf, NEW z, NEW y, NEW s
  PROVE  Advance(ParserAt("lf2", lv, "validate", buf, z, y, s), Sym("lf"))
           = ParserAt("cr3", lv, "validate", buf, z, y, s)
<1>1. Moved(Scanner("lf2", lv, "validate", buf, z), Sym("lf"))
        = Scanner("cr3", lv, "validate", buf, z)
  BY TokenBegins DEF Moved, Scanner, Done, Num, Sym
<1>2. Collected(Scanner("cr3", lv, "validate", buf, z), Sym("lf"))
        = Scanner("cr3", lv, "validate", buf, z)
  BY Stays
<1> QED BY <1>1, <1>2 DEF Scanner, Advance, ParserAt, Stores, Num, Sym

\* The empty line.
LEMMA ThirdEnd ==
  ASSUME NEW lv, NEW buf, NEW z, NEW y, NEW s
  PROVE  Advance(ParserAt("cr3", lv, "validate", buf, z, y, s), Sym("cr"))
           = ParserAt("lf3", lv, "validate", buf, z, y, s)
<1>1. Moved(Scanner("cr3", lv, "validate", buf, z), Sym("cr"))
        = Scanner("lf3", lv, "validate", buf, z)
  BY TokenBegins DEF Moved, Scanner, Done, Num, Sym
<1>2. Collected(Scanner("lf3", lv, "validate", buf, z), Sym("cr"))
        = Scanner("lf3", lv, "validate", buf, z)
  BY Stays
<1> QED BY <1>1, <1>2 DEF Scanner, Advance, ParserAt, Stores, Num, Sym

\* An answer ends and is counted.
LEMMA AnswerEnds ==
  ASSUME NEW buf, NEW z, NEW y, NEW s
  PROVE  Advance(ParserAt("lf3", RetLevel, "validate", buf, z, y, s), Sym("lf"))
           = ParserAt("init", RetLevel, "validate", buf, z, y, s + 1)
<1>1. Moved(Scanner("lf3", RetLevel, "validate", buf, z), Sym("lf"))
        = Scanner("init", RetLevel, "validate", buf, z)
  BY TokenBegins DEF Moved, Scanner, Done, Num, Sym
<1>2. Collected(Scanner("init", RetLevel, "validate", buf, z), Sym("lf"))
        = Scanner("init", RetLevel, "validate", buf, z)
  BY DEF Collected, Scanner
<1> QED BY <1>1, <1>2 DEF Scanner, Advance, ParserAt, Stores, Num, Sym

\* A log message ends.
LEMMA LogEnds ==
  ASSUME NEW buf, NEW z, NEW y, NEW s
  PROVE  Advance(ParserAt("lf3", GenLevel, "validate", buf, z, y, s), Sym("lf"))
           = ParserAt("init", GenLevel, "validate", buf, z, y, s)
<1>1. Moved(Scanner("lf3", GenLevel, "validate", buf, z), Sym("lf"))
        = Scanner("init", GenLevel, "validate", buf, z)
  BY TokenBegins DEF Moved, Scanner, Done, Num, Sym, GenLevel, RetLevel
<1>2. Collected(Scanner("init", GenLevel, "validate", buf, z), Sym("lf"))
        = Scanner("init", GenLevel, "validate", buf, z)
  BY Stays
<1>3. PICK p : p = Scanner("lf3", GenLevel, "validate", buf, z)
  OBVIOUS
<1>4. ~p.ret /\ p.st = "lf3"
  <2>1. ~(GenLevel = RetLevel)
    BY DEF GenLevel, RetLevel
  <2> QED BY <1>3, <2>1 DEF Scanner
<1>5. PICK c : c = ParserAt("lf3", GenLevel, "validate", buf, z, y, s)
  OBVIOUS
<1>6. c.parser = p /\ c.type = y /\ c.seen = s
  BY <1>3, <1>5 DEF ParserAt
<1>7. ~Stores(c, Sym("lf"))
  BY <1>4, <1>6 DEF Stores
<1>8. Advance(c, Sym("lf")) = [parser |-> Scanner("init", GenLevel, "validate", buf, z), type |-> y, seen |-> s]
  BY <1>1, <1>2, <1>3, <1>4, <1>6, <1>7 DEF Advance
<1> QED BY <1>5, <1>8 DEF ParserAt

-----------------------------------------------------------------------------
(* Whole messages.                                                         *)

\* What is between messages.
LEMMA AtBetween ==
  ASSUME NEW q \in Cores, q.parser.st = "init"
  PROVE  \E lv \in {RetLevel, GenLevel} :
           q = ParserAt("init", lv, q.parser.phase, q.parser.buf, q.parser.size, q.type, q.seen)
<1>1. PICK p, y, s : q = [parser |-> p, type |-> y, seen |-> s] /\ p \in EciParsers
  BY DEF Cores
<1>2. RetLevel # GenLevel
  BY DEF RetLevel, GenLevel
<1>3. PICK lv \in {RetLevel, GenLevel} : p.ret = (lv = RetLevel)
  <2>1. CASE p.ret
    BY <1>1, <2>1 DEF EciParsers
  <2>2. CASE ~p.ret
    <3>1. p.ret = (GenLevel = RetLevel)
      BY <1>1, <1>2, <2>2 DEF EciParsers
    <3> QED BY <3>1
  <2> QED BY <2>1, <2>2
<1>4. p = [st |-> p.st, ret |-> p.ret, phase |-> p.phase, buf |-> p.buf, size |-> p.size]
  BY <1>1 DEF EciParsers
<1>5. p.st = "init" /\ q.parser = p /\ q.type = y /\ q.seen = s
  BY <1>1
<1>6. p = Scanner("init", lv, p.phase, p.buf, p.size)
  BY <1>3, <1>4, <1>5 DEF Scanner
<1> QED BY <1>1, <1>5, <1>6 DEF ParserAt

\* What fits the answers given.
LEMMA AtFits ==
  ASSUME NEW said, NEW st \in ParserStates, NEW lv,
         NEW phase \in {"none", "reading", "validate"}, NEW buf \in Seq(EciPieces),
         NEW z \in Int, NEW y \in EciTypes \cup {None}, NEW s \in Nat, s <= Len(said),
         s = Len(said) /\ s # 0 => y = said[s].type,
         st = "lf3" /\ lv = RetLevel =>
           s < Len(said) /\ y = said[s + 1].type /\ buf = said[s + 1].content
  PROVE  ParserAt(st, lv, phase, buf, z, y, s) \in Fit(said)
<1>1. PICK c : c = ParserAt(st, lv, phase, buf, z, y, s)
  OBVIOUS
<1>2. Scanner(st, lv, phase, buf, z) \in EciParsers
  BY DEF Scanner, EciParsers
<1>3. c \in Cores /\ c.type = y /\ c.seen = s /\ c.parser.st = st
      /\ (c.parser.ret <=> lv = RetLevel) /\ c.parser.buf = buf
  BY <1>1, <1>2 DEF ParserAt, Cores, Scanner
<1>4. c \in Fit(said)
  BY <1>3 DEF Fit
<1> QED BY <1>1, <1>4

\* The pieces.
LEMMA Pieced ==
  /\ \A n \in Int : Num(n) \in EciPieces
  /\ \A k \in EciKinds : Sym(k) \in EciPieces
  /\ NewLine = <<Sym("cr"), Sym("lf")>> /\ NewLine \in Seq(EciPieces)
  /\ \A x \in EciPieces : <<x>> \in Seq(EciPieces)
  /\ \A x \in EciPieces, y \in EciPieces : <<x, y>> \in Seq(EciPieces)
  /\ \A x \in EciPieces, y \in EciPieces, z \in EciPieces : <<x, y, z>> \in Seq(EciPieces)
  /\ <<>> \in Seq(EciPieces)
<1>1. \A n \in Int : Num(n) \in EciPieces
  BY DEF Num, EciPieces, EciKinds
<1>2. \A k \in EciKinds : Sym(k) \in EciPieces
  BY DEF Sym, EciPieces
<1>3. Sym("cr") \in EciPieces /\ Sym("lf") \in EciPieces
  BY DEF Sym, EciPieces, EciKinds
<1>4. NewLine \in Seq(EciPieces)
  BY <1>3 DEF NewLine
<1> QED BY <1>1, <1>2, <1>4 DEF NewLine

\* The content of an answer.
LEMMA ContentPieces ==
  ASSUME NEW n \in Int
  PROVE  /\ Content(n) = <<Content(n)[1], Content(n)[2]>> /\ Len(Content(n)) = 2
         /\ Content(n)[1].k = "text" /\ Content(n)[2].k = "text"
         /\ Content(n)[1] \in EciPieces /\ Content(n)[2] \in EciPieces
<1>1. PICK c : c = Content(n)
  OBVIOUS
<1>2. c = [i \in 1 .. 2 |-> [k |-> "text", v |-> 2 * n + i]]
  BY <1>1 DEF Content
<1>3. 2 * n + 1 \in Int /\ 2 * n + 2 \in Int
  OBVIOUS
<1>4. c[1] = [k |-> "text", v |-> 2 * n + 1] /\ c[2] = [k |-> "text", v |-> 2 * n + 2]
  BY <1>2
<1>5. /\ c[1].k = "text" /\ c[2].k = "text" /\ c[1] \in EciPieces /\ c[2] \in EciPieces
  BY <1>3, <1>4 DEF EciPieces, EciKinds
<1>6. c \in Seq({c[1], c[2]}) /\ Len(c) = 2
  BY <1>2, <1>4
<1>7. PICK d : d = <<c[1], c[2]>>
  OBVIOUS
<1>8. d \in Seq({c[1], c[2]}) /\ Len(d) = 2 /\ d[1] = c[1] /\ d[2] = c[2]
  BY <1>7
<1>9. \A i \in 1..2 : i = 1 \/ i = 2
  OBVIOUS
<1>10. c = d
  BY <1>6, <1>8, <1>9
<1> QED BY <1>1, <1>5, <1>6, <1>7, <1>10

\* The pieces of a message, part after part.
LEMMA MessageRead ==
  ASSUME NEW G, NEW h \in Seq(EciPieces), NEW c \in Seq(EciPieces),
         NEW q0, NEW q1, NEW q2, NEW q3, NEW q4, NEW q5,
         Reads(G, q0, h, q1), Reads(G, q1, NewLine, q2), Reads(G, q2, c, q3),
         Reads(G, q3, NewLine, q4), Reads(G, q4, NewLine, q5)
  PROVE  Reads(G, q0, h \o NewLine \o c \o NewLine \o NewLine, q5)
<1>1. PICK n : n = NewLine
  OBVIOUS
<1>2. n \in Seq(EciPieces)
  BY <1>1, Pieced
<1>3. PICK a, b, d, e : a = h \o n /\ b = a \o c /\ d = b \o n /\ e = d \o n
  OBVIOUS
<1>4. a \in Seq(EciPieces) /\ b \in Seq(EciPieces) /\ d \in Seq(EciPieces)
  <2>1. a \in Seq(EciPieces)
    BY <1>2, <1>3
  <2>2. b \in Seq(EciPieces)
    BY <1>3, <2>1
  <2>3. d \in Seq(EciPieces)
    BY <1>2, <1>3, <2>2
  <2> QED BY <2>1, <2>2, <2>3
<1>5. Reads(G, q0, a, q2)
  BY <1>1, <1>2, <1>3, ReadsOn
<1>6. Reads(G, q0, b, q3)
  BY <1>3, <1>4, <1>5, ReadsOn
<1>7. Reads(G, q0, d, q4)
  BY <1>1, <1>2, <1>3, <1>4, <1>6, ReadsOn
<1>8. Reads(G, q0, e, q5)
  BY <1>1, <1>2, <1>3, <1>4, <1>7, ReadsOn
<1> QED BY <1>1, <1>3, <1>8

\* The header of a log message, piece by piece.
LEMMA LogHeader ==
  ASSUME NEW lv, NEW phase, NEW buf, NEW z, NEW y, NEW s
  PROVE  /\ ParserAt("loglevel", lv, "reading", OnePiece(Num(GenLevel)), z, y, s)
              = Advance(ParserAt("init", lv, phase, buf, z, y, s), Num(GenLevel))
         /\ ParserAt("msgsize", GenLevel, "none", OnePiece(Num(GenLevel)), z, y, s)
              = Advance(ParserAt("loglevel", lv, "reading", OnePiece(Num(GenLevel)), z, y, s), Sym("sp"))
         /\ ParserAt("msgsize", GenLevel, "reading", OnePiece(Num(2)), z, y, s)
              = Advance(ParserAt("msgsize", GenLevel, "none", OnePiece(Num(GenLevel)), z, y, s), Num(2))
         /\ ParserAt("lf1", GenLevel, "none", OnePiece(Num(2)), 2, y, s)
              = Advance(ParserAt("msgsize", GenLevel, "reading", OnePiece(Num(2)), z, y, s), Sym("cr"))
         /\ ParserAt("content", GenLevel, "none", OnePiece(Num(2)), 2, y, s)
              = Advance(ParserAt("lf1", GenLevel, "none", OnePiece(Num(2)), 2, y, s), Sym("lf"))
<1>1. ParserAt("loglevel", lv, "reading", OnePiece(Num(GenLevel)), z, y, s)
        = Advance(ParserAt("init", lv, phase, buf, z, y, s), Num(GenLevel))
  BY LevelBegins
<1>2. ParserAt("msgsize", GenLevel, "none", OnePiece(Num(GenLevel)), z, y, s)
        = Advance(ParserAt("loglevel", lv, "reading", OnePiece(Num(GenLevel)), z, y, s), Sym("sp"))
  BY LevelEnds
<1>3. ParserAt("msgsize", GenLevel, "reading", OnePiece(Num(2)), z, y, s)
        = Advance(ParserAt("msgsize", GenLevel, "none", OnePiece(Num(GenLevel)), z, y, s), Num(2))
  BY SizeBegins
<1>4. ParserAt("lf1", GenLevel, "none", OnePiece(Num(2)), 2, y, s)
        = Advance(ParserAt("msgsize", GenLevel, "reading", OnePiece(Num(2)), z, y, s), Sym("cr"))
  BY Zenon, LogSize
<1>5. ParserAt("content", GenLevel, "none", OnePiece(Num(2)), 2, y, s)
        = Advance(ParserAt("lf1", GenLevel, "none", OnePiece(Num(2)), 2, y, s), Sym("lf"))
  BY Zenon, ContentFollows
<1> QED BY <1>1, <1>2, <1>3, <1>4, <1>5

\* The header of an answer of size n, piece by piece.
LEMMA AnswerHeader ==
  ASSUME NEW lv, NEW phase, NEW buf, NEW z, NEW y, NEW s, NEW n, NEW t, t # "cr"
  PROVE  /\ ParserAt("loglevel", lv, "reading", OnePiece(Num(RetLevel)), z, y, s)
              = Advance(ParserAt("init", lv, phase, buf, z, y, s), Num(RetLevel))
         /\ ParserAt("msgsize", RetLevel, "none", OnePiece(Num(RetLevel)), z, y, s)
              = Advance(ParserAt("loglevel", lv, "reading", OnePiece(Num(RetLevel)), z, y, s), Sym("sp"))
         /\ ParserAt("msgsize", RetLevel, "reading", OnePiece(Num(n)), z, y, s)
              = Advance(ParserAt("msgsize", RetLevel, "none", OnePiece(Num(RetLevel)), z, y, s), Num(n))
         /\ ParserAt("type", RetLevel, "none", OnePiece(Num(n)), n, y, s)
              = Advance(ParserAt("msgsize", RetLevel, "reading", OnePiece(Num(n)), z, y, s), Sym("sp"))
         /\ ParserAt("type", RetLevel, "reading", OnePiece(Sym(t)), n, y, s)
              = Advance(ParserAt("type", RetLevel, "none", OnePiece(Num(n)), n, y, s), Sym(t))
         /\ ParserAt("lf1", RetLevel, "none", OnePiece(Sym(t)), n, t, s)
              = Advance(ParserAt("type", RetLevel, "reading", OnePiece(Sym(t)), n, y, s), Sym("cr"))
         /\ ParserAt("content", RetLevel, "none", OnePiece(Sym(t)), n, t, s)
              = Advance(ParserAt("lf1", RetLevel, "none", OnePiece(Sym(t)), n, t, s), Sym("lf"))
<1>1. ParserAt("loglevel", lv, "reading", OnePiece(Num(RetLevel)), z, y, s)
        = Advance(ParserAt("init", lv, phase, buf, z, y, s), Num(RetLevel))
  BY LevelBegins
<1>2. ParserAt("msgsize", RetLevel, "none", OnePiece(Num(RetLevel)), z, y, s)
        = Advance(ParserAt("loglevel", lv, "reading", OnePiece(Num(RetLevel)), z, y, s), Sym("sp"))
  BY LevelEnds
<1>3. ParserAt("msgsize", RetLevel, "reading", OnePiece(Num(n)), z, y, s)
        = Advance(ParserAt("msgsize", RetLevel, "none", OnePiece(Num(RetLevel)), z, y, s), Num(n))
  BY SizeBegins
<1>4. ParserAt("type", RetLevel, "none", OnePiece(Num(n)), n, y, s)
        = Advance(ParserAt("msgsize", RetLevel, "reading", OnePiece(Num(n)), z, y, s), Sym("sp"))
  BY Zenon, ReturnSize
<1>5. ParserAt("type", RetLevel, "reading", OnePiece(Sym(t)), n, y, s)
        = Advance(ParserAt("type", RetLevel, "none", OnePiece(Num(n)), n, y, s), Sym(t))
  BY TypeBegins
<1>6. ParserAt("lf1", RetLevel, "none", OnePiece(Sym(t)), n, t, s)
        = Advance(ParserAt("type", RetLevel, "reading", OnePiece(Sym(t)), n, y, s), Sym("cr"))
  BY Zenon, TypeEnds
<1>7. ParserAt("content", RetLevel, "none", OnePiece(Sym(t)), n, t, s)
        = Advance(ParserAt("lf1", RetLevel, "none", OnePiece(Sym(t)), n, t, s), Sym("lf"))
  BY Zenon, ContentFollows
<1> QED BY <1>1, <1>2, <1>3, <1>4, <1>5, <1>6, <1>7

\* A log message leaves things as they are.
LEMMA LogRead ==
  ASSUME NEW said \in Seq(Answers), NEW q \in Fit(said), q.parser.st = "init",
         q.seen = Len(said)
  PROVE  /\ \E r : Reads(Fit(said), q, Message(GenLevel, None, Content(0)), r)
                   /\ r.parser.st = "init" /\ r.seen = Len(said)
         /\ Message(GenLevel, None, Content(0)) \in Seq(EciPieces)
<1>1. PICK c : c = Content(0)
  OBVIOUS
<1>2. PICK c1 \in EciPieces, c2 \in EciPieces :
        c = <<c1, c2>> /\ Len(c) = 2 /\ c1.k = "text" /\ c2.k = "text"
  BY <1>1, ContentPieces
<1>3. PICK y \in EciTypes \cup {None}, s \in Nat : y = q.type /\ s = q.seen
  BY DEF Fit, Cores
<1>4. s = Len(said) /\ (s # 0 => y = said[s].type)
  BY <1>3 DEF Fit
<1>5. /\ OnePiece(Num(GenLevel)) \in Seq(EciPieces) /\ OnePiece(Num(2)) \in Seq(EciPieces)
      /\ OnePiece(c1) \in Seq(EciPieces) /\ TwoPieces(c1, c2) \in Seq(EciPieces)
      /\ c = TwoPieces(c1, c2)
  <2>1. Num(GenLevel) \in EciPieces /\ Num(2) \in EciPieces
    BY Pieced DEF GenLevel
  <2> QED BY <1>2, <2>1, Pieced DEF OnePiece, TwoPieces
<1>6. PICK lv \in {RetLevel, GenLevel} :
        q = ParserAt("init", lv, q.parser.phase, q.parser.buf, q.parser.size, y, s)
  BY <1>3, AtBetween DEF Fit
<1> DEFINE q1 == ParserAt("loglevel", lv, "reading", OnePiece(Num(GenLevel)), q.parser.size, y, s)
           q2 == ParserAt("msgsize", GenLevel, "none", OnePiece(Num(GenLevel)), q.parser.size, y, s)
           q3 == ParserAt("msgsize", GenLevel, "reading", OnePiece(Num(2)), q.parser.size, y, s)
           q4 == ParserAt("lf1", GenLevel, "none", OnePiece(Num(2)), 2, y, s)
           q5 == ParserAt("content", GenLevel, "none", OnePiece(Num(2)), 2, y, s)
           q6 == ParserAt("content", GenLevel, "reading", OnePiece(c1), 2, y, s)
           q7 == ParserAt("content", GenLevel, "reading", TwoPieces(c1, c2), 2, y, s)
           q8 == ParserAt("lf2", GenLevel, "validate", TwoPieces(c1, c2), 2, y, s)
           q9 == ParserAt("cr3", GenLevel, "validate", TwoPieces(c1, c2), 2, y, s)
           q10 == ParserAt("lf3", GenLevel, "validate", TwoPieces(c1, c2), 2, y, s)
           q11 == ParserAt("init", GenLevel, "validate", TwoPieces(c1, c2), 2, y, s)
<1>7. /\ q1 = Advance(q, Num(GenLevel)) /\ q2 = Advance(q1, Sym("sp"))
      /\ q3 = Advance(q2, Num(2)) /\ q4 = Advance(q3, Sym("cr"))
      /\ q5 = Advance(q4, Sym("lf"))
  <2>1. /\ q1 = Advance(ParserAt("init", lv, q.parser.phase, q.parser.buf,
                           q.parser.size, y, s), Num(GenLevel))
        /\ q2 = Advance(q1, Sym("sp")) /\ q3 = Advance(q2, Num(2))
        /\ q4 = Advance(q3, Sym("cr")) /\ q5 = Advance(q4, Sym("lf"))
    BY LogHeader
  <2> QED BY <1>6, <2>1
<1>8. /\ q6 = Advance(q5, c1) /\ q7 = Advance(q6, c2) /\ q8 = Advance(q7, Sym("cr"))
      /\ q9 = Advance(q8, Sym("lf")) /\ q10 = Advance(q9, Sym("cr"))
      /\ q11 = Advance(q10, Sym("lf"))
  <2>1. q6 = Advance(q5, c1) /\ q7 = Advance(q6, c2) /\ q8 = Advance(q7, Sym("cr"))
    <3>1. q6 = Advance(q5, c1)
      BY <1>2, ContentBegins
    <3>2. q7 = Advance(q6, c2)
      BY <1>2, ContentGoesOn
    <3>3. 2 # 0
      OBVIOUS
    <3>4. q8 = Advance(q7, Sym("cr"))
      BY <3>3, ContentEnds
    <3> QED BY <3>1, <3>2, <3>4
  <2>2. q9 = Advance(q8, Sym("lf"))
    BY SecondEnd
  <2>3. q10 = Advance(q9, Sym("cr"))
    BY ThirdEnd
  <2>4. q11 = Advance(q10, Sym("lf"))
    BY LogEnds
  <2> QED BY <2>1, <2>2, <2>3, <2>4
<1>9. /\ q1 \in Fit(said) /\ q2 \in Fit(said) /\ q3 \in Fit(said) /\ q4 \in Fit(said)
      /\ q5 \in Fit(said) /\ q6 \in Fit(said) /\ q7 \in Fit(said) /\ q8 \in Fit(said)
      /\ q9 \in Fit(said) /\ q10 \in Fit(said) /\ q11 \in Fit(said)
  <2>1. q.parser.size \in Int /\ 2 \in Int /\ GenLevel # RetLevel
    BY DEF Fit, Cores, EciParsers, GenLevel, RetLevel
  <2>2. s <= Len(said)
    BY <1>4
  <2>3. ASSUME NEW st \in ParserStates, NEW phase \in {"none", "reading", "validate"},
               NEW b \in Seq(EciPieces), NEW z \in Int
        PROVE  ParserAt(st, GenLevel, phase, b, z, y, s) \in Fit(said)
    BY <1>4, <2>1, <2>2, AtFits
  <2>4. q1 \in Fit(said)
    <3>1. "loglevel" \in ParserStates /\ "loglevel" # "lf3"
      BY DEF ParserStates
    <3> QED BY <1>4, <1>5, <2>1, <2>2, <3>1, AtFits
  <2>5. /\ "msgsize" \in ParserStates /\ "lf1" \in ParserStates /\ "content" \in ParserStates
        /\ "lf2" \in ParserStates /\ "cr3" \in ParserStates /\ "lf3" \in ParserStates
        /\ "init" \in ParserStates
    BY DEF ParserStates
  <2>6. /\ "none" \in {"none", "reading", "validate"} /\ "reading" \in {"none", "reading", "validate"}
        /\ "validate" \in {"none", "reading", "validate"}
    OBVIOUS
  <2>7. q2 \in Fit(said) /\ q3 \in Fit(said) /\ q4 \in Fit(said) /\ q5 \in Fit(said)
    BY Zenon, <1>5, <2>1, <2>3, <2>5, <2>6
  <2>8. q6 \in Fit(said) /\ q7 \in Fit(said) /\ q8 \in Fit(said)
    BY Zenon, <1>5, <2>1, <2>3, <2>5, <2>6
  <2>9. q9 \in Fit(said) /\ q10 \in Fit(said) /\ q11 \in Fit(said)
    BY Zenon, <1>5, <2>1, <2>3, <2>5, <2>6
  <2> QED BY <2>4, <2>7, <2>8, <2>9
<1>10. q11.parser.st = "init" /\ q11.seen = Len(said)
  BY <1>4 DEF ParserAt, Scanner
<1>11. PICK h : h = <<Num(GenLevel), Sym("sp"), Num(2)>>
  OBVIOUS
<1>12. h \in Seq(EciPieces) /\ Message(GenLevel, None, Content(0)) = h \o NewLine \o c \o NewLine \o NewLine
  <2>1. Num(GenLevel) \in EciPieces /\ Num(2) \in EciPieces /\ Sym("sp") \in EciPieces
    BY Pieced DEF GenLevel, EciKinds
  <2>2. h \in Seq(EciPieces)
    BY <1>11, <2>1, Pieced
  <2>3. GenLevel # RetLevel
    BY DEF GenLevel, RetLevel
  <2>4. Header(GenLevel, None, 2) = h \o <<>>
    BY <1>11, <2>3 DEF Header
  <2>5. h \o <<>> = h
    BY <2>2
  <2> QED BY <1>1, <1>2, <1>5, <2>2, <2>4, <2>5 DEF Message
<1> HIDE DEF q1, q2, q3, q4, q5, q6, q7, q8, q9, q10, q11
<1>13. Reads(Fit(said), q, h, q3)
  BY <1>7, <1>9, <1>11, ReadsThree
<1>14. Reads(Fit(said), q3, NewLine, q5)
  BY <1>7, <1>9, ReadsTwo, Pieced
<1>15. Reads(Fit(said), q5, c, q7)
  BY <1>2, <1>8, <1>9, ReadsTwo
<1>16. Reads(Fit(said), q7, NewLine, q9)
  BY <1>8, <1>9, ReadsTwo, Pieced
<1>17. Reads(Fit(said), q9, NewLine, q11)
  BY <1>8, <1>9, ReadsTwo, Pieced
<1>18. Reads(Fit(said), q, h \o NewLine \o c \o NewLine \o NewLine, q11)
  BY <1>2, <1>5, <1>12, <1>13, <1>14, <1>15, <1>16, <1>17, MessageRead
<1>19. h \o NewLine \o c \o NewLine \o NewLine \in Seq(EciPieces)
  <2>1. NewLine \in Seq(EciPieces)
    BY Pieced
  <2>2. c \in Seq(EciPieces)
    BY <1>2, <1>5
  <2> QED BY <1>12, <2>1, <2>2
<1> QED BY <1>10, <1>12, <1>18, <1>19

\* What is being read when one more answer is given.
LEMMA FitsNext ==
  ASSUME NEW said \in Seq(Answers), NEW a \in Answers
  PROVE  /\ Fit(said) \subseteq Fit(Append(said, a))
         /\ Append(said, a) \in Seq(Answers) /\ Len(Append(said, a)) = Len(said) + 1
         /\ Append(said, a)[Len(said) + 1] = a
<1>1. PICK n \in Nat : n = Len(said)
  OBVIOUS
<1>2. PICK m : m = Append(said, a) /\ n = Len(said)
  BY <1>1
<1>3. /\ m \in Seq(Answers) /\ Len(m) = n + 1 /\ m[n + 1] = a
      /\ \A i \in 1..n : m[i] = said[i]
  BY <1>2
<1>4. ASSUME NEW c \in Fit(said) PROVE c \in Fit(m)
  <2>1. c \in Cores /\ c.seen \in Nat /\ c.seen <= n
    BY <1>2 DEF Fit, Cores
  <2>2. c.parser.st = "lf3" /\ c.parser.ret =>
          /\ c.seen < n /\ c.type = said[c.seen + 1].type
          /\ c.parser.buf = said[c.seen + 1].content
    BY <1>2 DEF Fit
  <2>3. c.seen < n => m[c.seen + 1] = said[c.seen + 1]
    BY <1>3, <2>1
  <2>4. c.seen <= Len(m) /\ c.seen # Len(m) /\ (c.seen < n => c.seen < Len(m))
    BY <1>3, <2>1
  <2> QED BY <2>1, <2>2, <2>3, <2>4 DEF Fit
<1> QED BY <1>2, <1>3, <1>4

\* While the next answer is read.
LEMMA AnswerFits ==
  ASSUME NEW said \in Seq(Answers), NEW a \in Answers, NEW st \in ParserStates, NEW lv,
         NEW phase \in {"none", "reading", "validate"}, NEW buf \in Seq(EciPieces),
         NEW z \in Int, NEW y \in EciTypes \cup {None},
         st = "lf3" => y = a.type /\ buf = a.content
  PROVE  ParserAt(st, lv, phase, buf, z, y, Len(said)) \in Fit(Append(said, a))
<1>1. PICK s \in Nat : s = Len(said)
  OBVIOUS
<1>2. PICK m : m = Append(said, a) /\ s = Len(said)
  BY <1>1
<1>3. Len(m) = s + 1 /\ m[s + 1] = a
  BY <1>2, FitsNext
<1>4. /\ s <= Len(m) /\ (s = Len(m) /\ s # 0 => y = m[s].type)
      /\ (st = "lf3" /\ lv = RetLevel => s < Len(m) /\ y = m[s + 1].type /\ buf = m[s + 1].content)
  BY <1>3
<1>5. ParserAt(st, lv, phase, buf, z, y, s) \in Fit(m)
  BY <1>4, AtFits
<1> QED BY <1>2, <1>5

\* The header of an answer.
LEMMA HeaderRead ==
  ASSUME NEW said \in Seq(Answers), NEW a \in Answers, a.type # "cr",
         NEW q \in Fit(said), q.parser.st = "init", q.seen = Len(said), NEW n \in Int
  PROVE  /\ \E h, r :
              /\ h \in Seq(EciPieces) /\ Header(RetLevel, a.type, n) = h
              /\ Reads(Fit(Append(said, a)), q, h, r)
              /\ Reads(Fit(Append(said, a)), r, NewLine,
                       ParserAt("content", RetLevel, "none", OnePiece(Sym(a.type)), n, a.type, Len(said)))
         /\ ParserAt("content", RetLevel, "none", OnePiece(Sym(a.type)), n, a.type, Len(said))
              \in Fit(Append(said, a))
<1>1. PICK y \in EciTypes \cup {None}, s \in Nat : y = q.type /\ s = q.seen
  BY DEF Fit, Cores
<1>2. PICK t \in EciTypes : t = a.type
  BY DEF Answers
<1>3. PICK lv \in {RetLevel, GenLevel} :
        q = ParserAt("init", lv, q.parser.phase, q.parser.buf, q.parser.size, y, s)
  BY <1>1, AtBetween DEF Fit
<1>4. PICK G : G = Fit(Append(said, a))
  OBVIOUS
<1> DEFINE q1 == ParserAt("loglevel", lv, "reading", OnePiece(Num(RetLevel)), q.parser.size, y, s)
           q2 == ParserAt("msgsize", RetLevel, "none", OnePiece(Num(RetLevel)), q.parser.size, y, s)
           q3 == ParserAt("msgsize", RetLevel, "reading", OnePiece(Num(n)), q.parser.size, y, s)
           q4 == ParserAt("type", RetLevel, "none", OnePiece(Num(n)), n, y, s)
           q5 == ParserAt("type", RetLevel, "reading", OnePiece(Sym(t)), n, y, s)
           q6 == ParserAt("lf1", RetLevel, "none", OnePiece(Sym(t)), n, t, s)
           q7 == ParserAt("content", RetLevel, "none", OnePiece(Sym(t)), n, t, s)
<1>5. /\ q1 = Advance(q, Num(RetLevel)) /\ q2 = Advance(q1, Sym("sp"))
      /\ q3 = Advance(q2, Num(n)) /\ q4 = Advance(q3, Sym("sp"))
      /\ q5 = Advance(q4, Sym(t)) /\ q6 = Advance(q5, Sym("cr")) /\ q7 = Advance(q6, Sym("lf"))
  <2>1. q1 = Advance(ParserAt("init", lv, q.parser.phase, q.parser.buf,
                        q.parser.size, y, s), Num(RetLevel))
    BY LevelBegins
  <2>2. q2 = Advance(q1, Sym("sp"))
    BY LevelEnds
  <2>3. q3 = Advance(q2, Num(n))
    BY SizeBegins
  <2>4. q4 = Advance(q3, Sym("sp"))
    BY ReturnSize
  <2>5. q5 = Advance(q4, Sym(t))
    BY <1>2, TypeBegins
  <2>6. q6 = Advance(q5, Sym("cr"))
    BY <1>2, TypeEnds
  <2>7. q7 = Advance(q6, Sym("lf"))
    BY ContentFollows
  <2> QED BY <1>3, <2>1, <2>2, <2>3, <2>4, <2>5, <2>6, <2>7
<1>6. /\ OnePiece(Num(RetLevel)) \in Seq(EciPieces) /\ OnePiece(Num(n)) \in Seq(EciPieces)
      /\ OnePiece(Sym(t)) \in Seq(EciPieces) /\ Num(RetLevel) \in EciPieces /\ Num(n) \in EciPieces
      /\ Sym(t) \in EciPieces /\ Sym("sp") \in EciPieces
  <2>1. RetLevel \in Int /\ t \in EciKinds /\ "sp" \in EciKinds
    BY DEF RetLevel, EciKinds
  <2>2. Num(RetLevel) \in EciPieces /\ Num(n) \in EciPieces
        /\ Sym(t) \in EciPieces /\ Sym("sp") \in EciPieces
    BY <2>1, Pieced
  <2> QED BY <2>2, Pieced DEF OnePiece
<1>7. /\ "msgsize" \in ParserStates /\ "lf1" \in ParserStates /\ "content" \in ParserStates
      /\ "type" \in ParserStates /\ "loglevel" \in ParserStates
  BY DEF ParserStates
<1>8. q.parser.size \in Int /\ y \in EciTypes \cup {None} /\ t \in EciTypes \cup {None} /\ s = Len(said)
  BY <1>1, <1>2 DEF Fit, Cores, EciParsers
<1>9. q \in G
  BY <1>4, FitsNext
<1>10. q1 \in G /\ q2 \in G /\ q3 \in G
  BY <1>4, <1>6, <1>7, <1>8, AnswerFits
<1>11. q4 \in G /\ q5 \in G
  BY <1>4, <1>6, <1>7, <1>8, AnswerFits
<1>12. q6 \in G /\ q7 \in G
  BY <1>4, <1>6, <1>7, <1>8, AnswerFits
<1>13. PICK h, u, v : /\ h = u \o v /\ u = <<Num(RetLevel), Sym("sp"), Num(n)>>
                      /\ v = <<Sym("sp"), Sym(t)>>
  OBVIOUS
<1>14. u \in Seq(EciPieces) /\ v \in Seq(EciPieces)
  BY <1>6, <1>13, Pieced
<1>15. h \in Seq(EciPieces) /\ Header(RetLevel, t, n) = h
  BY <1>13, <1>14 DEF Header
<1>16. q7 = ParserAt("content", RetLevel, "none", OnePiece(Sym(a.type)), n, a.type, Len(said))
  BY <1>2, <1>8
<1> HIDE DEF q1, q2, q3, q4, q5, q6, q7
<1>17. Reads(G, q, u, q3)
  BY <1>5, <1>9, <1>10, <1>13, ReadsThree
<1>18. Reads(G, q3, v, q5)
  BY <1>5, <1>10, <1>11, <1>13, ReadsTwo
<1>19. Reads(G, q, h, q5)
  BY <1>13, <1>14, <1>17, <1>18, ReadsOn
<1>20. Reads(G, q5, NewLine, q7)
  BY <1>5, <1>11, <1>12, ReadsTwo, Pieced
<1> QED BY <1>2, <1>4, <1>12, <1>15, <1>16, <1>19, <1>20

\* The content of an answer and the end of the message.
LEMMA BodyRead ==
  ASSUME NEW said \in Seq(Answers), NEW a \in Answers,
         a.content = <<>> \/ \E n \in Int : a.content = Content(n)
  PROVE  \E q2, q3, r :
           /\ Reads(Fit(Append(said, a)),
                    ParserAt("content", RetLevel, "none", OnePiece(Sym(a.type)), Len(a.content), a.type, Len(said)),
                    a.content, q2)
           /\ Reads(Fit(Append(said, a)), q2, NewLine, q3)
           /\ Reads(Fit(Append(said, a)), q3, NewLine, r)
           /\ r.parser.st = "init" /\ r.seen = Len(said) + 1
<1>1. PICK t \in EciTypes, c \in Seq(EciPieces), s \in Nat :
        t = a.type /\ c = a.content /\ s = Len(said)
  BY DEF Answers
<1>2. PICK G, b : G = Fit(Append(said, a)) /\ b = OnePiece(Sym(t))
  OBVIOUS
<1>3. b \in Seq(EciPieces) /\ t \in EciTypes \cup {None}
  BY <1>2, Pieced DEF EciKinds, OnePiece
<1>4. /\ "content" \in ParserStates /\ "lf2" \in ParserStates /\ "cr3" \in ParserStates
      /\ "lf3" \in ParserStates /\ "init" \in ParserStates
  BY DEF ParserStates
<1>5. ASSUME NEW z \in Int, ParserAt("lf2", RetLevel, "validate", c, z, t, s) \in G,
             NEW q0 \in G, ParserAt("lf2", RetLevel, "validate", c, z, t, s) = Advance(q0, Sym("cr"))
      PROVE  /\ Reads(G, q0, NewLine, ParserAt("cr3", RetLevel, "validate", c, z, t, s))
             /\ Reads(G, ParserAt("cr3", RetLevel, "validate", c, z, t, s), NewLine,
                      ParserAt("init", RetLevel, "validate", c, z, t, s + 1))
             /\ ParserAt("init", RetLevel, "validate", c, z, t, s + 1).parser.st = "init"
             /\ ParserAt("init", RetLevel, "validate", c, z, t, s + 1).seen = s + 1
  <2> DEFINE q1 == ParserAt("lf2", RetLevel, "validate", c, z, t, s)
             q2 == ParserAt("cr3", RetLevel, "validate", c, z, t, s)
             q3 == ParserAt("lf3", RetLevel, "validate", c, z, t, s)
             q4 == ParserAt("init", RetLevel, "validate", c, z, t, s + 1)
  <2>1. q2 = Advance(q1, Sym("lf"))
    BY SecondEnd
  <2>2. q3 = Advance(q2, Sym("cr"))
    BY ThirdEnd
  <2>3. q4 = Advance(q3, Sym("lf"))
    BY AnswerEnds
  <2>4. q2 \in G
    BY <1>1, <1>2, <1>3, <1>4, AnswerFits
  <2>5. q3 \in G
    BY <1>1, <1>2, <1>3, <1>4, AnswerFits
  <2>6. q4 \in G
    <3>1. PICK m : m = Append(said, a)
      OBVIOUS
    <3>2. Len(m) = s + 1 /\ m[s + 1] = a
      BY <1>1, <3>1, FitsNext
    <3>3. s + 1 <= Len(m) /\ (s + 1 = Len(m) /\ s + 1 # 0 => t = m[s + 1].type) /\ s + 1 \in Nat
      BY <1>1, <3>2
    <3>4. "init" # "lf3"
      OBVIOUS
    <3>5. q4 \in Fit(m)
      BY <1>3, <1>4, <3>3, <3>4, AtFits
    <3> QED BY <1>2, <3>1, <3>5
  <2>7. q1 \in G /\ q1 = Advance(q0, Sym("cr"))
    BY <1>5
  <2>8. q4.parser.st = "init" /\ q4.seen = s + 1
    BY DEF ParserAt, Scanner
  <2> HIDE DEF q1, q2, q3, q4
  <2>9. Reads(G, q0, NewLine, q2)
    BY <2>1, <2>4, <2>7, ReadsTwo, Pieced
  <2>10. Reads(G, q2, NewLine, q4)
    BY <2>2, <2>3, <2>4, <2>5, <2>6, ReadsTwo, Pieced
  <2>11. QED
    BY <2>8, <2>9, <2>10 DEF q2, q4
<1>6. CASE c = <<>>
  <2> DEFINE q0 == ParserAt("content", RetLevel, "none", b, 0, t, s)
             q1 == ParserAt("lf2", RetLevel, "validate", c, 0, t, s)
             q2 == ParserAt("cr3", RetLevel, "validate", c, 0, t, s)
             q4 == ParserAt("init", RetLevel, "validate", c, 0, t, s + 1)
  <2>1. Len(c) = 0
    BY <1>6
  <2>2. q0 \in G /\ q1 \in G
    <3>1. 0 \in Int /\ "content" # "lf3" /\ "lf2" # "lf3"
      OBVIOUS
    <3>2. q0 \in G
      BY <1>1, <1>2, <1>3, <1>4, <3>1, AnswerFits
    <3>3. q1 \in G
      BY <1>1, <1>2, <1>3, <1>4, <3>1, AnswerFits
    <3> QED BY <3>2, <3>3
  <2>3. q1 = Advance(q0, Sym("cr"))
    BY <1>6, ContentEmpty
  <2>4. Reads(G, q0, NewLine, q2) /\ Reads(G, q2, NewLine, q4)
        /\ q4.parser.st = "init" /\ q4.seen = s + 1
    BY <1>5, <2>2, <2>3
  <2>5. Reads(G, q0, c, q0)
    BY <1>6, <2>2, ReadsNone
  <2> HIDE DEF q2, q4
  <2> QED BY <1>1, <1>2, <2>1, <2>4, <2>5
<1>7. CASE \E n \in Int : c = Content(n)
  <2>1. PICK c1 \in EciPieces, c2 \in EciPieces :
          c = <<c1, c2>> /\ Len(c) = 2 /\ c1.k = "text" /\ c2.k = "text"
    BY <1>7, ContentPieces
  <2> DEFINE p0 == ParserAt("content", RetLevel, "none", b, 2, t, s)
             p1 == ParserAt("content", RetLevel, "reading", OnePiece(c1), 2, t, s)
             q0 == ParserAt("content", RetLevel, "reading", c, 2, t, s)
             q1 == ParserAt("lf2", RetLevel, "validate", c, 2, t, s)
             q2 == ParserAt("cr3", RetLevel, "validate", c, 2, t, s)
             q4 == ParserAt("init", RetLevel, "validate", c, 2, t, s + 1)
  <2>2. c = TwoPieces(c1, c2) /\ OnePiece(c1) \in Seq(EciPieces)
    BY <2>1, Pieced DEF OnePiece, TwoPieces
  <2>3. p1 = Advance(p0, c1)
    BY <2>1, ContentBegins
  <2>4. q0 = Advance(p1, c2)
    BY <2>1, <2>2, ContentGoesOn
  <2>5. q1 = Advance(q0, Sym("cr"))
    <3>1. 2 # 0
      OBVIOUS
    <3> QED BY <3>1, ContentEnds
  <2>6. p0 \in G /\ p1 \in G /\ q0 \in G /\ q1 \in G
    <3>1. 2 \in Int /\ "content" # "lf3" /\ "lf2" # "lf3"
      OBVIOUS
    <3>2. p0 \in G
      BY <1>1, <1>2, <1>3, <1>4, <3>1, AnswerFits
    <3>3. p1 \in G
      BY <1>1, <1>2, <1>3, <1>4, <2>2, <3>1, AnswerFits
    <3>4. q0 \in G
      BY <1>1, <1>2, <1>3, <1>4, <3>1, AnswerFits
    <3>5. q1 \in G
      BY <1>1, <1>2, <1>3, <1>4, <3>1, AnswerFits
    <3> QED BY <3>2, <3>3, <3>4, <3>5
  <2>7. Reads(G, q0, NewLine, q2) /\ Reads(G, q2, NewLine, q4)
        /\ q4.parser.st = "init" /\ q4.seen = s + 1
    BY <1>5, <2>5, <2>6
  <2> HIDE DEF p0, p1, q0, q1, q2, q4
  <2>8. Reads(G, p0, c, q0)
    BY <2>1, <2>3, <2>4, <2>6, ReadsTwo
  <2> QED BY <1>1, <1>2, <2>1, <2>7, <2>8 DEF p0
<1> QED BY <1>1, <1>6, <1>7

\* A whole answer is one more.
LEMMA AnswerRead ==
  ASSUME NEW said \in Seq(Answers), NEW a \in Answers, a.type # "cr",
         a.content = <<>> \/ \E n \in Int : a.content = Content(n),
         NEW q \in Fit(said), q.parser.st = "init", q.seen = Len(said)
  PROVE  /\ \E r : /\ Reads(Fit(Append(said, a)), q, Message(RetLevel, a.type, a.content), r)
                   /\ r.parser.st = "init" /\ r.seen = Len(said) + 1
         /\ Message(RetLevel, a.type, a.content) \in Seq(EciPieces)
<1>1. PICK G : G = Fit(Append(said, a))
  OBVIOUS
<1>2. PICK n \in Nat, c \in Seq(EciPieces) : n = Len(c) /\ c = a.content
  BY DEF Answers
<1>3. PICK q1 : q1 = ParserAt("content", RetLevel, "none", OnePiece(Sym(a.type)), n, a.type, Len(said))
  OBVIOUS
<1>4. PICK h, r :
        /\ h \in Seq(EciPieces)
        /\ Header(RetLevel, a.type, n) = h /\ Reads(G, q, h, r) /\ Reads(G, r, NewLine, q1)
  BY <1>1, <1>3, HeaderRead
<1>5. PICK q2, q3, q4 :
        /\ Reads(G, q1, c, q2) /\ Reads(G, q2, NewLine, q3) /\ Reads(G, q3, NewLine, q4)
        /\ q4.parser.st = "init" /\ q4.seen = Len(said) + 1
  BY <1>1, <1>2, <1>3, BodyRead
<1>6. Reads(G, q, h \o NewLine \o c \o NewLine \o NewLine, q4)
  BY <1>4, <1>5, MessageRead
<1>7. Message(RetLevel, a.type, a.content) = h \o NewLine \o c \o NewLine \o NewLine
  BY <1>2, <1>4 DEF Message
<1>8. h \o NewLine \o c \o NewLine \o NewLine \in Seq(EciPieces)
  <2>1. PICK m : m = NewLine
    OBVIOUS
  <2>2. m \in Seq(EciPieces)
    BY <2>1, Pieced
  <2>3. h \o m \in Seq(EciPieces)
    BY <1>4, <2>2
  <2>4. h \o m \o c \in Seq(EciPieces)
    BY <2>3
  <2>5. h \o m \o c \o m \in Seq(EciPieces)
    BY <2>2, <2>4
  <2>6. h \o m \o c \o m \o m \in Seq(EciPieces)
    BY <2>2, <2>5
  <2> QED BY <2>1, <2>6
<1> QED BY <1>1, <1>5, <1>6, <1>7, <1>8

-----------------------------------------------------------------------------
(* What is parsed.                                                         *)

\* The call itself is not concerned.
SameCall(e, u) ==
  u.pc = e.pc /\ u.sent = e.sent /\ u.lost = e.lost /\ u.tries = e.tries /\ u.wait = e.wait

\* The fields of a handle.
LEMMA HandleFields ==
  ASSUME NEW e \in EciHandles
  PROVE  /\ DOMAIN e = {"pc", "sent", "seen", "lost", "type", "vals", "parser", "tries", "wait"}
         /\ e = [x \in DOMAIN e |-> e[x]]
         /\ e.pc \in {"none", "init", "ready", "command", "cleanup", "gone"}
         /\ e.sent \in Nat /\ e.seen \in Nat /\ e.lost \in BOOLEAN
         /\ e.type \in EciTypes \cup {None} /\ e.vals \in [EciTypes -> Seq(EciPieces)]
         /\ e.parser \in EciParsers /\ e.tries \in 0 .. EciReads - 1 /\ e.wait \in BOOLEAN
         /\ Core(e) \in Cores /\ Core(e).parser = e.parser
         /\ Core(e).type = e.type /\ Core(e).seen = e.seen
BY DEF EciHandles, Core, Cores

\* A handle from its fields.
LEMMA HandleMade ==
  ASSUME NEW e,
         DOMAIN e = {"pc", "sent", "seen", "lost", "type", "vals", "parser", "tries", "wait"},
         e = [x \in DOMAIN e |-> e[x]],
         e.pc \in {"none", "init", "ready", "command", "cleanup", "gone"},
         e.sent \in Nat, e.seen \in Nat, e.lost \in BOOLEAN,
         e.type \in EciTypes \cup {None}, e.vals \in [EciTypes -> Seq(EciPieces)],
         e.parser \in EciParsers, e.tries \in 0 .. EciReads - 1, e.wait \in BOOLEAN
  PROVE  e \in EciHandles
BY DEF EciHandles

\* One piece.
LEMMA Updated ==
  ASSUME NEW e \in EciHandles, NEW x \in EciPieces, NEW q \in Cores, q = Advance(Core(e), x),
         Stores(Core(e), x) => e.type \in EciTypes
  PROVE  \E u \in EciHandles :
           /\ u = UpdateState(e, x) /\ Core(u) = q /\ SameCall(e, u)
           /\ u.vals = IF Stores(Core(e), x) THEN [e.vals EXCEPT ![e.type] = e.parser.buf]
                       ELSE e.vals
<1>1. PICK p \in EciParsers : p = e.parser /\ Core(e).parser = p
  BY HandleFields
<1>2. PICK m : m = Collected(Moved(p, x), x)
  OBVIOUS
<1>3. q = [parser |-> m, type |-> q.type, seen |-> q.seen]
      /\ q.type = (IF p.st = "type" /\ x.k = "cr" THEN p.buf[1].k ELSE e.type)
      /\ q.seen = (IF Stores(Core(e), x) THEN e.seen + 1 ELSE e.seen)
  BY <1>1, <1>2, HandleFields DEF Advance
<1>4. m \in EciParsers /\ q.type \in EciTypes \cup {None} /\ q.seen \in Nat
  BY <1>3 DEF Cores
<1>5. PICK f : f = [e EXCEPT !.parser = m]
  OBVIOUS
<1>6. /\ DOMAIN f = {"pc", "sent", "seen", "lost", "type", "vals", "parser", "tries", "wait"}
      /\ f = [y \in DOMAIN f |-> f[y]]
      /\ f.parser = m /\ SameCall(e, f) /\ f.type = e.type /\ f.seen = e.seen /\ f.vals = e.vals
  BY <1>5, HandleFields DEF SameCall
<1>7. Stores(Core(e), x) <=> p.st = "lf3" /\ x.k = "lf" /\ p.ret
  BY <1>1 DEF Stores
<1>8. CASE p.st = "type" /\ x.k = "cr"
  <2>1. PICK u : u = [f EXCEPT !.type = p.buf[1].k]
    OBVIOUS
  <2>2. UpdateState(e, x) = u
    BY <1>1, <1>2, <1>5, <1>8, <2>1 DEF UpdateState
  <2>3. /\ DOMAIN u = {"pc", "sent", "seen", "lost", "type", "vals", "parser", "tries", "wait"}
        /\ u = [y \in DOMAIN u |-> u[y]]
        /\ u.parser = m /\ SameCall(e, u) /\ u.type = q.type /\ u.seen = e.seen /\ u.vals = e.vals
    BY <1>3, <1>6, <1>8, <2>1 DEF SameCall
  <2>4. ~Stores(Core(e), x) /\ q.seen = e.seen
    BY <1>3, <1>7, <1>8
  <2>5. u \in EciHandles
    BY <1>4, <2>3, HandleFields, HandleMade DEF SameCall
  <2>6. Core(u) = q
    BY <1>3, <2>3, <2>4 DEF Core
  <2> QED BY <2>2, <2>3, <2>4, <2>5, <2>6
<1>9. CASE p.st = "lf3" /\ x.k = "lf" /\ p.ret
  <2>1. PICK g, v : v = [f.vals EXCEPT ![e.type] = p.buf] /\ g = [f EXCEPT !.vals[e.type] = p.buf]
    OBVIOUS
  <2>2. /\ DOMAIN g = {"pc", "sent", "seen", "lost", "type", "vals", "parser", "tries", "wait"}
        /\ g = [y \in DOMAIN g |-> g[y]]
        /\ g.parser = m /\ SameCall(e, g) /\ g.type = e.type /\ g.seen = e.seen /\ g.vals = v
    BY <1>6, <2>1 DEF SameCall
  <2>3. PICK u : u = [g EXCEPT !.seen = @ + 1]
    OBVIOUS
  <2>4. /\ DOMAIN u = {"pc", "sent", "seen", "lost", "type", "vals", "parser", "tries", "wait"}
        /\ u = [y \in DOMAIN u |-> u[y]]
        /\ u.parser = m /\ SameCall(e, u) /\ u.type = e.type /\ u.seen = e.seen + 1 /\ u.vals = v
    BY <2>2, <2>3 DEF SameCall
  <2>5. [f EXCEPT !.vals[e.type] = p.buf, !.seen = @ + 1] = u
    BY <2>1, <2>3
  <2>6. UpdateState(e, x) = u
    <3>1. ~(p.st = "type" /\ x.k = "cr")
      BY <1>9
    <3> QED BY <1>1, <1>2, <1>5, <1>9, <2>5, <3>1 DEF UpdateState
  <2>7. q.type = e.type /\ q.seen = e.seen + 1
    BY <1>3, <1>7, <1>9
  <2>8. v \in [EciTypes -> Seq(EciPieces)] /\ v = [e.vals EXCEPT ![e.type] = e.parser.buf]
    BY <1>1, <1>6, <1>7, <1>9, <2>1, HandleFields DEF EciParsers
  <2>9. u \in EciHandles
    <3>1. /\ u.pc = e.pc /\ u.sent = e.sent /\ u.lost = e.lost /\ u.tries = e.tries
          /\ u.wait = e.wait
      BY <2>4 DEF SameCall
    <3>2. u.seen \in Nat
      BY <2>4, HandleFields
    <3>3. u.vals \in [EciTypes -> Seq(EciPieces)] /\ u.parser \in EciParsers
      BY <1>4, <2>4, <2>8
    <3>4. u.type \in EciTypes \cup {None}
      BY <2>4, HandleFields
    <3> QED BY <2>4, <3>1, <3>2, <3>3, <3>4, HandleFields, HandleMade
  <2>10. Core(u) = q
    BY <1>3, <2>4, <2>7 DEF Core
  <2> QED BY <1>7, <1>9, <2>4, <2>6, <2>8, <2>9, <2>10
<1>10. CASE ~(p.st = "type" /\ x.k = "cr") /\ ~(p.st = "lf3" /\ x.k = "lf" /\ p.ret)
  <2>1. UpdateState(e, x) = f
    BY <1>1, <1>2, <1>5, <1>10 DEF UpdateState
  <2>2. q.type = e.type /\ q.seen = e.seen
    BY <1>3, <1>7, <1>10
  <2>3. f \in EciHandles
    BY <1>4, <1>6, HandleFields, HandleMade DEF SameCall
  <2>4. Core(f) = q
    BY <1>3, <1>6, <2>2 DEF Core
  <2> QED BY <1>6, <1>7, <1>10, <2>1, <2>3, <2>4
<1> QED BY <1>8, <1>9, <1>10

\* The handles from piece to piece.
EciParses(h, e, l) ==
  h = [i \in 0 .. Len(l) |-> IF i = 0 THEN e ELSE UpdateState(h[i - 1], l[i])]

\* Up to the n-th piece there are such handles.
LEMMA EciParsedBy ==
  ASSUME NEW e, NEW l, Len(l) \in Nat
  PROVE  \E h : /\ h[0] = e /\ Parse(e, l) = h[Len(l)]
                /\ \A i \in 1..Len(l) : h[i] = UpdateState(h[i - 1], l[i])
<1>1. PICK n \in Nat : n = Len(l)
  OBVIOUS
<1> DEFINE Prefix(h, k) ==
             h = [i \in 0 .. k |-> IF i = 0 THEN e ELSE UpdateState(h[i - 1], l[i])]
           S == {k \in 0..n : \E h : Prefix(h, k)}
<1>2. 0 \in S
  <2>1. PICK h : h = [i \in 0..0 |-> e]
    OBVIOUS
  <2>2. \A i \in 0..0 : i = 0
    OBVIOUS
  <2>3. Prefix(h, 0)
    BY <2>1, <2>2
  <2> QED BY <2>3
<1>3. ASSUME NEW k \in 0..n-1, k \in S PROVE k + 1 \in S
  <2>1. PICK g : Prefix(g, k)
    BY <1>3
  <2>2. PICK h : h = [i \in 0..k+1 |-> IF i \in 0..k THEN g[i]
                                       ELSE UpdateState(g[k], l[k + 1])]
    OBVIOUS
  <2>3. \A i \in 0..k+1 : i = k + 1 \/ i \in 0..k
    OBVIOUS
  <2>4. \A i \in 0..k : i # 0 => i - 1 \in 0..k
    OBVIOUS
  <2>5. k + 1 \notin 0..k /\ k \in 0..k /\ k + 1 # 0 /\ (k + 1) - 1 = k /\ k \in 0..k+1
    OBVIOUS
  <2>6. \A i \in 0..k : i \in 0..k+1
    OBVIOUS
  <2>7. ASSUME NEW i \in 0..k+1
        PROVE  h[i] = IF i = 0 THEN e ELSE UpdateState(h[i - 1], l[i])
    <3>1. CASE i \in 0..k
      <4>1. h[i] = g[i] /\ (i # 0 => h[i - 1] = g[i - 1])
        BY <2>2, <2>4, <2>6, <3>1
      <4>2. g[i] = IF i = 0 THEN e ELSE UpdateState(g[i - 1], l[i])
        BY <2>1, <3>1
      <4> QED BY <4>1, <4>2
    <3>2. CASE i = k + 1
      <4>1. h[i] = UpdateState(g[k], l[k + 1]) /\ h[k] = g[k]
        BY <2>2, <2>5, <3>2
      <4> QED BY <2>5, <3>2, <4>1
    <3> QED BY <2>3, <3>1, <3>2
  <2>8. DOMAIN h = 0..k+1 /\ h = [i \in DOMAIN h |-> h[i]]
    BY <2>2
  <2>9. Prefix(h, k + 1)
    BY <2>7, <2>8
  <2>10. k + 1 \in 0..n
    OBVIOUS
  <2> QED BY <2>9, <2>10
<1>4. 0..n \subseteq S
  <2> HIDE DEF S
  <2> QED BY <1>2, <1>3, Induct
<1>5. \E h : Prefix(h, n)
  <2>1. n \in 0..n
    OBVIOUS
  <2>2. n \in S
    BY <1>4, <2>1, Zenon
  <2> QED BY <2>2
<1>6. \E h : EciParses(h, e, l)
  BY <1>1, <1>5 DEF EciParses
<1>7. Parse(e, l) = (CHOOSE h : EciParses(h, e, l))[Len(l)]
  BY Zenon DEF Parse, EciParses
<1>8. PICK h : EciParses(h, e, l) /\ Parse(e, l) = h[n]
  BY <1>1, <1>6, <1>7
<1>9. 0 \in 0..n /\ \A i \in 1..n : i \in 0..n /\ i # 0
  OBVIOUS
<1>10. h[0] = e /\ \A i \in 1..n : h[i] = UpdateState(h[i - 1], l[i])
  BY <1>1, <1>8, <1>9 DEF EciParses
<1> QED BY <1>1, <1>8, <1>10

\* The handle u is what the handle e becomes when it has read as far as c: the
\* value that is stored by the first answer is that of the answer.
Tracks(said, e, u, c) ==
  /\ u \in EciHandles /\ Core(u) = c /\ SameCall(e, u) /\ e.seen <= u.seen
  /\ u.seen = e.seen => u.vals = e.vals
  /\ u.seen = e.seen + 1 =>
       u.vals = [e.vals EXCEPT ![said[e.seen + 1].type] = said[e.seen + 1].content]

\* One piece more.
LEMMA TracksOn ==
  ASSUME NEW said \in Seq(Answers), NEW e \in EciHandles, NEW u, NEW c \in Fit(said),
         Tracks(said, e, u, c), NEW x \in EciPieces, NEW d \in Fit(said), d = Advance(c, x)
  PROVE  Tracks(said, e, UpdateState(u, x), d)
<1>1. u \in EciHandles /\ Core(u) = c /\ u.seen = c.seen /\ u.type = c.type /\ u.parser = c.parser
  BY HandleFields DEF Tracks
<1>2. PICK b \in Nat, s \in Nat : b = e.seen /\ s = u.seen
  BY <1>1, HandleFields
<1>3. b <= s
  BY <1>2 DEF Tracks
<1>4. Stores(c, x) => /\ s < Len(said) /\ u.type = said[s + 1].type
                      /\ u.parser.buf = said[s + 1].content
  BY <1>1, <1>2 DEF Fit, Stores
<1>5. Stores(c, x) => u.type \in EciTypes
  <2>1. s < Len(said) => s + 1 \in 1..Len(said)
    BY <1>2
  <2>2. s < Len(said) => said[s + 1] \in Answers
    BY <2>1
  <2> QED BY <1>4, <2>2 DEF Answers
<1>6. d \in Cores
  BY DEF Fit
<1>7. PICK v \in EciHandles :
        /\ v = UpdateState(u, x) /\ Core(v) = d /\ SameCall(u, v)
        /\ v.vals = IF Stores(c, x) THEN [u.vals EXCEPT ![u.type] = u.parser.buf] ELSE u.vals
  BY <1>1, <1>5, <1>6, Updated
<1>8. SameCall(e, v)
  BY <1>7 DEF SameCall, Tracks
<1>9. v.seen = IF Stores(c, x) THEN s + 1 ELSE s
  BY <1>1, <1>2, <1>7, HandleFields DEF Advance
<1>10. CASE Stores(c, x)
  <2>1. v.seen = s + 1 /\ b <= v.seen /\ v.seen # b
    BY <1>3, <1>9, <1>10
  <2>2. v.seen = b + 1 => s = b
    BY <2>1
  <2>3. s = b => u.vals = e.vals
    BY <1>2 DEF Tracks
  <2>4. v.seen = b + 1 => v.vals = [e.vals EXCEPT ![said[b + 1].type] = said[b + 1].content]
    BY <1>4, <1>7, <1>10, <2>2, <2>3
  <2> QED BY <1>2, <1>7, <1>8, <2>1, <2>4 DEF Tracks
<1>11. CASE ~Stores(c, x)
  <2>1. v.seen = u.seen /\ v.vals = u.vals
    BY <1>2, <1>7, <1>9, <1>11
  <2> QED BY <1>7, <1>8, <2>1 DEF Tracks
<1> QED BY <1>10, <1>11

\* Whatever is read.
LEMMA TracksAll ==
  ASSUME NEW said \in Seq(Answers), NEW e \in EciHandles, NEW l \in Seq(EciPieces), NEW R,
         R[0] = Core(e), \A k \in 0..Len(l) : R[k] \in Fit(said),
         \A k \in 1..Len(l) : R[k] = Advance(R[k - 1], l[k])
  PROVE  Tracks(said, e, Parse(e, l), R[Len(l)])
<1>1. PICK n \in Nat : n = Len(l)
  OBVIOUS
<1>2. PICK h : /\ h[0] = e /\ Parse(e, l) = h[n]
               /\ \A i \in 1..n : h[i] = UpdateState(h[i - 1], l[i])
  BY <1>1, EciParsedBy
<1> DEFINE S == {i \in 0..n : Tracks(said, e, h[i], R[i])}
<1>3. 0 \in S
  <2>1. SameCall(e, e) /\ Core(e) = R[0] /\ e.seen \in Nat
    BY HandleFields DEF SameCall
  <2>2. e.seen # e.seen + 1 /\ e.seen <= e.seen
    BY <2>1
  <2>3. Tracks(said, e, h[0], R[0])
    BY <1>2, <2>1, <2>2 DEF Tracks
  <2> QED BY <2>3
<1>4. ASSUME NEW i \in 0..n-1, i \in S PROVE i + 1 \in S
  <2>1. i \in 0..n /\ i + 1 \in 0..n /\ i + 1 \in 1..n /\ (i + 1) - 1 = i
    OBVIOUS
  <2>2. l[i + 1] \in EciPieces
    BY <1>1, <2>1
  <2>3. Tracks(said, e, h[i], R[i])
    BY <1>4
  <2>4. R[i] \in Fit(said) /\ R[i + 1] \in Fit(said) /\ R[i + 1] = Advance(R[i], l[i + 1])
    BY <1>1, <2>1
  <2>5. Tracks(said, e, UpdateState(h[i], l[i + 1]), R[i + 1])
    BY <2>2, <2>3, <2>4, TracksOn
  <2>6. h[i + 1] = UpdateState(h[i], l[i + 1])
    BY <1>2, <2>1
  <2> QED BY <2>1, <2>5, <2>6
<1> HIDE DEF S
<1>5. 0..n \subseteq S
  BY <1>3, <1>4, Induct
<1>6. n \in S
  BY <1>5
<1> QED BY <1>1, <1>2, <1>6 DEF S

-----------------------------------------------------------------------------
(* The ends of a call.                                                     *)

\* The library returns to its caller.
LEMMA Returns ==
  ASSUME NEW e \in EciHandles
  PROVE  \E u \in EciHandles :
           /\ u = Returned(e) /\ Core(u) = Core(e) /\ u.vals = e.vals /\ u.sent = e.sent
           /\ u.lost = (e.lost \/ e.sent # e.seen)
           /\ u.pc = IF e.pc = "command" \/ e.sent = e.seen THEN "ready" ELSE "gone"
<1>1. PICK b \in BOOLEAN : b = (e.lost \/ e.sent # e.seen)
  OBVIOUS
<1>2. PICK g : g = [e EXCEPT !.lost = b, !.tries = 0]
  OBVIOUS
<1>3. /\ DOMAIN g = {"pc", "sent", "seen", "lost", "type", "vals", "parser", "tries", "wait"}
      /\ g = [x \in DOMAIN g |-> g[x]]
      /\ g.lost = b /\ g.tries = 0 /\ g.pc = e.pc /\ g.sent = e.sent /\ g.seen = e.seen
      /\ g.type = e.type /\ g.vals = e.vals /\ g.parser = e.parser /\ g.wait = e.wait
  BY <1>2, HandleFields
<1>4. PICK p : p = IF e.pc = "command" \/ e.sent = e.seen THEN "ready" ELSE "gone"
  OBVIOUS
<1>5. PICK u : u = [g EXCEPT !.pc = p]
  OBVIOUS
<1>6. /\ DOMAIN u = {"pc", "sent", "seen", "lost", "type", "vals", "parser", "tries", "wait"}
      /\ u = [x \in DOMAIN u |-> u[x]]
      /\ u.lost = b /\ u.tries = 0 /\ u.pc = p /\ u.sent = e.sent /\ u.seen = e.seen
      /\ u.type = e.type /\ u.vals = e.vals /\ u.parser = e.parser /\ u.wait = e.wait
  BY <1>3, <1>5
<1>7. Returned(e) = u
  <2>1. [e EXCEPT !.lost = @ \/ e.sent # e.seen, !.tries = 0] = g
    BY <1>1, <1>2, HandleFields
  <2> QED BY <1>3, <1>4, <1>5, <2>1 DEF Returned
<1>8. u \in EciHandles
  <2>1. p \in {"none", "init", "ready", "command", "cleanup", "gone"}
    BY <1>4
  <2>2. 0 \in 0 .. EciReads - 1
    BY EciAssumption
  <2> QED BY <1>6, <2>1, <2>2, HandleFields, HandleMade
<1>9. Core(u) = Core(e)
  BY <1>6 DEF Core
<1> QED BY <1>1, <1>4, <1>6, <1>7, <1>8, <1>9

\* The library reads once more or returns.
LEMMA Attempts ==
  ASSUME NEW e \in EciHandles
  PROVE  \/ Attempt(e) = Returned(e)
         \/ \E u \in EciHandles :
              /\ u = Attempt(e) /\ Core(u) = Core(e) /\ u.vals = e.vals /\ u.sent = e.sent
              /\ u.lost = e.lost /\ u.pc = e.pc
<1>1. CASE e.tries + 1 >= EciReads
  BY <1>1 DEF Attempt
<1>2. CASE ~(e.tries + 1 >= EciReads)
  <2>1. PICK u : u = [e EXCEPT !.tries = @ + 1]
    OBVIOUS
  <2>2. /\ DOMAIN u = {"pc", "sent", "seen", "lost", "type", "vals", "parser", "tries", "wait"}
        /\ u = [x \in DOMAIN u |-> u[x]]
        /\ u.lost = e.lost /\ u.tries = e.tries + 1 /\ u.pc = e.pc /\ u.sent = e.sent
        /\ u.seen = e.seen /\ u.type = e.type /\ u.vals = e.vals /\ u.parser = e.parser
        /\ u.wait = e.wait
    BY <2>1, HandleFields
  <2>3. e.tries + 1 \in 0 .. EciReads - 1
    <3>1. e.tries \in 0 .. EciReads - 1 /\ EciReads \in Nat
      BY HandleFields, EciAssumption
    <3> QED BY <1>2, <3>1
  <2>4. u \in EciHandles
    BY <2>2, <2>3, HandleFields, HandleMade
  <2>5. Core(u) = Core(e)
    BY <2>2 DEF Core
  <2> QED BY <1>2, <2>1, <2>2, <2>4, <2>5 DEF Attempt
<1> QED BY <1>1, <1>2

-----------------------------------------------------------------------------
(* The invariant.                                                          *)

\* What the invariant says of the handle, its counters and what was said.
LEMMA Counted ==
  ASSUME EciInv
  PROVE  /\ ec \in EciHandles /\ eo \in Children
         /\ ec.sent \in Nat /\ ec.seen \in Nat /\ Len(eo.said) \in Nat /\ Len(eo.todo) \in Nat
         /\ Len(eo.said) + Len(eo.todo) <= ec.sent
         /\ eo.said \in Seq(Answers) /\ eo.pipe \in Seq(EciPieces) /\ eo.todo \in Seq(Nat)
         /\ Held => Core(ec) \in Fit(eo.said) /\ ec.seen <= Len(eo.said)
<1>1. ec \in EciHandles /\ eo \in Children
  BY DEF EciInv, EciTyped
<1>2. /\ eo.said \in Seq(Answers) /\ eo.pipe \in Seq(EciPieces) /\ eo.todo \in Seq(Nat)
      /\ Len(eo.said) \in Nat /\ Len(eo.todo) \in Nat
  BY <1>1 DEF Children
<1>3. ASSUME Held PROVE Core(ec) \in Fit(eo.said)
  <2>1. PICK q : Reads(Fit(eo.said), Core(ec), eo.pipe, q)
    BY <1>3 DEF EciInv, Piped
  <2>2. Len(eo.pipe) \in Nat
    BY <1>2
  <2> QED BY <2>1, <2>2 DEF Reads
<1>4. ASSUME Held PROVE ec.seen <= Len(eo.said)
  BY <1>1, <1>3, <1>4, HandleFields DEF Fit
<1> QED BY <1>1, <1>2, <1>3, <1>4, HandleFields DEF EciInv, Asked

\* The child's fields.
LEMMA ChildFields ==
  ASSUME NEW o \in Children
  PROVE  /\ DOMAIN o = {"alive", "todo", "pipe", "said", "logs", "times"}
         /\ o = [x \in DOMAIN o |-> o[x]]
         /\ o.alive \in BOOLEAN /\ o.todo \in Seq(Nat) /\ o.pipe \in Seq(EciPieces)
         /\ o.said \in Seq(Answers) /\ o.logs \in 0 .. EciLogs /\ o.times \in 0 .. EciTimeouts
BY DEF Children

\* A child from its fields.
LEMMA ChildMade ==
  ASSUME NEW o, DOMAIN o = {"alive", "todo", "pipe", "said", "logs", "times"},
         o = [x \in DOMAIN o |-> o[x]],
         o.alive \in BOOLEAN, o.todo \in Seq(Nat), o.pipe \in Seq(EciPieces),
         o.said \in Seq(Answers), o.logs \in 0 .. EciLogs, o.times \in 0 .. EciTimeouts
  PROVE  o \in Children
BY DEF Children

\* The first state.
LEMMA EciInitInv == EciInit => EciInv
<1> SUFFICES ASSUME EciInit PROVE EciInv
  OBVIOUS
<1>1. NoValues \in [EciTypes -> Seq(EciPieces)]
  <2>1. \A t \in EciTypes : <<>> \in Seq(EciPieces)
    OBVIOUS
  <2> QED BY <2>1 DEF NoValues
<1>2. FreshParser \in EciParsers
  BY DEF FreshParser, EciParsers, ParserStates
<1>3. /\ ec.pc = "none" /\ ec.sent = 0 /\ ec.seen = 0 /\ ec.lost = FALSE /\ ec.type = None
      /\ ec.vals = NoValues /\ ec.parser = FreshParser /\ ec.tries = 0 /\ ec.wait = FALSE
      /\ DOMAIN ec = {"pc", "sent", "seen", "lost", "type", "vals", "parser", "tries", "wait"}
      /\ ec = [x \in DOMAIN ec |-> ec[x]]
  BY DEF EciInit
<1>4. ec \in EciHandles
  <2>1. 0 \in 0 .. EciReads - 1
    BY EciAssumption
  <2>2. /\ ec.pc \in {"none", "init", "ready", "command", "cleanup", "gone"}
        /\ ec.sent \in Nat /\ ec.seen \in Nat
    BY <1>3
  <2>3. ec.lost \in BOOLEAN /\ ec.wait \in BOOLEAN
    BY Zenon, <1>3
  <2>4. ec.type \in EciTypes \cup {None}
    BY <1>3
  <2>5. /\ ec.vals \in [EciTypes -> Seq(EciPieces)] /\ ec.parser \in EciParsers
        /\ ec.tries \in 0 .. EciReads - 1
    BY <1>1, <1>2, <1>3, <2>1
  <2> QED BY <1>3, <2>2, <2>5, <2>4, <2>3, HandleMade
<1>5. /\ eo.alive = TRUE /\ eo.todo = <<>> /\ eo.pipe = <<>> /\ eo.said = <<>>
      /\ eo.logs = 0 /\ eo.times = 0
      /\ DOMAIN eo = {"alive", "todo", "pipe", "said", "logs", "times"}
      /\ eo = [x \in DOMAIN eo |-> eo[x]]
  BY DEF EciInit
<1>6. eo \in Children
  <2>1. 0 \in 0 .. EciLogs /\ 0 \in 0 .. EciTimeouts
    BY EciAssumption
  <2>2. <<>> \in Seq(Nat) /\ <<>> \in Seq(EciPieces) /\ <<>> \in Seq(Answers)
    OBVIOUS
  <2> QED BY <1>5, <2>1, <2>2, ChildMade
<1>7. Core(ec) \in Fit(eo.said)
  <2>1. Core(ec) \in Cores /\ Core(ec).seen = 0 /\ Core(ec).parser = FreshParser
    BY <1>3, <1>4, HandleFields
  <2>2. FreshParser.st # "lf3" /\ Len(eo.said) = 0
    BY <1>5 DEF FreshParser
  <2> QED BY <2>1, <2>2 DEF Fit
<1>8. Piped
  <2>1. Reads(Fit(eo.said), Core(ec), eo.pipe, Core(ec))
    BY <1>5, <1>7, ReadsNone
  <2>2. Core(ec).parser.st = "init" /\ Core(ec).seen = Len(eo.said)
    BY <1>3, <1>4, <1>5, HandleFields DEF FreshParser
  <2> QED BY <2>1, <2>2 DEF Piped
<1>9. Asked
  BY <1>3, <1>5 DEF Asked
<1>10. Awaiting /\ Valued
  BY <1>3 DEF Awaiting, Valued
<1> QED BY <1>4, <1>6, <1>8, <1>9, <1>10 DEF EciInv, EciTyped

\* The child is started.
LEMMA EciStarts ==
  ASSUME EciInv, EciStart
  PROVE  EciInv'
<1>1. ec.pc = "none" /\ ec' = [ec EXCEPT !.pc = "init", !.sent = 1] /\ eo' = [eo EXCEPT !.todo = <<1>>]
  BY DEF EciStart
<1>2. PICK g : g = [ec EXCEPT !.pc = "init", !.sent = 1]
  OBVIOUS
<1>3. /\ DOMAIN g = {"pc", "sent", "seen", "lost", "type", "vals", "parser", "tries", "wait"}
      /\ g = [x \in DOMAIN g |-> g[x]]
      /\ g.pc = "init" /\ g.sent = 1 /\ g.seen = ec.seen /\ g.lost = ec.lost /\ g.type = ec.type
      /\ g.vals = ec.vals /\ g.parser = ec.parser /\ g.tries = ec.tries /\ g.wait = ec.wait
  BY <1>2, Counted, HandleFields
<1>4. ec' = g /\ g \in EciHandles /\ Core(g) = Core(ec)
  <2>1. g \in EciHandles
    <3>1. /\ g.pc \in {"none", "init", "ready", "command", "cleanup", "gone"}
          /\ g.sent \in Nat
      BY <1>3
    <3>2. /\ ec.seen \in Nat /\ ec.lost \in BOOLEAN /\ ec.wait \in BOOLEAN
          /\ ec.type \in EciTypes \cup {None}
          /\ ec.vals \in [EciTypes -> Seq(EciPieces)] /\ ec.parser \in EciParsers
          /\ ec.tries \in 0 .. EciReads - 1
      BY Counted, HandleFields
    <3>3. /\ g.seen \in Nat /\ g.lost \in BOOLEAN /\ g.wait \in BOOLEAN
          /\ g.type \in EciTypes \cup {None}
          /\ g.vals \in [EciTypes -> Seq(EciPieces)] /\ g.parser \in EciParsers
          /\ g.tries \in 0 .. EciReads - 1
      BY <1>3, <3>2
    <3> QED BY <1>3, <3>1, <3>3, HandleMade
  <2> QED BY <1>1, <1>2, <1>3, <2>1 DEF Core
<1>5. PICK o : o = [eo EXCEPT !.todo = <<1>>]
  OBVIOUS
<1>6. /\ DOMAIN o = {"alive", "todo", "pipe", "said", "logs", "times"}
      /\ o = [x \in DOMAIN o |-> o[x]]
      /\ o.alive = eo.alive /\ o.todo = <<1>> /\ o.pipe = eo.pipe /\ o.said = eo.said
      /\ o.logs = eo.logs /\ o.times = eo.times
  BY <1>5, Counted, ChildFields
<1>7. eo' = o /\ o \in Children
  <2>1. <<1>> \in Seq(Nat)
    OBVIOUS
  <2>2. /\ eo.alive \in BOOLEAN /\ eo.pipe \in Seq(EciPieces)
        /\ eo.said \in Seq(Answers) /\ eo.logs \in 0 .. EciLogs /\ eo.times \in 0 .. EciTimeouts
    BY Counted, ChildFields
  <2>3. /\ o.alive \in BOOLEAN /\ o.pipe \in Seq(EciPieces) /\ o.todo \in Seq(Nat)
        /\ o.said \in Seq(Answers) /\ o.logs \in 0 .. EciLogs /\ o.times \in 0 .. EciTimeouts
    BY <1>6, <2>1, <2>2
  <2>4. o \in Children
    BY <1>6, <2>3, ChildMade
  <2> QED BY <1>1, <1>5, <2>4
<1>8. Held /\ ec.sent = 0 /\ ec.seen = 0
  BY <1>1 DEF Held, EciInv, Awaiting
<1>9. EciTyped' /\ Awaiting'
  BY <1>3, <1>4, <1>7, <1>8 DEF EciTyped, Awaiting
<1>10. Asked'
  <2>1. PICK a \in Nat, b \in Nat : a = Len(eo.said) /\ b = Len(eo.todo) /\ a + b <= ec.sent
    BY Counted
  <2>2. a + b <= 0
    BY <1>8, <2>1
  <2>3. a = 0
    BY <2>2
  <2>4. Len(o.todo) = 1
    BY <1>6
  <2>5. Len(o.said) + Len(o.todo) <= g.sent
    BY <1>3, <1>6, <2>1, <2>3, <2>4
  <2> QED BY <1>4, <1>7, <2>5 DEF Asked
<1>11. Piped'
  BY <1>4, <1>6, <1>7, <1>8 DEF EciInv, Piped
<1>12. Valued'
  BY <1>1, <1>3, <1>4, <1>8 DEF EciInv, Valued
<1> QED BY <1>9, <1>10, <1>11, <1>12 DEF EciInv

\* A command is written.
LEMMA EciAsks ==
  ASSUME EciInv, EciCommand
  PROVE  EciInv'
<1>1. PICK run \in BOOLEAN :
        ec' = [ec EXCEPT !.pc = "command", !.tries = 0, !.wait = run,
                         !.vals = CleanLastValues(@), !.sent = @ + 1,
                         !.lost = @ \/ ec.sent # ec.seen]
  BY DEF EciCommand
<1>2. PICK b \in BOOLEAN : b = (ec.lost \/ ec.sent # ec.seen)
  OBVIOUS
<1>3. ec.pc = "ready" /\ Held
  BY DEF EciCommand, Held
<1>4. PICK f : f = [ec EXCEPT !.pc = "command", !.tries = 0, !.wait = run]
  OBVIOUS
<1>5. /\ DOMAIN f = {"pc", "sent", "seen", "lost", "type", "vals", "parser", "tries", "wait"}
      /\ f = [x \in DOMAIN f |-> f[x]]
      /\ f.pc = "command" /\ f.seen = ec.seen /\ f.type = ec.type
      /\ f.parser = ec.parser /\ f.tries = 0 /\ f.wait = run
  <2>1. /\ DOMAIN ec = {"pc", "sent", "seen", "lost", "type", "vals", "parser", "tries", "wait"}
        /\ ec = [x \in DOMAIN ec |-> ec[x]]
    BY Counted, HandleFields
  <2> QED BY ONLY <1>4, <2>1
<1>6. PICK v, n : v = NoValues /\ n = ec.sent + 1
  OBVIOUS
<1>7. PICK k : k = [f EXCEPT !.vals = v, !.sent = n, !.lost = b]
  OBVIOUS
<1>8. /\ DOMAIN k = {"pc", "sent", "seen", "lost", "type", "vals", "parser", "tries", "wait"}
      /\ k = [x \in DOMAIN k |-> k[x]]
      /\ k.pc = "command" /\ k.seen = ec.seen /\ k.type = ec.type
      /\ k.parser = ec.parser /\ k.tries = 0 /\ k.wait = run
      /\ k.vals = v /\ k.sent = n /\ k.lost = b
  BY <1>5, <1>7
<1>9. PICK g : g = [ec EXCEPT !.pc = "command", !.tries = 0, !.wait = run,
                              !.vals = v, !.sent = n, !.lost = b]
  OBVIOUS
<1>10. g = k
  BY <1>9, <1>4, <1>7
<1>11. ec' = g
  <2>1. CleanLastValues(ec.vals) = NoValues
    BY DEF CleanLastValues
  <2> QED BY <1>1, <1>2, <1>9, <1>6, <2>1, Counted, HandleFields
<1>12. /\ DOMAIN g = {"pc", "sent", "seen", "lost", "type", "vals", "parser", "tries", "wait"}
      /\ g = [x \in DOMAIN g |-> g[x]]
      /\ g.pc = "command" /\ g.sent = ec.sent + 1 /\ g.seen = ec.seen /\ g.lost = b /\ g.type = ec.type
      /\ g.vals = NoValues /\ g.parser = ec.parser /\ g.tries = 0 /\ g.wait = run
  BY <1>6, <1>8, <1>10
<1>13. g \in EciHandles
  <2>1. NoValues \in [EciTypes -> Seq(EciPieces)]
    <3>1. \A t \in EciTypes : <<>> \in Seq(EciPieces)
      OBVIOUS
    <3> QED BY <3>1 DEF NoValues
  <2>2. 0 \in 0 .. EciReads - 1
    BY EciAssumption
  <2>3. ec.sent + 1 \in Nat
    BY Counted
  <2> QED BY <1>12, <2>1, <2>2, <2>3, Counted, HandleFields, HandleMade
<1>14. Core(g) = Core(ec)
  BY <1>12 DEF Core
<1>15. PICK t : t = IF eo.alive THEN Append(eo.todo, ec.sent + 1) ELSE eo.todo
  OBVIOUS
<1>16. t \in Seq(Nat) /\ Len(t) <= Len(eo.todo) + 1 /\ Len(t) \in Nat
  BY <1>15, Counted
<1>17. PICK o : o = [eo EXCEPT !.todo = t]
  OBVIOUS
<1>18. eo' = o
  BY <1>15, <1>17, Counted, ChildFields DEF EciCommand
<1>19. /\ DOMAIN o = {"alive", "todo", "pipe", "said", "logs", "times"}
      /\ o = [x \in DOMAIN o |-> o[x]]
      /\ o.alive = eo.alive /\ o.todo = t /\ o.pipe = eo.pipe /\ o.said = eo.said
      /\ o.logs = eo.logs /\ o.times = eo.times
  BY <1>17, Counted, ChildFields
<1>20. o \in Children
  BY <1>16, <1>19, Counted, ChildFields, ChildMade
<1>21. ~ec.lost => ec.sent = ec.seen
  BY <1>3, Counted DEF EciInv, Awaiting
<1>22. EciTyped'
  BY <1>11, <1>13, <1>18, <1>20 DEF EciTyped
<1>23. Awaiting'
  BY <1>2, <1>11, <1>12, Counted DEF Awaiting
<1>24. Asked'
  <2>1. PICK i \in Nat, j \in Nat, m \in Nat, w \in Nat :
          /\ i = Len(eo.said) /\ j = Len(eo.todo) /\ m = ec.sent /\ w = Len(t)
          /\ i + j <= m /\ w <= j + 1
    BY <1>16, Counted
  <2>2. i + j <= m /\ w <= j + 1
    BY <2>1
  <2>3. Len(o.said) = i /\ Len(o.todo) = w /\ g.sent = m + 1
    BY <1>12, <1>19, <2>1
  <2>4. i + w <= m + 1
    BY <2>2
  <2> QED BY <1>11, <1>18, <2>3, <2>4 DEF Asked
<1>25. Piped'
  BY <1>3, <1>11, <1>14, <1>18, <1>19 DEF EciInv, Piped
<1>26. Valued'
  BY <1>11, <1>12 DEF Valued
<1> QED BY <1>22, <1>23, <1>24, <1>25, <1>26 DEF EciInv

\* At most all of what is there is read.
LEMMA HalfOf == ASSUME NEW n \in Nat PROVE n \div 2 \in 0..n
OBVIOUS

\* What has been read is what was there.
LEMMA EciReadsOn ==
  ASSUME EciInv, EciRead
  PROVE  EciInv'
<1>1. ec.pc \in {"init", "command"} /\ Held
  BY DEF EciRead, Reading, Held
<1>2. PICK L \in Nat : L = Len(eo.pipe)
  BY Counted
<1>3. PICK n \in {L \div 2, L} \ {0} :
        /\ eo' = [eo EXCEPT !.pipe = SubSeq(@, n + 1, Len(@))]
        /\ ec' = IF Parse(ec, SubSeq(eo.pipe, 1, n)).sent = Parse(ec, SubSeq(eo.pipe, 1, n)).seen
                 THEN Returned(Parse(ec, SubSeq(eo.pipe, 1, n)))
                 ELSE Attempt(Parse(ec, SubSeq(eo.pipe, 1, n)))
  BY <1>2 DEF EciRead
<1>4. n \in 1..L
  <2>1. L \div 2 \in 0..L
    BY HalfOf
  <2> QED BY <2>1, <1>3
<1>5. PICK l, m : l = SubSeq(eo.pipe, 1, n) /\ m = SubSeq(eo.pipe, n + 1, L)
  OBVIOUS
<1>6. /\ l \in Seq(EciPieces) /\ Len(l) = n /\ \A i \in 1..n : l[i] = eo.pipe[i]
      /\ m \in Seq(EciPieces)
  <2>1. eo.pipe \in Seq(EciPieces)
    BY Counted
  <2>2. l \in Seq(EciPieces) /\ Len(l) = n /\ \A i \in 1..n : l[i] = eo.pipe[i]
    BY <1>2, <1>4, <1>5, <2>1
  <2>3. m \in Seq(EciPieces)
    BY <1>2, <1>4, <1>5, <2>1
  <2> QED BY <2>2, <2>3
<1>7. PICK q : /\ Reads(Fit(eo.said), Core(ec), eo.pipe, q)
               /\ q.parser.st = "init" /\ q.seen = Len(eo.said)
  BY <1>1 DEF EciInv, Piped
<1>8. PICK R : /\ R[0] = Core(ec) /\ R[L] = q /\ \A k \in 0..L : R[k] \in Fit(eo.said)
               /\ \A k \in 1..L : R[k] = Advance(R[k - 1], eo.pipe[k])
  BY <1>2, <1>7 DEF Reads
<1>9. PICK e : e = Parse(ec, l)
  OBVIOUS
<1>10. Tracks(eo.said, ec, e, R[n])
  <2>1. \A k \in 0..n : k \in 0..L
    BY <1>4
  <2>2. \A k \in 1..n : k \in 1..L /\ R[k] = Advance(R[k - 1], l[k])
    <3>1. \A k \in 1..n : k \in 1..L
      BY <1>4
    <3> QED BY <1>6, <1>8, <3>1
  <2>3. \A k \in 0..n : R[k] \in Fit(eo.said)
    BY <1>8, <2>1
  <2> QED BY <1>6, <1>8, <1>9, <2>2, <2>3, Counted, TracksAll
<1>11. Reads(Fit(eo.said), R[n], m, q)
  <2>1. n \in 0..L
    BY <1>4
  <2> QED BY <1>2, <1>5, <1>8, <2>1, Counted, ReadsFrom
<1>12. PICK s \in Nat, t \in Nat, u \in Nat :
         /\ s = ec.seen /\ t = e.seen /\ u = ec.sent /\ e.sent = u /\ s <= t /\ t <= u
  <2>1. e.seen \in Nat /\ e.sent = ec.sent /\ ec.seen <= e.seen /\ R[n].seen = e.seen
    BY <1>10, HandleFields DEF Tracks, SameCall
  <2>2. R[n].seen <= Len(eo.said)
    BY <1>4, <1>8 DEF Fit
  <2>3. e.seen <= ec.sent
    <3>1. PICK a \in Nat, b \in Nat : a = Len(eo.said) /\ b = Len(eo.todo)
      BY Counted
    <3>2. PICK i \in Nat, j \in Nat : i = e.seen /\ j = ec.sent
      BY <2>1, Counted
    <3>3. a + b <= j /\ i <= a
      BY <2>1, <2>2, <3>1, <3>2, Counted
    <3>4. i <= j
      BY <3>3
    <3> QED BY <3>2, <3>4
  <2> QED BY <2>1, <2>3, Counted
<1>13. e \in EciHandles /\ Core(e) = R[n] /\ e.pc = ec.pc /\ e.lost = ec.lost
  BY <1>10 DEF Tracks, SameCall
<1>14. ~ec.lost => s + 1 = u /\ ec.vals = NoValues
  BY <1>1, <1>12 DEF EciInv, Awaiting, Valued
<1>15. ec' = IF u = t THEN Returned(e) ELSE Attempt(e)
  BY <1>3, <1>5, <1>9, <1>12
<1>16. \/ /\ ec' \in EciHandles /\ ec' = Returned(e) /\ Core(ec') = Core(e) /\ ec'.vals = e.vals
          /\ ec'.sent = u /\ ec'.lost = (ec.lost \/ u # t)
          /\ ec'.pc = IF ec.pc = "command" \/ u = t THEN "ready" ELSE "gone"
       \/ /\ u # t /\ ec' \in EciHandles /\ Core(ec') = Core(e) /\ ec'.vals = e.vals
          /\ ec'.sent = u /\ ec'.lost = ec.lost /\ ec'.pc = ec.pc
  <2>1. CASE ec' = Returned(e)
    <3>1. PICK w \in EciHandles :
            /\ w = Returned(e) /\ Core(w) = Core(e) /\ w.vals = e.vals /\ w.sent = e.sent
            /\ w.lost = (e.lost \/ e.sent # e.seen)
            /\ w.pc = IF e.pc = "command" \/ e.sent = e.seen THEN "ready" ELSE "gone"
      BY <1>13, Returns
    <3>2. ec' = w
      BY <2>1, <3>1
    <3> QED BY <1>12, <1>13, <3>1, <3>2
  <2>2. CASE ec' # Returned(e)
    <3>1. u # t /\ ec' = Attempt(e)
      BY <1>15, <2>2
    <3>2. PICK w \in EciHandles :
            /\ w = Attempt(e) /\ Core(w) = Core(e) /\ w.vals = e.vals /\ w.sent = e.sent
            /\ w.lost = e.lost /\ w.pc = e.pc
      BY <1>13, <2>2, <3>1, Attempts
    <3>3. ec' = w
      BY <3>1, <3>2
    <3> QED BY <1>12, <1>13, <3>1, <3>2, <3>3
  <2> QED BY <2>1, <2>2
<1>17. ec' \in EciHandles /\ Core(ec') = R[n] /\ ec'.seen = t /\ ec'.sent = u /\ ec'.vals = e.vals
  <2>1. ec' \in EciHandles /\ Core(ec') = Core(e) /\ ec'.sent = u /\ ec'.vals = e.vals
    BY <1>16
  <2>2. ec'.seen = e.seen
    BY <1>13, <2>1, HandleFields
  <2> QED BY <1>12, <1>13, <2>1, <2>2
<1>18. PICK o : o = [eo EXCEPT !.pipe = m]
  OBVIOUS
<1>19. /\ DOMAIN o = {"alive", "todo", "pipe", "said", "logs", "times"}
       /\ o = [x \in DOMAIN o |-> o[x]]
       /\ o.alive = eo.alive /\ o.todo = eo.todo /\ o.pipe = m /\ o.said = eo.said
       /\ o.logs = eo.logs /\ o.times = eo.times
  <2>1. /\ DOMAIN eo = {"alive", "todo", "pipe", "said", "logs", "times"}
        /\ eo = [x \in DOMAIN eo |-> eo[x]]
    BY Counted, ChildFields
  <2> QED BY ONLY <1>18, <2>1
<1>20. eo' = o /\ o \in Children
  <2>1. o \in Children
    BY <1>6, <1>19, Counted, ChildFields, ChildMade
  <2> QED BY <1>2, <1>3, <1>5, <1>18, <2>1
<1>21. EciTyped'
  BY <1>17, <1>20 DEF EciTyped
<1>22. ~ec'.lost => ~ec.lost /\ s + 1 = u /\ ec.vals = NoValues
  BY <1>14, <1>16
<1>23. /\ ec'.pc \in {"init", "command"} => u # t
       /\ ec'.pc = "ready" /\ ~ec'.lost => u = t
       /\ ec'.pc # "none"
  BY <1>1, <1>16
<1>24. ~ec'.lost /\ u # t => t = s
  BY <1>12, <1>22
<1>25. Awaiting'
  <2>1. ec'.pc = "none" => ec'.sent = 0 /\ ec'.seen = 0
    BY <1>23
  <2>2. ec'.pc \in {"init", "command"} /\ ~ec'.lost => ec'.seen + 1 = ec'.sent
    BY <1>17, <1>22, <1>23, <1>24
  <2>3. u # 0 \/ ec'.lost
    <3>1. s + 1 = u => u # 0
      OBVIOUS
    <3> QED BY <1>22, <3>1
  <2>4. ec'.pc = "ready" /\ ~ec'.lost => ec'.seen = ec'.sent /\ ec'.sent # 0
    BY <1>17, <1>23, <2>3
  <2> QED BY <2>1, <2>2, <2>4 DEF Awaiting
<1>26. Asked'
  BY <1>12, <1>17, <1>19, <1>20 DEF EciInv, Asked
<1>27. Piped'
  BY <1>7, <1>11, <1>17, <1>19, <1>20 DEF Piped
<1>28. Valued'
  <2> SUFFICES ASSUME ~ec'.lost, ec'.pc \notin {"cleanup", "gone"}
               PROVE  ec'.vals = IF ec'.pc = "ready" THEN ValuesOf(eo'.said[ec'.sent]) ELSE NoValues
    BY DEF Valued, Held
  <2>1. CASE u = t
    <3>1. ec'.pc = "ready"
      BY <1>16, <2>1
    <3>2. e.seen = ec.seen + 1
      BY <1>12, <1>22, <2>1
    <3>3. e.vals = [ec.vals EXCEPT ![eo.said[ec.seen + 1].type] = eo.said[ec.seen + 1].content]
      BY <1>10, <3>2 DEF Tracks
    <3>4. ec.seen + 1 = u /\ ec.vals = NoValues
      BY <1>12, <1>22
    <3>5. e.vals = ValuesOf(eo.said[u])
      BY <3>3, <3>4 DEF ValuesOf
    <3> QED BY <1>17, <1>19, <1>20, <3>1, <3>5
  <2>2. CASE u # t
    <3>1. ec'.pc # "ready"
      BY <1>23, <2>2
    <3>2. e.seen = ec.seen
      BY <1>12, <1>24, <2>2
    <3>3. e.vals = ec.vals
      BY <1>10, <3>2 DEF Tracks
    <3> QED BY <1>17, <1>22, <3>1, <3>3
  <2> QED BY <2>1, <2>2
<1> QED BY <1>21, <1>25, <1>26, <1>27, <1>28 DEF EciInv

\* The read is given up for lost.
LEMMA EciTimesOut ==
  ASSUME EciInv, EciTimeout
  PROVE  EciInv'
<1>1. ec.pc \in {"init", "command"} /\ Held
  BY DEF EciTimeout, Reading, Held
<1>2. PICK g : g = [ec EXCEPT !.lost = TRUE]
  OBVIOUS
<1>3. /\ DOMAIN g = {"pc", "sent", "seen", "lost", "type", "vals", "parser", "tries", "wait"}
      /\ g = [x \in DOMAIN g |-> g[x]]
      /\ g.pc = ec.pc /\ g.sent = ec.sent /\ g.seen = ec.seen /\ g.lost /\ g.type = ec.type
      /\ g.vals = ec.vals /\ g.parser = ec.parser /\ g.tries = ec.tries /\ g.wait = ec.wait
  BY <1>2, Counted, HandleFields
<1>4. g \in EciHandles /\ Core(g) = Core(ec)
  <2>1. g.lost \in BOOLEAN
    BY Zenon, <1>2, <1>3, Counted, HandleFields
  <2>2. g \in EciHandles
    BY <1>3, <2>1, Counted, HandleFields, HandleMade
  <2> QED BY <1>3, <2>2 DEF Core
<1>5. PICK w \in EciHandles :
        /\ w = Returned(g) /\ Core(w) = Core(g) /\ w.sent = g.sent
        /\ w.lost = (g.lost \/ g.sent # g.seen)
        /\ w.pc = IF g.pc = "command" \/ g.sent = g.seen THEN "ready" ELSE "gone"
  BY <1>4, Returns
<1>6. ec' = w /\ w.lost /\ w.pc # "none" /\ Core(w) = Core(ec) /\ w.sent = ec.sent
  BY <1>2, <1>3, <1>4, <1>5 DEF EciTimeout
<1>7. PICK k \in Nat : k = eo.times + 1 /\ k \in 0 .. EciTimeouts
  <2>1. eo.times \in 0 .. EciTimeouts /\ eo.times < EciTimeouts /\ EciTimeouts \in Nat
    BY Counted, ChildFields, EciAssumption DEF EciTimeout
  <2> QED BY <2>1
<1>8. PICK o : o = [eo EXCEPT !.times = k]
  OBVIOUS
<1>9. /\ DOMAIN o = {"alive", "todo", "pipe", "said", "logs", "times"}
       /\ o = [x \in DOMAIN o |-> o[x]]
       /\ o.alive = eo.alive /\ o.todo = eo.todo /\ o.pipe = eo.pipe /\ o.said = eo.said
       /\ o.logs = eo.logs /\ o.times = k
  BY <1>8, Counted, ChildFields
<1>10. eo' = o /\ o \in Children
  <2>1. o \in Children
    BY <1>7, <1>9, Counted, ChildFields, ChildMade
  <2>2. eo' = [eo EXCEPT !.times = eo.times + 1]
    BY DEF EciTimeout
  <2> QED BY <1>7, <1>8, <2>1, <2>2
<1>11. EciTyped' /\ Awaiting' /\ Valued'
  BY <1>5, <1>6, <1>10 DEF EciTyped, Awaiting, Valued
<1>12. Asked'
  BY <1>6, <1>9, <1>10 DEF EciInv, Asked
<1>13. Piped'
  BY <1>1, <1>6, <1>9, <1>10 DEF EciInv, Piped
<1> QED BY <1>11, <1>12, <1>13 DEF EciInv

\* The child has closed its end.
LEMMA EciHangsUp ==
  ASSUME EciInv, EciHangUp
  PROVE  EciInv'
<1>1. ec.pc \in {"init", "command"} /\ Held /\ ec' = Attempt(ec) /\ eo' = eo
  BY DEF EciHangUp, Reading, Held
<1>2. CASE Attempt(ec) = Returned(ec)
  <2>1. PICK w \in EciHandles :
          /\ w = Returned(ec) /\ Core(w) = Core(ec) /\ w.sent = ec.sent
          /\ w.lost = (ec.lost \/ ec.sent # ec.seen)
          /\ w.pc = IF ec.pc = "command" \/ ec.sent = ec.seen THEN "ready" ELSE "gone"
    BY Counted, Returns
  <2>2. ec.lost \/ ec.sent # ec.seen
    <3>1. ec.seen + 1 = ec.sent => ec.sent # ec.seen
      BY Counted
    <3> QED BY <1>1, <3>1 DEF EciInv, Awaiting
  <2>3. ec' = w /\ w.lost /\ w.pc # "none"
    BY <1>1, <1>2, <2>1, <2>2
  <2>4. EciTyped' /\ Awaiting' /\ Valued'
    BY <1>1, <2>1, <2>3, Counted DEF EciTyped, Awaiting, Valued
  <2>5. Asked'
    BY <1>1, <2>1, <2>3 DEF EciInv, Asked
  <2>6. Piped'
    BY <1>1, <2>1, <2>3 DEF EciInv, Piped
  <2> QED BY <2>4, <2>5, <2>6 DEF EciInv
<1>3. CASE Attempt(ec) # Returned(ec)
  <2>1. PICK w \in EciHandles :
          /\ w = Attempt(ec) /\ Core(w) = Core(ec) /\ w.vals = ec.vals /\ w.sent = ec.sent
          /\ w.lost = ec.lost /\ w.pc = ec.pc
    BY <1>3, Counted, Attempts
  <2>2. ec' = w /\ w.seen = ec.seen
    BY <1>1, <2>1, Counted, HandleFields
  <2>3. EciTyped'
    BY <1>1, <2>1, <2>2, Counted DEF EciTyped
  <2>4. Awaiting'
    BY <1>1, <2>1, <2>2 DEF EciInv, Awaiting
  <2>5. Valued'
    BY <1>1, <2>1, <2>2 DEF EciInv, Valued
  <2>6. Asked'
    BY <1>1, <2>1, <2>2 DEF EciInv, Asked
  <2>7. Piped'
    BY <1>1, <2>1, <2>2 DEF EciInv, Piped
  <2> QED BY <2>3, <2>4, <2>5, <2>6, <2>7 DEF EciInv
<1> QED BY <1>2, <1>3

\* The library quits.
LEMMA EciCleansUp ==
  ASSUME EciInv, EciCleanup
  PROVE  EciInv'
<1>1. PICK n \in Nat : n = ec.sent + 1
  BY Counted
<1>2. PICK g : g = [ec EXCEPT !.pc = "cleanup", !.sent = n]
  OBVIOUS
<1>3. /\ DOMAIN g = {"pc", "sent", "seen", "lost", "type", "vals", "parser", "tries", "wait"}
      /\ g = [x \in DOMAIN g |-> g[x]]
      /\ g.pc = "cleanup" /\ g.sent = n /\ g.seen = ec.seen /\ g.lost = ec.lost /\ g.type = ec.type
      /\ g.vals = ec.vals /\ g.parser = ec.parser /\ g.tries = ec.tries /\ g.wait = ec.wait
  BY <1>2, Counted, HandleFields
<1>4. ec' = g
  <2>1. ec' = [ec EXCEPT !.pc = "cleanup", !.sent = ec.sent + 1]
    BY DEF EciCleanup
  <2> QED BY <1>1, <1>2, <2>1
<1>5. g \in EciHandles
  <2>1. g.pc \in {"none", "init", "ready", "command", "cleanup", "gone"} /\ g.sent \in Nat
    BY <1>3
  <2> QED BY <1>3, <2>1, Counted, HandleFields, HandleMade
<1>6. PICK t : t = IF eo.alive THEN Append(eo.todo, 0) ELSE eo.todo
  OBVIOUS
<1>7. t \in Seq(Nat) /\ Len(t) <= Len(eo.todo) + 1 /\ Len(t) \in Nat
  BY <1>6, Counted
<1>8. PICK o : o = [eo EXCEPT !.todo = t]
  OBVIOUS
<1>9. eo' = o
  <2>1. eo' = [eo EXCEPT !.todo = IF eo.alive THEN Append(eo.todo, 0) ELSE eo.todo]
    BY DEF EciCleanup
  <2> QED BY <1>6, <1>8, <2>1
<1>10. /\ DOMAIN o = {"alive", "todo", "pipe", "said", "logs", "times"}
       /\ o = [x \in DOMAIN o |-> o[x]]
       /\ o.alive = eo.alive /\ o.todo = t /\ o.pipe = eo.pipe /\ o.said = eo.said
       /\ o.logs = eo.logs /\ o.times = eo.times
  BY <1>8, Counted, ChildFields
<1>11. o \in Children
  BY <1>7, <1>10, Counted, ChildFields, ChildMade
<1>12. EciTyped' /\ Awaiting' /\ Valued' /\ Piped'
  BY <1>3, <1>4, <1>5, <1>9, <1>11 DEF EciTyped, Awaiting, Valued, Piped, Held
<1>13. Asked'
  <2>1. PICK i \in Nat, j \in Nat, m \in Nat, w \in Nat :
          /\ i = Len(eo.said) /\ j = Len(eo.todo) /\ m = ec.sent /\ w = Len(t)
          /\ i + j <= m /\ w <= j + 1
    BY <1>7, Counted
  <2>2. i + j <= m /\ w <= j + 1
    BY <2>1
  <2>3. Len(o.said) = i /\ Len(o.todo) = w /\ g.sent = m + 1
    BY <1>1, <1>3, <1>10, <2>1
  <2>4. i + w <= m + 1
    BY <2>2
  <2> QED BY <1>4, <1>9, <2>3, <2>4 DEF Asked
<1> QED BY <1>12, <1>13 DEF EciInv

\* What is left in the pipe is thrown away.
LEMMA EciDrains ==
  ASSUME EciInv, EciDrain
  PROVE  EciInv'
<1>1. ec.pc = "cleanup"
  BY DEF EciDrain
<1>2. CASE eo.pipe # <<>> /\ eo' = [eo EXCEPT !.pipe = Tail(@)] /\ UNCHANGED ec
  <2>1. PICK m : m = Tail(eo.pipe)
    OBVIOUS
  <2>2. m \in Seq(EciPieces)
    BY <1>2, <2>1, Counted
  <2>3. PICK o : o = [eo EXCEPT !.pipe = m]
    OBVIOUS
  <2>4. /\ DOMAIN o = {"alive", "todo", "pipe", "said", "logs", "times"}
        /\ o = [x \in DOMAIN o |-> o[x]]
        /\ o.alive = eo.alive /\ o.todo = eo.todo /\ o.pipe = m /\ o.said = eo.said
        /\ o.logs = eo.logs /\ o.times = eo.times
    BY <2>3, Counted, ChildFields
  <2>5. eo' = o /\ o \in Children
    <3>1. o \in Children
      BY <2>2, <2>4, Counted, ChildFields, ChildMade
    <3> QED BY <1>2, <2>1, <2>3, <3>1
  <2>6. EciTyped' /\ Awaiting' /\ Valued' /\ Piped'
    BY <1>1, <1>2, <2>5, Counted DEF EciTyped, Awaiting, Valued, Piped, Held
  <2>7. Asked'
    BY <1>2, <2>4, <2>5 DEF EciInv, Asked
  <2> QED BY <2>6, <2>7 DEF EciInv
<1>3. CASE ec' = [ec EXCEPT !.pc = "gone"] /\ UNCHANGED eo
  <2>1. PICK g : g = [ec EXCEPT !.pc = "gone"]
    OBVIOUS
  <2>2. /\ DOMAIN g = {"pc", "sent", "seen", "lost", "type", "vals", "parser", "tries", "wait"}
        /\ g = [x \in DOMAIN g |-> g[x]]
        /\ g.pc = "gone" /\ g.sent = ec.sent /\ g.seen = ec.seen /\ g.lost = ec.lost
        /\ g.type = ec.type /\ g.vals = ec.vals /\ g.parser = ec.parser
        /\ g.tries = ec.tries /\ g.wait = ec.wait
    BY <2>1, Counted, HandleFields
  <2>3. g \in EciHandles
    <3>1. g.pc \in {"none", "init", "ready", "command", "cleanup", "gone"}
      BY <2>2
    <3> QED BY <2>2, <3>1, Counted, HandleFields, HandleMade
  <2>4. EciTyped' /\ Awaiting' /\ Valued' /\ Piped'
    BY <1>3, <2>1, <2>2, <2>3, Counted DEF EciTyped, Awaiting, Valued, Piped, Held
  <2>5. Asked'
    BY <1>3, <2>1, <2>2 DEF EciInv, Asked
  <2> QED BY <2>4, <2>5 DEF EciInv
<1> QED BY <1>2, <1>3 DEF EciDrain

\* A command is answered.
LEMMA ChildAnswers ==
  ASSUME PlainTypes, EciInv, ChildAnswer
  PROVE  EciInv'
<1>1. PICK n \in Nat : n = Head(eo.todo)
  <2>1. eo.todo \in Seq(Nat) /\ eo.todo # <<>>
    BY Counted DEF ChildAnswer
  <2> QED BY <2>1
<1>2. PICK t \in EciTypes, whole \in {TRUE, FALSE} :
        LET a == [type |-> t, content |-> IF whole THEN Content(n) ELSE <<>>]
        IN eo' = [eo EXCEPT !.todo = Tail(@), !.said = Append(@, a),
                            !.pipe = @ \o Message(RetLevel, t, a.content)]
  BY <1>1 DEF ChildAnswer
<1>3. PICK c : c = IF whole THEN Content(n) ELSE <<>>
  OBVIOUS
<1>4. c \in Seq(EciPieces) /\ (c = <<>> \/ \E i \in Int : c = Content(i))
  <2>1. Content(n) \in Seq(EciPieces)
    <3>1. PICK x, y : x = Content(n)[1] /\ y = Content(n)[2]
      OBVIOUS
    <3>2. x \in EciPieces /\ y \in EciPieces /\ Content(n) = <<x, y>>
      BY <3>1, ContentPieces
    <3> QED BY <3>2, Pieced
  <2> QED BY <1>3, <2>1, Pieced
<1>5. PICK a \in Answers : a.type = t /\ a.content = c /\ a = [type |-> t, content |-> c]
  BY <1>4 DEF Answers
<1>6. PICK d, m, p : /\ d = Tail(eo.todo) /\ m = Append(eo.said, a)
                     /\ p = eo.pipe \o Message(RetLevel, t, c)
  OBVIOUS
<1>7. eo' = [eo EXCEPT !.todo = d, !.said = m, !.pipe = p]
  <2>1. eo' = [eo EXCEPT !.todo = Tail(@), !.said = Append(@, a),
                         !.pipe = @ \o Message(RetLevel, t, a.content)]
    BY <1>2, <1>3, <1>5
  <2> QED BY <1>5, <1>6, <2>1
<1>8. PICK o : o = [eo EXCEPT !.todo = d, !.said = m, !.pipe = p]
  OBVIOUS
<1>9. /\ DOMAIN o = {"alive", "todo", "pipe", "said", "logs", "times"}
      /\ o = [x \in DOMAIN o |-> o[x]]
      /\ o.alive = eo.alive /\ o.todo = d /\ o.pipe = p /\ o.said = m
      /\ o.logs = eo.logs /\ o.times = eo.times
  BY <1>8, Counted, ChildFields
<1>10. /\ d \in Seq(Nat) /\ Len(d) + 1 = Len(eo.todo) /\ Len(d) \in Nat
  <2>1. eo.todo \in Seq(Nat) /\ eo.todo # <<>>
    BY Counted DEF ChildAnswer
  <2> QED BY <1>6, <2>1
<1>11. /\ m \in Seq(Answers) /\ Len(m) = Len(eo.said) + 1 /\ \A i \in 1..Len(eo.said) : m[i] = eo.said[i]
  <2>1. eo.said \in Seq(Answers)
    BY Counted
  <2> QED BY <1>6, <2>1
<1>12. /\ ec' = ec /\ eo' = o
  BY <1>7, <1>8 DEF ChildAnswer
<1>13. Asked'
  <2>1. PICK i \in Nat, j \in Nat, k \in Nat, w \in Nat :
          /\ i = Len(eo.said) /\ j = Len(eo.todo) /\ k = ec.sent /\ w = Len(d)
          /\ i + j <= k /\ w + 1 = j
    BY <1>10, Counted
  <2>2. i + j <= k /\ w + 1 = j
    BY <2>1
  <2>3. Len(o.said) = i + 1 /\ Len(o.todo) = w
    BY <1>9, <1>11, <2>1
  <2>4. (i + 1) + w <= k
    BY <2>2
  <2> QED BY <1>12, <2>1, <2>3, <2>4 DEF Asked
<1>14. t # "cr"
  BY DEF PlainTypes
<1>15. ASSUME NEW q, Held, Reads(Fit(eo.said), Core(ec), eo.pipe, q), q.parser.st = "init",
              q.seen = Len(eo.said)
       PROVE  Message(RetLevel, t, c) \in Seq(EciPieces) /\ Piped'
  <2>1. q \in Fit(eo.said) /\ eo.pipe \in Seq(EciPieces) /\ eo.said \in Seq(Answers)
    <3>1. Len(eo.pipe) \in Nat /\ eo.pipe \in Seq(EciPieces) /\ eo.said \in Seq(Answers)
      BY Counted
    <3> QED BY <1>15, <3>1 DEF Reads
  <2>2. PICK r : /\ Reads(Fit(m), q, Message(RetLevel, t, c), r)
                 /\ r.parser.st = "init" /\ r.seen = Len(eo.said) + 1
    <3>1. PICK b : b = eo.said
      OBVIOUS
    <3>2. /\ b \in Seq(Answers) /\ a.type # "cr" /\ q \in Fit(b)
          /\ a.content = <<>> \/ \E i \in Int : a.content = Content(i)
          /\ q.parser.st = "init" /\ q.seen = Len(b) /\ a \in Answers
      BY <1>4, <1>5, <1>14, <1>15, <2>1, <3>1
    <3>3. PICK r : /\ Reads(Fit(Append(b, a)), q, Message(RetLevel, a.type, a.content), r)
                   /\ r.parser.st = "init" /\ r.seen = Len(b) + 1
      BY ONLY <3>2, AnswerRead
    <3> QED BY <1>5, <1>6, <3>1, <3>3
  <2>3. Message(RetLevel, t, c) \in Seq(EciPieces)
    BY <1>4, <1>5, <1>6, <1>14, <1>15, <2>1, AnswerRead
  <2>4. Reads(Fit(m), Core(ec), eo.pipe, q)
    BY <1>6, <1>15, <2>1, FitsNext, ReadsIn
  <2>5. Reads(Fit(m), Core(ec), p, r)
    BY <1>6, <2>1, <2>2, <2>3, <2>4, ReadsOn
  <2> QED BY <1>9, <1>11, <1>12, <2>2, <2>3, <2>5 DEF Piped
<1>16. Held => Message(RetLevel, t, c) \in Seq(EciPieces) /\ Piped'
  BY <1>15 DEF EciInv, Piped
<1>17. Message(RetLevel, t, c) \in Seq(EciPieces)
  <2>1. <<>> \in Seq(Answers)
    OBVIOUS
  <2>2. PICK s \in Seq(Answers) : s = <<>>
    BY <2>1
  <2>3. PICK q : q = ParserAt("init", GenLevel, "none", <<>>, 0, None, 0) /\ s = <<>>
    BY <2>2
  <2>4. q \in Fit(s) /\ q.parser.st = "init" /\ q.seen = Len(s)
    <3>1. "init" \in ParserStates /\ "init" # "lf3" /\ 0 \in Int /\ 0 \in Nat /\ Len(s) = 0
      BY <2>3 DEF ParserStates
    <3>2. q \in Fit(s)
      <4>1. PICK y \in EciTypes \cup {None}, z \in Nat, b \in Seq(EciPieces) :
              y = None /\ z = 0 /\ b = <<>>
        BY Pieced
      <4>2. z <= Len(s) /\ ~(z = Len(s) /\ z # 0) /\ z \in Int
        BY <3>1, <4>1
      <4>3. "none" \in {"none", "reading", "validate"}
        OBVIOUS
      <4>4. ParserAt("init", GenLevel, "none", b, z, y, z) \in Fit(s)
        BY <3>1, <4>2, <4>3, AtFits
      <4> QED BY <2>3, <4>1, <4>4
    <3> QED BY <2>3, <3>1, <3>2 DEF ParserAt, Scanner
  <2> QED BY <1>4, <1>5, <1>14, <2>4, AnswerRead
<1>18. o \in Children
  <2>1. p \in Seq(EciPieces)
    BY <1>6, <1>17, Counted
  <2> QED BY <1>9, <1>10, <1>11, <2>1, Counted, ChildFields, ChildMade
<1>19. EciTyped' /\ Awaiting'
  BY <1>12, <1>18, Counted DEF EciInv, EciTyped, Awaiting
<1>20. Piped'
  <2>1. Held' => Held
    BY <1>12 DEF Held
  <2> QED BY <1>16, <2>1 DEF Piped
<1>21. Valued'
  <2> SUFFICES ASSUME ~ec.lost, Held
               PROVE  ec.vals = IF ec.pc = "ready" THEN ValuesOf(m[ec.sent]) ELSE NoValues
    BY <1>9, <1>12 DEF Valued, Held
  <2>1. ec.vals = IF ec.pc = "ready" THEN ValuesOf(eo.said[ec.sent]) ELSE NoValues
    BY DEF EciInv, Valued
  <2>2. ec.pc = "ready" => ec.sent \in 1..Len(eo.said)
    <3>1. PICK i \in Nat, j \in Nat : i = Len(eo.said) /\ j = ec.sent
      BY Counted
    <3>2. ec.pc = "ready" => ec.seen = j /\ j # 0
      BY <3>1 DEF EciInv, Awaiting
    <3>3. ec.pc = "ready" => j <= i
      BY <3>1, <3>2, Counted
    <3>4. j # 0 /\ j <= i => j \in 1..i
      OBVIOUS
    <3> QED BY <3>1, <3>2, <3>3, <3>4
  <2> QED BY <1>11, <2>1, <2>2
<1> QED BY <1>13, <1>19, <1>20, <1>21 DEF EciInv

\* A log message comes between.
LEMMA ChildLogs ==
  ASSUME EciInv, ChildLog
  PROVE  EciInv'
<1>1. PICK k \in Nat : k = eo.logs + 1 /\ k \in 0 .. EciLogs
  <2>1. eo.logs \in 0 .. EciLogs /\ eo.logs < EciLogs /\ EciLogs \in Nat
    BY Counted, ChildFields, EciAssumption DEF ChildLog
  <2> QED BY <2>1
<1>2. PICK l : l = Message(GenLevel, None, Content(0))
  OBVIOUS
<1>3. l \in Seq(EciPieces)
  <2>1. <<>> \in Seq(Answers)
    OBVIOUS
  <2>2. PICK s \in Seq(Answers) : s = <<>>
    BY <2>1
  <2>3. PICK q : q = ParserAt("init", GenLevel, "none", <<>>, 0, None, 0) /\ s = <<>>
    BY <2>2
  <2>4. "init" \in ParserStates /\ "init" # "lf3" /\ Len(s) = 0
    BY <2>3 DEF ParserStates
  <2>5. q \in Fit(s)
    <3>1. PICK y \in EciTypes \cup {None}, z \in Nat, b \in Seq(EciPieces) :
            y = None /\ z = 0 /\ b = <<>>
      BY Pieced
    <3>2. z <= Len(s) /\ ~(z = Len(s) /\ z # 0) /\ z \in Int
      BY <2>4, <3>1
    <3>3. "none" \in {"none", "reading", "validate"}
      OBVIOUS
    <3>4. ParserAt("init", GenLevel, "none", b, z, y, z) \in Fit(s)
      BY <2>4, <3>2, <3>3, AtFits
    <3> QED BY <2>3, <3>1, <3>4
  <2>6. q.parser.st = "init" /\ q.seen = Len(s)
    BY <2>3, <2>4 DEF ParserAt, Scanner
  <2> QED BY <1>2, <2>5, <2>6, LogRead
<1>4. PICK p : p = eo.pipe \o l
  OBVIOUS
<1>5. PICK o : o = [eo EXCEPT !.logs = k, !.pipe = p]
  OBVIOUS
<1>6. /\ DOMAIN o = {"alive", "todo", "pipe", "said", "logs", "times"}
      /\ o = [x \in DOMAIN o |-> o[x]]
      /\ o.alive = eo.alive /\ o.todo = eo.todo /\ o.pipe = p /\ o.said = eo.said
      /\ o.logs = k /\ o.times = eo.times
  BY <1>5, Counted, ChildFields
<1>7. eo' = o /\ ec' = ec
  <2>1. eo' = [eo EXCEPT !.logs = eo.logs + 1, !.pipe = eo.pipe \o Message(GenLevel, None, Content(0))]
    BY DEF ChildLog
  <2> QED BY <1>1, <1>2, <1>4, <1>5, <2>1 DEF ChildLog
<1>8. o \in Children
  <2>1. p \in Seq(EciPieces)
    BY <1>3, <1>4, Counted
  <2> QED BY <1>1, <1>6, <2>1, Counted, ChildFields, ChildMade
<1>9. EciTyped' /\ Awaiting' /\ Valued' /\ Asked'
  <2>1. EciTyped' /\ Awaiting'
    BY <1>7, <1>8, Counted DEF EciInv, EciTyped, Awaiting
  <2>2. Valued'
    BY <1>6, <1>7 DEF EciInv, Valued, Held
  <2>3. Asked'
    BY <1>6, <1>7 DEF EciInv, Asked
  <2> QED BY <2>1, <2>2, <2>3
<1>10. Piped'
  <2> SUFFICES ASSUME Held
               PROVE  \E r : /\ Reads(Fit(eo.said), Core(ec), p, r)
                             /\ r.parser.st = "init" /\ r.seen = Len(eo.said)
    BY <1>6, <1>7 DEF Piped, Held
  <2>1. PICK q : /\ Reads(Fit(eo.said), Core(ec), eo.pipe, q)
                 /\ q.parser.st = "init" /\ q.seen = Len(eo.said)
    BY DEF EciInv, Piped
  <2>2. q \in Fit(eo.said) /\ eo.pipe \in Seq(EciPieces) /\ eo.said \in Seq(Answers)
    <3>1. Len(eo.pipe) \in Nat /\ eo.pipe \in Seq(EciPieces) /\ eo.said \in Seq(Answers)
      BY Counted
    <3> QED BY <2>1, <3>1 DEF Reads
  <2>3. PICK r : /\ Reads(Fit(eo.said), q, l, r)
                 /\ r.parser.st = "init" /\ r.seen = Len(eo.said)
    BY <1>2, <2>1, <2>2, LogRead
  <2>4. Reads(Fit(eo.said), Core(ec), p, r)
    BY <1>3, <1>4, <2>1, <2>2, <2>3, ReadsOn
  <2> QED BY <2>3, <2>4
<1> QED BY <1>9, <1>10 DEF EciInv

\* The child ends.
LEMMA ChildEnds ==
  ASSUME EciInv, ChildEnd
  PROVE  EciInv'
<1>1. PICK o : o = [eo EXCEPT !.alive = FALSE, !.todo = <<>>]
  OBVIOUS
<1>2. /\ DOMAIN o = {"alive", "todo", "pipe", "said", "logs", "times"}
      /\ o = [x \in DOMAIN o |-> o[x]]
      /\ o.todo = <<>> /\ o.pipe = eo.pipe /\ o.said = eo.said
      /\ o.logs = eo.logs /\ o.times = eo.times
  BY <1>1, Counted, ChildFields
<1>3. o.alive \in BOOLEAN
  <2>1. o.alive = FALSE
    BY Zenon, <1>1, Counted, ChildFields
  <2> QED BY Zenon, <2>1
<1>4. o \in Children
  <2>1. o.todo \in Seq(Nat)
    BY <1>2
  <2> QED BY <1>2, <1>3, <2>1, Counted, ChildFields, ChildMade
<1>5. eo' = o /\ ec' = ec
  BY <1>1 DEF ChildEnd
<1>6. EciTyped' /\ Awaiting'
  BY <1>4, <1>5, Counted DEF EciInv, EciTyped, Awaiting
<1>7. Valued' /\ Piped'
  BY <1>2, <1>5 DEF EciInv, Valued, Piped, Held
<1>8. Asked'
  <2>1. PICK i \in Nat, j \in Nat, m \in Nat :
          i = Len(eo.said) /\ j = Len(eo.todo) /\ m = ec.sent /\ i + j <= m
    BY Counted
  <2>2. i + j <= m
    BY <2>1
  <2>3. i + 0 <= m
    BY <2>2
  <2>4. Len(o.todo) = 0 /\ Len(o.said) = i
    BY <1>2, <2>1
  <2> QED BY <1>5, <2>1, <2>3, <2>4 DEF Asked
<1> QED BY <1>6, <1>7, <1>8 DEF EciInv

\* Every step keeps the invariant.
LEMMA EciNextInv ==
  ASSUME PlainTypes, EciInv, [EciNext]_eciVars
  PROVE  EciInv'
<1>1. CASE EciStart
  BY <1>1, EciStarts
<1>2. CASE EciCommand
  BY <1>2, EciAsks
<1>3. CASE EciCleanup
  BY <1>3, EciCleansUp
<1>4. CASE EciRead
  BY <1>4, EciReadsOn
<1>5. CASE EciTimeout
  BY <1>5, EciTimesOut
<1>6. CASE EciHangUp
  BY <1>6, EciHangsUp
<1>7. CASE EciDrain
  BY <1>7, EciDrains
<1>8. CASE ChildAnswer
  BY <1>8, ChildAnswers
<1>9. CASE ChildLog
  BY <1>9, ChildLogs
<1>10. CASE ChildEnd
  BY <1>10, ChildEnds
<1>11. CASE UNCHANGED eciVars
  <2>1. ec' = ec /\ eo' = eo
    BY <1>11 DEF eciVars
  <2> QED BY <2>1 DEF EciInv, EciTyped, Awaiting, Asked, Piped, Valued, Held
<1> QED BY <1>1, <1>2, <1>3, <1>4, <1>5, <1>6, <1>7, <1>8, <1>9, <1>10, <1>11
        DEF EciNext, EciCaller, EciChild

\* The type invariant.
LEMMA ClientTypes == EciInv => EciTypeOK
<1> SUFFICES ASSUME EciInv PROVE EciTypeOK
  OBVIOUS
<1>1. ec \in EciHandles /\ eo \in Children
  BY Counted
<1> QED BY <1>1, HandleFields, ChildFields DEF EciTypeOK

\* The answer is that of the command just given.
LEMMA ClientAnswers == EciInv => AnswerCurrent
<1> SUFFICES ASSUME EciInv, ec.pc = "ready", ~ec.lost
             PROVE  /\ Len(eo.said) = ec.sent
                    /\ ec.type = eo.said[ec.sent].type
                    /\ ec.vals = [NoValues EXCEPT ![eo.said[ec.sent].type] = eo.said[ec.sent].content]
  BY DEF AnswerCurrent
<1>1. Held /\ ec.seen = ec.sent /\ ec.sent # 0
  BY DEF Held, EciInv, Awaiting
<1>2. Len(eo.said) = ec.sent
  <2>1. PICK i \in Nat, j \in Nat, m \in Nat :
          i = Len(eo.said) /\ j = Len(eo.todo) /\ m = ec.sent /\ i + j <= m
    BY Counted
  <2>2. m <= i
    BY <1>1, <2>1, Counted
  <2>3. i + j <= m
    BY <2>1
  <2>4. i = m
    BY <2>2, <2>3
  <2> QED BY <2>1, <2>4
<1>3. ec.type = eo.said[ec.sent].type
  <2>1. Core(ec) \in Fit(eo.said) /\ Core(ec).seen = ec.sent /\ Core(ec).type = ec.type
    BY <1>1, Counted, HandleFields
  <2> QED BY <1>1, <1>2, <2>1 DEF Fit
<1>4. ec.vals = ValuesOf(eo.said[ec.sent])
  BY <1>1 DEF EciInv, Valued
<1> QED BY <1>2, <1>3, <1>4 DEF ValuesOf

-----------------------------------------------------------------------------
\* The handle of the client library and its child keep their types, whatever the
\* child answers and logs and however its pieces are cut (eci_impl_update_state()).
THEOREM ClientTyped ==
  ASSUME PlainTypes PROVE EciSpec => []EciTypeOK
<1>1. EciInit => EciInv
  BY EciInitInv
<1>2. EciInv /\ [EciNext]_eciVars => EciInv'
  BY EciNextInv
<1>3. EciInv => EciTypeOK
  BY ClientTypes
<1> QED BY <1>1, <1>2, <1>3, PTL DEF EciSpec

\* After a command of the application the last type and value are those of the
\* answer to it, unless the connection is reported to be out of step, for any
\* number of commands, logs, time-outs and reads.
THEOREM ClientAlwaysCurrent ==
  ASSUME PlainTypes PROVE EciSpec => []AnswerCurrent
<1>1. EciInit => EciInv
  BY EciInitInv
<1>2. EciInv /\ [EciNext]_eciVars => EciInv'
  BY EciNextInv
<1>3. EciInv => AnswerCurrent
  BY ClientAnswers
<1> QED BY <1>1, <1>2, <1>3, PTL DEF EciSpec

-----------------------------------------------------------------------------
(***************************************************************************)
(* The parts together: each of the invariants is kept by the steps of its  *)
(* own part and by those of the others, which leave its variables alone.   *)
(***************************************************************************)
\* What holds of the parts whose answers are compared.
AnswersInv(S) == NetInv(S) /\ EciInv /\ Upheld

\* Every part begins in its own first state.
LEMMA InitAnswers ==
  ASSUME NEW CONSTANT S, Buffers(S), Init
  PROVE  AnswersInv(S)
<1>1. NetInit /\ EciInit /\ FeInit
  BY DEF Init
<1>2. NetInv(S)
  BY <1>1, NetInitInv, NetAssumption
<1>3. EciInv
  BY <1>1, EciInitInv
<1>4. Upheld
  BY <1>1, Begins DEF Upheld, FeInv, FeTyped, Programs
<1> QED BY <1>2, <1>3, <1>4 DEF AnswersInv

\* A step is one part's.
LEMMA NextAnswers ==
  ASSUME NEW CONSTANT S, Buffers(S), PlainLines, ~NetAfterQuit, PlainTypes,
         WholeAddresses, AnswersInv(S), [Next]_peerVars
  PROVE  AnswersInv(S)'
<1>1. /\ [NetNext]_netVars
      /\ [EciNext]_eciVars
      /\ [FeNext]_fe
  BY DEF Next, peerVars, OfJack, OfProgram
<1>2. NetInv(S)'
  BY <1>1, NetNextInv, NetAssumption DEF AnswersInv
<1>3. EciInv'
  BY <1>1, EciNextInv DEF AnswersInv
<1>4. Upheld'
  BY <1>1, FeKeeps DEF AnswersInv
<1> QED BY <1>2, <1>3, <1>4 DEF AnswersInv

\* What holds of all parts.
PeersInv(S) == JackInv /\ MidiInv /\ AnswersInv(S)

\* Every part begins in its own first state.
LEMMA InitPeers ==
  ASSUME NEW CONSTANT S, Buffers(S), Init
  PROVE  PeersInv(S)
<1>1. JackInit /\ MidiInit
  BY DEF Init
<1> QED BY <1>1, InitJack, InitMidi, InitAnswers DEF PeersInv

\* A step is one part's.
LEMMA NextPeers ==
  ASSUME NEW CONSTANT S, Buffers(S), PlainLines, ~NetAfterQuit, PlainTypes,
         WholeAddresses, ActivatesAgain, MidiForeign = {}, PeersInv(S), [Next]_peerVars
  PROVE  PeersInv(S)'
<1>1. [JackNext]_jackVars /\ [MidiNext]_midiVars
  BY DEF Next, peerVars, OfJack, OfProgram
<1>2. JackInv'
  BY <1>1, NextJack DEF PeersInv
<1>3. MidiInv'
  BY <1>1, NextMidi DEF PeersInv
<1>4. AnswersInv(S)'
  BY NextAnswers DEF PeersInv
<1> QED BY <1>2, <1>3, <1>4 DEF PeersInv

(* Whoever sends commands gets the answers that belong to them, from the   *)
(* network server (handle_client_messages(), parse_raw_incoming_data())    *)
(* and through the library (eci_impl_read_return_value()); and the program *)
(* ends as its exit code says: for any number of clients, lines, buffers,  *)
(* commands and log messages, any way to start the program and to ask it   *)
(* to end, and answers that go out in any number of parts.  A line has no  *)
(* end of line inside, none follows quit, and an address is whole.         *)
THEOREM AnswersAlwaysMatch ==
  ASSUME NEW CONSTANT S, Buffers(S), PlainLines, ~NetAfterQuit, PlainTypes,
         WholeAddresses
  PROVE  Spec => []AnswersMatch
<1>1. Init => AnswersInv(S)
  BY InitAnswers
<1>2. AnswersInv(S) /\ [Next]_peerVars => AnswersInv(S)'
  BY NextAnswers
<1>3. AnswersInv(S) => AnswersMatch
  <2>1. NetInv(S) => SessionExact
    BY SessionKept
  <2> QED BY <2>1, ClientAnswers, UpheldSound DEF AnswersInv, AnswersMatch
<1> QED BY <1>1, <1>2, <1>3, PTL DEF Spec

(* The types of all parts, with the bounds that the code gives their        *)
(* numbers: the seek-ahead of the driver, the parser's controllers, the     *)
(* buffer of a connection, which never holds more than it has room for, the *)
(* bytes of an answer and the fields of the program.                        *)
THEOREM PeersTyped ==
  ASSUME NEW CONSTANT S, Buffers(S), PlainLines, ~NetAfterQuit, PlainTypes,
         WholeAddresses, ActivatesAgain, MidiForeign = {}
  PROVE  Spec => []TypeOK
<1>1. Init => PeersInv(S)
  BY InitPeers
<1>2. PeersInv(S) /\ [Next]_peerVars => PeersInv(S)'
  BY NextPeers
<1>3. PeersInv(S) => TypeOK
  <2>1. NetInv(S) => NetTypeOK
    BY ServerTypes
  <2> QED BY <2>1, JackTypes, MidiTypes, ClientTypes, UpheldSound DEF PeersInv, AnswersInv, TypeOK
<1> QED BY <1>1, <1>2, <1>3, PTL DEF Spec

=============================================================================
