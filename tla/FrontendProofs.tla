---------------------------- MODULE FrontendProofs ----------------------------
(***************************************************************************)
(* Proofs about module Frontend.                                           *)
(***************************************************************************)
EXTENDS Frontend, SequenceTheorems, TLAPS

(* A message is an address of seven parts, or none that has "param".       *)
WholeAddresses ==
  \A p \in FePaths :
    p \in Seq(STRING) /\ p # <<>> /\ (Len(p) = 7 \/ \A i \in 1..Len(p) : p[i] # "param")

-----------------------------------------------------------------------------
(* The invariant.                                                          *)

Pcs == {"signals", "wait_alive", "objects", "launch", "commands", "loop", "ask", "read",
        "line", "check", "batch", "go", "ran", "poll", "exit", "join_server", "stop",
        "disconnect", "phase", "unblock", "join", "delete", "free", "gone", "killed"}
Queues == Seq({"start", "stop", "exit", "edit"})

Modes == {NoModes} \cup {ParseCommandLine(a) : a \in FeCommandLines \cup {<<>>}}
Edits == {NoEdit} \cup {OscEdit(p) : p \in FePaths}

Rets == 0..3
Engs == {"none", "starting", "idle", "running", "finished", "error", "over"}
Dogs == {"none", "new", "sigwait", "out", "request", "watch", "tested", "gone"}
Phases == {"none", "wait_for_wd", "one_thread", "done"}
Holders ==
  [by : {"nobody", "main", "net"},
   waits : {"not", "run", "keep", "started", "forever", "close", "reconnect", "stop"}]
Typeds == {"start", "stop", "run", "q", ""}
Endeds == {"no", "finished", "failed"}
Controls == {"none", "made", "deleted"}
Setups == {"none", "good"}
Nets == {"none", "up", "gone"}
Threads == {"main", "wd"}

Programs ==
  [args : FeCommandLines \cup {<<>>}, mode : Modes, pc : Pcs, ret : Rets,
   control : Controls, setup : Setups, conn : BOOLEAN, holds : Holders,
   engine : Engs, batch : BOOLEAN, queue : Queues, failed : BOOLEAN, ended : Endeds,
   net : Nets, served : Nat, osc : BOOLEAN, path : FePaths \cup {<<>>},
   edit : Edits, online : BOOLEAN, line : Typeds, typed : Nat, eof : BOOLEAN,
   exit : BOOLEAN, wd : Dogs, phase : Phases, woken : BOOLEAN, open : SUBSET Threads,
   pending : SUBSET FeKinds, ignored : BOOLEAN, sent : Seq(FeKinds), fault : {"none"}]

FeTyped == fe \in Programs

First  == {"signals", "wait_alive", "objects"}
Ending == {"exit", "join_server", "stop", "disconnect", "phase", "unblock", "join",
           "delete", "free", "gone"}

(* Who holds the lock, for what, and where main is meanwhile.              *)
HoldsMain(what, pcs) ==
  fe.holds = [by |-> "main", waits |-> what] => fe.pc \in pcs \cup {"killed"}
Locks ==
  /\ fe.holds.by = "nobody" <=> fe.holds.waits = "not"
  /\ fe.holds.by = "net" => fe.net = "up" /\ fe.holds.waits \in {"run", "started"}
  /\ HoldsMain("run", {"loop", "check", "ran"}) /\ HoldsMain("started", {"loop", "check", "ran"})
  /\ HoldsMain("keep", {"ran"}) /\ HoldsMain("forever", {"ran"})
  /\ HoldsMain("close", {"loop", "check", "phase"}) /\ HoldsMain("reconnect", {"go"})
  /\ HoldsMain("stop", {"disconnect"})

(* There is an engine only for what is connected, or while it is closed.   *)
Engines ==
  /\ fe.conn => fe.setup = "good"
  /\ fe.setup = "good" => fe.control # "none"
  /\ fe.engine # "none" => fe.conn \/ fe.holds.waits \in {"close", "reconnect"}
  /\ fe.engine # "none" => fe.setup = "good"
  /\ fe.engine = "none" => fe.queue = <<>>
  /\ fe.control = "deleted" => fe.pc \in {"free", "gone", "killed"}

(* How the end is reached, and the phases of the run state.                *)
Stages ==
  /\ EndsInOrder
  /\ fe.pc \in {"stop", "disconnect"} => fe.net # "up"
  /\ fe.net # "none" => fe.mode.net /\ fe.pc \notin First \cup {"launch"}
  /\ fe.net = "up" => fe.control = "made"
  /\ fe.osc => fe.mode.osc /\ fe.pc \notin First \cup {"launch"}
  /\ fe.pc \in First => fe.control = "none" /\ fe.ret = 0
  /\ fe.pc \in {"unblock", "join"} => fe.phase = "wait_for_wd"
  /\ fe.pc \in {"delete", "free"} => fe.phase = "one_thread"
  /\ fe.pc = "gone" => fe.phase = "done"
  /\ fe.pc \notin {"unblock", "join", "delete", "free", "gone", "killed"} => fe.phase = "none"

(* What has been returned so far.                                          *)
Codes ==
  /\ fe.pc \notin First \cup {"killed"} => (fe.ret = 1 <=> fe.control = "none")
  /\ fe.pc \in {"launch", "commands", "loop"} => fe.ret \in {0, 1}
  /\ fe.pc \in {"ask", "read", "line", "check", "batch", "go"} => fe.ret = 0
  /\ fe.pc = "ran" => fe.ret \in {0, 3}
  /\ fe.pc = "poll" => fe.ret \in {0, 2}
  /\ fe.pc \in {"ask", "read", "line", "check"} => fe.mode.chat
  /\ fe.pc \in {"batch", "go", "ran", "poll"} => ~fe.mode.chat
  /\ fe.pc = "poll" => Shared(fe.mode)
  /\ fe.mode.chat => fe.ret \in {0, 1}

(* Signals: every one that did something was sent.                         *)
One(b) == IF b THEN 1 ELSE 0
Signalled == fe.wd \in {"out", "request", "watch", "tested", "gone"} /\ ~fe.woken
Signals ==
  /\ fe.pc = "signals" => fe.wd = "none"
  /\ "main" \in fe.open => fe.phase # "none"
  /\ "wd" \in fe.open => fe.wd \in {"request", "watch", "tested"}
  /\ fe.wd = "tested" => fe.setup = "good" /\ fe.sent # <<>>
  /\ fe.woken => fe.phase # "none"
  /\ fe.pending \subseteq Range(fe.sent)
  /\ One("TERM" \in fe.pending) + One("INT" \in fe.pending) + One("HUP" \in fe.pending)
       + One(Signalled) + One(fe.ignored) <= Len(fe.sent)
  /\ InsistedOn
  /\ fe.pc \in First \cup {"launch", "commands", "loop", "batch", "go", "ran"} /\ fe.exit
       => fe.sent # <<>>

(* Batch mode without servers: what became of the processing.              *)
Solo == ~fe.mode.chat /\ ~Shared(fe.mode)
Course ==
  /\ \A i \in DOMAIN fe.queue :
       /\ fe.queue[i] \in {"start", "exit"}
       /\ fe.queue[i] = "start" => i = 1 /\ fe.engine \in {"starting", "idle"}
       /\ fe.queue[i] = "exit" => fe.sent # <<>>
  /\ fe.engine \in {"starting", "idle", "running"} => fe.ended = "no"
  /\ fe.engine = "finished" => fe.ended = "finished"
  /\ fe.engine = "error" => fe.ended = "failed"
  /\ fe.engine # "none"
  /\ fe.engine = "over" => fe.ended # "no" \/ fe.sent # <<>>
  /\ fe.failed => fe.ended = "failed"
  /\ fe.holds.waits \in {"started", "forever"} => fe.engine \notin {"starting", "idle"}
  /\ fe.holds # Nobody => fe.ret = 0
  /\ fe.holds = Nobody =>
       fe.engine \in {"finished", "error", "over"} /\ (fe.ret = 3 => fe.ended = "failed")
Outcome ==
  Solo =>
    /\ fe.pc = "go" /\ fe.holds = Nobody => fe.engine = "none" /\ fe.ended = "no"
    /\ fe.pc = "ran" => Course
    /\ fe.pc \in Ending =>
         /\ fe.engine \in {"finished", "error", "over", "none"}
         /\ fe.engine = "finished" => \A i \in DOMAIN fe.queue : fe.queue[i] = "exit"
         /\ fe.ret = 0 => fe.ended # "no" \/ fe.sent # <<>>
         /\ fe.ret = 2 => fe.ended = "no"
         /\ fe.ret = 3 => fe.ended = "failed"

FeInv == FeTyped /\ Locks /\ Engines /\ Stages /\ Codes /\ Signals /\ Outcome /\ OscExact

(* A thread that has followed a pointer to nothing ends the program there. *)
Upheld == IF fe.fault = "none" THEN FeInv ELSE FeTypeOK /\ ProgramSound

-----------------------------------------------------------------------------
(* What the invariant says, and what a fault leaves of it.                 *)

\* What the invariant says of the end of the program.
LEMMA Sound ==
  ASSUME FeInv
  PROVE  FeTypeOK /\ ProgramSound
<1>1. fe \in Programs
  BY DEF FeInv, FeTyped
<1>2. FeTypeOK
  <2>1. fe.engine \in Engs /\ fe.ret \in Rets /\ fe.conn \in BOOLEAN
        /\ fe.control \in Controls /\ fe.wd \in Dogs /\ fe.holds \in Holders
        /\ fe.queue \in Queues
    BY <1>1 DEF Programs
  <2>2. Range(fe.queue) \subseteq {"start", "stop", "exit", "edit"}
    BY <2>1 DEF Queues, Range
  <2> QED BY <2>1, <2>2 DEF FeTypeOK, Engs, Rets, Controls, Dogs, Holders
<1>3. ExitCodeTrue
  <2>1. ASSUME fe.pc = "gone"
        PROVE  /\ fe.ret = 1 <=> fe.control = "none"
               /\ fe.mode.chat => fe.ret \in {0, 1}
               /\ Solo => /\ fe.ret = 0 => fe.ended # "no" \/ fe.sent # <<>>
                          /\ fe.ret = 2 => fe.ended = "no"
                          /\ fe.ret = 3 => fe.ended = "failed"
    BY <2>1 DEF FeInv, Codes, First, Outcome, Ending
  <2> QED BY <2>1 DEF ExitCodeTrue, Solo
<1>4. NoneDangles
  BY <1>1 DEF Programs, NoneDangles
<1> QED BY <1>2, <1>3, <1>4 DEF FeInv, Stages, Signals, ProgramSound

\* A thread that follows a pointer to nothing, where NoneDangles has it.
LEMMA Faults ==
  ASSUME FeInv, NEW x \in {"main", "osc", "watchdog"}, NEW w \in {fe.wd, "watch"},
         x = "main" => fe.control = "none" /\ fe.mode.commands = "given",
         x = "osc" => fe.pc = "free",
         x = "watchdog" => fe.control = "made" /\ fe.sent # <<>>,
         w # fe.wd => fe.wd # "gone",
         fe' = [fe EXCEPT !.fault = x, !.wd = w]
  PROVE  Upheld'
<1>1. fe \in Programs /\ FeTypeOK /\ ProgramSound
  BY Sound DEF FeInv, FeTyped
<1>2. /\ fe'.fault = x /\ fe'.wd = w
      /\ fe'.mode = fe.mode /\ fe'.pc = fe.pc /\ fe'.ret = fe.ret
      /\ fe'.control = fe.control /\ fe'.conn = fe.conn /\ fe'.holds = fe.holds
      /\ fe'.engine = fe.engine /\ fe'.queue = fe.queue /\ fe'.ended = fe.ended
      /\ fe'.net = fe.net /\ fe'.path = fe.path /\ fe'.edit = fe.edit
      /\ fe'.online = fe.online /\ fe'.phase = fe.phase /\ fe'.sent = fe.sent
  BY <1>1 DEF Programs
<1>3. FeTypeOK'
  BY <1>1, <1>2 DEF FeTypeOK
<1>4. EndsInOrder'
  BY <1>1, <1>2 DEF ProgramSound, EndsInOrder
<1>5. InsistedOn' /\ OscExact'
  BY <1>1, <1>2 DEF ProgramSound, InsistedOn, OscExact
<1>6. ExitCodeTrue'
  BY <1>1, <1>2 DEF ProgramSound, ExitCodeTrue
<1>7. NoneDangles'
  BY <1>2 DEF NoneDangles
<1>8. fe'.fault # "none"
  BY <1>2
<1> QED BY <1>3, <1>4, <1>5, <1>6, <1>7, <1>8 DEF Upheld, ProgramSound

\* What keeps the invariant faults nobody.
LEMMA Unharmed ==
  ASSUME FeInv'
  PROVE  Upheld'
BY DEF FeInv, FeTyped, Programs, Upheld

-----------------------------------------------------------------------------
(* Sequences.                                                              *)

\* What is appended is at the end, and the rest is where it was.
LEMMA Appended ==
  ASSUME NEW S, NEW q \in Seq(S), NEW x \in S
  PROVE  /\ Append(q, x) \in Seq(S) /\ Append(q, x) # <<>>
         /\ Len(Append(q, x)) = Len(q) + 1
         /\ DOMAIN Append(q, x) = 1..Len(q) + 1 /\ DOMAIN q = 1..Len(q)
         /\ \A i \in 1..Len(q) : Append(q, x)[i] = q[i]
         /\ Append(q, x)[Len(q) + 1] = x
         /\ Range(Append(q, x)) = Range(q) \cup {x}
<1>1. /\ Append(q, x) \in Seq(S) /\ Append(q, x) # <<>>
      /\ Len(Append(q, x)) = Len(q) + 1
      /\ DOMAIN Append(q, x) = 1..Len(q) + 1 /\ DOMAIN q = 1..Len(q)
      /\ \A i \in 1..Len(q) : Append(q, x)[i] = q[i]
      /\ Append(q, x)[Len(q) + 1] = x
  OBVIOUS
<1>2. Len(q) \in Nat /\ Len(q) + 1 \in 1..Len(q) + 1 /\ 1..Len(q) \subseteq 1..Len(q) + 1
  OBVIOUS
<1>3. PICK a : a = Append(q, x)
  OBVIOUS
<1>4. Range(a) \subseteq Range(q) \cup {x}
  <2>1. \A i \in 1..Len(q) + 1 : i \in 1..Len(q) \/ i = Len(q) + 1
    OBVIOUS
  <2> QED BY <1>1, <1>3, <2>1 DEF Range
<1>5. Range(q) \cup {x} \subseteq Range(a)
  BY <1>1, <1>2, <1>3 DEF Range
<1> QED BY <1>1, <1>3, <1>4, <1>5

-----------------------------------------------------------------------------
(* The calls.                                                              *)

\* What a call, or a command, leaves alone.
Same(f, g) ==
  /\ g.args = f.args /\ g.mode = f.mode /\ g.pc = f.pc /\ g.ret = f.ret
  /\ g.control = f.control /\ g.setup = f.setup /\ g.net = f.net /\ g.served = f.served
  /\ g.osc = f.osc /\ g.path = f.path /\ g.edit = f.edit /\ g.online = f.online
  /\ g.line = f.line /\ g.typed = f.typed /\ g.eof = f.eof /\ g.exit = f.exit
  /\ g.wd = f.wd /\ g.phase = f.phase /\ g.woken = f.woken /\ g.open = f.open
  /\ g.pending = f.pending /\ g.ignored = f.ignored /\ g.sent = f.sent /\ g.fault = f.fault

\* The engine of what is connected, and of nothing else.
Linked(f) ==
  /\ f.conn => f.setup = "good"
  /\ f.engine # "none" => f.conn
  /\ f.engine = "none" => f.queue = <<>>

Commands == {"start", "stop", "exit", "edit"}

\* A command is queued behind the others, or not at all.
LEMMA QueueGrows ==
  ASSUME NEW f \in Programs, NEW c \in Commands
  PROVE  \E q \in Queues :
           /\ Queued(f, c) = [f EXCEPT !.queue = q]
           /\ q \in {f.queue, Append(f.queue, c)}
           /\ f.engine \in {"none", "over"} => q = f.queue
<1>1. f.queue \in Queues /\ Append(f.queue, c) \in Queues
  BY DEF Programs, Queues, Commands
<1>2. [f EXCEPT !.queue = f.queue] = f
  BY DEF Programs
<1>3. CASE f.engine \in {"none", "over"}
  BY <1>1, <1>2, <1>3 DEF Queued
<1>4. CASE f.engine \notin {"none", "over"}
  BY <1>1, <1>4 DEF Queued
<1> QED BY <1>3, <1>4

\* What queueing leaves alone.
LEMMA QueuedOnly ==
  ASSUME NEW f \in Programs, NEW c \in Commands
  PROVE  LET g == Queued(f, c) IN
         /\ g \in Programs /\ Same(f, g) /\ (Linked(f) => Linked(g))
         /\ g.conn = f.conn /\ g.holds = f.holds /\ g.engine = f.engine
         /\ g.batch = f.batch /\ g.failed = f.failed /\ g.ended = f.ended
         /\ g.queue \in {f.queue, Append(f.queue, c)}
<1>1. PICK q \in Queues : /\ Queued(f, c) = [f EXCEPT !.queue = q]
                          /\ q \in {f.queue, Append(f.queue, c)}
                          /\ f.engine \in {"none", "over"} => q = f.queue
  BY QueueGrows
<1>2. PICK g : g = [f EXCEPT !.queue = q]
  OBVIOUS
<1>3. [f EXCEPT !.queue = q] \in Programs
  BY DEF Programs
<1>4. Same(f, g)
  BY <1>2 DEF Programs, Same
<1>5. /\ g.conn = f.conn /\ g.holds = f.holds /\ g.engine = f.engine
      /\ g.batch = f.batch /\ g.failed = f.failed /\ g.ended = f.ended /\ g.queue = q
  BY <1>2 DEF Programs
<1>6. Linked(f) => Linked(g)
  BY <1>1, <1>4, <1>5 DEF Linked, Same
<1> QED BY <1>1, <1>2, <1>3, <1>4, <1>5, <1>6

\* A new engine.
LEMMA CreatedOnly ==
  ASSUME NEW f \in Programs, NEW batch \in BOOLEAN
  PROVE  LET g == Created(f, batch) IN
         /\ g \in Programs /\ Same(f, g) /\ (f.conn /\ f.setup = "good" => Linked(g))
         /\ g.conn = f.conn /\ g.holds = f.holds /\ g.engine = "starting"
         /\ g.queue = <<>> /\ g.failed = FALSE /\ g.ended = "no"
<1>1. PICK g : g = Created(f, batch)
  OBVIOUS
<1>2. <<>> \in Queues /\ "starting" \in Engs /\ "no" \in Endeds
  BY DEF Queues, Engs, Endeds
<1>3. Created(f, batch) \in Programs
  BY <1>2 DEF Programs, Created
<1>4. Same(f, g)
  BY <1>1 DEF Programs, Same, Created
<1>5. /\ g.conn = f.conn /\ g.holds = f.holds /\ g.engine = "starting"
      /\ g.queue = <<>> /\ g.failed = FALSE /\ g.ended = "no"
  BY <1>1 DEF Programs, Created
<1>6. f.conn /\ f.setup = "good" => Linked(g)
  BY <1>4, <1>5 DEF Linked, Same
<1> QED BY <1>1, <1>3, <1>4, <1>5, <1>6

\* Connecting what is there, or failing to.
LEMMA ConnectedOnly ==
  ASSUME NEW f \in Programs, NEW ok \in BOOLEAN
  PROVE  LET g == Connected(f, ok) IN
         /\ g \in Programs /\ Same(f, g) /\ (Linked(f) => Linked(g))
         /\ g.holds = f.holds /\ g.engine = f.engine /\ g.queue = f.queue
         /\ g.batch = f.batch /\ g.failed = f.failed /\ g.ended = f.ended
         /\ g.conn => f.conn \/ f.setup = "good"
         /\ f.conn => g.conn
<1>1. CASE f.setup = "good" /\ ok
  <2>1. PICK g : g = [f EXCEPT !.conn = TRUE]
    OBVIOUS
  <2>2. [f EXCEPT !.conn = TRUE] \in Programs
    BY DEF Programs
  <2>3. Same(f, g)
    BY <2>1 DEF Programs, Same
  <2>4. /\ g.holds = f.holds /\ g.engine = f.engine /\ g.queue = f.queue /\ g.conn
        /\ g.batch = f.batch /\ g.failed = f.failed /\ g.ended = f.ended
    BY <2>1 DEF Programs
  <2>5. Linked(f) => Linked(g)
    BY <1>1, <2>3, <2>4 DEF Linked, Same
  <2> QED BY <1>1, <2>1, <2>2, <2>3, <2>4, <2>5 DEF Connected
<1>2. CASE ~(f.setup = "good" /\ ok)
  BY <1>2 DEF Connected, Same
<1> QED BY <1>1, <1>2

\* A call that waits keeps the lock.
LEMMA WaitsOnly ==
  ASSUME NEW f \in Programs, NEW h \in Holders
  PROVE  LET g == Waits(f, h.by, h.waits) IN
         /\ g \in Programs /\ Same(f, g) /\ (Linked(f) => Linked(g))
         /\ g.conn = f.conn /\ g.holds = h /\ g.engine = f.engine
         /\ g.queue = f.queue /\ g.batch = f.batch /\ g.failed = f.failed /\ g.ended = f.ended
<1>1. [by |-> h.by, waits |-> h.waits] = h
  BY DEF Holders
<1>2. PICK g : g = [f EXCEPT !.holds = h]
  OBVIOUS
<1>3. [f EXCEPT !.holds = h] \in Programs
  BY DEF Programs
<1>4. Same(f, g)
  BY <1>2 DEF Programs, Same
<1>5. /\ g.conn = f.conn /\ g.holds = h /\ g.engine = f.engine
      /\ g.queue = f.queue /\ g.batch = f.batch /\ g.failed = f.failed /\ g.ended = f.ended
  BY <1>2 DEF Programs
<1>6. Linked(f) => Linked(g)
  BY <1>4, <1>5 DEF Linked, Same
<1> QED BY <1>1, <1>2, <1>3, <1>4, <1>5, <1>6 DEF Waits

\* What a command makes of the connection, the engine and the lock.
After(f, g) == g \in Programs /\ Same(f, g) /\ Linked(g)

LEMMA AfterTwo ==
  ASSUME NEW f, NEW g, NEW h, After(f, g), After(g, h)
  PROVE  After(f, h)
BY DEF After, Same

\* start(), with the engine created first.
LEMMA Starts ==
  ASSUME NEW f \in Programs, Linked(f)
  PROVE  After(f, Start(f)) /\ Start(f).holds = f.holds /\ Start(f).conn = f.conn
<1>1. After(f, f)
  BY DEF After, Same
<1>2. CASE ~f.conn \/ f.engine = "running"
  BY <1>1, <1>2 DEF Start
<1>3. CASE f.conn /\ f.engine # "running"
  <2>1. PICK e : e = IF f.engine = "none" THEN Created(f, FALSE) ELSE f
    OBVIOUS
  <2>2. e \in Programs /\ Same(f, e) /\ Linked(e) /\ e.holds = f.holds /\ e.conn = f.conn
    <3>1. CASE f.engine = "none"
      BY <1>3, <2>1, <3>1, CreatedOnly DEF Linked
    <3>2. CASE f.engine # "none"
      BY <1>1, <2>1, <3>2 DEF After
    <3> QED BY <3>1, <3>2
  <2>3. Start(f) = Queued(e, "start") /\ "start" \in Commands
    BY <1>3, <2>1 DEF Start, Commands
  <2>4. After(e, Start(f)) /\ Start(f).holds = e.holds /\ Start(f).conn = e.conn
    BY <2>2, <2>3, QueuedOnly DEF After
  <2> QED BY <2>2, <2>4, AfterTwo DEF After
<1> QED BY <1>2, <1>3

\* run() of what is connected: it waits.
LEMMA Runs ==
  ASSUME NEW f \in Programs, Linked(f), f.conn, NEW who \in {"main", "net"},
         NEW batch \in BOOLEAN
  PROVE  LET g == Run(f, who, batch) IN
         /\ After(f, g) /\ g.conn
         /\ g.holds = [by |-> who, waits |-> IF batch THEN "run" ELSE "keep"]
         /\ f.engine = "none" =>
              g.engine = "starting" /\ g.queue = <<"start">> /\ ~g.failed /\ g.ended = "no"
<1>1. PICK e : e = IF f.engine = "none" THEN Created(f, batch) ELSE f
  OBVIOUS
<1>2. /\ e \in Programs /\ Same(f, e) /\ Linked(e) /\ e.conn
      /\ f.engine = "none" =>
           e.engine = "starting" /\ e.queue = <<>> /\ ~e.failed /\ e.ended = "no"
  <2>1. CASE f.engine = "none"
    BY <1>1, <2>1, CreatedOnly DEF Linked
  <2>2. CASE f.engine # "none"
    BY <1>1, <2>2 DEF Same
  <2> QED BY <2>1, <2>2
<1>3. PICK q \in Queues :
        Queued(e, "start") = [e EXCEPT !.queue = q] /\ q \in {e.queue, Append(e.queue, "start")}
  BY <1>2, QueueGrows DEF Commands
<1>4. PICK d : d = Queued(e, "start")
  OBVIOUS
<1>5. "start" \in Commands
  BY DEF Commands
<1>6. /\ d \in Programs /\ Same(e, d) /\ Linked(d) /\ d.conn = e.conn
      /\ d.engine = e.engine /\ d.failed = e.failed /\ d.ended = e.ended
  BY <1>2, <1>4, <1>5, QueuedOnly
<1>7. f.engine = "none" => d.queue = <<"start">>
  <2>1. e \in Programs /\ (f.engine = "none" => d = [e EXCEPT !.queue = Append(e.queue, "start")])
    BY <1>2, <1>4 DEF Queued
  <2>2. Append(<<>>, "start") = <<"start">>
    OBVIOUS
  <2>3. f.engine = "none" => d.queue = Append(e.queue, "start")
    BY <2>1 DEF Programs
  <2> QED BY <1>2, <2>2, <2>3
<1>8. PICK h : h = [by |-> who, waits |-> IF batch THEN "run" ELSE "keep"]
  OBVIOUS
<1>9. h \in Holders /\ h.by = who /\ h.waits = IF batch THEN "run" ELSE "keep"
  BY <1>8 DEF Holders
<1>10. Run(f, who, batch) = Waits(d, h.by, h.waits)
  BY <1>1, <1>4, <1>9 DEF Run
<1>11. /\ Waits(d, h.by, h.waits) \in Programs /\ Same(d, Waits(d, h.by, h.waits))
       /\ Linked(Waits(d, h.by, h.waits))
       /\ Waits(d, h.by, h.waits).conn = d.conn /\ Waits(d, h.by, h.waits).holds = h
       /\ Waits(d, h.by, h.waits).engine = d.engine /\ Waits(d, h.by, h.waits).queue = d.queue
       /\ Waits(d, h.by, h.waits).failed = d.failed /\ Waits(d, h.by, h.waits).ended = d.ended
  BY <1>6, <1>9, WaitsOnly
<1>12. After(f, e) /\ After(e, d) /\ After(d, Run(f, who, batch))
  BY <1>2, <1>6, <1>10, <1>11 DEF After
<1>13. PICK g : g = Run(f, who, batch)
  OBVIOUS
<1>14. /\ g.conn = d.conn /\ g.holds = h /\ g.engine = d.engine
       /\ g.queue = d.queue /\ g.failed = d.failed /\ g.ended = d.ended
  BY <1>10, <1>11, <1>13
<1>15. After(f, g)
  BY <1>12, <1>13, AfterTwo
<1>16. f.engine = "none" =>
         g.engine = "starting" /\ g.queue = <<"start">> /\ ~g.failed /\ g.ended = "no"
  BY <1>2, <1>6, <1>7, <1>14
<1>17. /\ After(f, g) /\ g.conn
       /\ g.holds = [by |-> who, waits |-> IF batch THEN "run" ELSE "keep"]
  BY <1>2, <1>6, <1>8, <1>14, <1>15
<1> QED BY <1>13, <1>16, <1>17

\* close_engine(), if there is one: it waits.
LEMMA Closes ==
  ASSUME NEW f \in Programs, NEW what \in {"close", "reconnect"}
  PROVE  LET g == CloseEngine(f, "main", what) IN
         /\ g \in Programs /\ Same(f, g) /\ (Linked(f) => Linked(g))
         /\ g.conn = f.conn /\ g.engine = f.engine /\ g.ended = f.ended
         /\ g.queue \in {f.queue, Append(f.queue, "exit")}
         /\ f.engine = "none" => g = f
         /\ f.engine # "none" => g.holds = [by |-> "main", waits |-> what]
<1>1. CASE f.engine = "none"
  BY <1>1 DEF CloseEngine, Same
<1>2. CASE f.engine # "none"
  <2>1. PICK d : d = Queued(f, "exit")
    OBVIOUS
  <2>2. "exit" \in Commands
    BY DEF Commands
  <2>3. /\ d \in Programs /\ Same(f, d) /\ (Linked(f) => Linked(d))
        /\ d.conn = f.conn /\ d.engine = f.engine /\ d.ended = f.ended
        /\ d.queue \in {f.queue, Append(f.queue, "exit")}
    BY <2>1, <2>2, QueuedOnly
  <2>4. PICK h : h = [by |-> "main", waits |-> what]
    OBVIOUS
  <2>5. h \in Holders /\ h.by = "main" /\ h.waits = what
    BY <2>4 DEF Holders
  <2>6. PICK g : g = Waits(d, h.by, h.waits)
    OBVIOUS
  <2>7. /\ g \in Programs /\ Same(d, g) /\ (Linked(d) => Linked(g)) /\ g.conn = d.conn
        /\ g.holds = h /\ g.engine = d.engine /\ g.queue = d.queue /\ g.ended = d.ended
    BY <2>3, <2>5, <2>6, WaitsOnly
  <2>8. CloseEngine(f, "main", what) = g
    BY <1>2, <2>1, <2>5, <2>6 DEF CloseEngine
  <2>9. Same(f, g)
    BY <2>3, <2>7 DEF Same
  <2> QED BY <1>2, <2>3, <2>4, <2>7, <2>8, <2>9
<1> QED BY <1>1, <1>2

\* command(), of main or of the network server, which sends no "q".
LEMMA CommandDone ==
  ASSUME NEW f \in Programs, Linked(f), f.holds = Nobody,
         NEW who \in {"main", "net"}, NEW c \in {"start", "stop", "run", "q"},
         c = "q" => who = "main", NEW ok \in BOOLEAN
  PROVE  LET g == Commanded(f, who, c, ok) IN
         /\ After(f, g)
         /\ \/ g.holds = Nobody
            \/ g.holds = [by |-> who, waits |-> "run"]
            \/ g.holds = [by |-> "main", waits |-> "close"] /\ who = "main"
<1>1. After(f, f)
  BY DEF After, Same
<1>2. PICK g : g = IF f.conn THEN f ELSE Connected(f, ok)
  OBVIOUS
<1>3. After(f, g) /\ g.holds = Nobody
  BY <1>1, <1>2, ConnectedOnly DEF After
<1>4. CASE c = "start"
  <2>1. Commanded(f, who, c, ok) = Start(g)
    BY <1>2, <1>4 DEF Commanded
  <2> QED BY <1>3, <2>1, Starts, AfterTwo DEF After
<1>5. CASE c = "stop"
  <2>1. Commanded(f, who, c, ok) = Queued(f, "stop") /\ "stop" \in Commands
    BY <1>5 DEF Commanded, Commands
  <2> QED BY <2>1, QueuedOnly DEF After
<1>6. CASE c = "run"
  <2>1. Commanded(f, who, c, ok) = IF g.conn THEN Run(g, who, TRUE) ELSE g
    BY <1>2, <1>6 DEF Commanded
  <2>2. CASE g.conn
    <3>1. /\ After(g, Run(g, who, TRUE))
          /\ Run(g, who, TRUE).holds = [by |-> who, waits |-> "run"]
      <4>1. g \in Programs /\ Linked(g)
        BY <1>3 DEF After
      <4>2. TRUE \in BOOLEAN
        OBVIOUS
      <4>3. /\ After(g, Run(g, who, TRUE))
            /\ Run(g, who, TRUE).holds = [by |-> who, waits |-> IF TRUE THEN "run" ELSE "keep"]
        BY ONLY <2>2, <4>1, <4>2, who \in {"main", "net"}, Runs
      <4> QED BY <4>3
    <3> QED BY <1>3, <2>1, <2>2, <3>1, AfterTwo
  <2>3. CASE ~g.conn
    BY <1>3, <2>1, <2>3
  <2> QED BY <2>2, <2>3
<1>7. CASE c = "q"
  <2>1. Commanded(f, who, c, ok) = CloseEngine(f, "main", "close")
    BY <1>7 DEF Commanded
  <2> QED BY <1>7, <2>1, Closes DEF After
<1> QED BY <1>4, <1>5, <1>6, <1>7

-----------------------------------------------------------------------------
(* main(), where it calls nothing.                                         *)

\* The watchdog thread is made, or not.
LEMMA SetupSignalsKeeps ==
  ASSUME FeInv, Alive, SetupSignals
  PROVE  FeInv'
<1>1. fe \in Programs
  BY DEF FeInv, FeTyped
<1>2. PICK wd \in {"new", "none"} :
        /\ fe.pc = "signals" /\ fe.holds.by # "main"
        /\ fe' = [fe EXCEPT !.wd = wd, !.pc = "wait_alive"]
  BY DEF SetupSignals, At
<1>3. [fe EXCEPT !.wd = wd, !.pc = "wait_alive"] \in Programs
  BY <1>1, <1>2 DEF Programs, Dogs, Pcs
<1>4. FeTyped'
  BY <1>1, <1>2, <1>3 DEF FeTyped
<1>5. Locks'
  BY <1>1, <1>2 DEF FeInv, Programs, Locks, HoldsMain
<1>6. Engines'
  BY <1>1, <1>2 DEF FeInv, Programs, Engines
<1>7. Stages'
  BY <1>1, <1>2 DEF FeInv, Programs, Stages, EndsInOrder, First
<1>8. Codes'
  BY <1>1, <1>2 DEF FeInv, Programs, Codes, First
<1>9. Signals'
  BY <1>1, <1>2 DEF FeInv, Programs, Signals, Signalled, InsistedOn, First
<1>10. Outcome'
  BY <1>1, <1>2 DEF FeInv, Programs, Outcome, Course, Solo, Ending, Shared
<1>11. OscExact'
  BY <1>1, <1>2 DEF FeInv, Programs, OscExact
<1> QED BY <1>4, <1>5, <1>6, <1>7, <1>8, <1>9, <1>10, <1>11 DEF FeInv

\* The command line is read.
LEMMA WaitAliveKeeps ==
  ASSUME FeInv, Alive, WaitAlive
  PROVE  FeInv'
<1>1. fe \in Programs
  BY DEF FeInv, FeTyped
<1>2. PICK m, r, p :
        /\ fe.pc = "wait_alive" /\ fe.holds.by # "main" /\ fe.wd \notin {"none", "new"}
        /\ m = ParseCommandLine(fe.args)
        /\ (r = 1 /\ p = "exit") \/ (r = 0 /\ p = "objects")
        /\ fe' = [fe EXCEPT !.args = <<>>, !.mode = m, !.ret = r, !.pc = p]
  BY DEF WaitAlive, At
<1>3. <<>> \in FeCommandLines \cup {<<>>} /\ m \in Modes /\ r \in Rets /\ p \in Pcs
  BY <1>1, <1>2 DEF Modes, Rets, Pcs, Programs
<1>4. [fe EXCEPT !.args = <<>>, !.mode = m, !.ret = r, !.pc = p] \in Programs
  BY <1>1, <1>3 DEF Programs
<1>5. fe.engine = "none" /\ fe.ret = 0
  BY <1>1, <1>2 DEF FeInv, Programs, Stages, Engines, Locks, HoldsMain, Holders, First
<1>6. FeTyped'
  BY <1>1, <1>2, <1>4 DEF FeTyped
<1>7. Locks'
  BY <1>1, <1>2 DEF FeInv, Programs, Locks, HoldsMain
<1>8. Engines'
  BY <1>1, <1>2 DEF FeInv, Programs, Engines
<1>9. Stages'
  BY <1>1, <1>2 DEF FeInv, Programs, Stages, EndsInOrder, First
<1>10. Codes'
  BY <1>1, <1>2 DEF FeInv, Programs, Codes, First, Stages
<1>11. Signals'
  BY <1>1, <1>2 DEF FeInv, Programs, Signals, Signalled, InsistedOn, First
<1>12. Outcome'
  BY <1>1, <1>2, <1>5 DEF FeInv, Programs, Outcome, Course, Solo, Ending, Shared
<1>13. OscExact'
  BY <1>1, <1>2 DEF FeInv, Programs, OscExact
<1> QED BY <1>6, <1>7, <1>8, <1>9, <1>10, <1>11, <1>12, <1>13 DEF FeInv

\* The control object and its first chainsetup are made, or not.
LEMMA CreateKeeps ==
  ASSUME FeInv, Alive, CreateEcaObjects
  PROVE  FeInv'
<1>1. fe \in Programs
  BY DEF FeInv, FeTyped
<1>2. ASSUME fe.pc = "objects", fe.holds.by # "main",
              fe' = [fe EXCEPT !.ret = 1, !.pc = "launch"]
      PROVE  FeInv'
  <2>1. 1 \in Rets /\ "launch" \in Pcs
    BY <1>1, <1>2 DEF Rets, Pcs
  <2>2. [fe EXCEPT !.ret = 1, !.pc = "launch"] \in Programs
    BY <1>1, <2>1 DEF Programs
  <2>3. FeTyped'
    BY <1>1, <1>2, <2>2 DEF FeTyped
  <2>4. Locks'
    BY <1>1, <1>2 DEF FeInv, Programs, Locks, HoldsMain
  <2>5. Engines'
    BY <1>1, <1>2 DEF FeInv, Programs, Engines
  <2>6. Stages'
    BY <1>1, <1>2 DEF FeInv, Programs, Stages, EndsInOrder, First
  <2>7. Codes'
    BY <1>1, <1>2 DEF FeInv, Programs, Codes, First, Stages
  <2>8. Signals'
    BY <1>1, <1>2 DEF FeInv, Programs, Signals, Signalled, InsistedOn, First
  <2>9. Outcome'
    BY <1>1, <1>2 DEF FeInv, Programs, Outcome, Course, Solo, Ending, Shared
  <2>10. OscExact'
    BY <1>1, <1>2 DEF FeInv, Programs, OscExact
  <2> QED BY <2>3, <2>4, <2>5, <2>6, <2>7, <2>8, <2>9, <2>10 DEF FeInv
<1>3. ASSUME NEW setup \in Setups, fe.pc = "objects", fe.holds.by # "main",
              fe' = [fe EXCEPT !.control = "made", !.setup = setup, !.pc = "launch"]
      PROVE  FeInv'
  <2>1. [fe EXCEPT !.control = "made", !.setup = setup, !.pc = "launch"] \in Programs
    BY <1>1, <1>3 DEF Programs, Pcs, Controls
  <2>2. ~fe.conn /\ fe.engine = "none" /\ fe.wd # "tested" /\ fe.net # "up"
    BY <1>1, <1>3 DEF FeInv, Engines, Stages, First, Signals
  <2>3. FeTyped'
    BY <1>1, <1>3, <2>1 DEF FeTyped
  <2>4. Locks'
    BY <1>1, <1>3 DEF FeInv, Programs, Locks, HoldsMain
  <2>5. Engines'
    BY <1>1, <1>3, <2>2 DEF FeInv, Programs, Engines
  <2>6. Stages'
    BY <1>1, <1>3, <2>2 DEF FeInv, Programs, Stages, EndsInOrder, First
  <2>7. Codes'
    BY <1>1, <1>3 DEF FeInv, Programs, Codes, First, Stages
  <2>8. Signals'
    BY <1>1, <1>3, <2>2 DEF FeInv, Programs, Signals, Signalled, InsistedOn, First
  <2>9. Outcome'
    BY <1>1, <1>3 DEF FeInv, Programs, Outcome, Course, Solo, Ending, Shared
  <2>10. OscExact'
    BY <1>1, <1>3 DEF FeInv, Programs, OscExact
  <2> QED BY <2>3, <2>4, <2>5, <2>6, <2>7, <2>8, <2>9, <2>10 DEF FeInv
<1> QED BY <1>2, <1>3 DEF CreateEcaObjects, At, Setups

\* The servers are started, or not.
LEMMA LaunchKeeps ==
  ASSUME FeInv, Alive, LaunchServers
  PROVE  FeInv'
<1>1. fe \in Programs
  BY DEF FeInv, FeTyped
<1>2. PICK net \in {"up", "none"}, osc \in BOOLEAN :
        /\ fe.pc = "launch" /\ fe.holds.by # "main"
        /\ net = "up" => fe.mode.net /\ fe.ret = 0
        /\ osc => fe.mode.osc
        /\ fe' = [fe EXCEPT !.net = net, !.osc = osc, !.pc = "commands"]
  BY DEF LaunchServers, At, Nets
<1>3. [fe EXCEPT !.net = net, !.osc = osc, !.pc = "commands"] \in Programs
  BY <1>1, <1>2 DEF Programs, Pcs, Nets
<1>0. fe.ret = 0 => fe.control = "made"
  BY <1>1, <1>2 DEF FeInv, Programs, Codes, Engines, First, Controls
<1>4. FeTyped'
  BY <1>1, <1>2, <1>3 DEF FeTyped
<1>5. Locks'
  BY <1>1, <1>2 DEF FeInv, Programs, Locks, HoldsMain, Stages
<1>6. Engines'
  BY <1>1, <1>2 DEF FeInv, Programs, Engines
<1>7. Stages'
  BY <1>1, <1>2, <1>0 DEF FeInv, Programs, Stages, EndsInOrder, First
<1>8. Codes'
  BY <1>1, <1>2 DEF FeInv, Programs, Codes, First
<1>9. Signals'
  BY <1>1, <1>2 DEF FeInv, Programs, Signals, Signalled, InsistedOn, First
<1>10. Outcome'
  BY <1>1, <1>2 DEF FeInv, Programs, Outcome, Course, Solo, Ending, Shared
<1>11. OscExact'
  BY <1>1, <1>2 DEF FeInv, Programs, OscExact
<1> QED BY <1>4, <1>5, <1>6, <1>7, <1>8, <1>9, <1>10, <1>11 DEF FeInv

\* Interactive or batch use, or neither.
LEMMA EnterLoopKeeps ==
  ASSUME FeInv, Alive, EnterLoop
  PROVE  FeInv'
<1>1. fe \in Programs
  BY DEF FeInv, FeTyped
<1>2. PICK p \in {"exit", "ask", "batch"} :
        /\ fe.pc = "loop" /\ fe.holds.by # "main"
        /\ p = "exit" => fe.ret # 0
        /\ p # "exit" => fe.ret = 0
        /\ p = "ask" => fe.mode.chat
        /\ p = "batch" => ~fe.mode.chat
        /\ fe' = [fe EXCEPT !.pc = p]
  BY DEF EnterLoop, At
<1>3. [fe EXCEPT !.pc = p] \in Programs
  BY <1>1, <1>2 DEF Programs, Pcs
<1>4. fe.ret # 0 => fe.engine = "none" /\ fe.ret = 1
  BY <1>1, <1>2 DEF FeInv, Programs, Codes, Engines, Locks, HoldsMain, Holders, First
<1>5. FeTyped'
  BY <1>1, <1>2, <1>3 DEF FeTyped
<1>6. Locks'
  BY <1>1, <1>2 DEF FeInv, Programs, Locks, HoldsMain
<1>7. Engines'
  BY <1>1, <1>2 DEF FeInv, Programs, Engines
<1>8. Stages'
  BY <1>1, <1>2 DEF FeInv, Programs, Stages, EndsInOrder, First
<1>9. Codes'
  BY <1>1, <1>2 DEF FeInv, Programs, Codes, First
<1>10. Signals'
  BY <1>1, <1>2 DEF FeInv, Programs, Signals, Signalled, InsistedOn, First
<1>11. Outcome'
  BY <1>1, <1>2, <1>4 DEF FeInv, Programs, Outcome, Course, Solo, Ending, Shared
<1>12. OscExact'
  BY <1>1, <1>2 DEF FeInv, Programs, OscExact
<1> QED BY <1>5, <1>6, <1>7, <1>8, <1>9, <1>10, <1>11, <1>12 DEF FeInv

\* The next line, unless it is asked to exit.
LEMMA AskKeeps ==
  ASSUME FeInv, Alive, Ask
  PROVE  FeInv'
<1>1. fe \in Programs
  BY DEF FeInv, FeTyped
<1>2. PICK p \in {"exit", "read"} :
        /\ fe.pc = "ask" /\ fe.holds.by # "main"
        /\ fe' = [fe EXCEPT !.pc = p]
  BY DEF Ask, At
<1>3. [fe EXCEPT !.pc = p] \in Programs
  BY <1>1, <1>2 DEF Programs, Pcs
<1>4. FeTyped'
  BY <1>1, <1>2, <1>3 DEF FeTyped
<1>5. Locks'
  BY <1>1, <1>2 DEF FeInv, Programs, Locks, HoldsMain
<1>6. Engines'
  BY <1>1, <1>2 DEF FeInv, Programs, Engines
<1>7. Stages'
  BY <1>1, <1>2 DEF FeInv, Programs, Stages, EndsInOrder, First
<1>8. Codes'
  BY <1>1, <1>2 DEF FeInv, Programs, Codes, First
<1>9. Signals'
  BY <1>1, <1>2 DEF FeInv, Programs, Signals, Signalled, InsistedOn, First
<1>10. Outcome'
  BY <1>1, <1>2 DEF FeInv, Programs, Outcome, Course, Solo, Ending, Shared, Codes
<1>11. OscExact'
  BY <1>1, <1>2 DEF FeInv, Programs, OscExact
<1> QED BY <1>4, <1>5, <1>6, <1>7, <1>8, <1>9, <1>10, <1>11 DEF FeInv

\* A line, or the end of the input.
LEMMA ReadKeeps ==
  ASSUME FeInv, Alive, ReadCommand
  PROVE  FeInv'
<1>1. fe \in Programs
  BY DEF FeInv, FeTyped
<1>2. ASSUME NEW l \in Typeds, fe.pc = "read", fe.holds.by # "main",
              fe' = [fe EXCEPT !.line = l, !.typed = @ + 1, !.pc = "line"]
      PROVE  FeInv'
  <2>1. fe.typed + 1 \in Nat /\ "line" \in Pcs
    BY <1>1, <1>2 DEF Programs, Pcs
  <2>2. [fe EXCEPT !.line = l, !.typed = @ + 1, !.pc = "line"] \in Programs
    BY <1>1, <2>1 DEF Programs
  <2>3. FeTyped'
    BY <1>1, <1>2, <2>2 DEF FeTyped
  <2>4. Locks'
    BY <1>1, <1>2 DEF FeInv, Programs, Locks, HoldsMain
  <2>5. Engines'
    BY <1>1, <1>2 DEF FeInv, Programs, Engines
  <2>6. Stages'
    BY <1>1, <1>2 DEF FeInv, Programs, Stages, EndsInOrder, First
  <2>7. Codes'
    BY <1>1, <1>2 DEF FeInv, Programs, Codes, First
  <2>8. Signals'
    BY <1>1, <1>2 DEF FeInv, Programs, Signals, Signalled, InsistedOn, First
  <2>9. Outcome'
    BY <1>1, <1>2 DEF FeInv, Programs, Outcome, Course, Solo, Ending, Shared
  <2>10. OscExact'
    BY <1>1, <1>2 DEF FeInv, Programs, OscExact
  <2> QED BY <2>3, <2>4, <2>5, <2>6, <2>7, <2>8, <2>9, <2>10 DEF FeInv
<1>3. ASSUME fe.pc = "read", fe.holds.by # "main",
              fe' = [fe EXCEPT !.line = "q", !.eof = TRUE, !.pc = "line"]
      PROVE  FeInv'
  <2>1. [fe EXCEPT !.line = "q", !.eof = TRUE, !.pc = "line"] \in Programs
    BY <1>1, <1>3 DEF Programs, Pcs, Typeds
  <2>2. FeTyped'
    BY <1>1, <1>3, <2>1 DEF FeTyped
  <2>3. Locks'
    BY <1>1, <1>3 DEF FeInv, Programs, Locks, HoldsMain
  <2>4. Engines'
    BY <1>1, <1>3 DEF FeInv, Programs, Engines
  <2>5. Stages'
    BY <1>1, <1>3 DEF FeInv, Programs, Stages, EndsInOrder, First
  <2>6. Codes'
    BY <1>1, <1>3 DEF FeInv, Programs, Codes, First
  <2>7. Signals'
    BY <1>1, <1>3 DEF FeInv, Programs, Signals, Signalled, InsistedOn, First
  <2>8. Outcome'
    BY <1>1, <1>3 DEF FeInv, Programs, Outcome, Course, Solo, Ending, Shared
  <2>9. OscExact'
    BY <1>1, <1>3 DEF FeInv, Programs, OscExact
  <2> QED BY <2>2, <2>3, <2>4, <2>5, <2>6, <2>7, <2>8, <2>9 DEF FeInv
<1> QED BY <1>2, <1>3, FeAssumption DEF ReadCommand, At, Typeds

\* Whether the line was "q".
LEMMA CheckKeeps ==
  ASSUME FeInv, Alive, CheckForQuit
  PROVE  FeInv'
<1>1. fe \in Programs
  BY DEF FeInv, FeTyped
<1>2. PICK b \in BOOLEAN :
        /\ fe.pc = "check" /\ fe.holds.by # "main"
        /\ fe' = [fe EXCEPT !.exit = b, !.line = "", !.pc = "ask"]
  BY DEF CheckForQuit, At
<1>3. [fe EXCEPT !.exit = b, !.line = "", !.pc = "ask"] \in Programs
  BY <1>1, <1>2 DEF Programs, Pcs, Typeds
<1>4. FeTyped'
  BY <1>1, <1>2, <1>3 DEF FeTyped
<1>5. Locks'
  BY <1>1, <1>2 DEF FeInv, Programs, Locks, HoldsMain
<1>6. Engines'
  BY <1>1, <1>2 DEF FeInv, Programs, Engines
<1>7. Stages'
  BY <1>1, <1>2 DEF FeInv, Programs, Stages, EndsInOrder, First
<1>8. Codes'
  BY <1>1, <1>2 DEF FeInv, Programs, Codes, First
<1>9. Signals'
  BY <1>1, <1>2 DEF FeInv, Programs, Signals, Signalled, InsistedOn, First
<1>10. Outcome'
  BY <1>1, <1>2 DEF FeInv, Programs, Outcome, Course, Solo, Ending, Shared
<1>11. OscExact'
  BY <1>1, <1>2 DEF FeInv, Programs, OscExact
<1> QED BY <1>4, <1>5, <1>6, <1>7, <1>8, <1>9, <1>10, <1>11 DEF FeInv

\* run() has returned.
LEMMA RanKeeps ==
  ASSUME FeInv, Alive, Ran
  PROVE  FeInv'
<1>1. fe \in Programs
  BY DEF FeInv, FeTyped
<1>2. /\ fe.pc = "ran" /\ fe.holds.by # "main"
      /\ fe' = [fe EXCEPT !.pc = "exit"]
  BY DEF Ran, At
<1>3. [fe EXCEPT !.pc = "exit"] \in Programs
  BY <1>1, <1>2 DEF Programs, Pcs
<1>4. FeTyped'
  BY <1>1, <1>2, <1>3 DEF FeTyped
<1>5. Locks'
  BY <1>1, <1>2 DEF FeInv, Programs, Locks, HoldsMain
<1>6. Engines'
  BY <1>1, <1>2 DEF FeInv, Programs, Engines
<1>7. Stages'
  BY <1>1, <1>2 DEF FeInv, Programs, Stages, EndsInOrder, First
<1>8. Codes'
  BY <1>1, <1>2 DEF FeInv, Programs, Codes, First
<1>9. Signals'
  BY <1>1, <1>2 DEF FeInv, Programs, Signals, Signalled, InsistedOn, First
<1>10. Outcome'
  BY <1>1, <1>2 DEF FeInv, Programs, Outcome, Course, Solo, Ending, Shared, Codes, Stages, Locks, Holders, Nobody
<1>11. OscExact'
  BY <1>1, <1>2 DEF FeInv, Programs, OscExact
<1> QED BY <1>4, <1>5, <1>6, <1>7, <1>8, <1>9, <1>10, <1>11 DEF FeInv

\* Processing has finished, or it is asked to exit.
LEMMA PollKeeps ==
  ASSUME FeInv, Alive, BatchPoll
  PROVE  FeInv'
<1>1. fe \in Programs
  BY DEF FeInv, FeTyped
<1>2. /\ fe.pc = "poll" /\ fe.holds.by # "main"
      /\ fe' = [fe EXCEPT !.exit = TRUE, !.pc = "exit"]
  BY DEF BatchPoll, At
<1>3. [fe EXCEPT !.exit = TRUE, !.pc = "exit"] \in Programs
  BY <1>1, <1>2 DEF Programs, Pcs
<1>4. FeTyped'
  BY <1>1, <1>2, <1>3 DEF FeTyped
<1>5. Locks'
  BY <1>1, <1>2 DEF FeInv, Programs, Locks, HoldsMain
<1>6. Engines'
  BY <1>1, <1>2 DEF FeInv, Programs, Engines
<1>7. Stages'
  BY <1>1, <1>2 DEF FeInv, Programs, Stages, EndsInOrder, First
<1>8. Codes'
  BY <1>1, <1>2 DEF FeInv, Programs, Codes, First
<1>9. Signals'
  BY <1>1, <1>2 DEF FeInv, Programs, Signals, Signalled, InsistedOn, First
<1>10. Outcome'
  BY <1>1, <1>2 DEF FeInv, Programs, Outcome, Course, Solo, Ending, Shared, Codes
<1>11. OscExact'
  BY <1>1, <1>2 DEF FeInv, Programs, OscExact
<1> QED BY <1>4, <1>5, <1>6, <1>7, <1>8, <1>9, <1>10, <1>11 DEF FeInv

\* The server is asked to leave.
LEMMA RequestExitKeeps ==
  ASSUME FeInv, Alive, RequestExit
  PROVE  FeInv'
<1>1. fe \in Programs
  BY DEF FeInv, FeTyped
<1>2. PICK b \in BOOLEAN :
        /\ fe.pc = "exit" /\ fe.holds.by # "main"
        /\ fe' = [fe EXCEPT !.exit = b, !.pc = "join_server"]
  BY DEF RequestExit, At
<1>3. [fe EXCEPT !.exit = b, !.pc = "join_server"] \in Programs
  BY <1>1, <1>2 DEF Programs, Pcs
<1>4. FeTyped'
  BY <1>1, <1>2, <1>3 DEF FeTyped
<1>5. Locks'
  BY <1>1, <1>2 DEF FeInv, Programs, Locks, HoldsMain
<1>6. Engines'
  BY <1>1, <1>2 DEF FeInv, Programs, Engines
<1>7. Stages'
  BY <1>1, <1>2 DEF FeInv, Programs, Stages, EndsInOrder, First
<1>8. Codes'
  BY <1>1, <1>2 DEF FeInv, Programs, Codes, First
<1>9. Signals'
  BY <1>1, <1>2 DEF FeInv, Programs, Signals, Signalled, InsistedOn, First
<1>10. Outcome'
  BY <1>1, <1>2 DEF FeInv, Programs, Outcome, Course, Solo, Ending, Shared
<1>11. OscExact'
  BY <1>1, <1>2 DEF FeInv, Programs, OscExact
<1> QED BY <1>4, <1>5, <1>6, <1>7, <1>8, <1>9, <1>10, <1>11 DEF FeInv

\* The server has left.
LEMMA JoinServerKeeps ==
  ASSUME FeInv, Alive, JoinServer
  PROVE  FeInv'
<1>1. fe \in Programs
  BY DEF FeInv, FeTyped
<1>2. /\ fe.pc = "join_server" /\ fe.holds.by # "main" /\ fe.net # "up"
      /\ fe' = [fe EXCEPT !.pc = "stop"]
  BY DEF JoinServer, At
<1>3. [fe EXCEPT !.pc = "stop"] \in Programs
  BY <1>1, <1>2 DEF Programs, Pcs
<1>4. FeTyped'
  BY <1>1, <1>2, <1>3 DEF FeTyped
<1>5. Locks'
  BY <1>1, <1>2 DEF FeInv, Programs, Locks, HoldsMain
<1>6. Engines'
  BY <1>1, <1>2 DEF FeInv, Programs, Engines
<1>7. Stages'
  BY <1>1, <1>2 DEF FeInv, Programs, Stages, EndsInOrder, First
<1>8. Codes'
  BY <1>1, <1>2 DEF FeInv, Programs, Codes, First
<1>9. Signals'
  BY <1>1, <1>2 DEF FeInv, Programs, Signals, Signalled, InsistedOn, First
<1>10. Outcome'
  BY <1>1, <1>2 DEF FeInv, Programs, Outcome, Course, Solo, Ending, Shared
<1>11. OscExact'
  BY <1>1, <1>2 DEF FeInv, Programs, OscExact
<1> QED BY <1>4, <1>5, <1>6, <1>7, <1>8, <1>9, <1>10, <1>11 DEF FeInv

\* The run state for the watchdog.
LEMMA EnterPhaseKeeps ==
  ASSUME FeInv, Alive, EnterPhase
  PROVE  FeInv'
<1>1. fe \in Programs
  BY DEF FeInv, FeTyped
<1>2. /\ fe.pc = "phase" /\ fe.holds.by # "main"
      /\ fe' = [fe EXCEPT !.phase = "wait_for_wd", !.pc = "unblock"]
  BY DEF EnterPhase, At
<1>3. [fe EXCEPT !.phase = "wait_for_wd", !.pc = "unblock"] \in Programs
  BY <1>1, <1>2 DEF Programs, Pcs, Phases
<1>4. FeTyped'
  BY <1>1, <1>2, <1>3 DEF FeTyped
<1>5. Locks'
  BY <1>1, <1>2 DEF FeInv, Programs, Locks, HoldsMain
<1>6. Engines'
  BY <1>1, <1>2 DEF FeInv, Programs, Engines
<1>7. Stages'
  BY <1>1, <1>2 DEF FeInv, Programs, Stages, EndsInOrder, First, Locks, Engines, Holders
<1>8. Codes'
  BY <1>1, <1>2 DEF FeInv, Programs, Codes, First
<1>9. Signals'
  BY <1>1, <1>2 DEF FeInv, Programs, Signals, Signalled, InsistedOn, First
<1>10. Outcome'
  BY <1>1, <1>2 DEF FeInv, Programs, Outcome, Course, Solo, Ending, Shared
<1>11. OscExact'
  BY <1>1, <1>2 DEF FeInv, Programs, OscExact
<1> QED BY <1>4, <1>5, <1>6, <1>7, <1>8, <1>9, <1>10, <1>11 DEF FeInv

\* The watchdog is woken, the signals are let in.
LEMMA UnblockMainKeeps ==
  ASSUME FeInv, Alive, UnblockMain
  PROVE  FeInv'
<1>1. fe \in Programs
  BY DEF FeInv, FeTyped
<1>2. /\ fe.pc = "unblock" /\ fe.holds.by # "main"
      /\ fe' = [fe EXCEPT !.woken = TRUE, !.open = @ \cup {"main"}, !.pc = "join"]
  BY DEF UnblockMain, At
<1>3. [fe EXCEPT !.woken = TRUE, !.open = @ \cup {"main"}, !.pc = "join"] \in Programs
  BY <1>1, <1>2 DEF Programs, Pcs, Threads
<1>4. FeTyped'
  BY <1>1, <1>2, <1>3 DEF FeTyped
<1>5. Locks'
  BY <1>1, <1>2 DEF FeInv, Programs, Locks, HoldsMain
<1>6. Engines'
  BY <1>1, <1>2 DEF FeInv, Programs, Engines
<1>7. Stages'
  BY <1>1, <1>2 DEF FeInv, Programs, Stages, EndsInOrder, First
<1>8. Codes'
  BY <1>1, <1>2 DEF FeInv, Programs, Codes, First
<1>9. Signals'
  BY <1>1, <1>2 DEF FeInv, Programs, Signals, Signalled, InsistedOn, First, Stages, One
<1>10. Outcome'
  BY <1>1, <1>2 DEF FeInv, Programs, Outcome, Course, Solo, Ending, Shared
<1>11. OscExact'
  BY <1>1, <1>2 DEF FeInv, Programs, OscExact
<1> QED BY <1>4, <1>5, <1>6, <1>7, <1>8, <1>9, <1>10, <1>11 DEF FeInv

\* The watchdog has ended.
LEMMA JoinWatchdogKeeps ==
  ASSUME FeInv, Alive, JoinWatchdog
  PROVE  FeInv'
<1>1. fe \in Programs
  BY DEF FeInv, FeTyped
<1>2. /\ fe.pc = "join" /\ fe.holds.by # "main" /\ fe.wd = "gone"
      /\ fe' = [fe EXCEPT !.phase = "one_thread", !.pc = "delete"]
  BY DEF JoinWatchdog, At
<1>3. [fe EXCEPT !.phase = "one_thread", !.pc = "delete"] \in Programs
  BY <1>1, <1>2 DEF Programs, Pcs, Phases
<1>4. FeTyped'
  BY <1>1, <1>2, <1>3 DEF FeTyped
<1>5. Locks'
  BY <1>1, <1>2 DEF FeInv, Programs, Locks, HoldsMain
<1>6. Engines'
  BY <1>1, <1>2 DEF FeInv, Programs, Engines
<1>7. Stages'
  BY <1>1, <1>2 DEF FeInv, Programs, Stages, EndsInOrder, First
<1>8. Codes'
  BY <1>1, <1>2 DEF FeInv, Programs, Codes, First
<1>9. Signals'
  BY <1>1, <1>2 DEF FeInv, Programs, Signals, Signalled, InsistedOn, First
<1>10. Outcome'
  BY <1>1, <1>2 DEF FeInv, Programs, Outcome, Course, Solo, Ending, Shared
<1>11. OscExact'
  BY <1>1, <1>2 DEF FeInv, Programs, OscExact
<1> QED BY <1>4, <1>5, <1>6, <1>7, <1>8, <1>9, <1>10, <1>11 DEF FeInv

\* The control object is deleted.
LEMMA DeleteKeeps ==
  ASSUME FeInv, Alive, DeleteControl
  PROVE  FeInv'
<1>1. fe \in Programs
  BY DEF FeInv, FeTyped
<1>2. PICK c \in Controls :
        /\ fe.pc = "delete" /\ fe.holds.by # "main"
        /\ (fe.control = "none" /\ c = "none") \/ (fe.control # "none" /\ c = "deleted")
        /\ fe' = [fe EXCEPT !.control = c, !.pc = "free"]
  BY <1>1 DEF DeleteControl, At, Programs, Controls
<1>3. [fe EXCEPT !.control = c, !.pc = "free"] \in Programs
  BY <1>1, <1>2 DEF Programs, Pcs
<1>4. FeTyped'
  BY <1>1, <1>2, <1>3 DEF FeTyped
<1>5. Locks'
  BY <1>1, <1>2 DEF FeInv, Programs, Locks, HoldsMain
<1>6. Engines'
  BY <1>1, <1>2 DEF FeInv, Programs, Engines, Controls
<1>7. Stages'
  BY <1>1, <1>2 DEF FeInv, Programs, Stages, EndsInOrder, First
<1>8. Codes'
  BY <1>1, <1>2 DEF FeInv, Programs, Codes, First, Controls
<1>9. Signals'
  BY <1>1, <1>2 DEF FeInv, Programs, Signals, Signalled, InsistedOn, First
<1>10. Outcome'
  BY <1>1, <1>2 DEF FeInv, Programs, Outcome, Course, Solo, Ending, Shared
<1>11. OscExact'
  BY <1>1, <1>2 DEF FeInv, Programs, OscExact
<1> QED BY <1>4, <1>5, <1>6, <1>7, <1>8, <1>9, <1>10, <1>11 DEF FeInv

\* The OSC server is stopped; main returns.
LEMMA FreeKeeps ==
  ASSUME FeInv, Alive, FreeState
  PROVE  FeInv'
<1>1. fe \in Programs
  BY DEF FeInv, FeTyped
<1>2. /\ fe.pc = "free" /\ fe.holds.by # "main"
      /\ fe' = [fe EXCEPT !.osc = FALSE, !.phase = "done", !.pc = "gone"]
  BY DEF FreeState, At
<1>3. [fe EXCEPT !.osc = FALSE, !.phase = "done", !.pc = "gone"] \in Programs
  BY <1>1, <1>2 DEF Programs, Pcs, Phases
<1>4. FeTyped'
  BY <1>1, <1>2, <1>3 DEF FeTyped
<1>5. Locks'
  BY <1>1, <1>2 DEF FeInv, Programs, Locks, HoldsMain
<1>6. Engines'
  BY <1>1, <1>2 DEF FeInv, Programs, Engines
<1>7. Stages'
  BY <1>1, <1>2 DEF FeInv, Programs, Stages, EndsInOrder, First
<1>8. Codes'
  BY <1>1, <1>2 DEF FeInv, Programs, Codes, First
<1>9. Signals'
  BY <1>1, <1>2 DEF FeInv, Programs, Signals, Signalled, InsistedOn, First
<1>10. Outcome'
  BY <1>1, <1>2 DEF FeInv, Programs, Outcome, Course, Solo, Ending, Shared
<1>11. OscExact'
  BY <1>1, <1>2 DEF FeInv, Programs, OscExact
<1> QED BY <1>4, <1>5, <1>6, <1>7, <1>8, <1>9, <1>10, <1>11 DEF FeInv

-----------------------------------------------------------------------------
(* The watchdog, the signals and the engine.                               *)

\* The watchdog is there.
LEMMA AnnounceKeeps ==
  ASSUME FeInv, Alive, AnnounceAlive
  PROVE  FeInv'
<1>1. fe \in Programs
  BY DEF FeInv, FeTyped
<1>2. /\ fe.wd = "new"
      /\ fe' = [fe EXCEPT !.wd = "sigwait"]
  BY DEF AnnounceAlive
<1>3. [fe EXCEPT !.wd = "sigwait"] \in Programs
  BY <1>1, <1>2 DEF Programs, Dogs
<1>4. FeTyped'
  BY <1>1, <1>2, <1>3 DEF FeTyped
<1>5. Locks'
  BY <1>1, <1>2 DEF FeInv, Programs, Locks, HoldsMain
<1>6. Engines'
  BY <1>1, <1>2 DEF FeInv, Programs, Engines
<1>7. Stages'
  BY <1>1, <1>2 DEF FeInv, Programs, Stages, EndsInOrder, First
<1>8. Codes'
  BY <1>1, <1>2 DEF FeInv, Programs, Codes, First
<1>9. Signals'
  BY <1>1, <1>2 DEF FeInv, Programs, Signals, Signalled, InsistedOn, First
<1>10. Outcome'
  BY <1>1, <1>2 DEF FeInv, Programs, Outcome, Course, Solo, Ending, Shared
<1>11. OscExact'
  BY <1>1, <1>2 DEF FeInv, Programs, OscExact
<1> QED BY <1>4, <1>5, <1>6, <1>7, <1>8, <1>9, <1>10, <1>11 DEF FeInv

\* A signal is taken, or main has woken the watchdog.
LEMMA SigWaitKeeps ==
  ASSUME FeInv, Alive, SigWait
  PROVE  FeInv'
<1>1. fe \in Programs
  BY DEF FeInv, FeTyped
<1>2. ASSUME fe.wd = "sigwait", fe.woken,
              fe' = [fe EXCEPT !.wd = "out"]
      PROVE  FeInv'
  <2>1. fe' = [fe EXCEPT !.wd = "out"]
    BY <1>2
  <2>2. [fe EXCEPT !.wd = "out"] \in Programs
    BY <1>1, <1>2 DEF Programs, Dogs
  <2>3. FeTyped'
    BY <2>1, <2>2 DEF FeTyped
  <2>4. Locks'
    BY <1>1, <2>1 DEF FeInv, Programs, Locks, HoldsMain
  <2>5. Engines'
    BY <1>1, <2>1 DEF FeInv, Programs, Engines
  <2>6. Stages'
    BY <1>1, <1>2 DEF FeInv, Programs, Stages, EndsInOrder, First
  <2>7. Codes'
    BY <1>1, <2>1 DEF FeInv, Programs, Codes, First
  <2>8. Signals'
    BY <1>1, <1>2 DEF FeInv, Programs, Signals, Signalled, InsistedOn, First
  <2>9. Outcome'
    BY <1>1, <2>1 DEF FeInv, Programs, Outcome, Course, Solo, Ending, Shared
  <2>10. OscExact'
    BY <1>1, <2>1 DEF FeInv, Programs, OscExact
  <2> QED BY <2>3, <2>4, <2>5, <2>6, <2>7, <2>8, <2>9, <2>10 DEF FeInv
<1>3. ASSUME NEW s \in fe.pending, fe.wd = "sigwait",
              fe' = [fe EXCEPT !.pending = @ \ {s}, !.wd = "out"]
      PROVE  FeInv'
  <2>1. fe' = [fe EXCEPT !.pending = @ \ {s}, !.wd = "out"]
    BY <1>3
  <2>2. fe.pending \ {s} \in SUBSET FeKinds /\ "out" \in Dogs
    BY <1>1, <1>3 DEF Programs, Dogs
  <2>3. [fe EXCEPT !.pending = @ \ {s}, !.wd = "out"] \in Programs
    BY <1>1, <2>2 DEF Programs
  <2>4. FeTyped'
    BY <2>1, <2>3 DEF FeTyped
  <2>5. Locks'
    BY <1>1, <2>1 DEF FeInv, Programs, Locks, HoldsMain
  <2>6. Engines'
    BY <1>1, <2>1 DEF FeInv, Programs, Engines
  <2>7. Stages'
    BY <1>1, <1>3 DEF FeInv, Programs, Stages, EndsInOrder, First
  <2>8. Codes'
    BY <1>1, <2>1 DEF FeInv, Programs, Codes, First
  <2>9. Signals'
    BY <1>1, <1>3, FeAssumption DEF FeInv, Programs, Signals, Signalled, InsistedOn, First, One
  <2>10. Outcome'
    BY <1>1, <2>1 DEF FeInv, Programs, Outcome, Course, Solo, Ending, Shared
  <2>11. OscExact'
    BY <1>1, <2>1 DEF FeInv, Programs, OscExact
  <2> QED BY <2>4, <2>5, <2>6, <2>7, <2>8, <2>9, <2>10, <2>11 DEF FeInv
<1> QED BY <1>2, <1>3 DEF SigWait

\* The watchdog lets signals in.
LEMMA UnblockKeeps ==
  ASSUME FeInv, Alive, UnblockWatchdog
  PROVE  FeInv'
<1>1. fe \in Programs
  BY DEF FeInv, FeTyped
<1>2. /\ fe.wd = "out"
      /\ fe' = [fe EXCEPT !.open = @ \cup {"wd"}, !.wd = "request"]
  BY DEF UnblockWatchdog
<1>3. [fe EXCEPT !.open = @ \cup {"wd"}, !.wd = "request"] \in Programs
  BY <1>1, <1>2 DEF Programs, Dogs, Threads
<1>4. FeTyped'
  BY <1>1, <1>2, <1>3 DEF FeTyped
<1>5. Locks'
  BY <1>1, <1>2 DEF FeInv, Programs, Locks, HoldsMain
<1>6. Engines'
  BY <1>1, <1>2 DEF FeInv, Programs, Engines
<1>7. Stages'
  BY <1>1, <1>2 DEF FeInv, Programs, Stages, EndsInOrder, First
<1>8. Codes'
  BY <1>1, <1>2 DEF FeInv, Programs, Codes, First
<1>9. Signals'
  BY <1>1, <1>2 DEF FeInv, Programs, Signals, Signalled, InsistedOn, First
<1>10. Outcome'
  BY <1>1, <1>2 DEF FeInv, Programs, Outcome, Course, Solo, Ending, Shared
<1>11. OscExact'
  BY <1>1, <1>2 DEF FeInv, Programs, OscExact
<1> QED BY <1>4, <1>5, <1>6, <1>7, <1>8, <1>9, <1>10, <1>11 DEF FeInv

\* The watchdog ends.
LEMMA LeaveWatchdogKeeps ==
  ASSUME FeInv, Alive, LeaveWatchdog
  PROVE  FeInv'
<1>1. fe \in Programs
  BY DEF FeInv, FeTyped
<1>2. /\ fe.wd = "watch" /\ fe.phase = "wait_for_wd"
      /\ fe' = [fe EXCEPT !.wd = "gone", !.open = @ \ {"wd"}]
  BY DEF LeaveWatchdog
<1>3. fe.open \ {"wd"} \in SUBSET Threads /\ "gone" \in Dogs
  BY <1>1, <1>2 DEF Programs, Dogs, Threads
<1>4. [fe EXCEPT !.wd = "gone", !.open = @ \ {"wd"}] \in Programs
  BY <1>1, <1>3 DEF Programs
<1>5. FeTyped'
  BY <1>1, <1>2, <1>4 DEF FeTyped
<1>6. Locks'
  BY <1>1, <1>2 DEF FeInv, Programs, Locks, HoldsMain
<1>7. Engines'
  BY <1>1, <1>2 DEF FeInv, Programs, Engines
<1>8. Stages'
  BY <1>1, <1>2 DEF FeInv, Programs, Stages, EndsInOrder, First
<1>9. Codes'
  BY <1>1, <1>2 DEF FeInv, Programs, Codes, First
<1>10. Signals'
  BY <1>1, <1>2 DEF FeInv, Programs, Signals, Signalled, InsistedOn, First
<1>11. Outcome'
  BY <1>1, <1>2 DEF FeInv, Programs, Outcome, Course, Solo, Ending, Shared
<1>12. OscExact'
  BY <1>1, <1>2 DEF FeInv, Programs, OscExact
<1> QED BY <1>5, <1>6, <1>7, <1>8, <1>9, <1>10, <1>11, <1>12 DEF FeInv

\* The watchdog requests the exit.
LEMMA RequestKeeps ==
  ASSUME FeInv, Alive, RequestByWatchdog
  PROVE  FeInv'
<1>1. fe \in Programs
  BY DEF FeInv, FeTyped
<1>2. PICK w \in {"tested", "watch"} :
        /\ fe.wd = "request" /\ (w = "tested" => fe.engine # "none")
        /\ fe' = [fe EXCEPT !.exit = TRUE, !.wd = w]
  BY DEF RequestByWatchdog, EngineReady
<1>3. [fe EXCEPT !.exit = TRUE, !.wd = w] \in Programs
  BY <1>1, <1>2 DEF Programs, Dogs
<1>4. ~fe.woken => fe.sent # <<>>
  BY <1>1, <1>2, FeAssumption DEF FeInv, Programs, Signals, Signalled, One
<1>5. fe.woken => fe.pc \in Ending /\ fe.pc \notin First /\ fe.engine = "none"
  BY <1>1, <1>2 DEF FeInv, Programs, Signals, Stages, EndsInOrder, Ending, Pcs, First, Alive
<1>6. fe.engine # "none" => fe.setup = "good"
  BY DEF FeInv, Engines
<1>7. FeTyped'
  BY <1>1, <1>2, <1>3 DEF FeTyped
<1>8. Locks'
  BY <1>1, <1>2 DEF FeInv, Programs, Locks, HoldsMain
<1>9. Engines'
  BY <1>1, <1>2 DEF FeInv, Programs, Engines
<1>10. Stages'
  BY <1>1, <1>2 DEF FeInv, Programs, Stages, EndsInOrder, First
<1>11. Codes'
  BY <1>1, <1>2 DEF FeInv, Programs, Codes, First
<1>12. Signals'
  BY <1>1, <1>2, <1>4, <1>5, <1>6 DEF FeInv, Programs, Signals, Signalled, InsistedOn, First, One, Ending
<1>13. Outcome'
  BY <1>1, <1>2 DEF FeInv, Programs, Outcome, Course, Solo, Ending, Shared
<1>14. OscExact'
  BY <1>1, <1>2 DEF FeInv, Programs, OscExact
<1> QED BY <1>7, <1>8, <1>9, <1>10, <1>11, <1>12, <1>13, <1>14 DEF FeInv

\* The watchdog finds an engine that was started in spite of the request.
LEMMA WatchKeeps ==
  ASSUME FeInv, Alive, Watch
  PROVE  FeInv'
<1>1. fe \in Programs
  BY DEF FeInv, FeTyped
<1>2. /\ fe.wd = "watch" /\ fe.engine # "none"
      /\ fe' = [fe EXCEPT !.wd = "tested"]
  BY DEF Watch, EngineReady
<1>3. [fe EXCEPT !.wd = "tested"] \in Programs
  BY <1>1, <1>2 DEF Programs, Dogs
<1>4. ~fe.woken => fe.sent # <<>>
  BY <1>1, <1>2, FeAssumption DEF FeInv, Programs, Signals, Signalled, One
<1>5. fe.woken => fe.pc \in Ending /\ fe.pc \notin First /\ fe.engine = "none"
  BY <1>1, <1>2 DEF FeInv, Programs, Signals, Stages, EndsInOrder, Ending, Pcs, First, Alive
<1>6. fe.engine # "none" => fe.setup = "good"
  BY DEF FeInv, Engines
<1>7. FeTyped'
  BY <1>1, <1>2, <1>3 DEF FeTyped
<1>8. Locks'
  BY <1>1, <1>2 DEF FeInv, Programs, Locks, HoldsMain
<1>9. Engines'
  BY <1>1, <1>2 DEF FeInv, Programs, Engines
<1>10. Stages'
  BY <1>1, <1>2 DEF FeInv, Programs, Stages, EndsInOrder, First
<1>11. Codes'
  BY <1>1, <1>2 DEF FeInv, Programs, Codes, First
<1>12. Signals'
  BY <1>1, <1>2, <1>4, <1>5, <1>6 DEF FeInv, Programs, Signals, Signalled, InsistedOn, First, One, Ending
<1>13. Outcome'
  BY <1>1, <1>2 DEF FeInv, Programs, Outcome, Course, Solo, Ending, Shared
<1>14. OscExact'
  BY <1>1, <1>2 DEF FeInv, Programs, OscExact
<1> QED BY <1>7, <1>8, <1>9, <1>10, <1>11, <1>12, <1>13, <1>14 DEF FeInv

\* It tells the engine, which may have been closed meanwhile.
LEMMA UseEngineKeeps ==
  ASSUME FeInv, Alive, UseEngine
  PROVE  Upheld'
<1>1. fe \in Programs /\ fe.wd = "tested" /\ fe.setup = "good" /\ fe.sent # <<>>
  BY DEF FeInv, FeTyped, UseEngine, Signals
<1>2. CASE fe.engine = "none"
  <2>1. fe' = [fe EXCEPT !.fault = "watchdog", !.wd = "watch"]
    <3>0. fe.queue = <<>> /\ Range(<<>>) = {}
      BY <1>2 DEF FeInv, Engines, Range
    <3>1. fe' = [[fe EXCEPT !.wd = "watch"] EXCEPT !.fault = "watchdog"]
      <4>1. ~("exit" \in Range(fe.queue))
        BY <3>0
      <4> QED BY <1>1, <1>2, <4>1 DEF UseEngine
    <3> QED BY <1>1, <3>1 DEF Programs
  <2>2. fe.control = "made"
    BY <1>1 DEF FeInv, Engines, Stages, EndsInOrder, Programs, Controls, Alive
  <2> QED BY <1>1, <2>1, <2>2, Faults
<1>3. ASSUME NEW q \in Queues, fe.engine # "none",
             q \in {fe.queue, Append(fe.queue, "exit")},
             fe' = [fe EXCEPT !.wd = "watch", !.queue = q]
      PROVE  FeInv'
  <2>1. [fe EXCEPT !.wd = "watch", !.queue = q] \in Programs
    BY <1>1, <1>3 DEF Programs, Dogs
  <2>2. \A i \in DOMAIN q : (i \in DOMAIN fe.queue /\ q[i] = fe.queue[i]) \/ q[i] = "exit"
    BY <1>1, <1>3, Appended DEF Programs, Queues
  <2>3. FeTyped'
    BY <1>1, <1>3, <2>1 DEF FeTyped
  <2>4. Locks'
    BY <1>1, <1>3 DEF FeInv, Programs, Locks, HoldsMain
  <2>5. Engines'
    BY <1>1, <1>3 DEF FeInv, Programs, Engines
  <2>6. Stages'
    BY <1>1, <1>3 DEF FeInv, Programs, Stages, EndsInOrder, First
  <2>7. Codes'
    BY <1>1, <1>3 DEF FeInv, Programs, Codes, First
  <2>8. Signals'
    BY <1>1, <1>3 DEF FeInv, Programs, Signals, Signalled, InsistedOn, First
  <2>9. Outcome'
    BY <1>1, <1>3, <2>2 DEF FeInv, Programs, Outcome, Course, Solo, Ending, Shared
  <2>10. OscExact'
    BY <1>1, <1>3 DEF FeInv, Programs, OscExact
  <2> QED BY <2>3, <2>4, <2>5, <2>6, <2>7, <2>8, <2>9, <2>10 DEF FeInv
<1>4. CASE fe.engine # "none"
  <2>1. PICK f : f = [fe EXCEPT !.wd = "watch"]
    OBVIOUS
  <2>2. [fe EXCEPT !.wd = "watch"] \in Programs
    BY <1>1 DEF Programs, Dogs
  <2>3. f \in Programs /\ f.queue = fe.queue /\ f.engine = fe.engine
    BY <1>1, <2>1, <2>2 DEF Programs
  <2>4. fe' \in {f, Queued(f, "exit")} /\ "exit" \in Commands
    BY <1>1, <1>4, <2>1 DEF UseEngine, Commands
  <2>5. PICK q \in Queues :
          fe' = [f EXCEPT !.queue = q] /\ q \in {fe.queue, Append(fe.queue, "exit")}
    <3>1. CASE fe' = f
      <4>1. f.queue \in Queues /\ f = [f EXCEPT !.queue = f.queue]
        BY <2>3 DEF Programs
      <4> QED BY <2>3, <3>1, <4>1
    <3>2. CASE fe' = Queued(f, "exit")
      BY <2>3, <2>4, <3>2, QueueGrows
    <3> QED BY <2>4, <3>1, <3>2
  <2>6. fe' = [fe EXCEPT !.wd = "watch", !.queue = q]
    BY <2>1, <2>5
  <2> QED BY <1>3, <1>4, <2>5, <2>6, Unharmed
<1> QED BY <1>2, <1>4

\* A signal arrives.
LEMMA SendKeeps ==
  ASSUME FeInv, Alive, SendSignal
  PROVE  FeInv'
<1>1. fe \in Programs
  BY DEF FeInv, FeTyped
<1>2. PICK s \in FeKinds :
        /\ fe.pc # "signals"
        /\ fe' = [fe EXCEPT !.sent = Append(@, s), !.pending = @ \cup {s}]
  BY DEF SendSignal
<1>3. Append(fe.sent, s) \in Seq(FeKinds) /\ fe.pending \cup {s} \in SUBSET FeKinds
  BY <1>1, <1>2 DEF Programs
<1>4. [fe EXCEPT !.sent = Append(@, s), !.pending = @ \cup {s}] \in Programs
  BY <1>1, <1>3 DEF Programs
<1>5. Range(Append(fe.sent, s)) = Range(fe.sent) \cup {s} /\ Append(fe.sent, s) # <<>>
  BY <1>1, Appended DEF Programs
<1>6. Len(Append(fe.sent, s)) = Len(fe.sent) + 1 /\ Len(fe.sent) \in Nat
  BY <1>1, <1>2 DEF Programs
<1>7. fe.pc # "killed"
  BY <1>1, <1>2 DEF Alive
<1>8. FeTyped'
  BY <1>1, <1>2, <1>4 DEF FeTyped
<1>9. Locks'
  BY <1>1, <1>2 DEF FeInv, Programs, Locks, HoldsMain
<1>10. Engines'
  BY <1>1, <1>2 DEF FeInv, Programs, Engines
<1>11. Stages'
  BY <1>1, <1>2 DEF FeInv, Programs, Stages, EndsInOrder, First
<1>12. Codes'
  BY <1>1, <1>2 DEF FeInv, Programs, Codes, First
<1>13. Signals'
  BY <1>1, <1>2, <1>5, <1>6, <1>7, FeAssumption DEF FeInv, Programs, Signals, Signalled, InsistedOn, First, One
<1>14. Outcome'
  BY <1>1, <1>2, <1>5 DEF FeInv, Programs, Outcome, Course, Solo, Ending, Shared
<1>15. OscExact'
  BY <1>1, <1>2 DEF FeInv, Programs, OscExact
<1> QED BY <1>8, <1>9, <1>10, <1>11, <1>12, <1>13, <1>14, <1>15 DEF FeInv

\* A signal is handled: by nothing, once ignored, or with the end of the program.
LEMMA HandlerKeeps ==
  ASSUME FeInv, Alive, SignalHandler
  PROVE  FeInv'
<1>1. fe \in Programs
  BY DEF FeInv, FeTyped
<1>2. ASSUME NEW s \in fe.pending, fe.open # {}, s # "HUP",
              fe' = [fe EXCEPT !.pending = @ \ {s}]
      PROVE  FeInv'
  <2>1. fe' = [fe EXCEPT !.pending = @ \ {s}]
    BY <1>2
  <2>2. fe.pending \ {s} \in SUBSET FeKinds
    BY <1>1, <1>2 DEF Programs
  <2>3. [fe EXCEPT !.pending = @ \ {s}] \in Programs
    BY <1>1, <2>2 DEF Programs
  <2>4. FeTyped'
    BY <2>1, <2>3 DEF FeTyped
  <2>5. Locks'
    BY <1>1, <2>1 DEF FeInv, Programs, Locks, HoldsMain
  <2>6. Engines'
    BY <1>1, <2>1 DEF FeInv, Programs, Engines
  <2>7. Stages'
    BY <1>1, <2>1 DEF FeInv, Programs, Stages, EndsInOrder, First
  <2>8. Codes'
    BY <1>1, <2>1 DEF FeInv, Programs, Codes, First
  <2>9. Signals'
    BY <1>1, <1>2, FeAssumption DEF FeInv, Programs, Signals, Signalled, InsistedOn, First, One
  <2>10. Outcome'
    BY <1>1, <2>1 DEF FeInv, Programs, Outcome, Course, Solo, Ending, Shared
  <2>11. OscExact'
    BY <1>1, <2>1 DEF FeInv, Programs, OscExact
  <2> QED BY <2>4, <2>5, <2>6, <2>7, <2>8, <2>9, <2>10, <2>11 DEF FeInv
<1>3. ASSUME NEW s \in fe.pending, fe.phase # "wait_for_wd", s = "INT", ~fe.ignored,
              fe' = [fe EXCEPT !.pending = @ \ {s}, !.ignored = TRUE]
      PROVE  FeInv'
  <2>1. fe' = [fe EXCEPT !.pending = @ \ {s}, !.ignored = TRUE]
    BY <1>3
  <2>2. fe.pending \ {s} \in SUBSET FeKinds
    BY <1>1, <1>3 DEF Programs
  <2>3. [fe EXCEPT !.pending = @ \ {s}, !.ignored = TRUE] \in Programs
    BY <1>1, <2>2 DEF Programs
  <2>4. FeTyped'
    BY <2>1, <2>3 DEF FeTyped
  <2>5. Locks'
    BY <1>1, <2>1 DEF FeInv, Programs, Locks, HoldsMain
  <2>6. Engines'
    BY <1>1, <2>1 DEF FeInv, Programs, Engines
  <2>7. Stages'
    BY <1>1, <2>1 DEF FeInv, Programs, Stages, EndsInOrder, First
  <2>8. Codes'
    BY <1>1, <2>1 DEF FeInv, Programs, Codes, First
  <2>9. Signals'
    BY <1>1, <1>3, FeAssumption DEF FeInv, Programs, Signals, Signalled, InsistedOn, First, One
  <2>10. Outcome'
    BY <1>1, <2>1 DEF FeInv, Programs, Outcome, Course, Solo, Ending, Shared
  <2>11. OscExact'
    BY <1>1, <2>1 DEF FeInv, Programs, OscExact
  <2> QED BY <2>4, <2>5, <2>6, <2>7, <2>8, <2>9, <2>10, <2>11 DEF FeInv
<1>4. ASSUME NEW s \in fe.pending, fe.open # {}, fe.phase # "wait_for_wd", s # "HUP",
              s = "INT" => fe.ignored,
              fe' = [fe EXCEPT !.pending = @ \ {s}, !.pc = "killed"]
      PROVE  FeInv'
  <2>1. fe' = [fe EXCEPT !.pending = @ \ {s}, !.pc = "killed"]
    BY <1>4
  <2>2. fe.pending \ {s} \in SUBSET FeKinds /\ "killed" \in Pcs
    BY <1>1, <1>4 DEF Programs, Pcs
  <2>3. [fe EXCEPT !.pending = @ \ {s}, !.pc = "killed"] \in Programs
    BY <1>1, <2>2 DEF Programs
  <2>4. s \in FeKinds /\ s \in Range(fe.sent) /\ Len(fe.sent) \in Nat
    BY <1>1, <1>4 DEF FeInv, Programs, Signals
  <2>5. fe.phase = "none" => Signalled
    BY <1>1, <1>4 DEF FeInv, Programs, Signals, Signalled, Threads
  <2>6. fe.phase = "none" => Len(fe.sent) >= 2 /\ (s = "INT" => Len(fe.sent) >= 3)
    BY <1>1, <1>4, <2>4, <2>5, FeAssumption DEF FeInv, Signals, One
  <2>7. fe.phase # "none" => fe.pc \in {"delete", "free"}
    BY <1>1, <1>4 DEF FeInv, Alive, Programs, Stages, Phases, Pcs
  <2>8. fe.phase # "none" => fe.phase = "one_thread" /\ fe.engine = "none" /\ ~fe.conn
    BY <1>1, <1>4, <2>7 DEF FeInv, Stages, EndsInOrder
  <2>9. InsistedOn'
    <3>1. /\ fe'.sent = fe.sent /\ fe'.phase = fe.phase /\ fe'.engine = fe.engine
          /\ fe'.conn = fe.conn
      BY <1>1, <2>1 DEF Programs
    <3>2. s # "INT" => Range(fe.sent) # {"INT"}
      BY <2>4
    <3>3. fe.phase = "none" => Len(fe.sent) >= 3 \/ (Len(fe.sent) = 2 /\ s # "INT")
      <4>1. \A n \in Nat : n >= 2 => n >= 3 \/ n = 2
        OBVIOUS
      <4> QED BY <2>4, <2>6, <4>1
    <3> QED BY <2>8, <3>1, <3>2, <3>3 DEF InsistedOn
  <2>10. FeTyped'
    BY <2>1, <2>3 DEF FeTyped
  <2>11. Locks'
    BY <1>1, <1>4 DEF FeInv, Programs, Locks, HoldsMain
  <2>12. Engines'
    BY <1>1, <1>4 DEF FeInv, Programs, Engines
  <2>13. Stages'
    BY <1>1, <1>4 DEF FeInv, Programs, Stages, EndsInOrder, First
  <2>14. Codes'
    BY <1>1, <1>4 DEF FeInv, Programs, Codes, First
  <2>15. Signals'
    BY <1>1, <1>4, <2>9, FeAssumption DEF FeInv, Programs, Signals, Signalled, First, One
  <2>16. Outcome'
    BY <1>1, <1>4 DEF FeInv, Programs, Outcome, Course, Solo, Ending, Shared
  <2>17. OscExact'
    BY <1>1, <2>1 DEF FeInv, Programs, OscExact
  <2> QED BY <2>10, <2>11, <2>12, <2>13, <2>14, <2>15, <2>16, <2>17 DEF FeInv
<1> QED BY <1>1, <1>2, <1>3, <1>4 DEF SignalHandler, Programs

\* The server leaves.
LEMMA LeaveServerKeeps ==
  ASSUME FeInv, Alive, LeaveServer
  PROVE  FeInv'
<1>1. fe \in Programs
  BY DEF FeInv, FeTyped
<1>2. /\ fe.net = "up" /\ fe.holds.by # "net"
      /\ fe' = [fe EXCEPT !.net = "gone"]
  BY DEF LeaveServer
<1>3. [fe EXCEPT !.net = "gone"] \in Programs
  BY <1>1, <1>2 DEF Programs, Nets
<1>4. FeTyped'
  BY <1>1, <1>2, <1>3 DEF FeTyped
<1>5. Locks'
  BY <1>1, <1>2 DEF FeInv, Programs, Locks, HoldsMain
<1>6. Engines'
  BY <1>1, <1>2 DEF FeInv, Programs, Engines
<1>7. Stages'
  BY <1>1, <1>2 DEF FeInv, Programs, Stages, EndsInOrder, First
<1>8. Codes'
  BY <1>1, <1>2 DEF FeInv, Programs, Codes, First
<1>9. Signals'
  BY <1>1, <1>2 DEF FeInv, Programs, Signals, Signalled, InsistedOn, First
<1>10. Outcome'
  BY <1>1, <1>2 DEF FeInv, Programs, Outcome, Course, Solo, Ending, Shared
<1>11. OscExact'
  BY <1>1, <1>2 DEF FeInv, Programs, OscExact
<1> QED BY <1>4, <1>5, <1>6, <1>7, <1>8, <1>9, <1>10, <1>11 DEF FeInv

\* The engine is ready.
LEMMA StartEngineKeeps ==
  ASSUME FeInv, Alive, StartEngine(fe)
  PROVE  FeInv'
<1>1. fe \in Programs
  BY DEF FeInv, FeTyped
<1>2. /\ fe.engine = "starting"
      /\ fe' = [fe EXCEPT !.engine = "idle"]
  BY DEF StartEngine
<1>3. [fe EXCEPT !.engine = "idle"] \in Programs
  BY <1>1, <1>2 DEF Programs, Engs
<1>4. FeTyped'
  BY <1>1, <1>2, <1>3 DEF FeTyped
<1>5. Locks'
  BY <1>1, <1>2 DEF FeInv, Programs, Locks, HoldsMain
<1>6. Engines'
  BY <1>1, <1>2 DEF FeInv, Programs, Engines
<1>7. Stages'
  BY <1>1, <1>2 DEF FeInv, Programs, Stages, EndsInOrder, First
<1>8. Codes'
  BY <1>1, <1>2 DEF FeInv, Programs, Codes, First
<1>9. Signals'
  BY <1>1, <1>2 DEF FeInv, Programs, Signals, Signalled, InsistedOn, First
<1>10. Outcome'
  BY <1>1, <1>2 DEF FeInv, Programs, Outcome, Course, Solo, Ending, Shared
<1>11. OscExact'
  BY <1>1, <1>2 DEF FeInv, Programs, OscExact
<1> QED BY <1>4, <1>5, <1>6, <1>7, <1>8, <1>9, <1>10, <1>11 DEF FeInv

\* The input has ended, or there was an error.
LEMMA ProcessKeeps ==
  ASSUME FeInv, Alive, Process(fe)
  PROVE  FeInv'
<1>1. fe \in Programs
  BY DEF FeInv, FeTyped
<1>2. ASSUME fe.engine = "running",
              fe' = [fe EXCEPT !.engine = "finished", !.ended = "finished"]
      PROVE  FeInv'
  <2>1. fe' = [fe EXCEPT !.engine = "finished", !.ended = "finished"]
    BY <1>2
  <2>2. [fe EXCEPT !.engine = "finished", !.ended = "finished"] \in Programs
    BY <1>1, <1>2 DEF Programs, Engs, Endeds
  <2>3. FeTyped'
    BY <2>1, <2>2 DEF FeTyped
  <2>4. Locks'
    BY <1>1, <2>1 DEF FeInv, Programs, Locks, HoldsMain
  <2>5. Engines'
    BY <1>1, <1>2 DEF FeInv, Programs, Engines
  <2>6. Stages'
    BY <1>1, <1>2 DEF FeInv, Programs, Stages, EndsInOrder, First
  <2>7. Codes'
    BY <1>1, <2>1 DEF FeInv, Programs, Codes, First
  <2>8. Signals'
    BY <1>1, <1>2 DEF FeInv, Programs, Signals, Signalled, InsistedOn, First
  <2>9. Outcome'
    BY <1>1, <1>2 DEF FeInv, Programs, Outcome, Course, Solo, Ending, Shared
  <2>10. OscExact'
    BY <1>1, <2>1 DEF FeInv, Programs, OscExact
  <2> QED BY <2>3, <2>4, <2>5, <2>6, <2>7, <2>8, <2>9, <2>10 DEF FeInv
<1>3. ASSUME fe.engine = "running",
              fe' = [fe EXCEPT !.engine = "error", !.ended = "failed"]
      PROVE  FeInv'
  <2>1. fe' = [fe EXCEPT !.engine = "error", !.ended = "failed"]
    BY <1>3
  <2>2. [fe EXCEPT !.engine = "error", !.ended = "failed"] \in Programs
    BY <1>1, <1>3 DEF Programs, Engs, Endeds
  <2>3. FeTyped'
    BY <2>1, <2>2 DEF FeTyped
  <2>4. Locks'
    BY <1>1, <2>1 DEF FeInv, Programs, Locks, HoldsMain
  <2>5. Engines'
    BY <1>1, <1>3 DEF FeInv, Programs, Engines
  <2>6. Stages'
    BY <1>1, <1>3 DEF FeInv, Programs, Stages, EndsInOrder, First
  <2>7. Codes'
    BY <1>1, <2>1 DEF FeInv, Programs, Codes, First
  <2>8. Signals'
    BY <1>1, <1>3 DEF FeInv, Programs, Signals, Signalled, InsistedOn, First
  <2>9. Outcome'
    BY <1>1, <1>3 DEF FeInv, Programs, Outcome, Course, Solo, Ending, Shared
  <2>10. OscExact'
    BY <1>1, <2>1 DEF FeInv, Programs, OscExact
  <2> QED BY <2>3, <2>4, <2>5, <2>6, <2>7, <2>8, <2>9, <2>10 DEF FeInv
<1> QED BY <1>2, <1>3 DEF Process

\* exec() returns.
LEMMA LeaveExecKeeps ==
  ASSUME FeInv, Alive, LeaveExec(fe)
  PROVE  FeInv'
<1>1. fe \in Programs
  BY DEF FeInv, FeTyped
<1>2. PICK b \in BOOLEAN :
        /\ fe.engine \in {"error", "finished"} /\ b = (fe.engine = "error")
        /\ fe' = [fe EXCEPT !.engine = "over", !.failed = b]
  BY DEF LeaveExec
<1>3. "over" \in Engs
  BY <1>1, <1>2 DEF Engs
<1>4. [fe EXCEPT !.engine = "over", !.failed = b] \in Programs
  BY <1>1, <1>3 DEF Programs
<1>5. FeTyped'
  BY <1>1, <1>2, <1>4 DEF FeTyped
<1>6. Locks'
  BY <1>1, <1>2 DEF FeInv, Programs, Locks, HoldsMain
<1>7. Engines'
  BY <1>1, <1>2 DEF FeInv, Programs, Engines
<1>8. Stages'
  BY <1>1, <1>2 DEF FeInv, Programs, Stages, EndsInOrder, First
<1>9. Codes'
  BY <1>1, <1>2 DEF FeInv, Programs, Codes, First
<1>10. Signals'
  BY <1>1, <1>2 DEF FeInv, Programs, Signals, Signalled, InsistedOn, First
<1>11. Outcome'
  BY <1>1, <1>2 DEF FeInv, Programs, Outcome, Course, Solo, Ending, Shared
<1>12. OscExact'
  BY <1>1, <1>2 DEF FeInv, Programs, OscExact
<1> QED BY <1>5, <1>6, <1>7, <1>8, <1>9, <1>10, <1>11, <1>12 DEF FeInv

\* The first command is handled.
LEMMA HandleKeeps ==
  ASSUME FeInv, Alive, HandleQueued(fe)
  PROVE  FeInv'
<1>1. fe \in Programs
  BY DEF FeInv, FeTyped
<1>2. ASSUME NEW q, NEW e, fe.engine \in {"idle", "running", "finished"}, fe.queue # <<>>, q = Tail(fe.queue),
              \/ e = "running" /\ Head(fe.queue) = "start"
              \/ e = "idle" /\ Head(fe.queue) = "stop",
              fe' = [fe EXCEPT !.queue = q, !.engine = e]
      PROVE  FeInv'
  <2>1. fe' = [fe EXCEPT !.queue = q, !.engine = e]
    BY <1>2
  <2>2. q \in Queues /\ e \in Engs
    BY <1>1, <1>2 DEF Programs, Queues, Engs
  <2>3. [fe EXCEPT !.queue = q, !.engine = e] \in Programs
    BY <1>1, <2>2 DEF Programs
  <2>4. /\ \A i \in DOMAIN q : i + 1 \in DOMAIN fe.queue /\ q[i] = fe.queue[i + 1]
       /\ 1 \in DOMAIN fe.queue /\ Head(fe.queue) = fe.queue[1]
       /\ DOMAIN q \subseteq Nat \ {0}
    BY <1>1, <1>2 DEF Programs, Queues
  <2>5. FeTyped'
    BY <2>1, <2>3 DEF FeTyped
  <2>6. Locks'
    BY <1>1, <2>1 DEF FeInv, Programs, Locks, HoldsMain
  <2>7. Engines'
    BY <1>1, <1>2 DEF FeInv, Programs, Engines
  <2>8. Stages'
    BY <1>1, <1>2 DEF FeInv, Programs, Stages, EndsInOrder, First
  <2>9. Codes'
    BY <1>1, <2>1 DEF FeInv, Programs, Codes, First
  <2>10. Signals'
    BY <1>1, <1>2 DEF FeInv, Programs, Signals, Signalled, InsistedOn, First
  <2>11. Outcome'
    BY <1>1, <1>2, <2>4 DEF FeInv, Programs, Outcome, Course, Solo, Ending, Shared
  <2>12. OscExact'
    BY <1>1, <2>1 DEF FeInv, Programs, OscExact
  <2> QED BY <2>5, <2>6, <2>7, <2>8, <2>9, <2>10, <2>11, <2>12 DEF FeInv
<1>3. ASSUME fe.engine \in {"idle", "running", "finished"}, fe.queue # <<>>,
              Head(fe.queue) = "exit",
              fe' = [fe EXCEPT !.queue = <<>>, !.engine = "over"]
      PROVE  FeInv'
  <2>1. fe' = [fe EXCEPT !.queue = <<>>, !.engine = "over"]
    BY <1>3
  <2>2. <<>> \in Queues /\ "over" \in Engs
    BY <1>1, <1>3 DEF Programs, Queues, Engs
  <2>3. [fe EXCEPT !.queue = <<>>, !.engine = "over"] \in Programs
    BY <1>1, <2>2 DEF Programs
  <2>4. 1 \in DOMAIN fe.queue /\ Head(fe.queue) = fe.queue[1]
    BY <1>1, <1>3 DEF Programs, Queues
  <2>5. FeTyped'
    BY <2>1, <2>3 DEF FeTyped
  <2>6. Locks'
    BY <1>1, <2>1 DEF FeInv, Programs, Locks, HoldsMain
  <2>7. Engines'
    BY <1>1, <1>3 DEF FeInv, Programs, Engines
  <2>8. Stages'
    BY <1>1, <1>3 DEF FeInv, Programs, Stages, EndsInOrder, First
  <2>9. Codes'
    BY <1>1, <2>1 DEF FeInv, Programs, Codes, First
  <2>10. Signals'
    BY <1>1, <1>3 DEF FeInv, Programs, Signals, Signalled, InsistedOn, First
  <2>11. Outcome'
    BY <1>1, <1>3, <2>4 DEF FeInv, Programs, Outcome, Course, Solo, Ending, Shared
  <2>12. OscExact'
    BY <1>1, <2>1 DEF FeInv, Programs, OscExact
  <2> QED BY <2>5, <2>6, <2>7, <2>8, <2>9, <2>10, <2>11, <2>12 DEF FeInv
<1>4. ASSUME NEW q, fe.engine \in {"idle", "running", "finished"}, fe.queue # <<>>, q = Tail(fe.queue),
              Head(fe.queue) = "edit",
              fe' = [fe EXCEPT !.queue = q]
      PROVE  FeInv'
  <2>1. fe' = [fe EXCEPT !.queue = q]
    BY <1>4
  <2>2. q \in Queues
    BY <1>1, <1>4 DEF Programs, Queues, Engs
  <2>3. [fe EXCEPT !.queue = q] \in Programs
    BY <1>1, <2>2 DEF Programs
  <2>4. /\ \A i \in DOMAIN q : i + 1 \in DOMAIN fe.queue /\ q[i] = fe.queue[i + 1]
       /\ 1 \in DOMAIN fe.queue /\ Head(fe.queue) = fe.queue[1]
       /\ DOMAIN q \subseteq Nat \ {0}
    BY <1>1, <1>4 DEF Programs, Queues
  <2>5. FeTyped'
    BY <2>1, <2>3 DEF FeTyped
  <2>6. Locks'
    BY <1>1, <2>1 DEF FeInv, Programs, Locks, HoldsMain
  <2>7. Engines'
    BY <1>1, <1>4 DEF FeInv, Programs, Engines
  <2>8. Stages'
    BY <1>1, <2>1 DEF FeInv, Programs, Stages, EndsInOrder, First
  <2>9. Codes'
    BY <1>1, <2>1 DEF FeInv, Programs, Codes, First
  <2>10. Signals'
    BY <1>1, <2>1 DEF FeInv, Programs, Signals, Signalled, InsistedOn, First
  <2>11. Outcome'
    BY <1>1, <1>4, <2>4 DEF FeInv, Programs, Outcome, Course, Solo, Ending, Shared
  <2>12. OscExact'
    BY <1>1, <2>1 DEF FeInv, Programs, OscExact
  <2> QED BY <2>5, <2>6, <2>7, <2>8, <2>9, <2>10, <2>11, <2>12 DEF FeInv
<1>5. fe.queue # <<>> => Head(fe.queue) \in {"start", "stop", "exit", "edit"}
  BY <1>1 DEF Programs, Queues
<1>6. /\ fe.engine \in {"idle", "running", "finished"} /\ fe.queue # <<>>
      /\ fe' = LET g == [fe EXCEPT !.queue = Tail(@)] IN
               CASE Head(fe.queue) = "start" -> [g EXCEPT !.engine = "running"]
                 [] Head(fe.queue) = "stop" -> [g EXCEPT !.engine = "idle"]
                 [] Head(fe.queue) = "exit" -> [g EXCEPT !.engine = "over", !.queue = <<>>]
                 [] OTHER -> g
  BY DEF HandleQueued, EngineReady
<1>7. CASE Head(fe.queue) = "start"
  BY <1>2, <1>6, <1>7
<1>8. CASE Head(fe.queue) = "stop"
  BY <1>2, <1>6, <1>8
<1>9. CASE Head(fe.queue) = "exit"
  <2>1. [[fe EXCEPT !.queue = Tail(@)] EXCEPT !.engine = "over", !.queue = <<>>]
          = [fe EXCEPT !.queue = <<>>, !.engine = "over"]
    BY <1>1 DEF Programs
  <2> QED BY <1>3, <1>6, <1>9, <2>1
<1>10. CASE Head(fe.queue) = "edit"
  <2>1. fe' = [fe EXCEPT !.queue = Tail(fe.queue)]
    BY <1>6, <1>10
  <2>2. PICK q : q = Tail(fe.queue)
    OBVIOUS
  <2> QED BY <1>4, <1>6, <1>10, <2>1, <2>2
<1> QED BY <1>5, <1>6, <1>7, <1>8, <1>9, <1>10

\* The wait for a stop ends.
LEMMA StopReturnsKeeps ==
  ASSUME FeInv, Alive, StopReturns
  PROVE  FeInv'
<1>1. fe \in Programs
  BY DEF FeInv, FeTyped
<1>2. /\ fe.holds.waits = "stop"
      /\ fe' = [fe EXCEPT !.holds = Nobody]
  BY DEF StopReturns
<1>3. Nobody \in Holders
  BY <1>1, <1>2 DEF Nobody, Holders
<1>4. [fe EXCEPT !.holds = Nobody] \in Programs
  BY <1>1, <1>3 DEF Programs
<1>5. fe.holds.by = "main" /\ fe.pc \in {"disconnect", "killed"}
  BY <1>1, <1>2 DEF FeInv, Programs, Locks, HoldsMain, Holders
<1>6. FeTyped'
  BY <1>1, <1>2, <1>4 DEF FeTyped
<1>7. Locks'
  BY <1>1, <1>2 DEF FeInv, Programs, Locks, HoldsMain, Nobody
<1>8. Engines'
  BY <1>1, <1>2 DEF FeInv, Programs, Engines
<1>9. Stages'
  BY <1>1, <1>2 DEF FeInv, Programs, Stages, EndsInOrder, First
<1>10. Codes'
  BY <1>1, <1>2 DEF FeInv, Programs, Codes, First
<1>11. Signals'
  BY <1>1, <1>2 DEF FeInv, Programs, Signals, Signalled, InsistedOn, First
<1>12. Outcome'
  BY <1>1, <1>2, <1>5 DEF FeInv, Programs, Outcome, Course, Solo, Ending, Shared, Nobody
<1>13. OscExact'
  BY <1>1, <1>2 DEF FeInv, Programs, OscExact
<1> QED BY <1>6, <1>7, <1>8, <1>9, <1>10, <1>11, <1>12, <1>13 DEF FeInv

\* run() notes that processing has started.
LEMMA NoteStartedKeeps ==
  ASSUME FeInv, Alive, NoteStarted
  PROVE  FeInv'
<1>1. fe \in Programs
  BY DEF FeInv, FeTyped
<1>2. PICK w \in {"started", "forever"} :
        /\ fe.holds.waits \in {"run", "keep"} /\ fe.engine \in {"running", "finished", "over"}
        /\ w = "started" <=> fe.holds.waits = "run"
        /\ fe' = [fe EXCEPT !.holds.waits = w]
  BY DEF NoteStarted
<1>3. PICK h : h = [fe.holds EXCEPT !.waits = w]
  OBVIOUS
<1>4. h \in Holders /\ h.by = fe.holds.by /\ h.waits = w
  BY <1>1, <1>2, <1>3 DEF Programs, Holders
<1>5. fe' = [fe EXCEPT !.holds = h]
  BY <1>2, <1>3
<1>6. fe.holds # Nobody /\ h # Nobody
  BY <1>1, <1>2, <1>4 DEF Nobody
<1>7. [fe EXCEPT !.holds = h] \in Programs
  BY <1>1, <1>4 DEF Programs
<1>8. FeTyped'
  BY <1>5, <1>7 DEF FeTyped
<1>9. Locks'
  <2>1. fe'.holds = h /\ fe'.pc = fe.pc /\ fe'.net = fe.net
    BY <1>1, <1>5 DEF Programs
  <2>2. /\ fe.holds.by = "nobody" <=> fe.holds.waits = "not"
        /\ fe.holds.by = "net" => fe.net = "up" /\ fe.holds.waits \in {"run", "started"}
        /\ HoldsMain("run", {"loop", "check", "ran"}) /\ HoldsMain("keep", {"ran"})
    BY DEF FeInv, Locks
  <2>3. fe.holds = [by |-> fe.holds.by, waits |-> fe.holds.waits]
    BY <1>1 DEF Programs, Holders
  <2>4. h.by = "main" => IF w = "started" THEN fe.pc \in {"loop", "check", "ran", "killed"}
                         ELSE fe.pc \in {"ran", "killed"}
    BY <1>2, <1>4, <2>2, <2>3 DEF HoldsMain
  <2>5. h.by # "nobody"
    BY <1>2, <1>4, <2>2
  <2> QED BY <1>2, <1>4, <2>1, <2>2, <2>4, <2>5 DEF Locks, HoldsMain
<1>10. Engines'
  BY <1>1, <1>2, <1>4, <1>5 DEF FeInv, Programs, Engines
<1>11. Stages'
  BY <1>1, <1>2, <1>4, <1>5 DEF FeInv, Programs, Stages, EndsInOrder, First
<1>12. Codes'
  BY <1>1, <1>5 DEF FeInv, Programs, Codes, First
<1>13. Signals'
  BY <1>1, <1>5 DEF FeInv, Programs, Signals, Signalled, InsistedOn, First
<1>14. Outcome'
  BY <1>1, <1>2, <1>4, <1>5, <1>6 DEF FeInv, Programs, Outcome, Course, Solo, Ending, Shared
<1>15. OscExact'
  BY <1>1, <1>5 DEF FeInv, Programs, OscExact
<1> QED BY <1>8, <1>9, <1>10, <1>11, <1>12, <1>13, <1>14, <1>15 DEF FeInv

\* run() returns.
LEMMA RunReturnsKeeps ==
  ASSUME FeInv, Alive, RunReturns
  PROVE  FeInv'
<1>1. fe \in Programs
  BY DEF FeInv, FeTyped
<1>2. PICK r \in Rets :
        /\ fe.holds.waits \in {"run", "keep", "started"}
        /\ fe.engine \in {"finished", "error"} \/ (fe.holds.waits = "started" /\ fe.engine # "running")
        /\ \/ r = fe.ret
           \/ /\ r = 3 /\ fe.pc = "ran" /\ fe.holds.by = "main"
              /\ fe.engine = "error" \/ fe.failed
        /\ fe' = [fe EXCEPT !.holds = Nobody, !.ret = r]
  <2>1. PICK before : before = (fe.holds.waits \in {"run", "keep"} /\ fe.engine = "error")
    OBVIOUS
  <2>2. PICK r : r = IF fe.holds.by = "main" /\ fe.pc = "ran" /\ (before \/ fe.failed)
                     THEN 3 ELSE fe.ret
    OBVIOUS
  <2>3. r \in Rets
    BY <1>1, <2>2 DEF Programs, Rets
  <2>4. /\ \/ before
           \/ fe.holds.waits = "run" /\ fe.engine = "finished"
           \/ fe.holds.waits = "started" /\ fe.engine # "running"
        /\ fe' = [fe EXCEPT !.holds = Nobody, !.ret = r]
    BY <2>1, <2>2 DEF RunReturns
  <2> QED BY <2>1, <2>2, <2>3, <2>4
<1>3. Nobody \in Holders
  BY <1>1, <1>2 DEF Nobody, Holders
<1>4. [fe EXCEPT !.holds = Nobody, !.ret = r] \in Programs
  BY <1>1, <1>3 DEF Programs
<1>5. Solo => fe.holds.by = "main" /\ fe.pc \in {"loop", "check", "ran", "killed"}
  BY <1>1, <1>2 DEF FeInv, Programs, Locks, HoldsMain, Holders, Stages, Solo, Shared
<1>6. FeTyped'
  BY <1>1, <1>2, <1>4 DEF FeTyped
<1>7. Locks'
  BY <1>1, <1>2 DEF FeInv, Programs, Locks, HoldsMain, Nobody
<1>8. Engines'
  BY <1>1, <1>2 DEF FeInv, Programs, Engines
<1>9. Stages'
  BY <1>1, <1>2 DEF FeInv, Programs, Stages, EndsInOrder, First
<1>10. Codes'
  BY <1>1, <1>2 DEF FeInv, Programs, Codes, First
<1>11. Signals'
  BY <1>1, <1>2 DEF FeInv, Programs, Signals, Signalled, InsistedOn, First
<1>12. Outcome'
  <2>1. /\ fe'.holds = Nobody /\ fe'.ret = r /\ fe'.pc = fe.pc /\ fe'.mode = fe.mode
        /\ fe'.engine = fe.engine /\ fe'.queue = fe.queue /\ fe'.failed = fe.failed
        /\ fe'.ended = fe.ended /\ fe'.sent = fe.sent
    BY <1>1, <1>2 DEF Programs
  <2>2. fe.holds # Nobody
    BY <1>2 DEF Nobody
  <2>3. Solo' => Solo
    BY <2>1 DEF Solo, Shared
  <2>4. ASSUME Solo, fe.pc = "ran"
        PROVE  Course'
    <3>1. Course
      BY <2>4 DEF FeInv, Outcome
    <3>2. fe.engine \in {"finished", "error", "over"}
      <4>1. fe.engine \in Engs
        BY <1>1 DEF Programs
      <4> QED BY <1>2, <3>1, <4>1 DEF Course, Engs
    <3>3. r = 3 => fe.ended = "failed"
      BY <1>2, <2>2, <3>1 DEF Course
    <3> QED BY <2>1, <3>1, <3>2, <3>3 DEF Course, Nobody
  <2>5. Solo => fe.pc \notin Ending /\ fe.pc # "go"
    BY <1>5 DEF Ending
  <2> QED BY <2>1, <2>3, <2>4, <2>5 DEF Outcome
<1>13. OscExact'
  BY <1>1, <1>2 DEF FeInv, Programs, OscExact
<1> QED BY <1>6, <1>7, <1>8, <1>9, <1>10, <1>11, <1>12, <1>13 DEF FeInv

\* close_engine() returns; the connection may be made again.
LEMMA CloseReturnsKeeps ==
  ASSUME FeInv, Alive, CloseReturns
  PROVE  FeInv'
<1>1. fe \in Programs
  BY DEF FeInv, FeTyped
<1>2. ASSUME fe.holds.waits = "close",
              fe' = [fe EXCEPT !.engine = "none", !.queue = <<>>, !.holds = Nobody]
      PROVE  FeInv'
  <2>1. fe' = [fe EXCEPT !.engine = "none", !.queue = <<>>, !.holds = Nobody]
    BY <1>2
  <2>2. Nobody \in Holders /\ <<>> \in Queues /\ "none" \in Engs
    BY <1>1, <1>2 DEF Nobody, Holders, Engs, Queues
  <2>3. [fe EXCEPT !.engine = "none", !.queue = <<>>, !.holds = Nobody] \in Programs
    BY <1>1, <2>2 DEF Programs
  <2>4. fe.holds.by = "main" /\ fe.pc \in {"loop", "check", "phase", "killed"}
    BY <1>1, <1>2 DEF FeInv, Programs, Locks, HoldsMain, Holders
  <2>5. FeTyped'
    BY <2>1, <2>3 DEF FeTyped
  <2>6. Locks'
    BY <1>1, <1>2 DEF FeInv, Programs, Locks, HoldsMain, Nobody
  <2>7. Engines'
    BY <1>1, <1>2 DEF FeInv, Programs, Engines
  <2>8. Stages'
    BY <1>1, <1>2 DEF FeInv, Programs, Stages, EndsInOrder, First
  <2>9. Codes'
    BY <1>1, <2>1 DEF FeInv, Programs, Codes, First
  <2>10. Signals'
    BY <1>1, <1>2 DEF FeInv, Programs, Signals, Signalled, InsistedOn, First
  <2>11. Outcome'
    BY <1>1, <1>2, <2>4 DEF FeInv, Programs, Outcome, Course, Solo, Ending, Shared, Nobody
  <2>12. OscExact'
    BY <1>1, <2>1 DEF FeInv, Programs, OscExact
  <2> QED BY <2>5, <2>6, <2>7, <2>8, <2>9, <2>10, <2>11, <2>12 DEF FeInv
<1>3. ASSUME fe.holds.waits = "reconnect",
              fe' = [fe EXCEPT !.engine = "none", !.queue = <<>>, !.holds = Nobody, !.ended = "no"]
      PROVE  FeInv'
  <2>1. fe' = [fe EXCEPT !.engine = "none", !.queue = <<>>, !.holds = Nobody, !.ended = "no"]
    BY <1>3
  <2>2. Nobody \in Holders /\ <<>> \in Queues /\ "none" \in Engs /\ "no" \in Endeds
    BY <1>1, <1>3 DEF Nobody, Holders, Engs, Queues, Endeds
  <2>3. [fe EXCEPT !.engine = "none", !.queue = <<>>, !.holds = Nobody, !.ended = "no"] \in Programs
    BY <1>1, <2>2 DEF Programs
  <2>4. fe.holds.by = "main" /\ fe.pc \in {"go", "killed"}
    BY <1>1, <1>3 DEF FeInv, Programs, Locks, HoldsMain, Holders
  <2>5. FeTyped'
    BY <2>1, <2>3 DEF FeTyped
  <2>6. Locks'
    BY <1>1, <1>3 DEF FeInv, Programs, Locks, HoldsMain, Nobody
  <2>7. Engines'
    BY <1>1, <1>3 DEF FeInv, Programs, Engines
  <2>8. Stages'
    BY <1>1, <1>3 DEF FeInv, Programs, Stages, EndsInOrder, First
  <2>9. Codes'
    BY <1>1, <2>1 DEF FeInv, Programs, Codes, First
  <2>10. Signals'
    BY <1>1, <1>3 DEF FeInv, Programs, Signals, Signalled, InsistedOn, First
  <2>11. Outcome'
    BY <1>1, <1>3, <2>4 DEF FeInv, Programs, Outcome, Course, Solo, Ending, Shared, Nobody
  <2>12. OscExact'
    BY <1>1, <2>1 DEF FeInv, Programs, OscExact
  <2> QED BY <2>5, <2>6, <2>7, <2>8, <2>9, <2>10, <2>11, <2>12 DEF FeInv
<1>4. ASSUME fe.holds.waits = "reconnect", fe.setup = "good",
              fe' = [fe EXCEPT !.engine = "none", !.queue = <<>>, !.holds = Nobody, !.ended = "no",
                              !.conn = TRUE]
      PROVE  FeInv'
  <2>1. fe' = [fe EXCEPT !.engine = "none", !.queue = <<>>, !.holds = Nobody, !.ended = "no", !.conn = TRUE]
    BY <1>4
  <2>2. Nobody \in Holders /\ <<>> \in Queues /\ "none" \in Engs /\ "no" \in Endeds
    BY <1>1, <1>4 DEF Nobody, Holders, Engs, Queues, Endeds
  <2>3. [fe EXCEPT !.engine = "none", !.queue = <<>>, !.holds = Nobody, !.ended = "no",
                              !.conn = TRUE] \in Programs
    BY <1>1, <2>2 DEF Programs
  <2>4. fe.holds.by = "main" /\ fe.pc \in {"go", "killed"}
    BY <1>1, <1>4 DEF FeInv, Programs, Locks, HoldsMain, Holders
  <2>5. fe.pc # "killed"
    BY <1>1, <1>4 DEF Alive
  <2>6. fe.holds.by = "main" /\ fe.pc \in {"go", "killed"}
    BY <1>1, <1>4 DEF FeInv, Programs, Locks, HoldsMain, Holders
  <2>7. FeTyped'
    BY <2>1, <2>3 DEF FeTyped
  <2>8. Locks'
    BY <1>1, <1>4 DEF FeInv, Programs, Locks, HoldsMain, Nobody
  <2>9. Engines'
    BY <1>1, <1>4 DEF FeInv, Programs, Engines
  <2>10. Stages'
    BY <1>1, <1>4, <2>4 DEF FeInv, Programs, Stages, EndsInOrder, First
  <2>11. Codes'
    BY <1>1, <2>1 DEF FeInv, Programs, Codes, First
  <2>12. Signals'
    BY <1>1, <1>4, <2>5, <2>6 DEF FeInv, Programs, Signals, Signalled, InsistedOn, First
  <2>13. Outcome'
    BY <1>1, <1>4, <2>4 DEF FeInv, Programs, Outcome, Course, Solo, Ending, Shared, Nobody
  <2>14. OscExact'
    BY <1>1, <2>1 DEF FeInv, Programs, OscExact
  <2> QED BY <2>7, <2>8, <2>9, <2>10, <2>11, <2>12, <2>13, <2>14 DEF FeInv
<1> QED BY <1>2, <1>3, <1>4 DEF CloseReturns, Connected

-----------------------------------------------------------------------------
(* main(), where it calls.                                                 *)

\* What is connected is closed first; then the connection is made, or is not.
LEMMA BatchConnectKeeps ==
  ASSUME FeInv, Alive, BatchConnect
  PROVE  FeInv'
<1>1. fe \in Programs
  BY DEF FeInv, FeTyped
<1>2. ASSUME NEW q \in Queues, fe.pc = "batch", fe.holds = Nobody, fe.engine # "none",
              fe' = [fe EXCEPT !.conn = FALSE, !.ended = "no", !.pc = "go", !.queue = q,
                              !.holds = [by |-> "main", waits |-> "reconnect"]]
      PROVE  FeInv'
  <2>1. fe' = [fe EXCEPT !.conn = FALSE, !.ended = "no", !.pc = "go", !.queue = q, !.holds = [by |-> "main", waits |-> "reconnect"]]
    BY <1>2
  <2>2. "go" \in Pcs /\ "no" \in Endeds /\ [by |-> "main", waits |-> "reconnect"] \in Holders
    BY <1>1, <1>2 DEF Pcs, Endeds, Holders
  <2>3. [fe EXCEPT !.conn = FALSE, !.ended = "no", !.pc = "go", !.queue = q,
                              !.holds = [by |-> "main", waits |-> "reconnect"]] \in Programs
    BY <1>1, <2>2 DEF Programs
  <2>4. FeTyped'
    BY <2>1, <2>3 DEF FeTyped
  <2>5. Locks'
    BY <1>1, <1>2 DEF FeInv, Programs, Locks, HoldsMain, Nobody
  <2>6. Engines'
    BY <1>1, <1>2 DEF FeInv, Programs, Engines
  <2>7. Stages'
    BY <1>1, <1>2 DEF FeInv, Programs, Stages, EndsInOrder, First
  <2>8. Codes'
    BY <1>1, <1>2 DEF FeInv, Programs, Codes, First
  <2>9. Signals'
    BY <1>1, <1>2 DEF FeInv, Programs, Signals, Signalled, InsistedOn, First
  <2>10. Outcome'
    BY <1>1, <1>2 DEF FeInv, Programs, Outcome, Course, Solo, Ending, Shared, Nobody
  <2>11. OscExact'
    BY <1>1, <2>1 DEF FeInv, Programs, OscExact
  <2> QED BY <2>4, <2>5, <2>6, <2>7, <2>8, <2>9, <2>10, <2>11 DEF FeInv
<1>3. ASSUME fe.pc = "batch", fe.holds = Nobody, fe.engine = "none",
              fe' = [fe EXCEPT !.conn = FALSE, !.ended = "no", !.pc = "go"]
      PROVE  FeInv'
  <2>1. fe' = [fe EXCEPT !.conn = FALSE, !.ended = "no", !.pc = "go"]
    BY <1>3
  <2>2. "go" \in Pcs /\ "no" \in Endeds
    BY <1>1, <1>3 DEF Pcs, Endeds
  <2>3. [fe EXCEPT !.conn = FALSE, !.ended = "no", !.pc = "go"] \in Programs
    BY <1>1, <2>2 DEF Programs
  <2>4. FeTyped'
    BY <2>1, <2>3 DEF FeTyped
  <2>5. Locks'
    BY <1>1, <1>3 DEF FeInv, Programs, Locks, HoldsMain, Nobody
  <2>6. Engines'
    BY <1>1, <1>3 DEF FeInv, Programs, Engines
  <2>7. Stages'
    BY <1>1, <1>3 DEF FeInv, Programs, Stages, EndsInOrder, First
  <2>8. Codes'
    BY <1>1, <1>3 DEF FeInv, Programs, Codes, First
  <2>9. Signals'
    BY <1>1, <1>3 DEF FeInv, Programs, Signals, Signalled, InsistedOn, First
  <2>10. Outcome'
    BY <1>1, <1>3 DEF FeInv, Programs, Outcome, Course, Solo, Ending, Shared, Nobody
  <2>11. OscExact'
    BY <1>1, <2>1 DEF FeInv, Programs, OscExact
  <2> QED BY <2>4, <2>5, <2>6, <2>7, <2>8, <2>9, <2>10, <2>11 DEF FeInv
<1>4. ASSUME fe.pc = "batch", fe.holds = Nobody, fe.engine = "none", fe.setup = "good",
              fe' = [fe EXCEPT !.conn = FALSE, !.ended = "no", !.pc = "go", !.conn = TRUE]
      PROVE  FeInv'
  <2>1. fe' = [fe EXCEPT !.conn = FALSE, !.ended = "no", !.pc = "go", !.conn = TRUE]
    BY <1>4
  <2>2. "go" \in Pcs /\ "no" \in Endeds
    BY <1>1, <1>4 DEF Pcs, Endeds
  <2>3. [fe EXCEPT !.conn = FALSE, !.ended = "no", !.pc = "go", !.conn = TRUE] \in Programs
    BY <1>1, <2>2 DEF Programs
  <2>4. FeTyped'
    BY <2>1, <2>3 DEF FeTyped
  <2>5. Locks'
    BY <1>1, <1>4 DEF FeInv, Programs, Locks, HoldsMain, Nobody
  <2>6. Engines'
    BY <1>1, <1>4 DEF FeInv, Programs, Engines
  <2>7. Stages'
    BY <1>1, <1>4 DEF FeInv, Programs, Stages, EndsInOrder, First
  <2>8. Codes'
    BY <1>1, <1>4 DEF FeInv, Programs, Codes, First
  <2>9. Signals'
    BY <1>1, <1>4 DEF FeInv, Programs, Signals, Signalled, InsistedOn, First
  <2>10. Outcome'
    BY <1>1, <1>4 DEF FeInv, Programs, Outcome, Course, Solo, Ending, Shared, Nobody
  <2>11. OscExact'
    BY <1>1, <2>1 DEF FeInv, Programs, OscExact
  <2> QED BY <2>4, <2>5, <2>6, <2>7, <2>8, <2>9, <2>10, <2>11 DEF FeInv
<1>5. PICK f : f = [fe EXCEPT !.conn = FALSE, !.ended = "no", !.pc = "go"]
  OBVIOUS
<1>6. fe.pc = "batch" /\ fe.holds = Nobody
  BY DEF BatchConnect, At, Unlocked
<1>7. f \in Programs
  <2>1. "go" \in Pcs /\ "no" \in Endeds
    BY DEF Pcs, Endeds
  <2>2. [fe EXCEPT !.conn = FALSE, !.ended = "no", !.pc = "go"] \in Programs
    BY <1>1, <2>1 DEF Programs
  <2> QED BY <1>5, <2>2
<1>8. f.engine = fe.engine /\ f.setup = fe.setup
  BY <1>1, <1>5 DEF Programs
<1>9. CASE fe.setup = "good" /\ fe.conn /\ fe.engine # "none"
  <2>1. fe' = Waits(Queued(f, "exit"), "main", "reconnect") /\ "exit" \in Commands
    BY <1>5, <1>8, <1>9 DEF BatchConnect, CloseEngine, Commands
  <2>2. PICK q \in Queues : Queued(f, "exit") = [f EXCEPT !.queue = q]
    BY <1>7, <2>1, QueueGrows
  <2>3. fe' = [f EXCEPT !.queue = q, !.holds = [by |-> "main", waits |-> "reconnect"]]
    BY <2>1, <2>2 DEF Waits
  <2> QED BY <1>2, <1>5, <1>6, <1>9, <2>3
<1>10. CASE ~(fe.setup = "good" /\ fe.conn /\ fe.engine # "none")
  <2>1. fe.engine = "none"
    BY <1>1, <1>6, <1>10 DEF FeInv, Engines, Nobody
  <2>2. PICK ok \in BOOLEAN : fe' = Connected(f, ok)
    BY <1>5, <1>10 DEF BatchConnect
  <2>3. CASE fe.setup = "good" /\ ok
    <3>1. fe' = [f EXCEPT !.conn = TRUE]
      BY <1>8, <2>2, <2>3 DEF Connected
    <3> QED BY <1>4, <1>5, <1>6, <2>1, <2>3, <3>1
  <2>4. CASE ~(fe.setup = "good" /\ ok)
    <3>1. fe' = f
      BY <1>8, <2>2, <2>4 DEF Connected
    <3> QED BY <1>3, <1>5, <1>6, <2>1, <3>1
  <2> QED BY <2>3, <2>4
<1> QED BY <1>9, <1>10

\* Batch use without servers: run() of what is connected, unless it is asked to exit.
LEMMA BatchRunKeeps ==
  ASSUME FeInv, Alive, BatchRun
  PROVE  FeInv'
<1>1. fe \in Programs
  BY DEF FeInv, FeTyped
<1>2. ASSUME fe.pc = "go", ~Shared(fe.mode), fe.holds = Nobody, ~fe.conn,
              fe' = [fe EXCEPT !.ret = 2, !.pc = "exit"]
      PROVE  FeInv'
  <2>1. fe' = [fe EXCEPT !.ret = 2, !.pc = "exit"]
    BY <1>2
  <2>2. 2 \in Rets /\ "exit" \in Pcs
    BY <1>1, <1>2 DEF Rets, Pcs
  <2>3. [fe EXCEPT !.ret = 2, !.pc = "exit"] \in Programs
    BY <1>1, <2>2 DEF Programs
  <2>4. FeTyped'
    BY <2>1, <2>3 DEF FeTyped
  <2>5. Locks'
    BY <1>1, <1>2 DEF FeInv, Programs, Locks, HoldsMain, Nobody
  <2>6. Engines'
    BY <1>1, <1>2 DEF FeInv, Programs, Engines
  <2>7. Stages'
    BY <1>1, <1>2 DEF FeInv, Programs, Stages, EndsInOrder, First
  <2>8. Codes'
    BY <1>1, <1>2 DEF FeInv, Programs, Codes, First, Stages
  <2>9. Signals'
    BY <1>1, <1>2 DEF FeInv, Programs, Signals, Signalled, InsistedOn, First
  <2>10. Outcome'
    BY <1>1, <1>2 DEF FeInv, Programs, Outcome, Course, Solo, Ending, Shared, Codes
  <2>11. OscExact'
    BY <1>1, <2>1 DEF FeInv, Programs, OscExact
  <2> QED BY <2>4, <2>5, <2>6, <2>7, <2>8, <2>9, <2>10, <2>11 DEF FeInv
<1>3. ASSUME fe.pc = "go", ~Shared(fe.mode), fe.holds = Nobody, fe.exit,
              fe' = [fe EXCEPT !.pc = "exit"]
      PROVE  FeInv'
  <2>1. fe' = [fe EXCEPT !.pc = "exit"]
    BY <1>3
  <2>2. "exit" \in Pcs
    BY <1>1, <1>3 DEF Pcs
  <2>3. [fe EXCEPT !.pc = "exit"] \in Programs
    BY <1>1, <2>2 DEF Programs
  <2>4. fe.sent # <<>>
    BY <1>1, <1>3 DEF FeInv, Signals
  <2>5. FeTyped'
    BY <2>1, <2>3 DEF FeTyped
  <2>6. Locks'
    BY <1>1, <1>3 DEF FeInv, Programs, Locks, HoldsMain, Nobody
  <2>7. Engines'
    BY <1>1, <1>3 DEF FeInv, Programs, Engines
  <2>8. Stages'
    BY <1>1, <1>3 DEF FeInv, Programs, Stages, EndsInOrder, First
  <2>9. Codes'
    BY <1>1, <1>3 DEF FeInv, Programs, Codes, First
  <2>10. Signals'
    BY <1>1, <1>3 DEF FeInv, Programs, Signals, Signalled, InsistedOn, First
  <2>11. Outcome'
    BY <1>1, <1>3, <2>4 DEF FeInv, Programs, Outcome, Course, Solo, Ending, Shared, Codes
  <2>12. OscExact'
    BY <1>1, <2>1 DEF FeInv, Programs, OscExact
  <2> QED BY <2>5, <2>6, <2>7, <2>8, <2>9, <2>10, <2>11, <2>12 DEF FeInv
<1>4. ASSUME NEW b \in BOOLEAN, NEW w \in {"run", "keep"}, fe.pc = "go", ~Shared(fe.mode), fe.holds = Nobody, fe.conn,
              fe' = [fe EXCEPT !.engine = "starting", !.batch = b, !.queue = <<"start">>,
                              !.failed = FALSE, !.ended = "no",
                              !.holds = [by |-> "main", waits |-> w], !.pc = "ran"]
      PROVE  FeInv'
  <2>1. fe' = [fe EXCEPT !.engine = "starting", !.batch = b, !.queue = <<"start">>, !.failed = FALSE, !.ended = "no", !.holds = [by |-> "main", waits |-> w], !.pc = "ran"]
    BY <1>4
  <2>2. /\ "ran" \in Pcs /\ "no" \in Endeds /\ "starting" \in Engs /\ <<"start">> \in Queues
        /\ [by |-> "main", waits |-> w] \in Holders
    BY <1>1, <1>4 DEF Pcs, Endeds, Engs, Holders, Queues
  <2>3. [fe EXCEPT !.engine = "starting", !.batch = b, !.queue = <<"start">>,
                              !.failed = FALSE, !.ended = "no",
                              !.holds = [by |-> "main", waits |-> w], !.pc = "ran"] \in Programs
    BY <1>1, <2>2 DEF Programs
  <2>4. FeTyped'
    BY <2>1, <2>3 DEF FeTyped
  <2>5. Locks'
    BY <1>1, <1>4 DEF FeInv, Programs, Locks, HoldsMain
  <2>6. Engines'
    BY <1>1, <1>4 DEF FeInv, Programs, Engines
  <2>7. Stages'
    BY <1>1, <1>4 DEF FeInv, Programs, Stages, EndsInOrder, First
  <2>8. Codes'
    BY <1>1, <1>4 DEF FeInv, Programs, Codes, First
  <2>9. Signals'
    BY <1>1, <1>4 DEF FeInv, Programs, Signals, Signalled, InsistedOn, First
  <2>10. Outcome'
    BY <1>1, <1>4 DEF FeInv, Programs, Outcome, Course, Solo, Ending, Shared, Nobody, Codes
  <2>11. OscExact'
    BY <1>1, <2>1 DEF FeInv, Programs, OscExact
  <2> QED BY <2>4, <2>5, <2>6, <2>7, <2>8, <2>9, <2>10, <2>11 DEF FeInv
<1>5. fe.pc = "go" /\ fe.holds = Nobody /\ ~Shared(fe.mode)
  BY DEF BatchRun, At, Unlocked
<1>6. fe.engine = "none"
  BY <1>5 DEF FeInv, Outcome, Solo, Codes
<1>7. CASE fe.conn /\ ~fe.exit
  <2>1. PICK b : b = ~fe.mode.keep
    OBVIOUS
  <2>2. b \in BOOLEAN /\ fe' = [Run(fe, "main", b) EXCEPT !.pc = "ran"]
    BY <1>7, <2>1 DEF BatchRun
  <2>3. PICK w : w = IF b THEN "run" ELSE "keep"
    OBVIOUS
  <2>4. w \in {"run", "keep"}
    BY <2>3
  <2>5. PICK c : c = [fe EXCEPT !.engine = "starting", !.batch = b, !.queue = <<>>,
                                !.failed = FALSE, !.ended = "no"]
    OBVIOUS
  <2>6. c.engine = "starting" /\ c.queue = <<>>
    BY <1>1, <2>5 DEF Programs
  <2>7. Queued(c, "start") = [c EXCEPT !.queue = <<"start">>]
    <3>1. Append(<<>>, "start") = <<"start">>
      OBVIOUS
    <3> QED BY <2>6, <3>1 DEF Queued
  <2>8. Run(fe, "main", b) = [Queued(c, "start") EXCEPT !.holds = [by |-> "main", waits |-> w]]
    BY <1>6, <2>3, <2>5 DEF Run, Created, Waits
  <2>9. fe' = [c EXCEPT !.queue = <<"start">>, !.holds = [by |-> "main", waits |-> w],
                        !.pc = "ran"]
    BY <2>2, <2>7, <2>8
  <2>10. fe' = [fe EXCEPT !.engine = "starting", !.batch = b, !.queue = <<"start">>,
                          !.failed = FALSE, !.ended = "no",
                          !.holds = [by |-> "main", waits |-> w], !.pc = "ran"]
    BY <1>1, <2>5, <2>9 DEF Programs
  <2> QED BY <1>4, <1>5, <1>7, <2>2, <2>4, <2>10
<1>8. CASE ~fe.conn
  BY <1>2, <1>5, <1>8 DEF BatchRun
<1>9. CASE fe.conn /\ fe.exit
  BY <1>3, <1>5, <1>9 DEF BatchRun
<1> QED BY <1>7, <1>8, <1>9

\* What runs is stopped first.
LEMMA StopControlKeeps ==
  ASSUME FeInv, Alive, StopControl
  PROVE  FeInv'
<1>1. fe \in Programs
  BY DEF FeInv, FeTyped
<1>2. ASSUME fe.pc = "stop", fe.holds = Nobody,
              fe' = [fe EXCEPT !.pc = "disconnect"]
      PROVE  FeInv'
  <2>1. fe' = [fe EXCEPT !.pc = "disconnect"]
    BY <1>2
  <2>2. "disconnect" \in Pcs
    BY <1>1, <1>2 DEF Pcs
  <2>3. [fe EXCEPT !.pc = "disconnect"] \in Programs
    BY <1>1, <2>2 DEF Programs
  <2>4. FeTyped'
    BY <2>1, <2>3 DEF FeTyped
  <2>5. Locks'
    BY <1>1, <1>2 DEF FeInv, Programs, Locks, HoldsMain, Nobody
  <2>6. Engines'
    BY <1>1, <1>2 DEF FeInv, Programs, Engines
  <2>7. Stages'
    BY <1>1, <1>2 DEF FeInv, Programs, Stages, EndsInOrder, First
  <2>8. Codes'
    BY <1>1, <1>2 DEF FeInv, Programs, Codes, First
  <2>9. Signals'
    BY <1>1, <1>2 DEF FeInv, Programs, Signals, Signalled, InsistedOn, First
  <2>10. Outcome'
    BY <1>1, <1>2 DEF FeInv, Programs, Outcome, Course, Solo, Ending, Shared
  <2>11. OscExact'
    BY <1>1, <2>1 DEF FeInv, Programs, OscExact
  <2> QED BY <2>4, <2>5, <2>6, <2>7, <2>8, <2>9, <2>10, <2>11 DEF FeInv
<1>3. ASSUME NEW q \in Queues, fe.pc = "stop", fe.holds = Nobody, fe.engine = "running",
              fe' = [fe EXCEPT !.queue = q, !.holds = [by |-> "main", waits |-> "stop"],
                              !.pc = "disconnect"]
      PROVE  FeInv'
  <2>1. fe' = [fe EXCEPT !.queue = q, !.holds = [by |-> "main", waits |-> "stop"], !.pc = "disconnect"]
    BY <1>3
  <2>2. "disconnect" \in Pcs /\ [by |-> "main", waits |-> "stop"] \in Holders
    BY <1>1, <1>3 DEF Pcs, Holders
  <2>3. [fe EXCEPT !.queue = q, !.holds = [by |-> "main", waits |-> "stop"],
                              !.pc = "disconnect"] \in Programs
    BY <1>1, <2>2 DEF Programs
  <2>4. FeTyped'
    BY <2>1, <2>3 DEF FeTyped
  <2>5. Locks'
    BY <1>1, <1>3 DEF FeInv, Programs, Locks, HoldsMain
  <2>6. Engines'
    BY <1>1, <1>3 DEF FeInv, Programs, Engines, Nobody
  <2>7. Stages'
    BY <1>1, <1>3 DEF FeInv, Programs, Stages, EndsInOrder, First
  <2>8. Codes'
    BY <1>1, <1>3 DEF FeInv, Programs, Codes, First
  <2>9. Signals'
    BY <1>1, <1>3 DEF FeInv, Programs, Signals, Signalled, InsistedOn, First
  <2>10. Outcome'
    BY <1>1, <1>3 DEF FeInv, Programs, Outcome, Course, Solo, Ending, Shared, Nobody
  <2>11. OscExact'
    BY <1>1, <2>1 DEF FeInv, Programs, OscExact
  <2> QED BY <2>4, <2>5, <2>6, <2>7, <2>8, <2>9, <2>10, <2>11 DEF FeInv
<1>4. fe.pc = "stop" /\ fe.holds = Nobody
  BY DEF StopControl, At, Unlocked
<1>5. CASE fe.control = "made" /\ fe.engine = "running"
  <2>1. "stop" \in Commands
    BY DEF Commands
  <2>2. PICK q \in Queues : Queued(fe, "stop") = [fe EXCEPT !.queue = q]
    BY <1>1, <2>1, QueueGrows
  <2>3. fe' = [fe EXCEPT !.queue = q, !.holds = [by |-> "main", waits |-> "stop"],
                         !.pc = "disconnect"]
    BY <1>5, <2>2 DEF StopControl, Waits
  <2> QED BY <1>3, <1>4, <1>5, <2>3
<1>6. CASE ~(fe.control = "made" /\ fe.engine = "running")
  BY <1>2, <1>4, <1>6 DEF StopControl
<1> QED BY <1>5, <1>6

\* The engine is closed, then nothing is connected.
LEMMA DisconnectKeeps ==
  ASSUME FeInv, Alive, DisconnectControl
  PROVE  FeInv'
<1>1. fe \in Programs
  BY DEF FeInv, FeTyped
<1>2. ASSUME fe.pc = "disconnect", fe.holds = Nobody, ~fe.conn,
              fe' = [fe EXCEPT !.pc = "phase"]
      PROVE  FeInv'
  <2>1. fe' = [fe EXCEPT !.pc = "phase"]
    BY <1>2
  <2>2. "phase" \in Pcs
    BY <1>1, <1>2 DEF Pcs
  <2>3. [fe EXCEPT !.pc = "phase"] \in Programs
    BY <1>1, <2>2 DEF Programs
  <2>4. FeTyped'
    BY <2>1, <2>3 DEF FeTyped
  <2>5. Locks'
    BY <1>1, <1>2 DEF FeInv, Programs, Locks, HoldsMain, Nobody
  <2>6. Engines'
    BY <1>1, <1>2 DEF FeInv, Programs, Engines
  <2>7. Stages'
    BY <1>1, <1>2 DEF FeInv, Programs, Stages, EndsInOrder, First, Engines, Nobody
  <2>8. Codes'
    BY <1>1, <1>2 DEF FeInv, Programs, Codes, First
  <2>9. Signals'
    BY <1>1, <1>2 DEF FeInv, Programs, Signals, Signalled, InsistedOn, First
  <2>10. Outcome'
    BY <1>1, <1>2 DEF FeInv, Programs, Outcome, Course, Solo, Ending, Shared, Engines, Nobody
  <2>11. OscExact'
    BY <1>1, <2>1 DEF FeInv, Programs, OscExact
  <2> QED BY <2>4, <2>5, <2>6, <2>7, <2>8, <2>9, <2>10, <2>11 DEF FeInv
<1>3. ASSUME fe.pc = "disconnect", fe.holds = Nobody, fe.engine = "none",
              fe' = [fe EXCEPT !.conn = FALSE, !.pc = "phase"]
      PROVE  FeInv'
  <2>1. fe' = [fe EXCEPT !.conn = FALSE, !.pc = "phase"]
    BY <1>3
  <2>2. "phase" \in Pcs
    BY <1>1, <1>3 DEF Pcs
  <2>3. [fe EXCEPT !.conn = FALSE, !.pc = "phase"] \in Programs
    BY <1>1, <2>2 DEF Programs
  <2>4. FeTyped'
    BY <2>1, <2>3 DEF FeTyped
  <2>5. Locks'
    BY <1>1, <1>3 DEF FeInv, Programs, Locks, HoldsMain, Nobody
  <2>6. Engines'
    BY <1>1, <1>3 DEF FeInv, Programs, Engines
  <2>7. Stages'
    BY <1>1, <1>3 DEF FeInv, Programs, Stages, EndsInOrder, First, Engines, Nobody
  <2>8. Codes'
    BY <1>1, <1>3 DEF FeInv, Programs, Codes, First
  <2>9. Signals'
    BY <1>1, <1>3 DEF FeInv, Programs, Signals, Signalled, InsistedOn, First
  <2>10. Outcome'
    BY <1>1, <1>3 DEF FeInv, Programs, Outcome, Course, Solo, Ending, Shared
  <2>11. OscExact'
    BY <1>1, <2>1 DEF FeInv, Programs, OscExact
  <2> QED BY <2>4, <2>5, <2>6, <2>7, <2>8, <2>9, <2>10, <2>11 DEF FeInv
<1>4. ASSUME NEW q \in Queues, fe.pc = "disconnect", fe.holds = Nobody, fe.engine # "none",
              \A i \in DOMAIN q : (i \in DOMAIN fe.queue /\ q[i] = fe.queue[i]) \/ q[i] = "exit",
              fe' = [fe EXCEPT !.conn = FALSE, !.queue = q, !.holds = [by |-> "main", waits |-> "close"],
                              !.pc = "phase"]
      PROVE  FeInv'
  <2>1. fe' = [fe EXCEPT !.conn = FALSE, !.queue = q, !.holds = [by |-> "main", waits |-> "close"], !.pc = "phase"]
    BY <1>4
  <2>2. "phase" \in Pcs /\ [by |-> "main", waits |-> "close"] \in Holders
    BY <1>1, <1>4 DEF Pcs, Holders
  <2>3. [fe EXCEPT !.conn = FALSE, !.queue = q, !.holds = [by |-> "main", waits |-> "close"],
                              !.pc = "phase"] \in Programs
    BY <1>1, <2>2 DEF Programs
  <2>4. FeTyped'
    BY <2>1, <2>3 DEF FeTyped
  <2>5. Locks'
    BY <1>1, <1>4 DEF FeInv, Programs, Locks, HoldsMain
  <2>6. Engines'
    BY <1>1, <1>4 DEF FeInv, Programs, Engines
  <2>7. Stages'
    BY <1>1, <1>4 DEF FeInv, Programs, Stages, EndsInOrder, First
  <2>8. Codes'
    BY <1>1, <1>4 DEF FeInv, Programs, Codes, First
  <2>9. Signals'
    BY <1>1, <1>4 DEF FeInv, Programs, Signals, Signalled, InsistedOn, First
  <2>10. Outcome'
    BY <1>1, <1>4 DEF FeInv, Programs, Outcome, Course, Solo, Ending, Shared, Nobody
  <2>11. OscExact'
    BY <1>1, <2>1 DEF FeInv, Programs, OscExact
  <2> QED BY <2>4, <2>5, <2>6, <2>7, <2>8, <2>9, <2>10, <2>11 DEF FeInv
<1>5. fe.pc = "disconnect" /\ fe.holds = Nobody
  BY DEF DisconnectControl, At, Unlocked
<1>6. fe.conn => fe.control = "made"
  BY <1>1, <1>5 DEF FeInv, Engines, Programs, Controls
<1>7. CASE ~fe.conn
  BY <1>2, <1>5, <1>7 DEF DisconnectControl
<1>8. CASE fe.conn
  <2>1. PICK f : f = [fe EXCEPT !.conn = FALSE]
    OBVIOUS
  <2>2. f \in Programs /\ f.engine = fe.engine /\ f.queue = fe.queue /\ "exit" \in Commands
    <3>1. [fe EXCEPT !.conn = FALSE] \in Programs
      BY <1>1 DEF Programs
    <3>2. f.engine = fe.engine /\ f.queue = fe.queue
      BY <1>1, <2>1 DEF Programs
    <3> QED BY <2>1, <3>1, <3>2 DEF Commands
  <2>3. fe' = [CloseEngine(f, "main", "close") EXCEPT !.pc = "phase"]
    BY <1>6, <1>8, <2>1 DEF DisconnectControl
  <2>4. CASE fe.engine = "none"
    <3>1. fe' = [f EXCEPT !.pc = "phase"]
      BY <2>2, <2>3, <2>4 DEF CloseEngine
    <3> QED BY <1>3, <1>5, <2>1, <2>4, <3>1
  <2>5. CASE fe.engine # "none"
    <3>1. PICK q \in Queues : /\ Queued(f, "exit") = [f EXCEPT !.queue = q]
                              /\ q \in {f.queue, Append(f.queue, "exit")}
      BY <2>2, QueueGrows
    <3>2. CloseEngine(f, "main", "close")
            = [Queued(f, "exit") EXCEPT !.holds = [by |-> "main", waits |-> "close"]]
      BY <2>2, <2>5 DEF CloseEngine, Waits
    <3>3. fe' = [f EXCEPT !.queue = q, !.holds = [by |-> "main", waits |-> "close"],
                          !.pc = "phase"]
      BY <2>3, <3>1, <3>2
    <3>4. \A i \in DOMAIN q : (i \in DOMAIN fe.queue /\ q[i] = fe.queue[i]) \/ q[i] = "exit"
      <4>1. q \in {fe.queue, Append(fe.queue, "exit")}
        BY <2>2, <3>1
      <4> QED BY <1>1, <4>1, Appended, SMTT(30) DEF Programs, Queues
    <3> QED BY <1>4, <1>5, <2>1, <2>5, <3>3, <3>4
  <2> QED BY <2>4, <2>5
<1> QED BY <1>7, <1>8

-----------------------------------------------------------------------------
(* Commands, from the command line, a line typed or a client.              *)

\* What is connected has an engine, or none, when nobody is in a call.
LEMMA IdleLinked ==
  ASSUME FeInv, fe.holds = Nobody
  PROVE  fe \in Programs /\ Linked(fe)
BY DEF FeInv, FeTyped, Engines, Linked, Nobody

\* Before main goes on, nobody has the lock, unless it was main itself.
MainWaits(h) ==
  h \in {Nobody, [by |-> "main", waits |-> "run"], [by |-> "main", waits |-> "close"]}

\* main goes on behind a command.
LEMMA MainCommands ==
  ASSUME FeInv, Alive, fe.holds = Nobody, NEW g, After(fe, g), MainWaits(g.holds),
         NEW v \in {"loop", "check", "poll"},
         v = "loop" => fe.pc = "commands", v = "check" => fe.pc = "line",
         v = "poll" => fe.pc = "go" /\ g.holds = Nobody /\ Shared(fe.mode),
         fe' = [g EXCEPT !.pc = v]
  PROVE  FeInv'
<1>1. fe \in Programs /\ g \in Programs
  BY DEF FeInv, FeTyped, After
<1>2. FeTyped'
  <2>1. v \in Pcs
    BY DEF Pcs
  <2>2. [g EXCEPT !.pc = v] \in Programs
    BY <1>1, <2>1 DEF Programs
  <2> QED BY <2>2 DEF FeTyped
<1>3. /\ fe'.pc = v /\ fe'.conn = g.conn /\ fe'.holds = g.holds /\ fe'.engine = g.engine
      /\ fe'.queue = g.queue
      /\ fe'.mode = fe.mode /\ fe'.ret = fe.ret /\ fe'.control = fe.control
      /\ fe'.setup = fe.setup /\ fe'.net = fe.net /\ fe'.osc = fe.osc
      /\ fe'.path = fe.path /\ fe'.edit = fe.edit /\ fe'.online = fe.online
      /\ fe'.exit = fe.exit /\ fe'.wd = fe.wd /\ fe'.phase = fe.phase
      /\ fe'.woken = fe.woken /\ fe'.open = fe.open /\ fe'.pending = fe.pending
      /\ fe'.ignored = fe.ignored /\ fe'.sent = fe.sent
  BY <1>1 DEF Programs, After, Same
<1>4. Locks'
  BY <1>3 DEF Locks, HoldsMain, MainWaits, Nobody
<1>5. Engines'
  BY <1>3 DEF FeInv, Engines, After, Linked
<1>6. Stages'
  BY <1>3 DEF FeInv, Stages, EndsInOrder, First
<1>7. Codes'
  BY <1>3 DEF FeInv, Codes, First
<1>8. Signals'
  BY <1>3 DEF FeInv, Signals, Signalled, InsistedOn, First
<1>9. Outcome'
  BY <1>3 DEF Outcome, Ending
<1>10. OscExact'
  BY <1>3 DEF FeInv, OscExact
<1> QED BY <1>2, <1>4, <1>5, <1>6, <1>7, <1>8, <1>9, <1>10 DEF FeInv

\* The commands of -E are given to the control object, whether it is there or not.
LEMMA PassKeeps ==
  ASSUME FeInv, Alive, PassAtLaunchCommands
  PROVE  Upheld'
<1>1. fe \in Programs /\ fe.pc = "commands" /\ fe.holds.by # "main"
  BY DEF FeInv, FeTyped, PassAtLaunchCommands, At
<1>2. CASE fe.mode.commands # "given"
  <2>1. fe' = [fe EXCEPT !.pc = "loop"]
    BY <1>2 DEF PassAtLaunchCommands
  <2>2. "loop" \in Pcs
    BY DEF Pcs
  <2>3. [fe EXCEPT !.pc = "loop"] \in Programs
    BY <1>1, <2>2 DEF Programs
  <2>4. FeTyped'
    BY <2>1, <2>3 DEF FeTyped
  <2>5. Locks' /\ Engines'
    BY <1>1, <2>1 DEF FeInv, Programs, Locks, HoldsMain, Engines
  <2>6. Stages' /\ Codes'
    BY <1>1, <2>1 DEF FeInv, Programs, Stages, EndsInOrder, Codes, First
  <2>7. Signals'
    BY <1>1, <2>1 DEF FeInv, Programs, Signals, Signalled, InsistedOn, First
  <2>8. Outcome' /\ OscExact'
    BY <1>1, <2>1 DEF FeInv, Programs, Outcome, Ending, OscExact
  <2>9. FeInv'
    BY <2>4, <2>5, <2>6, <2>7, <2>8 DEF FeInv
  <2> QED BY <2>9, Unharmed
<1>3. CASE fe.mode.commands = "given" /\ fe.control # "none"
  <2>2. PICK c \in FeCommands, ok \in BOOLEAN :
          /\ fe.holds = Nobody
          /\ fe' = [Commanded(fe, "main", c, ok) EXCEPT !.pc = "loop"]
    BY <1>3 DEF PassAtLaunchCommands, Unlocked
  <2>3. PICK g : g = Commanded(fe, "main", c, ok)
    OBVIOUS
  <2>4. c \in {"start", "stop", "run", "q"}
    BY <2>2, FeAssumption
  <2>5. After(fe, g) /\ MainWaits(g.holds)
    BY <2>2, <2>3, <2>4, IdleLinked, CommandDone DEF MainWaits
  <2> QED BY <1>1, <2>2, <2>3, <2>5, MainCommands, Unharmed
<1>4. CASE fe.mode.commands = "given" /\ fe.control = "none"
  <2>1. fe' = [fe EXCEPT !.fault = "main"]
    BY <1>4 DEF PassAtLaunchCommands
  <2>2. fe' = [fe EXCEPT !.fault = "main", !.wd = fe.wd]
    BY <1>1, <2>1 DEF Programs
  <2> QED BY <1>4, <2>2, Faults
<1> QED BY <1>2, <1>3, <1>4

\* A line is executed, unless it is empty or it is asked to exit.
LEMMA ExecuteKeeps ==
  ASSUME FeInv, Alive, ExecuteLine
  PROVE  FeInv'
<1>1. fe \in Programs /\ fe.pc = "line" /\ fe.holds.by # "main"
  BY DEF FeInv, FeTyped, ExecuteLine, At
<1>2. CASE fe.line = "" \/ fe.exit
  <2>1. fe' = [fe EXCEPT !.line = "", !.pc = "ask"]
    BY <1>2 DEF ExecuteLine
  <2>2. "ask" \in Pcs /\ "" \in Typeds
    BY DEF Pcs, Typeds
  <2>3. [fe EXCEPT !.line = "", !.pc = "ask"] \in Programs
    BY <1>1, <2>2 DEF Programs
  <2>4. FeTyped'
    BY <2>1, <2>3 DEF FeTyped
  <2>5. Locks' /\ Engines'
    BY <1>1, <2>1 DEF FeInv, Programs, Locks, HoldsMain, Engines
  <2>6. Stages' /\ Codes'
    BY <1>1, <2>1 DEF FeInv, Programs, Stages, EndsInOrder, Codes, First
  <2>7. Signals'
    BY <1>1, <2>1 DEF FeInv, Programs, Signals, Signalled, InsistedOn, First
  <2>8. Outcome' /\ OscExact'
    BY <1>1, <2>1 DEF FeInv, Programs, Outcome, Ending, OscExact
  <2> QED BY <2>4, <2>5, <2>6, <2>7, <2>8 DEF FeInv
<1>3. CASE ~(fe.line = "" \/ fe.exit)
  <2>1. PICK ok \in BOOLEAN :
          /\ fe.holds = Nobody
          /\ fe' = [Commanded(fe, "main", fe.line, ok) EXCEPT !.pc = "check"]
    BY <1>3 DEF ExecuteLine, Unlocked
  <2>2. PICK g : g = Commanded(fe, "main", fe.line, ok)
    OBVIOUS
  <2>3. fe.line \in {"start", "stop", "run", "q"}
    BY <1>1, <1>3 DEF Programs, Typeds
  <2>4. After(fe, g) /\ MainWaits(g.holds)
    BY <2>1, <2>2, <2>3, IdleLinked, CommandDone DEF MainWaits
  <2> QED BY <1>1, <2>1, <2>2, <2>4, MainCommands
<1> QED BY <1>2, <1>3

\* Batch use with servers: what is connected is started.
LEMMA BatchStartKeeps ==
  ASSUME FeInv, Alive, BatchStart
  PROVE  FeInv'
<1>1. /\ fe \in Programs /\ fe.pc = "go" /\ fe.holds = Nobody /\ Shared(fe.mode)
  BY DEF FeInv, FeTyped, BatchStart, At, Unlocked
<1>2. CASE fe.conn \/ fe.mode.keep
  <2>1. PICK g : g = Start(fe)
    OBVIOUS
  <2>2. fe' = [g EXCEPT !.pc = "poll"]
    BY <1>2, <2>1 DEF BatchStart
  <2>3. After(fe, g) /\ g.holds = Nobody
    BY <1>1, <2>1, IdleLinked, Starts
  <2> QED BY <1>1, <2>2, <2>3, MainCommands DEF MainWaits
<1>3. CASE ~(fe.conn \/ fe.mode.keep)
  <2>1. fe' = [fe EXCEPT !.ret = 2, !.exit = TRUE, !.pc = "poll"]
    BY <1>3 DEF BatchStart
  <2>2. "poll" \in Pcs /\ 2 \in Rets
    BY DEF Pcs, Rets
  <2>3. [fe EXCEPT !.ret = 2, !.exit = TRUE, !.pc = "poll"] \in Programs
    BY <1>1, <2>2 DEF Programs
  <2>4. FeTyped'
    BY <2>1, <2>3 DEF FeTyped
  <2>5. Locks' /\ Engines'
    BY <1>1, <2>1 DEF FeInv, Programs, Locks, HoldsMain, Engines, Nobody
  <2>6. Stages' /\ Codes'
    BY <1>1, <2>1 DEF FeInv, Programs, Stages, EndsInOrder, Codes, First
  <2>7. Signals'
    BY <1>1, <2>1 DEF FeInv, Programs, Signals, Signalled, InsistedOn, First
  <2>8. Outcome' /\ OscExact'
    BY <1>1, <2>1 DEF FeInv, Programs, Outcome, Ending, OscExact
  <2> QED BY <2>4, <2>5, <2>6, <2>7, <2>8 DEF FeInv
<1> QED BY <1>2, <1>3

\* A client's command is executed.
LEMMA ServeKeeps ==
  ASSUME FeInv, Alive, ServeClient
  PROVE  FeInv'
<1>1. PICK c \in FeNetCommands, ok \in BOOLEAN :
        /\ fe.net = "up" /\ fe.holds = Nobody
        /\ fe' = [Commanded(fe, "net", c, ok) EXCEPT !.served = @ + 1]
  <2>1. fe.net = "up" => fe.control = "made"
    BY DEF FeInv, Stages
  <2> QED BY <2>1 DEF ServeClient, Unlocked
<1>2. PICK g : g = Commanded(fe, "net", c, ok)
  OBVIOUS
<1>3. c \in {"start", "stop", "run", "q"} /\ c # "q"
  BY <1>1, FeAssumption
<1>4. After(fe, g) /\ g.holds \in {Nobody, [by |-> "net", waits |-> "run"]}
  BY <1>1, <1>2, <1>3, IdleLinked, CommandDone
<1>5. fe \in Programs /\ g \in Programs
  BY <1>4 DEF FeInv, FeTyped, After
<1>6. FeTyped'
  <2>1. g.served + 1 \in Nat
    BY <1>5 DEF Programs
  <2>2. [g EXCEPT !.served = g.served + 1] \in Programs
    BY <1>5, <2>1 DEF Programs
  <2> QED BY <1>1, <1>2, <2>2 DEF FeTyped
<1>7. /\ fe'.conn = g.conn /\ fe'.holds = g.holds /\ fe'.engine = g.engine
      /\ fe'.queue = g.queue
      /\ fe'.pc = fe.pc /\ fe'.mode = fe.mode /\ fe'.ret = fe.ret /\ fe'.control = fe.control
      /\ fe'.setup = fe.setup /\ fe'.net = fe.net /\ fe'.osc = fe.osc
      /\ fe'.path = fe.path /\ fe'.edit = fe.edit /\ fe'.online = fe.online
      /\ fe'.exit = fe.exit /\ fe'.wd = fe.wd /\ fe'.phase = fe.phase
      /\ fe'.woken = fe.woken /\ fe'.open = fe.open /\ fe'.pending = fe.pending
      /\ fe'.ignored = fe.ignored /\ fe'.sent = fe.sent
  BY <1>1, <1>2, <1>4, <1>5 DEF Programs, After, Same
<1>8. Locks'
  BY <1>1, <1>4, <1>7 DEF Locks, HoldsMain, Nobody
<1>9. Engines'
  <2>1. g.setup = fe.setup
    BY <1>4 DEF After, Same
  <2> QED BY <1>4, <1>7, <2>1 DEF FeInv, Engines, After, Linked
<1>10. Stages'
  BY <1>1, <1>7 DEF FeInv, Stages, EndsInOrder, First
<1>11. Codes'
  BY <1>7 DEF FeInv, Codes, First
<1>12. fe.pc # "killed" /\ fe.pc # "gone"
  BY DEF Alive
<1>13. Signals'
  BY <1>7, <1>12 DEF FeInv, Signals, Signalled, InsistedOn, First
<1>14. ~Solo'
  BY <1>1, <1>7 DEF FeInv, Stages, Solo, Shared
<1>15. Outcome' /\ OscExact'
  BY <1>7, <1>14 DEF FeInv, Outcome, OscExact
<1> QED BY <1>6, <1>8, <1>9, <1>10, <1>11, <1>13, <1>15 DEF FeInv

-----------------------------------------------------------------------------
(* OSC messages.                                                           *)

\* An address without "param" edits nothing.
LEMMA NoParam ==
  ASSUME NEW p \in Seq(STRING), p # <<>>, \A i \in 1..Len(p) : p[i] # "param"
  PROVE  OscEdit(p) = NoEdit
<1> DEFINE Plain(s) == s \in Seq(STRING) /\ s # <<>> /\ \A i \in 1..Len(s) : s[i] # "param"
<1>1. ASSUME NEW s, Plain(s) PROVE Plain(PopFront(s))
  <2>1. CASE Len(s) > 1
    <3>1. PICK t : t = Tail(s)
      OBVIOUS
    <3>2. /\ t \in Seq(STRING) /\ Len(t) = Len(s) - 1
          /\ \A i \in 1..Len(t) : t[i] = s[i + 1]
      BY <1>1, <2>1, <3>1
    <3>3. t # <<>>
      BY <2>1, <3>2
    <3>4. \A i \in 1..Len(t) : i + 1 \in 1..Len(s)
      BY <1>1, <3>2
    <3>5. PopFront(s) = t
      BY <2>1, <3>1 DEF PopFront
    <3> QED BY <1>1, <3>2, <3>3, <3>4, <3>5
  <2>2. CASE ~(Len(s) > 1)
    BY <1>1, <2>2 DEF PopFront
  <2> QED BY <2>1, <2>2
<1>2. ASSUME NEW s, Plain(s) PROVE ParamOf(s) = -1
  <2>1. 1 \in 1..Len(s)
    BY <1>2
  <2> QED BY <1>2, <2>1 DEF ParamOf
<1>3. Plain(p)
  OBVIOUS
<1>4. PICK a : a = PopFront(p)
  OBVIOUS
<1>5. PICK b : b = PopFront(a)
  OBVIOUS
<1>6. PICK c : c = PopFront(b)
  OBVIOUS
<1>7. PICK d : d = PopFront(c)
  OBVIOUS
<1>8. PICK e : e = PopFront(d)
  OBVIOUS
<1> HIDE DEF Plain
<1>9. Plain(e)
  BY <1>1, <1>3, <1>4, <1>5, <1>6, <1>7, <1>8
<1>10. ChainMessage(b) = NoEdit
  BY <1>2, <1>6, <1>7, <1>8, <1>9 DEF ChainMessage
<1> QED BY <1>4, <1>5, <1>10 DEF OscEdit

\* An address of seven parts edits what it names.
LEMMA WholeAddress ==
  ASSUME NEW p \in Seq(STRING), Len(p) = 7
  PROVE  OscEdit(p) =
           IF /\ p[1] = "ecasound" /\ p[2] = "chain" /\ p[3] \in FeChains
              /\ p[4] \in {"op", "ctrl"} /\ p[6] = "param"
           THEN [chain |-> p[3], on |-> p[4], op |-> ToInt(p[5]), param |-> ToInt(p[7])]
           ELSE NoEdit
<1> DEFINE Rest(s, k) == s \in Seq(STRING) /\ Len(s) = 7 - k /\ \A i \in 1..7 - k : s[i] = p[i + k]
<1>1. ASSUME NEW k \in 0..5, NEW s, Rest(s, k) PROVE Rest(PopFront(s), k + 1)
  <2>1. PICK t : t = Tail(s)
    OBVIOUS
  <2>2. PopFront(s) = t
    BY <1>1, <2>1 DEF PopFront
  <2>3. /\ t \in Seq(STRING) /\ Len(t) = 6 - k
        /\ \A i \in 1..6 - k : t[i] = s[i + 1]
    BY <1>1, <2>1
  <2>4. \A i \in 1..6 - k : i + 1 \in 1..7 - k /\ s[i + 1] = p[i + 1 + k]
    BY <1>1
  <2>5. \A i \in 1..6 - k : i + 1 + k = i + (k + 1)
    BY <1>1
  <2>6. 7 - (k + 1) = 6 - k
    BY <1>1
  <2>7. \A i \in 1..7 - (k + 1) : t[i] = p[i + (k + 1)]
    BY <2>3, <2>4, <2>5, <2>6
  <2> QED BY <2>2, <2>3, <2>6, <2>7
<1>2. Rest(p, 0)
  OBVIOUS
<1>3. ASSUME NEW k \in 0..6, NEW s, Rest(s, k) PROVE s[1] = p[k + 1]
  <2>1. 1 \in 1..7 - k /\ 1 + k = k + 1
    BY <1>3
  <2> QED BY <1>3, <2>1
<1>4. PICK a : a = PopFront(p)
  OBVIOUS
<1>5. PICK b : b = PopFront(a)
  OBVIOUS
<1>6. PICK c : c = PopFront(b)
  OBVIOUS
<1>7. PICK d : d = PopFront(c)
  OBVIOUS
<1>8. PICK e : e = PopFront(d)
  OBVIOUS
<1>9. PICK g : g = PopFront(e)
  OBVIOUS
<1> HIDE DEF Rest
<1>10. Rest(a, 1)
  BY <1>1, <1>2, <1>4, 0 \in 0..5, 0 + 1 = 1
<1>11. Rest(b, 2)
  BY <1>1, <1>5, <1>10, 1 \in 0..5, 1 + 1 = 2
<1>12. Rest(c, 3)
  BY <1>1, <1>6, <1>11, 2 \in 0..5, 2 + 1 = 3
<1>13. Rest(d, 4)
  BY <1>1, <1>7, <1>12, 3 \in 0..5, 3 + 1 = 4
<1>14. Rest(e, 5)
  BY <1>1, <1>8, <1>13, 4 \in 0..5, 4 + 1 = 5
<1>15. Rest(g, 6)
  BY <1>1, <1>9, <1>14, 5 \in 0..5, 5 + 1 = 6
<1>16. /\ a[1] = p[2] /\ b[1] = p[3] /\ c[1] = p[4] /\ d[1] = p[5] /\ e[1] = p[6]
       /\ g[1] = p[7]
  BY <1>3, <1>10, <1>11, <1>12, <1>13, <1>14, <1>15
<1>17. \A x : ToInt(x) # -1
  BY DEF ToInt
<1>18. ParamOf(e) = IF p[6] = "param" THEN ToInt(p[7]) ELSE -1
  BY <1>9, <1>16 DEF ParamOf
<1>19. ChainMessage(b) =
         IF p[3] \in FeChains /\ p[4] \in {"op", "ctrl"} /\ ParamOf(e) # -1
         THEN [chain |-> p[3], on |-> p[4], op |-> ToInt(p[5]), param |-> ParamOf(e)]
         ELSE NoEdit
  BY <1>6, <1>7, <1>8, <1>16 DEF ChainMessage
<1>20. OscEdit(p) = IF p[1] = "ecasound" /\ p[2] = "chain" THEN ChainMessage(b) ELSE NoEdit
  BY <1>4, <1>5, <1>16 DEF OscEdit
<1> QED BY <1>17, <1>18, <1>19, <1>20

\* A message edits what its address names, when something is connected.
LEMMA Edited ==
  ASSUME WholeAddresses, NEW p \in FePaths, NEW c \in BOOLEAN,
         fe'.path = p, fe'.online = c, fe'.edit = IF c THEN OscEdit(p) ELSE NoEdit
  PROVE  OscExact'
<1>1. p \in Seq(STRING) /\ p # <<>>
  BY DEF WholeAddresses
<1>2. CASE Len(p) = 7
  BY <1>1, <1>2, WholeAddress DEF OscExact
<1>3. CASE Len(p) # 7
  <2>1. OscEdit(p) = NoEdit
    BY <1>1, <1>3, NoParam DEF WholeAddresses
  <2> QED BY <1>3, <2>1 DEF OscExact
<1> QED BY <1>2, <1>3

\* A message, behind what is done.
LEMMA OscKeeps ==
  ASSUME FeInv, Alive, WholeAddresses, OscMessage, fe.control # "deleted"
  PROVE  FeInv'
<1>1. fe \in Programs /\ fe.osc /\ fe.control # "deleted"
  BY DEF FeInv, FeTyped, OscMessage
<1>2. fe.holds = Nobody
  BY <1>1 DEF OscMessage, Unlocked
<1>3. PICK p \in FePaths, e \in Edits, f \in Programs :
        /\ e = (IF fe.conn THEN OscEdit(p) ELSE NoEdit)
        /\ f = [fe EXCEPT !.path = p, !.edit = e, !.online = fe.conn]
        /\ fe' = IF e # NoEdit /\ EngineReady(fe) THEN Queued(f, "edit") ELSE f
  <2>1. PICK p \in FePaths :
          LET e == IF fe.conn THEN OscEdit(p) ELSE NoEdit
              f == [fe EXCEPT !.path = p, !.edit = e, !.online = fe.conn]
          IN fe' = IF e # NoEdit /\ EngineReady(fe) THEN Queued(f, "edit") ELSE f
    BY <1>1 DEF OscMessage
  <2>2. PICK e : e = IF fe.conn THEN OscEdit(p) ELSE NoEdit
    OBVIOUS
  <2>3. e \in Edits /\ fe.conn \in BOOLEAN
    BY <1>1, <2>2 DEF Edits, Programs
  <2>4. [fe EXCEPT !.path = p, !.edit = e, !.online = fe.conn] \in Programs
    BY <1>1, <2>3 DEF Programs
  <2> QED BY <2>1, <2>2, <2>3, <2>4
<1>4. fe.conn \in BOOLEAN
  BY <1>1 DEF Programs
<1>5. f = [fe EXCEPT !.path = p, !.edit = e, !.online = fe.conn]
  BY <1>3
<1>6. DOMAIN fe = DOMAIN FeBegin(<<>>)
  BY <1>1 DEF Programs, FeBegin
<1>7. /\ f.path = p /\ f.edit = e /\ f.online = fe.conn
      /\ f.conn = fe.conn /\ f.holds = fe.holds /\ f.engine = fe.engine
      /\ f.queue = fe.queue /\ f.pc = fe.pc
      /\ f.mode = fe.mode /\ f.ret = fe.ret /\ f.control = fe.control
      /\ f.setup = fe.setup /\ f.net = fe.net /\ f.osc = fe.osc
      /\ f.exit = fe.exit /\ f.wd = fe.wd /\ f.phase = fe.phase
      /\ f.woken = fe.woken /\ f.open = fe.open /\ f.pending = fe.pending
      /\ f.ignored = fe.ignored /\ f.sent = fe.sent
  BY <1>5, <1>6 DEF FeBegin
<1>8. PICK q \in Queues : fe' = [f EXCEPT !.queue = q] /\ (f.engine = "none" => q = f.queue)
  <2>1. CASE e # NoEdit /\ EngineReady(fe)
    BY <1>3, <2>1, QueueGrows DEF Commands
  <2>2. CASE ~(e # NoEdit /\ EngineReady(fe))
    <3>1. f.queue \in Queues /\ f = [f EXCEPT !.queue = f.queue]
      BY <1>3 DEF Programs
    <3> QED BY <1>3, <2>2, <3>1
  <2> QED BY <2>1, <2>2
<1>9. f \in Programs /\ fe' = [f EXCEPT !.queue = q]
  BY <1>3, <1>8
<1>10. /\ fe'.queue = q
      /\ fe'.path = p /\ fe'.edit = e /\ fe'.online = fe.conn
      /\ fe'.conn = fe.conn /\ fe'.holds = fe.holds /\ fe'.engine = fe.engine
      /\ fe'.pc = fe.pc
      /\ fe'.mode = fe.mode /\ fe'.ret = fe.ret /\ fe'.control = fe.control
      /\ fe'.setup = fe.setup /\ fe'.net = fe.net /\ fe'.osc = fe.osc
      /\ fe'.exit = fe.exit /\ fe'.wd = fe.wd /\ fe'.phase = fe.phase
      /\ fe'.woken = fe.woken /\ fe'.open = fe.open /\ fe'.pending = fe.pending
      /\ fe'.ignored = fe.ignored /\ fe'.sent = fe.sent
  BY <1>7, <1>9 DEF Programs
<1>11. FeTyped'
  <2>1. [f EXCEPT !.queue = q] \in Programs
    BY <1>9 DEF Programs
  <2> QED BY <1>9, <2>1 DEF FeTyped
<1>12. Locks'
  BY <1>10 DEF FeInv, Locks, HoldsMain
<1>13. Engines'
  BY <1>7, <1>8, <1>10 DEF FeInv, Engines
<1>14. Stages'
  BY <1>10 DEF FeInv, Stages, EndsInOrder, First
<1>15. Codes'
  BY <1>10 DEF FeInv, Codes, First
<1>16. Signals'
  BY <1>10 DEF FeInv, Signals, Signalled, InsistedOn, First
<1>17. ~Solo'
  BY <1>1, <1>10 DEF FeInv, Stages, Solo, Shared
<1>18. Outcome'
  BY <1>17 DEF Outcome
<1>19. OscExact'
  BY <1>3, <1>4, <1>10, Edited
<1> QED BY <1>11, <1>12, <1>13, <1>14, <1>15, <1>16, <1>18, <1>19 DEF FeInv

\* A message between the deletion of the control object and that of the server.
LEMMA OscFaults ==
  ASSUME FeInv, Alive, OscMessage, fe.control = "deleted"
  PROVE  Upheld'
<1>1. fe \in Programs /\ fe.pc = "free"
  BY DEF FeInv, FeTyped, Engines, Alive
<1>2. fe' = [fe EXCEPT !.fault = "osc", !.wd = fe.wd]
  BY <1>1 DEF OscMessage, Programs
<1> QED BY <1>1, <1>2, Faults

-----------------------------------------------------------------------------
(* All together.                                                           *)

\* The program begins in the invariant.
LEMMA Begins ==
  ASSUME FeInit
  PROVE  FeInv
<1>1. PICK args \in FeCommandLines : fe = FeBegin(args)
  BY DEF FeInit
<1>2. /\ fe.args = args /\ fe.mode = NoModes /\ fe.pc = "signals" /\ fe.ret = 0
      /\ fe.control = "none" /\ fe.setup = "none" /\ fe.conn = FALSE /\ fe.holds = Nobody
      /\ fe.engine = "none" /\ fe.queue = <<>> /\ fe.net = "none" /\ fe.osc = FALSE
      /\ fe.path = <<>> /\ fe.edit = NoEdit /\ fe.online = FALSE
      /\ fe.exit = FALSE /\ fe.wd = "none" /\ fe.phase = "none" /\ fe.woken = FALSE
      /\ fe.open = {} /\ fe.pending = {} /\ fe.ignored = FALSE /\ fe.sent = <<>>
  BY <1>1 DEF FeBegin
<1>3. FeTyped
  <2>1. /\ NoModes \in Modes /\ "signals" \in Pcs /\ 0 \in Rets /\ "none" \in Controls
        /\ "none" \in Setups /\ Nobody \in Holders /\ "none" \in Engs /\ <<>> \in Queues
        /\ "no" \in Endeds /\ "none" \in Nets /\ NoEdit \in Edits /\ "" \in Typeds
        /\ "none" \in Dogs /\ "none" \in Phases
    BY DEF Modes, Pcs, Rets, Controls, Setups, Nobody, Holders, Engs, Queues, Endeds, Nets,
           Edits, Typeds, Dogs, Phases
  <2>2. {} \in SUBSET Threads /\ {} \in SUBSET FeKinds /\ <<>> \in Seq(FeKinds) /\ 0 \in Nat
    OBVIOUS
  <2>3. FeBegin(args) \in Programs
    BY <2>1, <2>2 DEF FeBegin, Programs
  <2> QED BY <1>1, <2>3 DEF FeTyped
<1>4. Locks
  BY <1>2 DEF Locks, HoldsMain, Nobody
<1>5. Engines
  BY <1>2 DEF Engines
<1>6. Stages
  BY <1>2 DEF Stages, EndsInOrder, First
<1>7. Codes
  BY <1>2 DEF Codes, First, NoModes
<1>8. Signals
  BY <1>2 DEF Signals, Signalled, InsistedOn, First, One
<1>9. Outcome
  BY <1>2 DEF Outcome, Ending
<1>10. OscExact
  BY <1>2 DEF OscExact
<1> QED BY <1>3, <1>4, <1>5, <1>6, <1>7, <1>8, <1>9, <1>10 DEF FeInv

\* Every step of main keeps it.
LEMMA MainKeeps ==
  ASSUME FeInv, Alive, Main
  PROVE  Upheld'
<1>1. CASE PassAtLaunchCommands
  BY <1>1, PassKeeps
<1>2. CASE ~PassAtLaunchCommands
  <2>1. FeInv'
    BY <1>2, SetupSignalsKeeps, WaitAliveKeeps, CreateKeeps, LaunchKeeps, EnterLoopKeeps,
       AskKeeps, ExecuteKeeps, CheckKeeps, BatchConnectKeeps, BatchRunKeeps, RanKeeps,
       BatchStartKeeps, PollKeeps, RequestExitKeeps, JoinServerKeeps, StopControlKeeps,
       DisconnectKeeps, EnterPhaseKeeps, UnblockMainKeeps, JoinWatchdogKeeps, DeleteKeeps,
       FreeKeeps DEF Main
  <2> QED BY <2>1, Unharmed
<1> QED BY <1>1, <1>2

\* Every step of the watchdog keeps it.
LEMMA WatchdogKeeps ==
  ASSUME FeInv, Alive, Watchdog
  PROVE  Upheld'
<1>1. CASE UseEngine
  BY <1>1, UseEngineKeeps
<1>2. CASE ~UseEngine
  <2>1. FeInv'
    BY <1>2, AnnounceKeeps, SigWaitKeeps, UnblockKeeps, RequestKeeps, WatchKeeps,
       LeaveWatchdogKeeps DEF Watchdog
  <2> QED BY <2>1, Unharmed
<1> QED BY <1>1, <1>2

\* Every step of the program keeps it.
LEMMA FeKeeps ==
  ASSUME WholeAddresses, Upheld, [FeNext]_fe
  PROVE  Upheld'
<1>1. CASE UNCHANGED fe
  BY <1>1 DEF Upheld, FeInv, FeTyped, Locks, HoldsMain, Engines, Stages, EndsInOrder, Codes,
              Signals, Signalled, InsistedOn, Outcome, Solo, Course, OscExact, FeTypeOK,
              ProgramSound, ExitCodeTrue, NoneDangles
<1>2. CASE FeNext
  <2>1. Alive /\ FeInv
    BY <1>2 DEF FeNext, Alive, Upheld
  <2>2. Calls => FeInv'
    BY <2>1, NoteStartedKeeps, RunReturnsKeeps, CloseReturnsKeeps, StopReturnsKeeps DEF Calls
  <2>3. EngineTurn => FeInv'
    BY <2>1, StartEngineKeeps, HandleKeeps, LeaveExecKeeps DEF EngineTurn
  <2>4. OscMessage => Upheld'
    BY <2>1, OscKeeps, OscFaults, Unharmed
  <2>5. (\/ ReadCommand \/ Process(fe) \/ SendSignal \/ SignalHandler \/ ServeClient
         \/ LeaveServer) => FeInv'
    BY <2>1, ReadKeeps, ProcessKeeps, SendKeeps, HandlerKeeps, ServeKeeps, LeaveServerKeeps
  <2> QED BY <1>2, <2>1, <2>2, <2>3, <2>4, <2>5, MainKeeps, WatchdogKeeps, Unharmed DEF FeNext
<1> QED BY <1>1, <1>2

\* What is kept is what the program promises.
LEMMA UpheldSound ==
  ASSUME Upheld
  PROVE  FeTypeOK /\ ProgramSound
BY Sound DEF Upheld

-----------------------------------------------------------------------------
(* The program keeps its types.                                            *)
THEOREM ProgramTyped ==
  ASSUME WholeAddresses
  PROVE  FeSpec => []FeTypeOK
<1>1. FeInit => Upheld
  BY Begins DEF Upheld, FeInv, FeTyped, Programs
<1>2. Upheld /\ [FeNext]_fe => Upheld'
  BY FeKeeps
<1>3. Upheld => FeTypeOK
  BY UpheldSound
<1> QED BY <1>1, <1>2, <1>3, PTL DEF FeSpec

(* Whoever uses it, and whatever signals, lines, clients and messages come *)
(* when: the program ends in order (main() and ~ECASOUND_RUN_STATE()),     *)
(* without cleanup only for who insists (ecasound_signal_handler()), its   *)
(* exit code says what became of the processing, a pointer to nothing is   *)
(* followed only in the three places that NoneDangles names, and a message *)
(* edits what its address names.                                           *)
THEOREM ProgramAlwaysSound ==
  ASSUME WholeAddresses
  PROVE  FeSpec => []ProgramSound
<1>1. FeInit => Upheld
  BY Begins DEF Upheld, FeInv, FeTyped, Programs
<1>2. Upheld /\ [FeNext]_fe => Upheld'
  BY FeKeeps
<1>3. Upheld => ProgramSound
  BY UpheldSound
<1> QED BY <1>1, <1>2, <1>3, PTL DEF FeSpec
=============================================================================
