------------------------------ MODULE JackPorts ------------------------------
(***************************************************************************)
(* What AUDIO_IO_JACK objects and their AUDIO_IO_JACK_MANAGER keep at the  *)
(* JACK server: the connection that the objects share, the ports of each   *)
(* object, their connections to the ports of other programs, and the audio *)
(* of a process cycle.  JackDriver has the engine and the transport.       *)
(*                                                                         *)
(* Ports are kept in memory `mem', by a number that stands for a pointer,  *)
(* and are found by the vectors of the callback, `ins' and `outs', and by  *)
(* the nodes of the objects.                                               *)
(***************************************************************************)
EXTENDS Integers, Sequences, FiniteSetsExt, Functions

CONSTANTS
  JpObjects,      \* objects: dir, kind, channels, params, prefix
  JpForeign,      \* sequence of ports of other programs: name, client, dir, latency
  JpSizes,        \* buffer sizes the server may have; the program wants 1
  JpDies,         \* when the server may die: "closed", "idle", "active"
  JpResizes,      \* when it may change its buffer size
  JpSteps         \* bound on the steps

ASSUME JpAssumption == 1 \in JpSizes /\ JpSizes \subseteq Nat \ {0} /\ JpSteps \in Nat

VARIABLE jp

(* The kinds of JpObjects: "jack" and "jack_auto" name a program whose     *)
(* ports are taken in turn, "jack_multi" a port for each channel,          *)
(* "jack_alsa" the ports of the soundcard; "jack_generic" none.            *)
Channels(o) ==
  IF o.kind = "jack_multi" /\ o.channels < Len(o.params) THEN Len(o.params) ELSE o.channels

NewManager ==
  [up |-> TRUE, server |-> 1, client |-> "none", names |-> {}, links |-> {},
   open |-> FALSE, opens |-> 0, shutdown |-> FALSE, attached |-> FALSE, active |-> FALSE,
   size |-> 0, numbers |-> [p \in {o.prefix : o \in JpObjects} |-> 0],
   mem |-> << >>, ins |-> <<>>, outs |-> <<>>, nodes |-> <<>>, nextid |-> 1,
   myid |-> [o \in JpObjects |-> -1], opened |-> {},
   cycle |-> 0, ran |-> FALSE, heard |-> << >>, read |-> << >>, fault |-> FALSE, steps |-> 0]

Connected(d) == d.client \in {"idle", "active"}
Use(d) == [d EXCEPT !.fault = @ \/ d.client = "none"]

----------------------------------------------------------------------------
(* Nodes: register_object(), unregister_object(), get_node().              *)
RegisterSameId(d, o) ==
  [d EXCEPT !.nodes = Append(@, [id |-> d.nextid, obj |-> o, ports |-> <<>>]), !.myid[o] = d.nextid]
RegisterObject(d, o) ==
  [d EXCEPT !.nodes = Append(@, [id |-> d.nextid, obj |-> o, ports |-> <<>>]),
            !.myid[o] = d.nextid, !.nextid = @ + 1]
UnregisterObject(d, o) ==
  LET n == Min({k \in DOMAIN d.nodes : d.nodes[k].id = d.myid[o]}) IN
  [d EXCEPT !.nodes = [k \in 1..(Len(@) - 1) |-> @[IF k < n THEN k ELSE k + 1]], !.myid[o] = -1]
NodeOf(d, o) == Min({k \in DOMAIN d.nodes : d.nodes[k].id = d.myid[o]})
PortsOf(d, o) == d.nodes[NodeOf(d, o)].ports

----------------------------------------------------------------------------
(* open_server_connection(), close_server_connection(), open(), close().   *)
CloseConnection(d) ==
  [Use(d) EXCEPT !.client = "none", !.names = {}, !.links = {}, !.shutdown = FALSE, !.open = FALSE,
                 !.numbers = [p \in DOMAIN @ |-> 0]]
OpenConnection(d) ==
  IF ~d.up THEN d
  ELSE [d EXCEPT !.client = "idle", !.open = TRUE, !.shutdown = FALSE, !.size = d.server]
ManagerOpen(d) == [(IF d.open THEN d ELSE OpenConnection(d)) EXCEPT !.opens = @ + 1]
ManagerCloseAny(d) == [(IF d.open THEN CloseConnection(d) ELSE d) EXCEPT !.opens = @ - 1]
ManagerClose(d) ==
  [(IF d.opens = 1 /\ d.open THEN CloseConnection(d) ELSE d) EXCEPT !.opens = @ - 1]

(* register_jack_ports(): without a server a port is registered as 0.      *)
Fresh(d) == Min(1..(Cardinality(DOMAIN d.mem) + 1) \ DOMAIN d.mem)
AddPort(d, o) ==
  LET i == Fresh(d)
      name == <<o.prefix, d.numbers[o.prefix] + 1>>
      ok == Connected(d) /\ name \notin d.names
  IN [Use(d) EXCEPT
        !.mem = [j \in DOMAIN @ \cup {i} |-> IF j = i THEN
                   [name |-> IF ok THEN name ELSE <<>>, auto |-> <<>>, latency |-> 0, buf |-> <<>>] ELSE @[j]],
        !.numbers[o.prefix] = @ + 1,
        !.names = IF ok THEN @ \cup {name} ELSE @,
        !.ins = IF o.dir = "read" THEN Append(@, i) ELSE @,
        !.outs = IF o.dir = "write" THEN Append(@, i) ELSE @,
        !.nodes[NodeOf(d, o)].ports = Append(@, i)]
RegisterPorts(d, o) ==
  LET after[n \in 0..Channels(o)] == IF n = 0 THEN d ELSE AddPort(after[n - 1], o) IN after[Channels(o)]

Except(s, gone) == SelectSeq(s, LAMBDA i : i \notin gone)
UnregisterPorts(d, o) ==
  LET gone == Range(PortsOf(d, o)) IN
  [d EXCEPT !.fault = @ \/ \E i \in gone : i \notin DOMAIN d.mem \/ (d.open /\ d.mem[i].name # <<>> /\ d.client = "none"),
            !.names = @ \ {d.mem[i].name : i \in gone \cap DOMAIN d.mem},
            !.links = {l \in @ : \A i \in gone \cap DOMAIN d.mem : d.mem[i].name \notin {l[1], l[2]}},
            !.ins = Except(@, gone), !.outs = Except(@, gone),
            !.mem = Restrict(@, DOMAIN @ \ gone),
            !.nodes[NodeOf(d, o)].ports = <<>>]

(* auto_connect_jack_port(), auto_connect_jack_port_client(): the ports of *)
(* the other direction.                                                    *)
ForeignOf(o, client) ==
  SelectSeq(JpForeign, LAMBDA f : f.client = client /\ f.dir # o.dir)
Target(d, o, n) ==
  CASE o.kind = "jack_multi" -> IF n <= Len(o.params) THEN o.params[n] ELSE <<>>
    [] o.kind = "jack_alsa" -> IF o.dir = "read" THEN <<"capture", n>> ELSE <<"playback", n>>
    [] o.kind \in {"jack", "jack_auto"} /\ o.params # <<>> ->
         LET fs == ForeignOf(o, o.params[1]) IN IF d.up /\ n <= Len(fs) THEN fs[n].name ELSE <<>>
    [] OTHER -> <<>>
AutoConnect(d, o) ==
  LET ports == PortsOf(d, o) IN
  [d EXCEPT !.mem = [i \in DOMAIN @ |->
     IF \E n \in DOMAIN ports : ports[n] = i
     THEN [@[i] EXCEPT !.auto = Target(d, o, CHOOSE n \in DOMAIN ports : ports[n] = i)] ELSE @[i]]]

(* set_node_connection(), connect_all_nodes(), get_total_port_latency().   *)
ForeignPort(name) == CHOOSE f \in Range(JpForeign) : f.name = name
Connectable(d, o, i) == d.mem[i].auto \in {f.name : f \in {g \in Range(JpForeign) : g.dir # o.dir}}
Link(d, o, i) ==
  IF o.dir = "read" THEN <<d.mem[i].auto, d.mem[i].name>> ELSE <<d.mem[i].name, d.mem[i].auto>>
ConnectAll(d) ==
  IF d.shutdown THEN (IF d.open THEN CloseConnection(d) ELSE d)
  ELSE LET pairs == {x \in (DOMAIN d.nodes) \X (DOMAIN d.mem) :
                       x[2] \in Range(d.nodes[x[1]].ports) /\ Connectable(d, d.nodes[x[1]].obj, x[2])}
       IN [Use(d) EXCEPT
             !.links = @ \cup {Link(d, d.nodes[x[1]].obj, x[2]) : x \in pairs},
             !.mem = [i \in DOMAIN @ |-> IF \E x \in pairs : x[2] = i
                        THEN [@[i] EXCEPT !.latency = ForeignPort(d.mem[i].auto).latency] ELSE @[i]]]
(* client_latency()                                                        *)
ClientLatency(d, o) == Max({-1} \cup {d.mem[i].latency : i \in Range(PortsOf(d, o))})

----------------------------------------------------------------------------
(* AUDIO_IO_JACK::open() and close().                                      *)
ObjectOpen(d, o) ==
  LET m == ManagerOpen(d) IN
  IF ~m.open THEN m
  ELSE IF m.size # 1 THEN ManagerClose(m)
  ELSE [AutoConnect(RegisterPorts(m, o), o) EXCEPT !.opened = @ \cup {o}]
ObjectClose(d, o) == [ManagerClose(UnregisterPorts(d, o)) EXCEPT !.opened = @ \ {o}]

(* activate_server_connection() and deactivate_server_connection().        *)
ActivateServer(d) ==
  IF d.client # "idle" THEN [Use(d) EXCEPT !.attached = TRUE]
  ELSE [ConnectAll([d EXCEPT !.attached = TRUE, !.client = "active"]) EXCEPT !.active = TRUE]
DeactivateServer(d) ==
  LET s == IF ~d.active \/ d.shutdown THEN d
           ELSE [Use(d) EXCEPT !.client = IF @ = "active" THEN "idle" ELSE @, !.links = {}]
  IN [s EXCEPT !.active = FALSE, !.attached = FALSE, !.ran = FALSE, !.heard = << >>]

(* A process cycle: the callback moves the audio of the ports, the engine  *)
(* that of the objects (read_samples(), write_samples()).                  *)
PortIn(d) ==
  [d EXCEPT !.mem = [i \in DOMAIN @ |-> IF i \in Range(d.ins) THEN [@[i] EXCEPT !.buf = <<d.cycle, i>>] ELSE @[i]]]
ReadPorts(d, o) == [n \in DOMAIN PortsOf(d, o) |-> d.mem[PortsOf(d, o)[n]].buf]
WritePorts(d, o) ==
  LET ports == PortsOf(d, o) IN
  [d EXCEPT !.mem = [i \in DOMAIN @ |-> IF i \in Range(ports)
     THEN [@[i] EXCEPT !.buf = <<d.cycle, o, CHOOSE n \in DOMAIN ports : ports[n] = i>>] ELSE @[i]]]
Engine(d) ==
  LET outs == {o \in d.opened : o.dir = "write"}
      after == FoldSet(LAMBDA o, e : WritePorts(e, o), d, outs)
  IN [after EXCEPT !.read = [o \in d.opened \ outs |-> ReadPorts(d, o)]]
PortOut(d) == [d EXCEPT !.heard = [i \in Range(d.outs) |-> d.mem[i].buf]]
Mute(d) == [d EXCEPT !.heard = [i \in Range(d.outs) |-> <<>>]]
ProcessCycle(d, runs) ==
  IF d.shutdown \/ ~d.attached THEN [d EXCEPT !.ran = FALSE]
  ELSE IF runs THEN [PortOut(Engine(PortIn(d))) EXCEPT !.ran = TRUE]
  ELSE [Mute(d) EXCEPT !.ran = FALSE]

----------------------------------------------------------------------------
JpInit == jp = NewManager

JpStep(next) == jp.steps < JpSteps /\ jp' = [next EXCEPT !.steps = jp.steps + 1]
Registered(o) == jp.myid[o] # -1
Phase == IF jp.attached THEN "active" ELSE IF jp.open THEN "idle" ELSE "closed"

JpRegister == ~jp.attached /\ \E o \in JpObjects : ~Registered(o) /\ JpStep(RegisterObject(jp, o))
JpUnregister ==
  ~jp.attached /\ \E o \in JpObjects \ jp.opened : Registered(o) /\ JpStep(UnregisterObject(jp, o))
JpOpen ==
  /\ ~jp.attached /\ (jp.up \/ jp.open \/ "closed" \in JpDies)
  /\ \E o \in JpObjects \ jp.opened : Registered(o) /\ JpStep(ObjectOpen(jp, o))
JpClose == ~jp.attached /\ \E o \in jp.opened : JpStep(ObjectClose(jp, o))
JpActivate == ~jp.attached /\ jp.opened # {} /\ JpStep(ActivateServer(jp))
JpCycle ==
  /\ jp.client = "active"
  /\ \E runs \in BOOLEAN : JpStep(ProcessCycle([jp EXCEPT !.cycle = @ + 1], runs))
JpLeave == jp.attached /\ JpStep(DeactivateServer(jp))

(* The server; a client whose server is gone gets nothing more.            *)
ServerDies ==
  /\ jp.up /\ Phase \in JpDies
  /\ JpStep([jp EXCEPT !.up = FALSE, !.names = {}, !.links = {}, !.shutdown = @ \/ Connected(jp),
               !.client = IF @ = "none" THEN @ ELSE "dead"])
ServerStarts ==
  /\ ~jp.up /\ \E n \in JpSizes : JpStep([jp EXCEPT !.up = TRUE, !.server = n])
ServerResizes ==
  /\ jp.up /\ Phase \in JpResizes
  /\ \E n \in JpSizes \ {jp.server} :
       JpStep([jp EXCEPT !.server = n, !.shutdown = @ \/ (Connected(jp) /\ n # jp.size)])

JpNext ==
  \/ JpRegister \/ JpUnregister \/ JpOpen \/ JpClose \/ JpActivate \/ JpCycle \/ JpLeave
  \/ ServerDies \/ ServerStarts \/ ServerResizes
JpSpec == JpInit /\ [][JpNext]_jp

----------------------------------------------------------------------------
JpTypeOK ==
  /\ jp.client \in {"none", "idle", "active", "dead"} /\ jp.opens \in Nat
  /\ jp.opened \subseteq JpObjects /\ Range(jp.ins) \cup Range(jp.outs) \subseteq DOMAIN jp.mem

(* There is a connection to the server exactly while an object is open,    *)
(* opens that failed and servers that died in between notwithstanding; and *)
(* no call is made without one.                                            *)
ConnectionMatches ==
  ~jp.fault /\ jp.open = (jp.opened # {}) /\ jp.opens = Cardinality(jp.opened)
            /\ (jp.open <=> jp.client # "none")

(* The ports at the server are those of the open objects: one for each     *)
(* channel, no two alike, each in the vector of its direction.             *)
PortsMatch ==
  /\ DOMAIN jp.mem = UNION {Range(PortsOf(jp, o)) : o \in jp.opened}
  /\ \A o \in jp.opened :
       /\ Len(PortsOf(jp, o)) = Channels(o)
       /\ Range(PortsOf(jp, o)) \subseteq Range(IF o.dir = "read" THEN jp.ins ELSE jp.outs)
       /\ Connected(jp) => \A i \in Range(PortsOf(jp, o)) : jp.mem[i].name # <<>>
  /\ Connected(jp) => /\ jp.names = {jp.mem[i].name : i \in DOMAIN jp.mem}
                  /\ Cardinality(jp.names) = Cardinality(DOMAIN jp.mem)
  /\ Len(jp.ins) + Len(jp.outs) = Cardinality(DOMAIN jp.mem)

(* While the client is active each port is connected to what its object    *)
(* has been given for the channel, and the latency of an object is that of *)
(* its slowest connection.                                                 *)
WantedBy(o) == {<<n, Target(jp, o, n)>> : n \in 1..Channels(o)}
Reachable(o) == {x \in WantedBy(o) : x[2] \in {f.name : f \in {g \in Range(JpForeign) : g.dir # o.dir}}}
LinksMatch ==
  jp.client = "active" /\ jp.attached =>
    /\ jp.links = UNION {{IF o.dir = "read" THEN <<x[2], jp.mem[PortsOf(jp, o)[x[1]]].name>>
                          ELSE <<jp.mem[PortsOf(jp, o)[x[1]]].name, x[2]>> : x \in Reachable(o)} : o \in jp.opened}
    /\ \A o \in jp.opened : ClientLatency(jp, o) = Max({0} \cup {ForeignPort(x[2]).latency : x \in Reachable(o)})

(* In a cycle each object reads what arrived at its own ports and each     *)
(* port plays what its own object has written, channel by channel; when    *)
(* the engine does not run they are silent, and never play an old block.   *)
AudioMatches ==
  /\ jp.ran => \A o \in jp.opened : \A n \in 1..Channels(o) :
       IF o.dir = "read" THEN jp.read[o][n] = <<jp.cycle, PortsOf(jp, o)[n]>>
       ELSE jp.heard[PortsOf(jp, o)[n]] = <<jp.cycle, o, n>>
  /\ ~jp.ran /\ jp.client = "active" /\ jp.cycle > 0 => \A i \in DOMAIN jp.heard : jp.heard[i] = <<>>

JackPortsSound == ConnectionMatches /\ PortsMatch /\ LinksMatch /\ AudioMatches
=============================================================================
