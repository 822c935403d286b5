---------------------------- MODULE SessionProofs ----------------------------
(***************************************************************************)
(* The commands of Session that connect, disconnect and replace            *)
(* chainsetups, for any names and any number of chainsetups.               *)
(***************************************************************************)
EXTENDS Session, FiniteSetTheorems, SequenceTheorems, TLAPS

States == {"none", "idle", "running"}
Refs == {0} \cup Ptrs
Titles == SetupNames \cup {TempName}
Commands ==
  {"none", "add", "load", "select", "remove", "connect", "disconnect", "option", "chain",
   "edit", "launch", "start", "run", "stop", "halt", "setpos"}

Sessions ==
  [setups : Seq(Ptrs), name : [Ptrs -> Titles], valid : SUBSET Ptrs,
   sel : Refs, ssel : Refs, conn : Refs, on : SUBSET Ptrs, engine : States,
   fault : Faults, cmd : Commands, failed : BOOLEAN, lost : Refs]

(* No chainsetup is in the session twice, nor two of a name.               *)
Listed(s) ==
  /\ IsInjective(s.setups)
  /\ \A p, q \in ToSet(s.setups) : s.name[p] = s.name[q] => p = q

(* The pointers are null or to chainsetups of the session.                 *)
Known(s) == {s.sel, s.ssel, s.conn} \subseteq {0} \cup ToSet(s.setups)

(* Only the connected chainsetup is enabled, and only with it is there an  *)
(* engine.                                                                 *)
Single(s) == s.on \subseteq {s.conn} \cap ToSet(s.setups)
Driven(s) == s.engine # "none" => IsConnected(s)

(* What holds in the middle of a command too.                              *)
Basic(s) == Known(s) /\ Single(s) /\ Driven(s)
Fine(s) == s \in Sessions /\ Listed(s) /\ (s.fault = "none" => Basic(s))

(* ECA_SESSION's selection is that of ECA_CONTROL or none.                 *)
Agreed(s) == s.ssel \in {0, s.sel}
(* There is a pointer left, and no chainsetup has the temporary name.      *)
Room(s) == Len(s.setups) <= MaxSetups
Plain(s) == \A p \in ToSet(s.setups) : s.name[p] # TempName

(* There is a pointer for one more chainsetup.                             *)
Free(s) == \E p \in Ptrs : p \notin ToSet(s.setups) \cup {s.sel, s.ssel, s.conn}
(* The names when one chainsetup has got another.                          *)
Renamed(s, p, n) == [s.name EXCEPT ![p] = n]

(* The invariant: what holds between commands.                             *)
Rest(s) == Fine(s) /\ (s.fault = "none" => Agreed(s) /\ Room(s) /\ Plain(s))

(* Connecting and disconnecting change neither the chainsetups nor what is *)
(* selected.                                                               *)
Same(s, t) ==
  /\ t.setups = s.setups /\ t.name = s.name /\ t.valid = s.valid
  /\ t.sel = s.sel /\ t.ssel = s.ssel /\ t.cmd = s.cmd /\ t.lost = s.lost

-----------------------------------------------------------------------------
(* Finding, selecting.                                                     *)

\* Pointers are positive numbers.
LEMMA PtrsPositive == Ptrs \subseteq Nat \ {0} /\ 0 \notin Ptrs
BY SessionAssumption DEF Ptrs

\* The elements of the list are pointers.
LEMMA ListedPtrs ==
  ASSUME NEW s \in Sessions
  PROVE  ToSet(s.setups) \subseteq Ptrs
<1>1. s.setups \in Seq(Ptrs)
  BY DEF Sessions
<1> QED BY <1>1 DEF ToSet

\* A chainsetup is found by its name, or there is none of that name.
LEMMA NamedFound ==
  ASSUME NEW s \in Sessions, Listed(s), NEW n
  PROVE  \/ /\ Named(s, n) \in ToSet(s.setups) /\ Named(s, n) # 0
            /\ s.name[Named(s, n)] = n
         \/ Named(s, n) = 0 /\ \A p \in ToSet(s.setups) : s.name[p] # n
<1>1. s.setups \in Seq(Ptrs)
  BY DEF Sessions
<1>2. ToSet(s.setups) = {s.setups[i] : i \in 1..Len(s.setups)}
  BY <1>1 DEF ToSet
<1>3. CASE Found(s, n) = {}
  <2>1. Named(s, n) = 0
    BY <1>3 DEF Named
  <2>2. \A i \in 1..Len(s.setups) : s.name[s.setups[i]] # n
    BY <1>3 DEF Found
  <2> QED BY <2>1, <2>2, <1>2
<1>4. CASE Found(s, n) # {}
  <2>1. PICK i \in 1..Len(s.setups) : s.name[s.setups[i]] = n
    BY <1>4 DEF Found
  <2>2. \A j \in Found(s, n) : j = i
    BY <2>1, <1>1, <1>2 DEF Found, Listed, IsInjective
  <2>3. i \in Found(s, n) /\ i <= i
    BY <2>1, <1>1 DEF Found
  <2>4. (CHOOSE k \in Found(s, n) : \A j \in Found(s, n) : k <= j) = i
    BY <2>2, <2>3
  <2>5. Named(s, n) = s.setups[i]
    BY <2>4, <1>4 DEF Named
  <2>6. s.setups[i] \in Ptrs
    BY <1>1
  <2> QED BY <2>1, <2>5, <2>6, <1>2, PtrsPositive
<1> QED BY <1>3, <1>4

\* A name has one chainsetup at most.
LEMMA NamedOnly ==
  ASSUME NEW s \in Sessions, Listed(s), NEW p \in ToSet(s.setups)
  PROVE  Named(s, s.name[p]) = p
BY NamedFound DEF Listed

\* Selecting changes what is selected, and nothing else.
LEMMA Selects ==
  ASSUME NEW s, Fine(s), NEW n
  PROVE  LET t == Select(s, n) IN
         /\ Fine(t) /\ t.sel = Named(s, n) /\ t.ssel = Named(s, n) /\ t.fault = s.fault
         /\ t.setups = s.setups /\ t.name = s.name /\ t.valid = s.valid /\ t.conn = s.conn
         /\ t.on = s.on /\ t.engine = s.engine /\ t.cmd = s.cmd /\ t.failed = s.failed
<1>1. PICK t : t = [s EXCEPT !.sel = Named(s, n), !.ssel = Named(s, n)]
  OBVIOUS
<1>2. s \in Sessions /\ Listed(s)
  BY DEF Fine
<1>3. Named(s, n) \in {0} \cup ToSet(s.setups) /\ Named(s, n) \in Refs
  BY <1>2, NamedFound, ListedPtrs DEF Refs
<1>4. /\ t.sel = Named(s, n) /\ t.ssel = Named(s, n) /\ t.fault = s.fault
      /\ t.setups = s.setups /\ t.name = s.name /\ t.valid = s.valid /\ t.conn = s.conn
      /\ t.on = s.on /\ t.engine = s.engine /\ t.cmd = s.cmd /\ t.failed = s.failed
  BY <1>1, <1>2 DEF Sessions
<1>5. t \in Sessions
  BY <1>1, <1>2, <1>3 DEF Sessions
<1>6. Listed(t)
  BY <1>2, <1>4 DEF Listed
<1>7. t.fault = "none" => Known(t) /\ Single(t)
  BY <1>3, <1>4 DEF Fine, Basic, Known, Single
<1>8. t.fault = "none" => Driven(t)
  BY <1>4 DEF Fine, Basic, Driven, IsConnected
<1> QED BY <1>1, <1>4, <1>5, <1>6, <1>7, <1>8 DEF Select, Fine, Basic

-----------------------------------------------------------------------------
(* Connecting.                                                             *)

\* ECA_CONTROL::disconnect_chainsetup() leaves nothing enabled and no engine, if
\* there was something connected.
LEMMA Disconnects ==
  ASSUME NEW s, Fine(s)
  PROVE  LET t == Disconnect(s) IN
         /\ Fine(t) /\ Same(s, t) /\ t.failed = s.failed
         /\ t.fault = "none" =>
              s.fault = "none" /\ s.conn # 0 /\ t.conn = 0 /\ t.on = {} /\ t.engine = "none"
<1>1. PICK u : u = [s EXCEPT !.engine = "none"]
  OBVIOUS
<1>2. s \in Sessions
  BY DEF Fine
<1>3. u \in Sessions /\ u.engine = "none" /\ u.conn = s.conn /\ u.on = s.on
  BY <1>1, <1>2 DEF Sessions, States
<1>4. Same(s, u) /\ u.failed = s.failed /\ u.fault = s.fault
  BY <1>1, <1>2 DEF Sessions, Same
<1>5. PICK t : t = Disconnect(s)
  OBVIOUS
<1>6. t = SessionDisconnect(u)
  BY <1>1, <1>5 DEF Disconnect
<1>7. CASE u.conn = 0
  <2>1. t = Fault(u, "null")
    BY <1>6, <1>7 DEF SessionDisconnect
  <2>2. t \in Sessions /\ t.fault # "none" /\ Same(u, t) /\ t.failed = u.failed
    BY <2>1, <1>3 DEF Fault, Faults, Same, Sessions
  <2> QED BY <2>2, <1>4, <1>5 DEF Fine, Same, Listed
<1>8. CASE u.conn # 0
  <2>1. t = [u EXCEPT !.on = u.on \ {u.conn}, !.conn = 0]
    BY <1>6, <1>8 DEF SessionDisconnect
  <2>2. t \in Sessions
    BY <2>1, <1>3 DEF Sessions, Refs
  <2>3. /\ Same(u, t) /\ t.failed = u.failed /\ t.fault = u.fault
        /\ t.on = u.on \ {u.conn} /\ t.conn = 0 /\ t.engine = "none"
    BY <2>1, <1>3 DEF Sessions, Same
  <2>4. ASSUME t.fault = "none" PROVE Basic(s) /\ s.fault = "none" /\ t.on = {}
    BY <2>3, <2>4, <1>3, <1>4 DEF Fine, Basic, Single
  <2>5. ASSUME t.fault = "none" PROVE Known(t) /\ Single(t) /\ Driven(t)
    BY <2>3, <2>4, <2>5, <1>4 DEF Basic, Known, Single, Driven, Same
  <2>6. Listed(t) /\ Same(s, t)
    BY <2>3, <1>4 DEF Fine, Same, Listed
  <2> QED BY <2>2, <2>3, <2>4, <2>5, <2>6, <1>3, <1>4, <1>5, <1>8 DEF Fine, Basic
<1> QED BY <1>7, <1>8

\* ECA_SESSION::connect_chainsetup() connects what the session has selected, or
\* fails and leaves nothing connected.
LEMMA SessionConnects ==
  ASSUME NEW s, Fine(s), s.fault = "none" => s.engine = "none", NEW ok \in BOOLEAN
  PROVE  LET t == SessionConnect(s, ok) IN
         /\ Fine(t) /\ Same(s, t)
         /\ t.fault = "none" =>
              /\ s.fault = "none" /\ s.ssel # 0 /\ t.engine = "none"
              /\ s.failed => t.failed
              /\ t.conn \in {0, s.ssel}
              /\ s.conn = 0 /\ ~t.failed => t.conn = s.ssel /\ t.conn \in t.on
<1>1. PICK t : t = SessionConnect(s, ok)
  OBVIOUS
<1>2. s \in Sessions
  BY DEF Fine
<1>3. CASE s.ssel = 0
  <2>1. t = Fault(s, "null")
    BY <1>1, <1>3 DEF SessionConnect
  <2>2. t \in Sessions /\ t.fault # "none" /\ Same(s, t)
    BY <2>1, <1>2 DEF Fault, Faults, Same, Sessions
  <2> QED BY <2>2, <1>1 DEF Fine, Same, Listed
<1>4. CASE s.ssel # 0 /\ s.ssel = s.conn
  <2>1. t = s
    BY <1>1, <1>4 DEF SessionConnect
  <2> QED BY <2>1, <1>1, <1>4 DEF Same
<1>5. CASE s.ssel # 0 /\ s.ssel # s.conn
  <2>1. PICK d : d = IF s.conn # 0 THEN SessionDisconnect(s) ELSE s
    OBVIOUS
  <2>2. s.conn # 0 => d = [s EXCEPT !.on = s.on \ {s.conn}, !.conn = 0]
    BY <2>1 DEF SessionDisconnect
  <2>3. d \in Sessions
    <3>1. CASE s.conn # 0
      BY <3>1, <2>2, <1>2 DEF Sessions, Refs
    <3>2. CASE s.conn = 0
      BY <3>2, <2>1, <1>2
    <3> QED BY <3>1, <3>2
  <2>4. /\ Same(s, d) /\ d.failed = s.failed /\ d.fault = s.fault /\ d.engine = s.engine
        /\ d.conn = 0 /\ d.on = s.on \ {s.conn}
    <3>1. CASE s.conn # 0
      BY <3>1, <2>2, <1>2 DEF Sessions, Same
    <3>2. CASE s.conn = 0
      <4>1. s.on \subseteq Ptrs
        BY <1>2 DEF Sessions
      <4> QED BY <4>1, <3>2, <2>1, PtrsPositive DEF Same
    <3> QED BY <3>1, <3>2
  <2>5. t = IF ok THEN [d EXCEPT !.on = d.on \cup {d.ssel}, !.conn = d.ssel]
                  ELSE [d EXCEPT !.failed = TRUE]
    BY <2>1, <1>1, <1>5 DEF SessionConnect
  <2>6. d.ssel \in Ptrs
    BY <2>3, <2>4, <1>5 DEF Sessions, Refs, Same
  <2>7. /\ Same(d, t) /\ t.fault = d.fault /\ t.engine = d.engine /\ t \in Sessions
        /\ \/ t.failed /\ t.conn = d.conn /\ t.on = d.on
           \/ t.failed = d.failed /\ t.conn = d.ssel /\ t.on = d.on \cup {d.ssel}
    <3>1. CASE ok
      BY <3>1, <2>3, <2>5, <2>6 DEF Sessions, Refs, Same
    <3>2. CASE ~ok
      BY <3>2, <2>3, <2>5 DEF Sessions, Same
    <3> QED BY <3>1, <3>2
  <2>8. ASSUME t.fault = "none" PROVE Basic(t)
    <3>1. Basic(s) /\ s.engine = "none"
      BY <2>4, <2>7, <2>8 DEF Fine
    <3>2. d.on = {} /\ s.ssel \in ToSet(s.setups)
      BY <3>1, <2>4, <1>5 DEF Basic, Single, Known
    <3>3. Known(t) /\ Single(t)
      BY <3>1, <3>2, <2>4, <2>7 DEF Basic, Known, Single, Same
    <3>4. Driven(t)
      BY <3>1, <2>4, <2>7 DEF Driven
    <3> QED BY <3>3, <3>4 DEF Basic
  <2>9. Same(s, t) /\ Listed(t)
    BY <2>4, <2>7 DEF Same, Fine, Listed
  <2> QED BY <2>4, <2>7, <2>8, <2>9, <1>1, <1>5 DEF Fine, Same
<1> QED BY <1>3, <1>4, <1>5

\* ECA_CONTROL::connect_chainsetup() disconnects the one that is connected first.
LEMMA Connects ==
  ASSUME NEW s, Fine(s), NEW ok \in BOOLEAN
  PROVE  LET t == Connect(s, ok) IN
         /\ Fine(t) /\ Same(s, t)
         /\ t.fault = "none" =>
              /\ s.fault = "none" /\ s.ssel # 0 /\ t.engine = "none"
              /\ s.failed => t.failed
              /\ t.conn \in {0, s.ssel}
              /\ s.conn = 0 /\ ~t.failed => t.conn = s.ssel /\ t.conn \in t.on
<1>1. PICK u : u = IF IsConnected(s) THEN Disconnect(s) ELSE s
  OBVIOUS
<1>2. PICK t : t = SessionConnect(u, ok)
  OBVIOUS
<1>3. t = Connect(s, ok)
  BY <1>1, <1>2 DEF Connect
<1>4. /\ Fine(u) /\ Same(s, u) /\ u.failed = s.failed
      /\ u.fault = "none" => s.fault = "none" /\ u.engine = "none"
      /\ u.fault = "none" /\ s.conn = 0 => u.conn = 0
  <2>1. CASE IsConnected(s)
    BY <2>1, <1>1, Disconnects
  <2>2. CASE ~IsConnected(s)
    BY <2>2, <1>1 DEF Fine, Basic, Driven, Same
  <2> QED BY <2>1, <2>2
<1>5. /\ Fine(t) /\ Same(u, t)
      /\ t.fault = "none" =>
           /\ u.fault = "none" /\ u.ssel # 0 /\ t.engine = "none"
           /\ u.failed => t.failed
           /\ t.conn \in {0, u.ssel}
           /\ u.conn = 0 /\ ~t.failed => t.conn = u.ssel /\ t.conn \in t.on
  BY <1>2, <1>4, SessionConnects
<1> QED BY <1>3, <1>4, <1>5 DEF Same

\* Starting the engine needs a connected chainsetup.
LEMMA Starts ==
  ASSUME NEW s, Fine(s)
  PROVE  LET t == Start(s) IN
         /\ Fine(t) /\ Same(s, t) /\ t.fault = s.fault /\ t.failed = s.failed
         /\ t.conn = s.conn /\ t.on = s.on
         /\ IsConnected(s) => t.engine = "running"
<1>1. PICK t : t = Start(s)
  OBVIOUS
<1>2. s \in Sessions
  BY DEF Fine
<1>3. CASE IsConnected(s)
  <2>1. t = [s EXCEPT !.engine = "running"]
    BY <1>1, <1>3 DEF Start
  <2>2. /\ t \in Sessions /\ t.engine = "running" /\ t.fault = s.fault /\ t.conn = s.conn
        /\ t.on = s.on /\ t.failed = s.failed
    BY <2>1, <1>2 DEF Sessions, States
  <2>3. Same(s, t)
    BY <2>1, <1>2 DEF Sessions, Same
  <2>4. t.fault = "none" => Basic(t)
    BY <2>2, <2>3, <1>3 DEF Fine, Basic, Known, Single, Driven, IsConnected, Same
  <2>5. Listed(t)
    BY <2>3 DEF Fine, Listed, Same
  <2> QED BY <2>2, <2>3, <2>4, <2>5, <1>1 DEF Fine
<1>4. CASE ~IsConnected(s)
  BY <1>4, <1>1 DEF Start, Same
<1> QED BY <1>3, <1>4

-----------------------------------------------------------------------------
(* The beginning and the end of every command.                             *)

Begun(z, cmd) == [z EXCEPT !.cmd = cmd, !.failed = FALSE, !.lost = 0]

\* What a command begins with.
LEMMA Begins ==
  ASSUME NEW z, Rest(z), z.fault = "none", NEW cmd \in Commands
  PROVE  LET s == Begun(z, cmd) IN
         /\ Rest(s) /\ s.fault = "none" /\ s.cmd = cmd /\ ~s.failed /\ s.setups = z.setups
         /\ s.name = z.name /\ s.valid = z.valid /\ s.sel = z.sel /\ s.ssel = z.ssel
         /\ s.conn = z.conn /\ s.on = z.on /\ s.engine = z.engine
<1>1. PICK s : s = Begun(z, cmd)
  OBVIOUS
<1>2. z \in Sessions /\ Listed(z) /\ Basic(z)
  BY DEF Rest, Fine
<1>3. s \in Sessions
  BY <1>1, <1>2 DEF Begun, Sessions, Refs
<1>4. /\ s.fault = "none" /\ s.cmd = cmd /\ ~s.failed /\ s.setups = z.setups
      /\ s.name = z.name /\ s.valid = z.valid /\ s.sel = z.sel /\ s.ssel = z.ssel
      /\ s.conn = z.conn /\ s.on = z.on /\ s.engine = z.engine
  BY <1>1, <1>2 DEF Begun, Sessions
<1>5. Listed(s) /\ Basic(s)
  BY <1>2, <1>4 DEF Basic, Listed, Known, Single, Driven, IsConnected
<1>6. Agreed(s) /\ Room(s) /\ Plain(s)
  BY <1>4 DEF Rest, Agreed, Room, Plain
<1> QED BY <1>1, <1>3, <1>4, <1>5, <1>6 DEF Rest, Fine

\* Connecting and disconnecting keep the invariant.
LEMMA SameRest ==
  ASSUME NEW s, NEW t, Rest(s), Fine(t), Same(s, t), t.fault = "none" => s.fault = "none"
  PROVE  Rest(t)
BY DEF Rest, Agreed, Room, Plain, Same

\* The preconditions keep the invariant, and see to it that something is selected or
\* connected where the command needs it.
LEMMA Preconditions ==
  ASSUME NEW s, Rest(s), s.fault = "none", NEW cmd, NEW ok \in BOOLEAN
  PROVE  LET pre == Precondition(s, cmd, ok) IN
         /\ Rest(pre.s) /\ pre.s.cmd = s.cmd /\ pre.s.setups = s.setups
         /\ pre.go /\ pre.s.fault = "none" =>
              /\ cmd \in NeedsSelected => pre.s.sel # 0
              /\ cmd = "launch" => IsConnected(pre.s)
         /\ pre.reconnect => cmd \in NeedsOffline
         /\ IsConnected(s) /\ s.sel = s.conn /\ cmd \in NeedsOffline =>
              /\ pre.s = Disconnect(s) /\ pre.go /\ pre.reconnect
              /\ pre.restart = (s.engine = "running")
         /\ IsConnected(s) /\ s.sel = s.conn /\ cmd = "edit" =>
              pre.s = s /\ pre.go /\ ~pre.reconnect
<1>1. PICK pre : pre = Precondition(s, cmd, ok)
  OBVIOUS
<1>2. Fine(s) /\ s \in Sessions /\ Listed(s) /\ Basic(s)
  BY DEF Rest, Fine
<1>3. CASE s.sel = 0 /\ cmd \in NeedsSelected
  <2>1. CASE IsConnected(s)
    <3>1. pre = Outcome(Select(s, NameOf(s, s.conn)), TRUE, FALSE, FALSE)
      BY <2>1, <1>1, <1>3 DEF Precondition
    <3>2. pre.s = Select(s, NameOf(s, s.conn)) /\ pre.go /\ ~pre.reconnect
      BY <3>1 DEF Outcome
    <3>3. s.conn # 0 /\ s.conn \in ToSet(s.setups)
      BY <2>1, <1>2 DEF IsConnected, Basic, Known
    <3>4. Named(s, NameOf(s, s.conn)) = s.conn
      BY <3>3, <1>2, NamedOnly DEF NameOf, Basic
    <3>5. /\ Fine(pre.s) /\ pre.s.sel = s.conn /\ pre.s.ssel = s.conn /\ pre.s.fault = "none"
          /\ pre.s.setups = s.setups /\ pre.s.name = s.name /\ pre.s.cmd = s.cmd
          /\ pre.s.valid = s.valid /\ pre.s.conn = s.conn /\ pre.s.on = s.on
      BY <3>2, <3>4, <1>2, Selects
    <3>6. Rest(pre.s)
      BY <3>5 DEF Rest, Agreed, Room, Plain
    <3>7. cmd # "launch"
      BY <1>3 DEF NeedsSelected
    <3> QED BY <3>2, <3>3, <3>5, <3>6, <3>7, <1>1, <1>3
  <2>2. CASE ~IsConnected(s)
    <3>1. pre = Outcome(s, FALSE, FALSE, FALSE)
      BY <2>2, <1>1, <1>3 DEF Precondition
    <3> QED BY <3>1, <2>2, <1>1 DEF Outcome
  <2> QED BY <2>1, <2>2
<1>4. CASE ~(s.sel = 0 /\ cmd \in NeedsSelected) /\ ~IsConnected(s) /\ cmd \in NeedsConnected
  <2>1. PICK t : t = IF s.sel # 0 /\ s.sel \in s.valid THEN Connect(s, ok) ELSE s
    OBVIOUS
  <2>2. pre = Outcome(t, IsConnected(t), FALSE, FALSE)
    BY <2>1, <1>1, <1>4 DEF Precondition
  <2>3. pre.s = t /\ pre.go = IsConnected(t) /\ ~pre.reconnect
    BY <2>2 DEF Outcome
  <2>4. Fine(t) /\ Same(s, t)
    <3>1. CASE s.sel # 0 /\ s.sel \in s.valid
      BY <3>1, <2>1, <1>2, Connects
    <3>2. CASE ~(s.sel # 0 /\ s.sel \in s.valid)
      BY <3>2, <2>1, <1>2 DEF Same
    <3> QED BY <3>1, <3>2
  <2>5. Rest(t)
    BY <2>4, SameRest
  <2> QED BY <2>3, <2>4, <2>5, <1>1, <1>4 DEF Same
<1>5. CASE /\ ~(s.sel = 0 /\ cmd \in NeedsSelected)
           /\ ~(~IsConnected(s) /\ cmd \in NeedsConnected)
           /\ NameOf(s, s.sel) = NameOf(s, s.conn) /\ cmd \in NeedsOffline
  <2>1. pre = Outcome(Disconnect(s), TRUE, TRUE, s.engine = "running")
    BY <1>1, <1>5 DEF Precondition
  <2>2. /\ pre.s = Disconnect(s) /\ pre.go /\ pre.reconnect
        /\ pre.restart = (s.engine = "running")
    BY <2>1 DEF Outcome
  <2>3. Fine(pre.s) /\ Same(s, pre.s)
    BY <2>2, <1>2, Disconnects
  <2>4. Rest(pre.s)
    BY <2>3, SameRest
  <2>5. cmd # "launch" /\ cmd # "edit"
    BY <1>5 DEF NeedsOffline
  <2> QED BY <2>2, <2>3, <2>4, <2>5, <1>1, <1>5 DEF Same
<1>6. CASE /\ ~(s.sel = 0 /\ cmd \in NeedsSelected)
           /\ ~(~IsConnected(s) /\ cmd \in NeedsConnected)
           /\ ~(NameOf(s, s.sel) = NameOf(s, s.conn) /\ cmd \in NeedsOffline)
  <2>1. pre = Outcome(s, TRUE, FALSE, FALSE)
    BY <1>1, <1>6 DEF Precondition
  <2>2. pre.s = s /\ pre.go /\ ~pre.reconnect
    BY <2>1 DEF Outcome
  <2>3. cmd = "launch" => IsConnected(s)
    BY <1>6 DEF NeedsConnected
  <2>4. s.sel = s.conn => cmd \notin NeedsOffline
    BY <1>6
  <2> QED BY <2>2, <2>3, <2>4, <1>1, <1>6
<1> QED BY <1>3, <1>4, <1>5, <1>6

\* The end of a command gives back the connection it had to take, and the engine.
LEMMA Reconnects ==
  ASSUME NEW s, Fine(s), NEW pre, NEW ok \in BOOLEAN
  PROVE  LET t == Reconnect(s, pre, ok) IN
         /\ Fine(t) /\ Same(s, t) /\ (t.fault = "none" => s.fault = "none")
         /\ ~pre.reconnect => t = s
         /\ /\ pre.reconnect /\ s.sel # 0 /\ s.sel \in s.valid /\ s.conn = 0
            /\ s.ssel \in {0, s.sel} /\ t.fault = "none" /\ ~t.failed
            => /\ IsConnected(t) /\ t.conn = s.sel
               /\ pre.restart => t.engine = "running"
<1>1. PICK t : t = Reconnect(s, pre, ok)
  OBVIOUS
<1>2. CASE ~pre.reconnect \/ s.sel = 0 \/ s.sel \notin s.valid
  BY <1>1, <1>2 DEF Reconnect, Same
<1>3. CASE ~(~pre.reconnect \/ s.sel = 0 \/ s.sel \notin s.valid)
  <2>1. PICK u : u = Connect(s, ok)
    OBVIOUS
  <2>2. t = IF pre.restart /\ NameOf(u, u.sel) = NameOf(u, u.conn) THEN Start(u) ELSE u
    BY <2>1, <1>1, <1>3 DEF Reconnect
  <2>3. /\ Fine(u) /\ Same(s, u)
        /\ u.fault = "none" =>
             /\ s.fault = "none" /\ s.ssel # 0
             /\ s.conn = 0 /\ ~u.failed => u.conn = s.ssel /\ u.conn \in u.on
    BY <2>1, Connects
  <2>4. /\ Fine(t) /\ Same(u, t) /\ t.fault = u.fault /\ t.failed = u.failed
        /\ t.conn = u.conn /\ t.on = u.on
    <3>1. CASE pre.restart /\ NameOf(u, u.sel) = NameOf(u, u.conn)
      BY <3>1, <2>2, <2>3, Starts
    <3>2. CASE ~(pre.restart /\ NameOf(u, u.sel) = NameOf(u, u.conn))
      BY <3>2, <2>2, <2>3 DEF Same
    <3> QED BY <3>1, <3>2
  <2>5. ASSUME /\ pre.reconnect /\ s.sel # 0 /\ s.sel \in s.valid /\ s.conn = 0
               /\ s.ssel \in {0, s.sel} /\ t.fault = "none" /\ ~t.failed
        PROVE  /\ IsConnected(t) /\ t.conn = s.sel
               /\ pre.restart => t.engine = "running"
    <3>1. u.conn = s.sel /\ u.sel = s.sel /\ IsConnected(u)
      BY <2>3, <2>4, <2>5 DEF Same, IsConnected
    <3>2. IsConnected(t) /\ t.conn = s.sel
      BY <3>1, <2>4 DEF Same, IsConnected
    <3>3. pre.restart => t = Start(u)
      BY <3>1, <2>2
    <3> QED BY <3>1, <3>2, <3>3, <2>3, Starts
  <2>6. Same(s, t)
    BY <2>3, <2>4 DEF Same
  <2> QED BY <2>3, <2>4, <2>5, <2>6, <1>1, <1>3
<1> QED BY <1>2, <1>3

-----------------------------------------------------------------------------
(* Adding and removing.                                                    *)

\* A sequence that is no longer than the bound misses a pointer.
LEMMA PointerLeft ==
  ASSUME NEW q \in Seq(Ptrs), Len(q) <= MaxSetups
  PROVE  \E p \in Ptrs : p \notin ToSet(q)
<1>1. SUFFICES ASSUME \A p \in Ptrs : p \in ToSet(q) PROVE FALSE
  OBVIOUS
<1>2. MaxSetups \in Nat /\ Len(q) \in Nat
  BY SessionAssumption
<1>3. PICK f : f = [p \in Ptrs |-> CHOOSE i \in 1..Len(q) : q[i] = p]
  OBVIOUS
<1>4. \A p \in Ptrs : \E i \in 1..Len(q) : q[i] = p
  BY <1>1 DEF ToSet
<1>5. \A p \in Ptrs : f[p] \in 1..Len(q) /\ q[f[p]] = p
  BY <1>3, <1>4
<1>6. f \in [Ptrs -> 1..Len(q)]
  BY <1>3, <1>5
<1>7. IsFiniteSet(Ptrs) /\ Cardinality(Ptrs) = MaxSetups + 1
  BY <1>2, FS_Interval DEF Ptrs
<1>8. IsFiniteSet(1..Len(q)) /\ Cardinality(1..Len(q)) = Len(q)
  <2>1. 1 \in Int /\ Len(q) \in Int
    BY <1>2
  <2>2. /\ IsFiniteSet(1..Len(q))
        /\ Cardinality(1..Len(q)) = IF 1 > Len(q) THEN 0 ELSE Len(q) - 1 + 1
    BY <2>1, FS_Interval, Zenon
  <2> QED BY <2>2, <1>2
<1>9. Cardinality(1..Len(q)) < Cardinality(Ptrs)
  BY <1>2, <1>7, <1>8
<1>10. \E x, y \in Ptrs : x # y /\ f[x] = f[y]
  BY <1>6, <1>7, <1>8, <1>9, FS_PigeonHole
<1> QED BY <1>5, <1>10

\* What appending adds.
LEMMA Appended ==
  ASSUME NEW q \in Seq(Ptrs), NEW p \in Ptrs
  PROVE  /\ Append(q, p) \in Seq(Ptrs) /\ Len(Append(q, p)) = Len(q) + 1
         /\ ToSet(Append(q, p)) = ToSet(q) \cup {p}
         /\ IsInjective(q) /\ p \notin ToSet(q) => IsInjective(Append(q, p))
<1>1. PICK r : r = Append(q, p)
  OBVIOUS
<1>2. /\ r \in Seq(Ptrs) /\ Len(r) = Len(q) + 1 /\ Len(q) \in Nat
      /\ \A i \in 1..Len(q) : r[i] = q[i]
      /\ r[Len(q) + 1] = p
  BY <1>1
<1>3. ToSet(r) = {r[i] : i \in 1..Len(q) + 1} /\ ToSet(q) = {q[i] : i \in 1..Len(q)}
  BY <1>2 DEF ToSet
<1>4. \A i \in 1..Len(q) + 1 : i \in 1..Len(q) \/ i = Len(q) + 1
  BY <1>2
<1>5. 1..Len(q) \subseteq 1..Len(q) + 1 /\ Len(q) + 1 \in 1..Len(q) + 1
  BY <1>2
<1>6. ToSet(r) = ToSet(q) \cup {p}
  BY <1>2, <1>3, <1>4, <1>5
<1>7. ASSUME IsInjective(q), p \notin ToSet(q) PROVE IsInjective(r)
  <2>1. \A i, j \in 1..Len(q) + 1 : r[i] = r[j] => i = j
    BY <1>2, <1>3, <1>4, <1>7 DEF IsInjective
  <2> QED BY <2>1, <1>2 DEF IsInjective
<1> QED BY <1>1, <1>2, <1>6, <1>7

\* The session has a pointer left for one more.
LEMMA PointerUnused ==
  ASSUME NEW s \in Sessions, Known(s), Room(s)
  PROVE  Free(s)
<1>1. s.setups \in Seq(Ptrs)
  BY DEF Sessions
<1> QED BY <1>1, PointerLeft, PtrsPositive DEF Known, Room, Free

\* add_chainsetup() of a new name.
LEMMA Adds ==
  ASSUME NEW s, Fine(s), NEW n \in Titles, NEW valid \in BOOLEAN, Named(s, n) = 0,
         Free(s)
  PROVE  LET t == Added(s, n, valid)  p == Unused(s) IN
         /\ Fine(t) /\ p \in Ptrs /\ p \notin ToSet(s.setups)
         /\ t.setups = Append(s.setups, p) /\ t.ssel = p
         /\ t.name = Renamed(s, p, n)
         /\ t.sel = s.sel /\ t.conn = s.conn /\ t.on = s.on /\ t.engine = s.engine
         /\ t.fault = s.fault /\ t.cmd = s.cmd
<1>1. PICK p : p = Unused(s)
  OBVIOUS
<1>2. p \in Ptrs /\ p \notin ToSet(s.setups) \cup {s.sel, s.ssel, s.conn}
  BY <1>1 DEF Unused, Free
<1>3. PICK v : v = IF valid THEN s.valid \cup {p} ELSE s.valid \ {p}
  OBVIOUS
<1>4. PICK t : t = [s EXCEPT !.setups = Append(s.setups, p), !.name[p] = n, !.ssel = p,
                             !.valid = v]
  OBVIOUS
<1>5. t = Added(s, n, valid)
  BY <1>1, <1>3, <1>4 DEF Added
<1>6. s \in Sessions /\ Listed(s) /\ s.setups \in Seq(Ptrs) /\ s.name \in [Ptrs -> Titles]
  BY DEF Fine, Sessions
<1>7. v \subseteq Ptrs /\ \A x : x # p => (x \in v <=> x \in s.valid)
  BY <1>2, <1>3, <1>6 DEF Sessions
<1>8. [s.name EXCEPT ![p] = n] \in [Ptrs -> Titles]
  BY <1>6
<1>9. /\ t.setups = Append(s.setups, p) /\ t.ssel = p
      /\ t.name = [s.name EXCEPT ![p] = n] /\ t.valid = v
      /\ t.sel = s.sel /\ t.conn = s.conn /\ t.on = s.on /\ t.engine = s.engine
      /\ t.fault = s.fault /\ t.cmd = s.cmd
  BY <1>4, <1>6 DEF Sessions
<1>10. t \in Sessions
  BY <1>2, <1>4, <1>6, <1>7, <1>8, Appended DEF Sessions, Refs
<1>11. ToSet(t.setups) = ToSet(s.setups) \cup {p} /\ IsInjective(t.setups)
  BY <1>2, <1>6, <1>9, Appended DEF Listed
<1>12. \A q \in ToSet(s.setups) : s.name[q] # n
  BY <1>6, NamedFound
<1>13. \A q \in ToSet(s.setups) : t.name[q] = s.name[q]
  BY <1>2, <1>6, <1>9, ListedPtrs
<1>14. t.name[p] = n
  BY <1>2, <1>6, <1>9
<1>15. Listed(t)
  BY <1>6, <1>11, <1>12, <1>13, <1>14 DEF Listed
<1>16. t.fault = "none" => Known(t) /\ Single(t)
  BY <1>9, <1>11 DEF Fine, Basic, Known, Single
<1>17. t.fault = "none" => Driven(t)
  BY <1>2, <1>7, <1>9 DEF Fine, Basic, Driven, IsConnected
<1> QED BY <1>1, <1>2, <1>5, <1>9, <1>10, <1>15, <1>16, <1>17 DEF Fine, Basic, Renamed

\* load_chainsetup() selects what it loads, or nothing.
LEMMA Loads ==
  ASSUME NEW s, Fine(s), NEW n \in Titles, NEW parsed \in BOOLEAN, NEW valid \in BOOLEAN,
         Free(s)
  PROVE  LET t == Load(s, n, parsed, valid) IN
         /\ Fine(t) /\ t.sel = t.ssel /\ t.conn = s.conn /\ t.on = s.on
         /\ t.engine = s.engine /\ t.fault = s.fault /\ t.cmd = s.cmd
         /\ \/ t.sel = 0 /\ t.setups = s.setups /\ t.name = s.name
            \/ /\ t.sel \in Ptrs /\ t.sel \notin ToSet(s.setups) /\ t.sel # 0
               /\ t.setups = Append(s.setups, t.sel)
               /\ t.name = Renamed(s, t.sel, n) /\ Named(s, n) = 0
<1>1. PICK u : u = IF parsed THEN Added(s, n, valid) ELSE [s EXCEPT !.ssel = 0]
  OBVIOUS
<1>2. s \in Sessions /\ Listed(s)
  BY DEF Fine
<1>3. /\ Fine(u) /\ u.conn = s.conn /\ u.on = s.on
      /\ u.engine = s.engine /\ u.fault = s.fault /\ u.cmd = s.cmd
      /\ \/ u.ssel = 0 /\ u.setups = s.setups /\ u.name = s.name
         \/ /\ u.ssel \in Ptrs /\ u.ssel \notin ToSet(s.setups)
            /\ u.setups = Append(s.setups, u.ssel)
            /\ u.name = Renamed(s, u.ssel, n) /\ Named(s, n) = 0
  <2>1. CASE parsed /\ Named(s, n) = 0
    <3>1. u = Added(s, n, valid)
      BY <2>1, <1>1
    <3>2. PICK p : p = Unused(s)
      OBVIOUS
    <3>3. /\ Fine(u) /\ p \in Ptrs /\ p \notin ToSet(s.setups)
          /\ u.setups = Append(s.setups, p) /\ u.ssel = p
          /\ u.name = Renamed(s, p, n)
          /\ u.sel = s.sel /\ u.conn = s.conn /\ u.on = s.on /\ u.engine = s.engine
          /\ u.fault = s.fault /\ u.cmd = s.cmd
      BY <2>1, <3>1, <3>2, Adds
    <3> QED BY <2>1, <3>3
  <2>2. CASE ~(parsed /\ Named(s, n) = 0)
    <3>1. u = [s EXCEPT !.ssel = 0]
      BY <2>2, <1>1 DEF Added
    <3>2. /\ u \in Sessions /\ u.conn = s.conn /\ u.on = s.on /\ u.sel = s.sel
          /\ u.engine = s.engine /\ u.fault = s.fault /\ u.cmd = s.cmd
          /\ u.ssel = 0 /\ u.setups = s.setups /\ u.name = s.name /\ u.valid = s.valid
      BY <3>1, <1>2 DEF Sessions, Refs
    <3>3. Listed(u) /\ (u.fault = "none" => Basic(u))
      BY <3>2 DEF Fine, Listed, Basic, Known, Single, Driven, IsConnected
    <3> QED BY <3>2, <3>3 DEF Fine
  <2> QED BY <2>1, <2>2
<1>4. PICK t : t = [u EXCEPT !.sel = u.ssel, !.failed = (u.ssel = 0)]
  OBVIOUS
<1>5. t = Load(s, n, parsed, valid)
  BY <1>1, <1>4 DEF Load
<1>6. u \in Sessions /\ Listed(u)
  BY <1>3 DEF Fine
<1>7. /\ t \in Sessions /\ t.sel = u.ssel /\ t.ssel = u.ssel /\ t.conn = u.conn /\ t.on = u.on
      /\ t.engine = u.engine /\ t.fault = u.fault /\ t.cmd = u.cmd /\ t.setups = u.setups
      /\ t.name = u.name /\ t.valid = u.valid
  BY <1>4, <1>6 DEF Sessions
<1>8. Listed(t) /\ (t.fault = "none" => Basic(t))
  BY <1>3, <1>6, <1>7 DEF Fine, Listed, Basic, Known, Single, Driven, IsConnected
<1> QED BY <1>3, <1>5, <1>7, <1>8, PtrsPositive DEF Fine

\* Removing an element that is there once.
LEMMA RemovedOnce ==
  ASSUME NEW q \in Seq(Ptrs), IsInjective(q), NEW p \in ToSet(q)
  PROVE  LET r == RemoveFirst(q, p) IN
         /\ r \in Seq(Ptrs) /\ Len(r) = Len(q) - 1
         /\ IsInjective(r) /\ ToSet(r) = ToSet(q) \ {p}
<1>1. PICK k \in 1..Len(q) : q[k] = p
  BY DEF ToSet
<1>2. Len(q) \in Nat /\ k \in Nat /\ k >= 1 /\ k <= Len(q)
  BY <1>1
<1>3. \A i \in 1..Len(q) : q[i] = p => i = k
  BY <1>1 DEF IsInjective
<1>4. {i \in 1..Len(q) : q[i] = p} = {k}
  BY <1>1, <1>3
<1>5. Min({k}) = k
  BY <1>2 DEF Min
<1>6. SelectInSeq(q, LAMBDA v : v = p) = k
  BY <1>4, <1>5 DEF SelectInSeq
<1>7. PICK a : a = SubSeq(q, 1, k - 1)
  OBVIOUS
<1>8. PICK b : b = SubSeq(q, k + 1, Len(q))
  OBVIOUS
<1>9. PICK r : r = a \o b
  OBVIOUS
<1>10. r = RemoveFirst(q, p)
  BY <1>1, <1>6, <1>7, <1>8, <1>9 DEF RemoveFirst, RemoveAt
<1>11. a \in Seq(Ptrs) /\ Len(a) = k - 1 /\ \A i \in 1..k - 1 : a[i] = q[i]
  BY <1>2, <1>7
<1>12. b \in Seq(Ptrs) /\ Len(b) = Len(q) - k /\ \A i \in 1..Len(q) - k : b[i] = q[k + i]
  BY <1>2, <1>8
<1>13. /\ r \in Seq(Ptrs) /\ Len(r) = Len(q) - 1
       /\ \A i \in 1..Len(q) - 1 : r[i] = IF i < k THEN q[i] ELSE q[i + 1]
  <2>1. r \in Seq(Ptrs) /\ Len(r) = Len(a) + Len(b)
    BY <1>9, <1>11, <1>12, ConcatProperties
  <2>2. \A i \in 1..Len(a) + Len(b) : r[i] = IF i <= Len(a) THEN a[i] ELSE b[i - Len(a)]
    BY <1>9, <1>11, <1>12, ConcatProperties
  <2>3. ASSUME NEW i \in 1..Len(q) - 1 PROVE r[i] = IF i < k THEN q[i] ELSE q[i + 1]
    <3>1. i \in Nat /\ i >= 1 /\ i <= Len(q) - 1 /\ Len(a) + Len(b) = Len(q) - 1
      BY <2>3, <1>2, <1>11, <1>12
    <3>2. CASE i < k
      BY <3>1, <3>2, <2>2, <1>2, <1>11
    <3>3. CASE ~(i < k)
      <4>1. r[i] = b[i - (k - 1)] /\ i - (k - 1) \in 1..Len(q) - k
        BY <3>1, <3>3, <2>2, <1>2, <1>11, <1>12
      <4>2. k + (i - (k - 1)) = i + 1
        BY <3>1, <1>2
      <4> QED BY <4>1, <4>2, <3>3, <1>12
    <3> QED BY <3>2, <3>3
  <2> QED BY <2>1, <2>3, <1>2, <1>11, <1>12
<1>14. \A i \in 1..Len(q) - 1 : \E j \in 1..Len(q) \ {k} :
         r[i] = q[j] /\ j = (IF i < k THEN i ELSE i + 1)
  <2> TAKE i \in 1..Len(q) - 1
  <2>1. PICK j : j = IF i < k THEN i ELSE i + 1
    OBVIOUS
  <2>2. j \in 1..Len(q) /\ j # k /\ r[i] = q[j]
    BY <2>1, <1>2, <1>13
  <2> QED BY <2>1, <2>2
<1>15. \A j \in 1..Len(q) \ {k} : \E i \in 1..Len(q) - 1 : r[i] = q[j]
  <2> TAKE j \in 1..Len(q) \ {k}
  <2>1. PICK i : i = IF j < k THEN j ELSE j - 1
    OBVIOUS
  <2>2. i \in 1..Len(q) - 1 /\ (IF i < k THEN i ELSE i + 1) = j
    BY <2>1, <1>2
  <2>3. r[i] = IF i < k THEN q[i] ELSE q[i + 1]
    BY <2>2, <1>13
  <2>4. r[i] = q[j]
    BY <2>2, <2>3
  <2> QED BY <2>2, <2>4
<1>16. ToSet(r) = {r[i] : i \in 1..Len(q) - 1} /\ ToSet(q) = {q[i] : i \in 1..Len(q)}
  BY <1>13 DEF ToSet
<1>17. ToSet(r) \subseteq ToSet(q) \ {p}
  BY <1>3, <1>14, <1>16
<1>18. ToSet(q) \ {p} \subseteq ToSet(r)
  BY <1>1, <1>15, <1>16
<1>19. IsInjective(r)
  <2>1. ASSUME NEW i \in 1..Len(q) - 1, NEW j \in 1..Len(q) - 1, r[i] = r[j] PROVE i = j
    <3>1. PICK m \in 1..Len(q) \ {k} : r[i] = q[m] /\ m = (IF i < k THEN i ELSE i + 1)
      BY <1>14
    <3>2. PICK n \in 1..Len(q) \ {k} : r[j] = q[n] /\ n = (IF j < k THEN j ELSE j + 1)
      BY <1>14
    <3>3. \A x, y \in 1..Len(q) : q[x] = q[y] => x = y
      BY DEF IsInjective
    <3>4. m = n
      BY <2>1, <3>1, <3>2, <3>3
    <3> QED BY <3>1, <3>2, <3>4, <1>2
  <2> QED BY <2>1, <1>13 DEF IsInjective
<1> QED BY <1>10, <1>13, <1>17, <1>18, <1>19

\* remove_chainsetup() removes what the session has selected; if that is connected, a
\* fault has happened.
LEMMA Removes ==
  ASSUME NEW s, Fine(s), s.ssel \in {0} \cup ToSet(s.setups)
  PROVE  LET t == RemoveSelected(s) IN
         /\ Fine(t) /\ t.sel = 0 /\ t.ssel = 0 /\ t.name = s.name /\ t.conn = s.conn
         /\ t.engine = s.engine /\ t.cmd = s.cmd
         /\ t.fault = "none" => s.fault = "none"
         /\ IF s.ssel = 0 THEN t.setups = s.setups
            ELSE /\ ToSet(t.setups) = ToSet(s.setups) \ {s.ssel}
                 /\ Len(t.setups) = Len(s.setups) - 1
<1>1. s \in Sessions /\ Listed(s) /\ s.setups \in Seq(Ptrs)
  BY DEF Fine, Sessions
<1>2. PICK u : u = [s EXCEPT !.sel = 0]
  OBVIOUS
<1>3. PICK t : t = RemoveSelected(s)
  OBVIOUS
<1>4. CASE s.ssel = 0
  <2>1. t = u
    BY <1>2, <1>3, <1>4 DEF RemoveSelected
  <2>2. /\ t \in Sessions /\ t.sel = 0 /\ t.ssel = 0 /\ t.name = s.name /\ t.conn = s.conn
        /\ t.engine = s.engine /\ t.cmd = s.cmd /\ t.fault = s.fault /\ t.on = s.on
        /\ t.setups = s.setups /\ t.valid = s.valid
    BY <2>1, <1>1, <1>2, <1>4 DEF Sessions, Refs
  <2>3. Listed(t) /\ (t.fault = "none" => Basic(t))
    BY <2>2 DEF Fine, Listed, Basic, Known, Single, Driven, IsConnected
  <2> QED BY <2>2, <2>3, <1>3, <1>4 DEF Fine
<1>5. CASE s.ssel # 0
  <2>1. PICK r : r = RemoveFirst(s.setups, s.ssel)
    OBVIOUS
  <2>2. /\ r \in Seq(Ptrs) /\ Len(r) = Len(s.setups) - 1
        /\ IsInjective(r) /\ ToSet(r) = ToSet(s.setups) \ {s.ssel}
    BY <2>1, <1>1, <1>5, RemovedOnce DEF Listed
  <2>3. PICK w : w = [u EXCEPT !.setups = r, !.ssel = 0, !.lost = s.ssel,
                               !.on = s.on \ {s.ssel}, !.valid = s.valid \ {s.ssel}]
    OBVIOUS
  <2>4. t = Fault(w, IF s.ssel = s.conn THEN "freed" ELSE "none")
    BY <2>1, <2>3, <1>2, <1>3, <1>5 DEF RemoveSelected
  <2>5. /\ w \in Sessions /\ w.sel = 0 /\ w.ssel = 0 /\ w.name = s.name /\ w.conn = s.conn
        /\ w.engine = s.engine /\ w.cmd = s.cmd /\ w.fault = s.fault
        /\ w.on = s.on \ {s.ssel} /\ w.setups = r /\ w.valid = s.valid \ {s.ssel}
    BY <2>2, <2>3, <1>1, <1>2 DEF Sessions, Refs
  <2>6. /\ t \in Sessions /\ t.sel = 0 /\ t.ssel = 0 /\ t.name = s.name /\ t.conn = s.conn
        /\ t.engine = s.engine /\ t.cmd = s.cmd
        /\ t.on = s.on \ {s.ssel} /\ t.setups = r /\ t.valid = s.valid \ {s.ssel}
        /\ t.fault = "none" => s.fault = "none" /\ s.ssel # s.conn
    <3>1. CASE w.fault = "none"
      <4>1. t = [w EXCEPT !.fault = IF s.ssel = s.conn THEN "freed" ELSE "none"]
        BY <3>1, <2>4 DEF Fault
      <4> QED BY <4>1, <3>1, <2>5 DEF Sessions, Faults
    <3>2. CASE w.fault # "none"
      <4>1. t = w
        BY <3>2, <2>4 DEF Fault
      <4> QED BY <4>1, <3>2, <2>5
    <3> QED BY <3>1, <3>2
  <2>7. Listed(t)
    BY <2>2, <2>6, <1>1 DEF Listed
  <2>8. ASSUME t.fault = "none" PROVE Known(t) /\ Single(t) /\ Driven(t)
    <3>1. Basic(s) /\ s.ssel # s.conn
      BY <2>6, <2>8 DEF Fine
    <3> QED BY <3>1, <2>2, <2>6 DEF Basic, Known, Single, Driven, IsConnected
  <2> QED BY <2>2, <2>6, <2>7, <2>8, <1>3, <1>5 DEF Fine, Basic
<1> QED BY <1>4, <1>5

\* A command that edits changes which chainsetups are valid.
LEMMA Edits ==
  ASSUME NEW s, Fine(s), NEW valid \in BOOLEAN
  PROVE  LET t == Edited(s, valid) IN
         /\ Fine(t) /\ t.setups = s.setups /\ t.name = s.name /\ t.sel = s.sel
         /\ t.ssel = s.ssel /\ t.conn = s.conn /\ t.cmd = s.cmd
         /\ t.fault = "none" => s.fault = "none"
<1>1. s \in Sessions /\ Listed(s)
  BY DEF Fine
<1>2. PICK t : t = Edited(s, valid)
  OBVIOUS
<1>3. CASE s.sel = 0 \/ (s.sel = s.conn /\ s.engine # "none")
  <2>1. PICK f \in {"null", "race"} : t = Fault(s, f)
    BY <1>2, <1>3 DEF Edited
  <2>2. /\ t \in Sessions /\ t.setups = s.setups /\ t.name = s.name /\ t.sel = s.sel
        /\ t.ssel = s.ssel /\ t.conn = s.conn /\ t.cmd = s.cmd /\ t.fault # "none"
    BY <2>1, <1>1 DEF Fault, Faults, Sessions
  <2> QED BY <2>2, <1>2 DEF Fine, Listed
<1>4. CASE ~(s.sel = 0 \/ (s.sel = s.conn /\ s.engine # "none"))
  <2>1. PICK v : v = IF valid THEN s.valid \cup {s.sel} ELSE s.valid \ {s.sel}
    OBVIOUS
  <2>2. t = [s EXCEPT !.valid = v]
    BY <2>1, <1>2, <1>4 DEF Edited
  <2>3. s.sel \in Ptrs
    BY <1>1, <1>4 DEF Sessions, Refs
  <2>4. v \subseteq Ptrs /\ \A x : x # s.sel => (x \in v <=> x \in s.valid)
    BY <2>1, <2>3, <1>1 DEF Sessions
  <2>5. /\ t \in Sessions /\ t.setups = s.setups /\ t.name = s.name /\ t.sel = s.sel
        /\ t.ssel = s.ssel /\ t.conn = s.conn /\ t.cmd = s.cmd /\ t.fault = s.fault
        /\ t.on = s.on /\ t.engine = s.engine /\ t.valid = v
    BY <2>2, <2>4, <1>1 DEF Sessions
  <2>6. Listed(t) /\ (t.fault = "none" => Known(t) /\ Single(t))
    BY <2>5 DEF Fine, Listed, Basic, Known, Single
  <2>7. t.fault = "none" => Driven(t)
    BY <2>4, <2>5, <1>4 DEF Fine, Basic, Driven, IsConnected
  <2> QED BY <2>5, <2>6, <2>7, <1>2 DEF Fine, Basic
<1> QED BY <1>3, <1>4

-----------------------------------------------------------------------------
(* Editing a chainsetup in a file.                                         *)

(* The chainsetup p has taken the place and the name of the old one.       *)
Swapped(s, old, p, t) ==
  /\ Fine(t) /\ t.sel = p /\ t.ssel = p /\ t.cmd = s.cmd
  /\ ToSet(t.setups) = ToSet(s.setups) \ {old} /\ Len(t.setups) = Len(s.setups) - 1
  /\ t.name = Renamed(s, p, s.name[old])
  /\ t.fault = "none" => s.fault = "none"

\* The edited chainsetup, loaded under the temporary name, takes the place and the
\* name of the old one.
LEMMA Swaps ==
  ASSUME NEW s, Fine(s), NEW old \in ToSet(s.setups), NEW p \in ToSet(s.setups),
         s.name[p] = TempName, s.name[old] # TempName, NEW ok \in BOOLEAN
  PROVE  Swapped(s, old, p, Swap(s, old, ok))
<1>1. s \in Sessions /\ Listed(s) /\ p \in Ptrs /\ old \in Ptrs /\ p # old
  BY ListedPtrs DEF Fine
<1>2. PICK c : c = Disconnect(s)
  OBVIOUS
<1>3. Fine(c) /\ Same(s, c) /\ (c.fault = "none" => s.fault = "none")
  BY <1>2, Disconnects
<1>4. PICK d : d = Select(c, TempName)
  OBVIOUS
<1>5. /\ Fine(d) /\ d.fault = c.fault
      /\ d.setups = s.setups /\ d.name = s.name /\ d.cmd = s.cmd
  BY <1>3, <1>4, Selects DEF Same
<1>6. PICK e : e = IF d.sel \in d.valid THEN Connect(d, ok) ELSE d
  OBVIOUS
<1>7. Fine(e) /\ Same(d, e) /\ (e.fault = "none" => d.fault = "none")
  <2>1. CASE d.sel \in d.valid
    BY <2>1, <1>5, <1>6, Connects
  <2>2. CASE d.sel \notin d.valid
    BY <2>2, <1>5, <1>6 DEF Same
  <2> QED BY <2>1, <2>2
<1>8. PICK r : r = IF s.engine = "running" THEN Start(e) ELSE e
  OBVIOUS
<1>9. Fine(r) /\ Same(e, r) /\ r.fault = e.fault
  <2>1. CASE s.engine = "running"
    BY <2>1, <1>7, <1>8, Starts
  <2>2. CASE s.engine # "running"
    BY <2>2, <1>7, <1>8 DEF Same
  <2> QED BY <2>1, <2>2
<1>10. /\ r.setups = s.setups /\ r.name = s.name /\ r.cmd = s.cmd
       /\ r.fault = "none" => s.fault = "none"
  BY <1>3, <1>5, <1>7, <1>9 DEF Same
<1>11. NameOf(s, old) = s.name[old]
  BY <1>1, PtrsPositive DEF NameOf
<1>12. PICK v : v = Select(r, NameOf(s, old))
  OBVIOUS
<1>13. /\ Fine(v) /\ v.ssel = Named(r, NameOf(s, old)) /\ v.fault = r.fault
       /\ v.setups = r.setups /\ v.name = r.name /\ v.cmd = r.cmd
  BY <1>9, <1>12, Selects
<1>14. v.ssel = old
  BY <1>9, <1>10, <1>11, <1>13, NamedOnly DEF Fine
<1>15. PICK w : w = RemoveSelected(v)
  OBVIOUS
<1>16. /\ Fine(w) /\ w.name = v.name /\ w.cmd = v.cmd
       /\ w.fault = "none" => v.fault = "none"
       /\ ToSet(w.setups) = ToSet(v.setups) \ {old}
       /\ Len(w.setups) = Len(v.setups) - 1
  BY <1>1, <1>10, <1>13, <1>14, <1>15, Removes, PtrsPositive
<1>17. PICK x : x = Select(w, TempName)
  OBVIOUS
<1>18. /\ Fine(x) /\ x.sel = Named(w, TempName) /\ x.ssel = Named(w, TempName)
       /\ x.fault = w.fault /\ x.setups = w.setups /\ x.name = w.name /\ x.cmd = w.cmd
       /\ x.valid = w.valid /\ x.conn = w.conn /\ x.on = w.on /\ x.engine = w.engine
  BY <1>16, <1>17, Selects
<1>19. Named(w, TempName) = p
  <2>1. p \in ToSet(w.setups) /\ w.name[p] = TempName
    BY <1>1, <1>10, <1>13, <1>16
  <2> QED BY <2>1, <1>16, NamedOnly DEF Fine
<1>20. PICK t : t = [x EXCEPT !.name[x.sel] = NameOf(s, old)]
  OBVIOUS
<1>21. t = Swap(s, old, ok)
  BY <1>2, <1>4, <1>6, <1>8, <1>12, <1>15, <1>17, <1>20 DEF Swap
<1>22. x \in Sessions /\ x.sel = p /\ x.name = s.name /\ s.name \in [Ptrs -> Titles]
  BY <1>1, <1>10, <1>13, <1>16, <1>18, <1>19 DEF Fine, Sessions
<1>23. [s.name EXCEPT ![p] = s.name[old]] \in [Ptrs -> Titles]
  BY <1>1, <1>22
<1>24. /\ t \in Sessions /\ t.name = [s.name EXCEPT ![p] = s.name[old]]
       /\ t.sel = p /\ t.ssel = p /\ t.fault = x.fault /\ t.setups = x.setups
       /\ t.cmd = x.cmd /\ t.valid = x.valid /\ t.conn = x.conn /\ t.on = x.on
       /\ t.engine = x.engine
  <2>1. t = [x EXCEPT !.name = [s.name EXCEPT ![p] = s.name[old]]]
    BY <1>11, <1>20, <1>22
  <2> QED BY <2>1, <1>18, <1>19, <1>22, <1>23 DEF Sessions
<1>25. Listed(t)
  <2>1. ToSet(t.setups) = ToSet(s.setups) \ {old} /\ IsInjective(t.setups)
    BY <1>10, <1>13, <1>16, <1>18, <1>24 DEF Fine, Listed
  <2>2. \A q \in ToSet(t.setups) : q # p => t.name[q] = s.name[q] /\ s.name[q] # s.name[old]
    BY <2>1, <1>1, <1>22, <1>24, ListedPtrs DEF Listed
  <2>3. t.name[p] = s.name[old]
    BY <1>1, <1>22, <1>24
  <2>4. \A q, z \in ToSet(t.setups) : t.name[q] = t.name[z] => q = z
    <3> TAKE q, z \in ToSet(t.setups)
    <3>1. CASE q = p
      BY <3>1, <2>2, <2>3
    <3>2. CASE z = p
      BY <3>2, <2>2, <2>3
    <3>3. CASE q # p /\ z # p
      BY <3>3, <2>1, <2>2, <1>1 DEF Listed
    <3> QED BY <3>1, <3>2, <3>3
  <2> QED BY <2>1, <2>4 DEF Listed
<1>26. ASSUME t.fault = "none" PROVE Basic(t)
  <2>1. Known(x) /\ Single(x) /\ Driven(x)
    BY <1>18, <1>24, <1>26 DEF Fine, Basic
  <2>2. x.sel = t.sel /\ x.ssel = t.ssel
    BY <1>18, <1>19, <1>24
  <2>3. Known(t) /\ Single(t)
    BY <2>1, <2>2, <1>24 DEF Known, Single
  <2>4. Driven(t)
    BY <2>1, <1>24 DEF Driven, IsConnected
  <2> QED BY <2>3, <2>4 DEF Basic
<1>27. t.fault = "none" => s.fault = "none"
  BY <1>10, <1>13, <1>16, <1>18, <1>24
<1> QED BY <1>10, <1>13, <1>16, <1>18, <1>21, <1>24, <1>25, <1>26, <1>27 DEF Fine, Renamed, Swapped

\* cs-edit keeps the invariant; of the connected chainsetup it keeps the name.
LEMMA EditsCopy ==
  ASSUME NEW s, Rest(s), s.fault = "none", s.sel # 0, NEW edited \in BOOLEAN,
         NEW parsed \in BOOLEAN, NEW valid \in BOOLEAN, NEW ok \in BOOLEAN
  PROVE  LET t == EditCopy(s, edited, parsed, valid, ok) IN
         /\ Rest(t) /\ t.cmd = s.cmd
         /\ s.sel = s.conn /\ t.fault = "none" => Named(t, s.name[s.sel]) # 0
<1>1. /\ Fine(s) /\ s \in Sessions /\ Listed(s) /\ Basic(s)
      /\ Agreed(s) /\ Room(s) /\ Plain(s)
  BY DEF Rest, Fine
<1>2. /\ s.sel \in ToSet(s.setups) /\ s.sel \in Ptrs /\ s.name[s.sel] # TempName
      /\ s.name[s.sel] \in Titles /\ NameOf(s, s.sel) = s.name[s.sel]
      /\ s.ssel \in {0} \cup ToSet(s.setups)
  BY <1>1, ListedPtrs DEF Basic, Known, Plain, NameOf, Sessions
<1>3. PICK hot \in BOOLEAN : hot = (NameOf(s, s.sel) = NameOf(s, s.conn))
  OBVIOUS
<1>4. s.sel = s.conn => hot
  BY <1>3
<1>5. PICK b : b = IF hot THEN s ELSE RemoveSelected(s)
  OBVIOUS
<1>6. PICK l : l = Load(b, IF hot THEN TempName ELSE NameOf(s, s.sel), parsed, valid)
  OBVIOUS
<1>7. PICK t : t = EditCopy(s, edited, parsed, valid, ok)
  OBVIOUS
<1>8. t = IF s.ssel = 0 THEN Fault(s, "null")
          ELSE IF ~edited THEN b
          ELSE IF hot /\ l.sel # 0 THEN Swap(l, s.sel, ok) ELSE l
  BY <1>3, <1>5, <1>6, <1>7 DEF EditCopy
<1>9. CASE s.ssel = 0
  <2>1. t = Fault(s, "null")
    BY <1>8, <1>9
  <2>2. t \in Sessions /\ t.fault # "none" /\ t.cmd = s.cmd /\ Same(s, t)
    BY <2>1, <1>1 DEF Fault, Faults, Sessions, Same
  <2>3. Rest(t)
    BY <2>2, <1>1 DEF Rest, Fine, Same, Listed
  <2> QED BY <2>2, <2>3, <1>7
<1>10. CASE s.ssel # 0 /\ ~hot
  <2>1. /\ Fine(b) /\ b.sel = 0 /\ b.ssel = 0 /\ b.name = s.name /\ b.cmd = s.cmd
        /\ ToSet(b.setups) = ToSet(s.setups) \ {s.ssel}
        /\ Len(b.setups) = Len(s.setups) - 1
    BY <1>1, <1>2, <1>5, <1>10, Removes
  <2>2. b.setups \in Seq(Ptrs) /\ s.setups \in Seq(Ptrs) /\ b.conn \in Refs
    BY <2>1, <1>1 DEF Fine, Sessions
  <2>3. Len(b.setups) + 1 <= MaxSetups
    BY <2>1, <2>2, <1>1, SessionAssumption DEF Room
  <2>4. Rest(b)
    <3>1. Agreed(b) /\ Plain(b)
      BY <2>1, <1>1 DEF Agreed, Plain
    <3>2. Room(b)
      BY <2>2, <2>3, SessionAssumption DEF Room
    <3> QED BY <2>1, <3>1, <3>2 DEF Rest
  <2>5. Free(b)
    <3>1. CASE b.conn = 0
      <4>1. \E p \in Ptrs : p \notin ToSet(b.setups)
        BY <2>2, <2>3, PointerLeft, SessionAssumption
      <4> QED BY <4>1, <3>1, <2>1, PtrsPositive DEF Free
    <3>2. CASE b.conn \in Ptrs
      <4>1. PICK q : q = Append(b.setups, b.conn)
        OBVIOUS
      <4>2. q \in Seq(Ptrs) /\ Len(q) <= MaxSetups /\ ToSet(q) = ToSet(b.setups) \cup {b.conn}
        BY <4>1, <3>2, <2>2, <2>3, Appended
      <4>3. \E p \in Ptrs : p \notin ToSet(q)
        BY <4>2, PointerLeft
      <4> QED BY <4>2, <4>3, <2>1, PtrsPositive DEF Free
    <3> QED BY <3>1, <3>2, <2>2 DEF Refs
  <2>6. l = Load(b, s.name[s.sel], parsed, valid)
    BY <1>2, <1>6, <1>10
  <2>7. /\ Fine(l) /\ l.sel = l.ssel /\ l.fault = b.fault /\ l.cmd = b.cmd
        /\ \/ l.sel = 0 /\ l.setups = b.setups /\ l.name = b.name
           \/ /\ l.sel \in Ptrs /\ l.sel \notin ToSet(b.setups)
              /\ l.setups = Append(b.setups, l.sel)
              /\ l.name = Renamed(b, l.sel, s.name[s.sel])
    <3>1. Fine(b) /\ s.name[s.sel] \in Titles
      BY <2>1, <1>2
    <3>2. LET x == Load(b, s.name[s.sel], parsed, valid) IN
          /\ Fine(x) /\ x.sel = x.ssel /\ x.conn = b.conn /\ x.on = b.on
          /\ x.engine = b.engine /\ x.fault = b.fault /\ x.cmd = b.cmd
          /\ \/ x.sel = 0 /\ x.setups = b.setups /\ x.name = b.name
             \/ /\ x.sel \in Ptrs /\ x.sel \notin ToSet(b.setups) /\ x.sel # 0
                /\ x.setups = Append(b.setups, x.sel)
                /\ x.name = Renamed(b, x.sel, s.name[s.sel])
                /\ Named(b, s.name[s.sel]) = 0
      BY <3>1, <2>5, Loads
    <3> QED BY <3>2, <2>6
  <2>8. Rest(l)
    <3>1. CASE l.setups = b.setups /\ l.name = b.name
      BY <3>1, <2>4, <2>7 DEF Rest, Agreed, Room, Plain
    <3>2. CASE /\ l.sel \in Ptrs /\ l.sel \notin ToSet(b.setups)
               /\ l.setups = Append(b.setups, l.sel)
               /\ l.name = Renamed(b, l.sel, s.name[s.sel])
      <4>1. Room(l) /\ Agreed(l)
        BY <3>2, <2>2, <2>3, <2>7, Appended DEF Room, Agreed
      <4>2. ToSet(l.setups) = ToSet(b.setups) \cup {l.sel}
        BY <3>2, <2>2, Appended
      <4>3. \A q \in ToSet(b.setups) : l.name[q] = s.name[q] /\ q \in ToSet(s.setups)
        BY <3>2, <2>1, <1>1, ListedPtrs DEF Sessions, Renamed
      <4>4. l.name[l.sel] = s.name[s.sel]
        BY <3>2, <2>1, <1>1 DEF Sessions, Renamed
      <4>5. Plain(l)
        BY <4>2, <4>3, <4>4, <1>1, <1>2 DEF Plain
      <4> QED BY <4>1, <4>5, <2>7 DEF Rest
    <3> QED BY <3>1, <3>2, <2>7
  <2>9. t = b \/ t = l
    BY <1>8, <1>10
  <2> QED BY <2>1, <2>4, <2>7, <2>8, <2>9, <1>4, <1>7, <1>10
<1>11. CASE s.ssel # 0 /\ hot
  <2>1. b = s /\ l = Load(s, TempName, parsed, valid)
    BY <1>5, <1>6, <1>11
  <2>2. Named(s, s.name[s.sel]) = s.sel
    BY <1>1, <1>2, NamedOnly
  <2>3. Free(s)
    BY <1>1, PointerUnused DEF Basic
  <2>4. /\ Fine(l) /\ l.sel = l.ssel /\ l.fault = s.fault /\ l.cmd = s.cmd
        /\ \/ l.sel = 0 /\ l.setups = s.setups /\ l.name = s.name
           \/ /\ l.sel \in Ptrs /\ l.sel \notin ToSet(s.setups) /\ l.sel # 0
              /\ l.setups = Append(s.setups, l.sel)
              /\ l.name = Renamed(s, l.sel, TempName)
    <3>1. TempName \in Titles
      BY DEF Titles
    <3>2. LET x == Load(s, TempName, parsed, valid) IN
          /\ Fine(x) /\ x.sel = x.ssel /\ x.conn = s.conn /\ x.on = s.on
          /\ x.engine = s.engine /\ x.fault = s.fault /\ x.cmd = s.cmd
          /\ \/ x.sel = 0 /\ x.setups = s.setups /\ x.name = s.name
             \/ /\ x.sel \in Ptrs /\ x.sel \notin ToSet(s.setups) /\ x.sel # 0
                /\ x.setups = Append(s.setups, x.sel)
                /\ x.name = Renamed(s, x.sel, TempName)
                /\ Named(s, TempName) = 0
      BY <3>1, <2>3, <1>1, Loads
    <3> QED BY <3>2, <2>1
  <2>5. CASE ~edited
    BY <2>1, <2>2, <2>5, <1>2, <1>7, <1>8, <1>11, PtrsPositive
  <2>6. CASE edited /\ l.sel = 0
    <3>1. t = l /\ l.setups = s.setups /\ l.name = s.name
      BY <2>4, <2>6, <1>8, <1>11, PtrsPositive
    <3>2. Rest(l)
      BY <3>1, <2>4, <1>1 DEF Rest, Agreed, Room, Plain
    <3>3. Named(l, s.name[s.sel]) # 0
      BY <3>1, <2>4, <1>1, <1>2, NamedOnly, PtrsPositive DEF Fine
    <3> QED BY <3>1, <3>2, <3>3, <2>4, <1>7
  <2>7. CASE edited /\ l.sel # 0
    <3>1. t = Swap(l, s.sel, ok)
      BY <2>7, <1>8, <1>11
    <3>2. /\ l.sel \in Ptrs /\ l.sel \notin ToSet(s.setups)
          /\ l.setups = Append(s.setups, l.sel)
          /\ l.name = Renamed(s, l.sel, TempName)
      BY <2>4, <2>7
    <3>3. s.setups \in Seq(Ptrs) /\ s.name \in [Ptrs -> Titles]
      BY <1>1 DEF Sessions
    <3>4. ToSet(l.setups) = ToSet(s.setups) \cup {l.sel} /\ Len(l.setups) = Len(s.setups) + 1
      BY <3>2, <3>3, Appended
    <3>5. l.name[l.sel] = TempName /\ \A q \in ToSet(s.setups) : l.name[q] = s.name[q]
      BY <3>2, <3>3, <1>1, ListedPtrs DEF Renamed
    <3>6. l.name[s.sel] = s.name[s.sel]
      BY <3>5, <1>2
    <3>7. /\ Fine(t) /\ t.sel = l.sel /\ t.ssel = l.sel /\ t.cmd = l.cmd
          /\ ToSet(t.setups) = ToSet(l.setups) \ {s.sel}
          /\ Len(t.setups) = Len(l.setups) - 1
          /\ t.name = Renamed(l, l.sel, s.name[s.sel])
      <4>1. s.sel \in ToSet(l.setups) /\ l.sel \in ToSet(l.setups)
        BY <3>4, <1>2
      <4>2. l.name[s.sel] # TempName
        BY <3>6, <1>2
      <4>3. Fine(l) /\ l.name[l.sel] = TempName
        BY <3>5, <2>4
      <4>4. Swapped(l, s.sel, l.sel, t)
        BY <4>1, <4>2, <4>3, <3>1, Swaps
      <4> QED BY <4>4, <3>6 DEF Swapped
    <3>8. l.name \in [Ptrs -> Titles]
      BY <2>4 DEF Fine, Sessions
    <3>9. t.name[l.sel] = s.name[s.sel]
      BY <3>2, <3>7, <3>8 DEF Renamed
    <3>10. \A q \in ToSet(s.setups) : t.name[q] = s.name[q]
      BY <3>2, <3>5, <3>7, <3>8, <1>1, ListedPtrs DEF Renamed
    <3>11. Plain(t)
      BY <3>4, <3>7, <3>9, <3>10, <1>1, <1>2 DEF Plain
    <3>12. Room(t) /\ Agreed(t)
      <4>1. Len(t.setups) = Len(s.setups)
        BY <3>3, <3>4, <3>7
      <4> QED BY <4>1, <3>7, <1>1 DEF Room, Agreed
    <3>13. l.sel \in ToSet(t.setups)
      BY <3>2, <3>4, <3>7, <1>2
    <3>14. Named(t, s.name[s.sel]) # 0
      <4>1. Named(t, t.name[l.sel]) = l.sel
        BY <3>7, <3>13, NamedOnly DEF Fine
      <4> QED BY <4>1, <3>9, <2>7
    <3> QED BY <3>7, <3>11, <3>12, <3>14, <2>4, <1>7 DEF Rest
  <2> QED BY <2>5, <2>6, <2>7
<1> QED BY <1>3, <1>9, <1>10, <1>11

-----------------------------------------------------------------------------
(* Every command.                                                          *)

(* What ConnectionGivenBack and HotSwapKeeps say of one step.              *)
GivesBack(s, t) ==
  /\ t.cmd \in NeedsOffline /\ t.fault = "none"
  /\ IsConnected(s) /\ s.sel = s.conn
  /\ t.sel \in t.valid /\ ~t.failed
  => /\ IsConnected(t) /\ t.conn = s.conn
     /\ s.engine = "running" => t.engine = "running"
KeepsName(s, t) ==
  /\ t.cmd = "edit" /\ t.fault = "none"
  /\ IsConnected(s) /\ s.sel = s.conn
  => /\ Named(t, s.name[s.conn]) # 0
     /\ \A p \in ToSet(t.setups) : t.name[p] # TempName
Step(s, t) == Rest(t) /\ GivesBack(s, t) /\ KeepsName(s, t)

(* What the preconditions make of z.                                       *)
Before(z, cmd, ok) == Precondition(Begun(z, cmd), cmd, ok)

\* What a command finds.
LEMMA Prepares ==
  ASSUME NEW z, Rest(z), z.fault = "none", NEW cmd \in Commands, NEW ok \in BOOLEAN
  PROVE  LET pre == Before(z, cmd, ok) IN
         /\ Rest(pre.s) /\ pre.s.cmd = cmd /\ pre.s.setups = z.setups
         /\ pre.go /\ pre.s.fault = "none" =>
              /\ cmd \in NeedsSelected => pre.s.sel # 0
              /\ cmd = "launch" => IsConnected(pre.s)
         /\ pre.reconnect => cmd \in NeedsOffline
         /\ IsConnected(z) /\ z.sel = z.conn /\ cmd \in NeedsOffline =>
              /\ pre.go /\ pre.reconnect /\ pre.restart = (z.engine = "running")
              /\ pre.s.sel = z.sel /\ pre.s.ssel = z.ssel
              /\ pre.s.fault = "none" => pre.s.conn = 0
         /\ IsConnected(z) /\ z.sel = z.conn /\ cmd = "edit" =>
              /\ pre.go /\ ~pre.reconnect /\ pre.s.fault = "none"
              /\ pre.s.sel = z.sel /\ pre.s.conn = z.conn /\ pre.s.name = z.name
<1>1. PICK s : s = Begun(z, cmd)
  OBVIOUS
<1>2. /\ Rest(s) /\ s.fault = "none" /\ s.cmd = cmd /\ ~s.failed /\ s.setups = z.setups
      /\ s.name = z.name /\ s.valid = z.valid /\ s.sel = z.sel /\ s.ssel = z.ssel
      /\ s.conn = z.conn /\ s.on = z.on /\ s.engine = z.engine
  BY <1>1, Begins
<1>3. IsConnected(z) <=> IsConnected(s)
  BY <1>2 DEF IsConnected
<1>4. PICK pre : pre = Before(z, cmd, ok)
  OBVIOUS
<1>5. pre = Precondition(s, cmd, ok)
  BY <1>1, <1>4 DEF Before
<1>6. /\ Rest(pre.s) /\ pre.s.cmd = s.cmd /\ pre.s.setups = s.setups
      /\ pre.go /\ pre.s.fault = "none" =>
           /\ cmd \in NeedsSelected => pre.s.sel # 0
           /\ cmd = "launch" => IsConnected(pre.s)
      /\ pre.reconnect => cmd \in NeedsOffline
      /\ IsConnected(s) /\ s.sel = s.conn /\ cmd \in NeedsOffline =>
           /\ pre.s = Disconnect(s) /\ pre.go /\ pre.reconnect
           /\ pre.restart = (s.engine = "running")
      /\ IsConnected(s) /\ s.sel = s.conn /\ cmd = "edit" =>
           pre.s = s /\ pre.go /\ ~pre.reconnect
  BY <1>2, <1>5, Preconditions
<1>7. pre.s = Disconnect(s) =>
        /\ pre.s.sel = s.sel /\ pre.s.ssel = s.ssel
        /\ pre.s.fault = "none" => pre.s.conn = 0
  BY <1>2, Disconnects DEF Rest, Same
<1> QED BY <1>2, <1>3, <1>4, <1>6, <1>7

\* The end of a command keeps the invariant.
LEMMA Ends ==
  ASSUME NEW z, Rest(z), z.fault = "none", NEW cmd \in Commands, NEW ok \in BOOLEAN,
         NEW again \in BOOLEAN, NEW h,
         LET pre == Before(z, cmd, ok) IN
           pre.go /\ pre.s.fault = "none" => Rest(h) /\ h.cmd = cmd
  PROVE  LET t == Ended(Before(z, cmd, ok), h, again) IN
         /\ Rest(t) /\ t.cmd = cmd
         /\ cmd \notin {"remove", "option", "chain", "edit"} => Step(z, t)
<1>1. PICK pre : pre = Before(z, cmd, ok)
  OBVIOUS
<1>2. PICK t : t = Ended(pre, h, again)
  OBVIOUS
<1>3. Rest(pre.s) /\ pre.s.cmd = cmd
  BY <1>1, Prepares
<1>4. Rest(t) /\ t.cmd = cmd
  <2>1. CASE pre.go /\ pre.s.fault = "none"
    <3>1. t = Reconnect(h, pre, again) /\ Rest(h) /\ h.cmd = cmd
      BY <2>1, <1>1, <1>2 DEF Ended
    <3>2. Fine(t) /\ Same(h, t) /\ (t.fault = "none" => h.fault = "none")
      BY <3>1, Reconnects DEF Rest
    <3> QED BY <3>1, <3>2, SameRest DEF Same
  <2>2. CASE ~(pre.go /\ pre.s.fault = "none")
    BY <2>2, <1>2, <1>3 DEF Ended
  <2> QED BY <2>1, <2>2
<1>5. cmd \notin {"remove", "option", "chain", "edit"} => GivesBack(z, t) /\ KeepsName(z, t)
  BY <1>4 DEF GivesBack, KeepsName, NeedsOffline
<1> QED BY <1>1, <1>2, <1>4, <1>5 DEF Step

-----------------------------------------------------------------------------
(* The commands.                                                           *)

(* What the handler of a command may be called with, and what it leaves.   *)
Given(s) == Rest(s) /\ s.fault = "none"
Left(s, t) == Rest(t) /\ t.cmd = s.cmd

\* A chainsetup is added at the end, and selected, if there is none of its name.
LEMMA AddLeaves ==
  ASSUME NEW s, Given(s), NEW n \in SetupNames, Len(s.setups) < MaxSetups
  PROVE  Left(s, IF Named(s, n) # 0 THEN Added(s, n, FALSE)
                                    ELSE Select(Added(s, n, FALSE), n))
<1>1. /\ s \in Sessions /\ Listed(s) /\ Basic(s) /\ Agreed(s) /\ Room(s) /\ Plain(s)
      /\ Fine(s) /\ s.fault = "none"
  BY DEF Given, Rest, Fine
<1>2. CASE Named(s, n) # 0
  <2>1. PICK t : t = [s EXCEPT !.ssel = 0]
    OBVIOUS
  <2>2. /\ t.setups = s.setups /\ t.name = s.name /\ t.valid = s.valid /\ t.sel = s.sel
        /\ t.ssel = 0 /\ t.conn = s.conn /\ t.on = s.on /\ t.engine = s.engine
        /\ t.fault = s.fault /\ t.cmd = s.cmd
    BY <1>1, <2>1 DEF Sessions
  <2>3. t \in Sessions
    BY <1>1, <2>1 DEF Sessions, Refs
  <2>4. Basic(t)
    BY <1>1, <2>2 DEF Basic, Known, Single, Driven, IsConnected
  <2>5. Rest(t)
    BY <1>1, <2>2, <2>3, <2>4 DEF Rest, Fine, Listed, Agreed, Room, Plain
  <2>6. t = Added(s, n, FALSE)
    BY <1>2, <2>1 DEF Added
  <2> QED BY <1>2, <2>2, <2>5, <2>6 DEF Left
<1>3. CASE Named(s, n) = 0
  <2>1. n \in Titles /\ n # TempName
    BY SessionAssumption DEF Titles
  <2>2. Free(s)
    BY <1>1, PointerUnused DEF Basic
  <2>3. PICK t, p : t = Added(s, n, FALSE) /\ p = Unused(s)
    OBVIOUS
  <2>4. /\ Fine(t) /\ p \in Ptrs /\ p \notin ToSet(s.setups)
        /\ t.setups = Append(s.setups, p) /\ t.ssel = p
        /\ t.name = Renamed(s, p, n)
        /\ t.sel = s.sel /\ t.conn = s.conn /\ t.on = s.on /\ t.engine = s.engine
        /\ t.fault = s.fault /\ t.cmd = s.cmd
    BY <1>1, <1>3, <2>1, <2>2, <2>3, Adds
  <2>5. PICK u : u = Select(t, n)
    OBVIOUS
  <2>6. /\ Fine(u) /\ u.sel = Named(t, n) /\ u.ssel = Named(t, n) /\ u.fault = t.fault
        /\ u.setups = t.setups /\ u.name = t.name /\ u.cmd = t.cmd
    BY <2>4, <2>5, Selects
  <2>7. s.setups \in Seq(Ptrs) /\ s.name \in [Ptrs -> Titles] /\ ToSet(s.setups) \subseteq Ptrs
    BY <1>1, ListedPtrs DEF Sessions
  <2>8. Len(u.setups) = Len(s.setups) + 1 /\ ToSet(u.setups) = ToSet(s.setups) \cup {p}
    BY <2>4, <2>6, <2>7, Appended
  <2>9. Room(u)
    BY <2>8, <2>7, SessionAssumption DEF Room
  <2>10. \A q \in ToSet(s.setups) \cup {p} : u.name[q] = IF q = p THEN n ELSE s.name[q]
    BY <2>4, <2>6, <2>7 DEF Renamed
  <2>11. Plain(u)
    BY <1>1, <2>1, <2>8, <2>10 DEF Plain
  <2>12. Agreed(u)
    BY <2>6 DEF Agreed
  <2> QED BY <1>3, <2>3, <2>4, <2>5, <2>6, <2>9, <2>11, <2>12 DEF Left, Rest
<1> QED BY <1>2, <1>3

\* A chainsetup that is loaded is selected; otherwise nothing is.
LEMMA LoadLeaves ==
  ASSUME NEW s, Given(s), NEW n \in SetupNames, Len(s.setups) < MaxSetups,
         NEW parsed \in BOOLEAN, NEW valid \in BOOLEAN
  PROVE  Left(s, Load(s, n, parsed, valid))
<1>1. /\ s \in Sessions /\ Listed(s) /\ Basic(s) /\ Agreed(s) /\ Room(s) /\ Plain(s)
      /\ Fine(s) /\ s.fault = "none"
  BY DEF Given, Rest, Fine
<1>2. n \in Titles /\ n # TempName
  BY SessionAssumption DEF Titles
<1>3. Free(s)
  BY <1>1, PointerUnused DEF Basic
<1>4. PICK t : t = Load(s, n, parsed, valid)
  OBVIOUS
<1>5. /\ Fine(t) /\ t.sel = t.ssel /\ t.fault = s.fault /\ t.cmd = s.cmd
      /\ \/ t.sel = 0 /\ t.setups = s.setups /\ t.name = s.name
         \/ /\ t.sel \in Ptrs /\ t.sel \notin ToSet(s.setups) /\ t.sel # 0
            /\ t.setups = Append(s.setups, t.sel)
            /\ t.name = Renamed(s, t.sel, n) /\ Named(s, n) = 0
  BY <1>1, <1>2, <1>3, <1>4, Loads
<1>6. CASE t.sel = 0 /\ t.setups = s.setups /\ t.name = s.name
  BY <1>1, <1>4, <1>5, <1>6 DEF Left, Rest, Agreed, Room, Plain
<1>7. CASE /\ t.sel \in Ptrs /\ t.sel \notin ToSet(s.setups)
           /\ t.setups = Append(s.setups, t.sel) /\ t.name = Renamed(s, t.sel, n)
  <2>1. PICK p \in Ptrs : p = t.sel
    BY <1>7
  <2>2. s.setups \in Seq(Ptrs) /\ s.name \in [Ptrs -> Titles] /\ ToSet(s.setups) \subseteq Ptrs
    BY <1>1, ListedPtrs DEF Sessions
  <2>3. Len(t.setups) = Len(s.setups) + 1 /\ ToSet(t.setups) = ToSet(s.setups) \cup {p}
    BY <1>7, <2>1, <2>2, Appended
  <2>4. Room(t)
    BY <2>3, <2>2, SessionAssumption DEF Room
  <2>5. \A q \in ToSet(s.setups) \cup {p} : t.name[q] = IF q = p THEN n ELSE s.name[q]
    BY <1>7, <2>1, <2>2 DEF Renamed
  <2>6. Plain(t)
    BY <1>1, <1>2, <2>3, <2>5 DEF Plain
  <2>7. Agreed(t)
    BY <1>5 DEF Agreed
  <2> QED BY <1>4, <1>5, <2>4, <2>6, <2>7 DEF Left, Rest
<1> QED BY <1>5, <1>6, <1>7

\* Selecting leaves the chainsetups alone.
LEMMA SelectLeaves ==
  ASSUME NEW s, Given(s), NEW n
  PROVE  Left(s, Select(s, n))
<1>1. Fine(s) /\ Room(s) /\ Plain(s)
  BY DEF Given, Rest
<1>2. PICK t : t = Select(s, n)
  OBVIOUS
<1>3. /\ Fine(t) /\ t.sel = Named(s, n) /\ t.ssel = Named(s, n)
      /\ t.setups = s.setups /\ t.name = s.name /\ t.cmd = s.cmd
  BY <1>1, <1>2, Selects
<1> QED BY <1>1, <1>2, <1>3 DEF Left, Rest, Agreed, Room, Plain

\* Connecting leaves them alone.
LEMMA ConnectLeaves ==
  ASSUME NEW s, Given(s), NEW ok \in BOOLEAN
  PROVE  Left(s, Connect(s, ok)) /\ Left(s, s)
<1>1. PICK t : t = Connect(s, ok)
  OBVIOUS
<1>2. Fine(t) /\ Same(s, t) /\ s.fault = "none" /\ Rest(s)
  BY <1>1, Connects DEF Given, Rest
<1>3. Rest(t)
  BY <1>2, SameRest
<1> QED BY <1>1, <1>2, <1>3 DEF Left, Same

\* And disconnecting.
LEMMA DisconnectLeaves ==
  ASSUME NEW s, Given(s)
  PROVE  Left(s, Disconnect(s))
<1>1. PICK t : t = Disconnect(s)
  OBVIOUS
<1>2. Fine(t) /\ Same(s, t) /\ s.fault = "none" /\ Rest(s)
  BY <1>1, Disconnects DEF Given, Rest
<1>3. Rest(t)
  BY <1>2, SameRest
<1> QED BY <1>1, <1>2, <1>3 DEF Left, Same

\* And starting the engine.
LEMMA StartLeaves ==
  ASSUME NEW s, Given(s)
  PROVE  Left(s, Start(s))
<1>1. PICK t : t = Start(s)
  OBVIOUS
<1>2. Fine(t) /\ Same(s, t) /\ s.fault = "none" /\ Rest(s)
  BY <1>1, Starts DEF Given, Rest
<1>3. Rest(t)
  BY <1>2, SameRest
<1> QED BY <1>1, <1>2, <1>3 DEF Left, Same

\* The engine is created for the connected chainsetup, stopped, or deleted.
LEMMA EngineLeaves ==
  ASSUME NEW s, Given(s), NEW e \in States, e # "none" => IsConnected(s)
  PROVE  Left(s, [s EXCEPT !.engine = e])
<1>1. PICK t : t = [s EXCEPT !.engine = e]
  OBVIOUS
<1>2. /\ s \in Sessions /\ Listed(s) /\ Basic(s) /\ Agreed(s) /\ Room(s) /\ Plain(s)
      /\ Fine(s) /\ s.fault = "none"
  BY DEF Given, Rest, Fine
<1>3. Same(s, t) /\ t.conn = s.conn /\ t.on = s.on /\ t.engine = e /\ t.fault = s.fault
  BY <1>1, <1>2 DEF Same, Sessions
<1>4. t \in Sessions
  BY <1>1, <1>2 DEF Sessions
<1>5. Basic(t)
  BY <1>2, <1>3 DEF Basic, Known, Single, Driven, IsConnected, Same
<1>6. Fine(t)
  BY <1>2, <1>3, <1>4, <1>5 DEF Fine, Listed, Same
<1>7. Rest(t)
  BY <1>2, <1>3, <1>6, SameRest DEF Given
<1> QED BY <1>1, <1>3, <1>7 DEF Left, Same

\* What is deleted is not selected any more.
LEMMA RemoveLeaves ==
  ASSUME NEW s, Given(s)
  PROVE  Left(s, RemoveSelected(s)) /\ RemoveSelected(s).sel = 0
<1>1. PICK t : t = RemoveSelected(s)
  OBVIOUS
<1>2. /\ s \in Sessions /\ Basic(s) /\ Room(s) /\ Plain(s)
      /\ Fine(s) /\ s.fault = "none"
  BY DEF Given, Rest, Fine
<1>3. s.ssel \in {0} \cup ToSet(s.setups)
  BY <1>2 DEF Basic, Known
<1>4. /\ Fine(t) /\ t.sel = 0 /\ t.ssel = 0 /\ t.name = s.name /\ t.cmd = s.cmd
      /\ IF s.ssel = 0 THEN t.setups = s.setups
         ELSE /\ ToSet(t.setups) = ToSet(s.setups) \ {s.ssel}
              /\ Len(t.setups) = Len(s.setups) - 1
  BY <1>1, <1>2, <1>3, Removes
<1>5. Len(s.setups) \in Nat
  BY <1>2 DEF Sessions
<1>6. Agreed(t) /\ Plain(t)
  BY <1>2, <1>4 DEF Agreed, Plain
<1>7. Room(t)
  BY <1>2, <1>4, <1>5, SessionAssumption DEF Room
<1> QED BY <1>1, <1>4, <1>6, <1>7 DEF Left, Rest

\* Editing changes at most whether the chainsetup is valid.
LEMMA EditLeaves ==
  ASSUME NEW s, Given(s), NEW valid \in BOOLEAN
  PROVE  /\ Left(s, Edited(s, valid))
         /\ Edited(s, valid).sel = s.sel /\ Edited(s, valid).ssel = s.ssel
         /\ Edited(s, valid).conn = s.conn
<1>1. PICK t : t = Edited(s, valid)
  OBVIOUS
<1>2. Agreed(s) /\ Room(s) /\ Plain(s) /\ Fine(s)
  BY DEF Given, Rest, Fine
<1>3. /\ Fine(t) /\ t.setups = s.setups /\ t.name = s.name /\ t.sel = s.sel
      /\ t.ssel = s.ssel /\ t.conn = s.conn /\ t.cmd = s.cmd
  BY <1>1, <1>2, Edits
<1>4. Rest(t)
  BY <1>2, <1>3 DEF Rest, Agreed, Room, Plain
<1> QED BY <1>1, <1>3, <1>4 DEF Left

(* The copy that an editor has changed has the name of the original.       *)
Copied(s, t) ==
  /\ Rest(t) /\ t.cmd = s.cmd
  /\ s.sel = s.conn /\ t.fault = "none" => Named(t, s.name[s.sel]) # 0

\* cs-edit of any chainsetup, by any outcome of the editor.
LEMMA EditCopyLeaves ==
  ASSUME NEW s, Given(s), s.sel # 0, NEW edited \in BOOLEAN,
         NEW parsed \in BOOLEAN, NEW valid \in BOOLEAN, NEW ok \in BOOLEAN
  PROVE  Copied(s, EditCopy(s, edited, parsed, valid, ok))
<1>1. PICK t : t = EditCopy(s, edited, parsed, valid, ok)
  OBVIOUS
<1>2. Rest(s) /\ s.fault = "none"
  BY DEF Given
<1>3. /\ Rest(t) /\ t.cmd = s.cmd
      /\ s.sel = s.conn /\ t.fault = "none" => Named(t, s.name[s.sel]) # 0
  BY <1>1, <1>2, EditsCopy
<1> QED BY <1>1, <1>3 DEF Copied

-----------------------------------------------------------------------------
(* Each command from state to state.                                       *)

(* What check_action_preconditions() makes sure of before a command.       *)
Met(cmd, pre) ==
  pre.go /\ Given(pre.s) /\ pre.s.setups = ses.setups /\ (cmd = "launch" => IsConnected(pre.s))

\* A command that needs no disconnecting, whose handler leaves h.
LEMMA Performs ==
  ASSUME Rest(ses), ses.fault = "none",
         NEW cmd \in Commands \ {"remove", "option", "chain", "edit"},
         NEW pre \in {Prepared(cmd, ok) : ok \in BOOLEAN}, NEW h,
         Met(cmd, pre) => Left(pre.s, h),
         ses' \in {Ended(pre, h, again) : again \in BOOLEAN}
  PROVE  Step(ses, ses')
<1>1. PICK ok \in BOOLEAN, again \in BOOLEAN :
        pre = Prepared(cmd, ok) /\ ses' = Ended(pre, h, again)
  OBVIOUS
<1>2. pre = Before(ses, cmd, ok)
  BY <1>1 DEF Prepared, Before, Begun
<1>3. ASSUME pre.go, pre.s.fault = "none" PROVE Rest(h) /\ h.cmd = cmd
  <2>1. /\ Rest(pre.s) /\ pre.s.cmd = cmd /\ pre.s.setups = ses.setups
        /\ cmd = "launch" => IsConnected(pre.s)
    BY <1>2, <1>3, Prepares
  <2>2. Left(pre.s, h)
    BY <1>3, <2>1 DEF Met, Given
  <2> QED BY <2>1, <2>2 DEF Left
<1>4. Step(ses, Ended(Before(ses, cmd, ok), h, again))
  BY <1>2, <1>3, Ends
<1> QED BY <1>1, <1>2, <1>4

\* A chainsetup is added: whatever was connected stays connected.
LEMMA CsAddStep ==
  ASSUME Rest(ses), CsAdd
  PROVE  Step(ses, ses')
<1>1. PICK n \in SetupNames :
         Command("add", LAMBDA s : IF Named(s, n) # 0 THEN Added(s, n, FALSE)
           ELSE Select(Added(s, n, FALSE), n))
  BY DEF CsAdd
<1>2. PICK pre \in {Prepared("add", ok) : ok \in BOOLEAN} :
        ses' \in {Ended(pre, IF Named(pre.s, n) # 0 THEN Added(pre.s, n, FALSE)
         ELSE Select(Added(pre.s, n, FALSE), n),
                         again) : again \in BOOLEAN}
  BY <1>1 DEF Command
<1>3. PICK h : h = IF Named(pre.s, n) # 0 THEN Added(pre.s, n, FALSE)
         ELSE Select(Added(pre.s, n, FALSE), n)
  OBVIOUS
<1>4. Len(ses.setups) < MaxSetups
  BY DEF CsAdd
<1>5. Met("add", pre) => Left(pre.s, h)
  BY <1>1, <1>3, <1>4, AddLeaves DEF Met
<1>6. "add" \in Commands \ {"remove", "option", "chain", "edit"} /\ ses.fault = "none"
  BY <1>1 DEF Commands, Command
<1>7. ses' \in {Ended(pre, h, again) : again \in BOOLEAN}
  BY <1>2, <1>3
<1> QED BY <1>2, <1>5, <1>6, <1>7, Performs

\* A chainsetup is loaded from a file, or the file is refused.
LEMMA CsLoadStep ==
  ASSUME Rest(ses), CsLoad
  PROVE  Step(ses, ses')
<1>1. PICK n \in SetupNames, parsed \in BOOLEAN, valid \in BOOLEAN :
         Command("load", LAMBDA s : Load(s, n, parsed, valid))
  BY DEF CsLoad
<1>2. PICK pre \in {Prepared("load", ok) : ok \in BOOLEAN} :
        ses' \in {Ended(pre, Load(pre.s, n, parsed, valid),
                         again) : again \in BOOLEAN}
  BY <1>1 DEF Command
<1>3. PICK h : h = Load(pre.s, n, parsed, valid)
  OBVIOUS
<1>4. Len(ses.setups) < MaxSetups
  BY DEF CsLoad
<1>5. Met("load", pre) => Left(pre.s, h)
  BY <1>1, <1>3, <1>4, LoadLeaves DEF Met
<1>6. "load" \in Commands \ {"remove", "option", "chain", "edit"} /\ ses.fault = "none"
  BY <1>1 DEF Commands, Command
<1>7. ses' \in {Ended(pre, h, again) : again \in BOOLEAN}
  BY <1>2, <1>3
<1> QED BY <1>2, <1>5, <1>6, <1>7, Performs

\* Another chainsetup is selected, or none.
LEMMA CsSelectStep ==
  ASSUME Rest(ses), CsSelect
  PROVE  Step(ses, ses')
<1>1. PICK n \in SetupNames :
         Command("select", LAMBDA s : Select(s, n))
  BY DEF CsSelect
<1>2. PICK pre \in {Prepared("select", ok) : ok \in BOOLEAN} :
        ses' \in {Ended(pre, Select(pre.s, n),
                         again) : again \in BOOLEAN}
  BY <1>1 DEF Command
<1>3. PICK h : h = Select(pre.s, n)
  OBVIOUS
<1>5. Met("select", pre) => Left(pre.s, h)
  BY <1>1, <1>3, SelectLeaves DEF Met
<1>6. "select" \in Commands \ {"remove", "option", "chain", "edit"} /\ ses.fault = "none"
  BY <1>1 DEF Commands, Command
<1>7. ses' \in {Ended(pre, h, again) : again \in BOOLEAN}
  BY <1>2, <1>3
<1> QED BY <1>2, <1>5, <1>6, <1>7, Performs

\* The selected chainsetup takes the place of the connected one.
LEMMA CsConnectStep ==
  ASSUME Rest(ses), CsConnect
  PROVE  Step(ses, ses')
<1>1. PICK good \in BOOLEAN :
         Command("connect", LAMBDA s : IF s.sel \in s.valid THEN Connect(s, good) ELSE s)
  BY DEF CsConnect
<1>2. PICK pre \in {Prepared("connect", ok) : ok \in BOOLEAN} :
        ses' \in {Ended(pre, IF pre.s.sel \in pre.s.valid THEN Connect(pre.s, good) ELSE pre.s,
                         again) : again \in BOOLEAN}
  BY <1>1 DEF Command
<1>3. PICK h : h = IF pre.s.sel \in pre.s.valid THEN Connect(pre.s, good) ELSE pre.s
  OBVIOUS
<1>5. Met("connect", pre) => Left(pre.s, h)
  BY <1>1, <1>3, ConnectLeaves DEF Met
<1>6. "connect" \in Commands \ {"remove", "option", "chain", "edit"} /\ ses.fault = "none"
  BY <1>1 DEF Commands, Command
<1>7. ses' \in {Ended(pre, h, again) : again \in BOOLEAN}
  BY <1>2, <1>3
<1> QED BY <1>2, <1>5, <1>6, <1>7, Performs

\* There is no connected chainsetup left, and no engine.
LEMMA CsDisconnectStep ==
  ASSUME Rest(ses), CsDisconnect
  PROVE  Step(ses, ses')
<1>1. Command("disconnect", Disconnect)
  BY DEF CsDisconnect
<1>2. PICK pre \in {Prepared("disconnect", ok) : ok \in BOOLEAN} :
        ses' \in {Ended(pre, Disconnect(pre.s),
                         again) : again \in BOOLEAN}
  BY <1>1 DEF Command
<1>3. PICK h : h = Disconnect(pre.s)
  OBVIOUS
<1>5. Met("disconnect", pre) => Left(pre.s, h)
  BY <1>3, DisconnectLeaves DEF Met
<1>6. "disconnect" \in Commands \ {"remove", "option", "chain", "edit"} /\ ses.fault = "none"
  BY <1>1 DEF Commands, Command
<1>7. ses' \in {Ended(pre, h, again) : again \in BOOLEAN}
  BY <1>2, <1>3
<1> QED BY <1>2, <1>5, <1>6, <1>7, Performs

\* The engine is created for the connected chainsetup.
LEMMA LaunchStep ==
  ASSUME Rest(ses), Launch
  PROVE  Step(ses, ses')
<1>1. Command("launch", LAMBDA s : IF s.engine = "none" THEN [s EXCEPT !.engine = "idle"] ELSE s)
  BY DEF Launch
<1>2. PICK pre \in {Prepared("launch", ok) : ok \in BOOLEAN} :
        ses' \in {Ended(pre, IF pre.s.engine = "none" THEN [pre.s EXCEPT !.engine = "idle"]
                                                     ELSE pre.s, again) : again \in BOOLEAN}
  BY <1>1 DEF Command
<1>3. PICK h : h = IF pre.s.engine = "none" THEN [pre.s EXCEPT !.engine = "idle"] ELSE pre.s
  OBVIOUS
<1>4. Met("launch", pre) => Driven(pre.s) /\ {"none", "idle"} \subseteq States
  BY DEF Met, Given, Rest, Fine, Basic, States
<1>5. Met("launch", pre) => Left(pre.s, h)
  BY <1>3, <1>4, EngineLeaves, ConnectLeaves DEF Met, Driven
<1>6. "launch" \in Commands \ {"remove", "option", "chain", "edit"} /\ ses.fault = "none"
  BY <1>1 DEF Commands, Command
<1>7. ses' \in {Ended(pre, h, again) : again \in BOOLEAN}
  BY <1>2, <1>3
<1> QED BY <1>2, <1>5, <1>6, <1>7, Performs

\* The engine runs.
LEMMA StartEngineStep ==
  ASSUME Rest(ses), StartEngine
  PROVE  Step(ses, ses')
<1>1. PICK cmd \in {"start", "run"} :
         Command(cmd, Start)
  BY DEF StartEngine
<1>2. PICK pre \in {Prepared(cmd, ok) : ok \in BOOLEAN} :
        ses' \in {Ended(pre, Start(pre.s),
                         again) : again \in BOOLEAN}
  BY <1>1 DEF Command
<1>3. PICK h : h = Start(pre.s)
  OBVIOUS
<1>5. Met(cmd, pre) => Left(pre.s, h)
  BY <1>1, <1>3, StartLeaves DEF Met
<1>6. cmd \in Commands \ {"remove", "option", "chain", "edit"} /\ ses.fault = "none"
  BY <1>1 DEF Commands, Command
<1>7. ses' \in {Ended(pre, h, again) : again \in BOOLEAN}
  BY <1>2, <1>3
<1> QED BY <1>2, <1>5, <1>6, <1>7, Performs

\* It stops.
LEMMA StopEngineStep ==
  ASSUME Rest(ses), StopEngine
  PROVE  Step(ses, ses')
<1>1. Command("stop", LAMBDA s : IF s.engine = "running" THEN [s EXCEPT !.engine = "idle"] ELSE s)
  BY DEF StopEngine
<1>2. PICK pre \in {Prepared("stop", ok) : ok \in BOOLEAN} :
        ses' \in {Ended(pre, IF pre.s.engine = "running" THEN [pre.s EXCEPT !.engine = "idle"]
                                                     ELSE pre.s, again) : again \in BOOLEAN}
  BY <1>1 DEF Command
<1>3. PICK h : h = IF pre.s.engine = "running" THEN [pre.s EXCEPT !.engine = "idle"] ELSE pre.s
  OBVIOUS
<1>4. Met("stop", pre) => Driven(pre.s) /\ {"none", "idle"} \subseteq States
  BY DEF Met, Given, Rest, Fine, Basic, States
<1>5. Met("stop", pre) => Left(pre.s, h)
  BY <1>3, <1>4, EngineLeaves, ConnectLeaves DEF Met, Driven
<1>6. "stop" \in Commands \ {"remove", "option", "chain", "edit"} /\ ses.fault = "none"
  BY <1>1 DEF Commands, Command
<1>7. ses' \in {Ended(pre, h, again) : again \in BOOLEAN}
  BY <1>2, <1>3
<1> QED BY <1>2, <1>5, <1>6, <1>7, Performs

\* It is deleted.
LEMMA HaltEngineStep ==
  ASSUME Rest(ses), HaltEngine
  PROVE  Step(ses, ses')
<1>1. Command("halt", LAMBDA s : [s EXCEPT !.engine = "none"])
  BY DEF HaltEngine
<1>2. PICK pre \in {Prepared("halt", ok) : ok \in BOOLEAN} :
        ses' \in {Ended(pre, [pre.s EXCEPT !.engine = "none"],
                         again) : again \in BOOLEAN}
  BY <1>1 DEF Command
<1>3. PICK h : h = [pre.s EXCEPT !.engine = "none"]
  OBVIOUS
<1>4. Met("halt", pre) => Driven(pre.s) /\ {"none", "idle"} \subseteq States
  BY DEF Met, Given, Rest, Fine, Basic, States
<1>5. Met("halt", pre) => Left(pre.s, h)
  BY <1>3, <1>4, EngineLeaves DEF Met, Driven
<1>6. "halt" \in Commands \ {"remove", "option", "chain", "edit"} /\ ses.fault = "none"
  BY <1>1 DEF Commands, Command
<1>7. ses' \in {Ended(pre, h, again) : again \in BOOLEAN}
  BY <1>2, <1>3
<1> QED BY <1>2, <1>5, <1>6, <1>7, Performs

\* The position is set: nothing else changes.
LEMMA SetPositionStep ==
  ASSUME Rest(ses), SetPosition
  PROVE  Step(ses, ses')
<1>1. Command("setpos", LAMBDA s : s)
  BY DEF SetPosition
<1>2. PICK pre \in {Prepared("setpos", ok) : ok \in BOOLEAN} :
        ses' \in {Ended(pre, pre.s,
                         again) : again \in BOOLEAN}
  BY <1>1 DEF Command
<1>3. PICK h : h = pre.s
  OBVIOUS
<1>5. Met("setpos", pre) => Left(pre.s, h)
  BY <1>3, ConnectLeaves DEF Met
<1>6. "setpos" \in Commands \ {"remove", "option", "chain", "edit"} /\ ses.fault = "none"
  BY <1>1 DEF Commands, Command
<1>7. ses' \in {Ended(pre, h, again) : again \in BOOLEAN}
  BY <1>2, <1>3
<1> QED BY <1>2, <1>5, <1>6, <1>7, Performs

\* The selected chainsetup is removed: nothing is selected, nothing is given back.
LEMMA CsRemoveStep ==
  ASSUME Rest(ses), CsRemove
  PROVE  Step(ses, ses')
<1>1. Command("remove", RemoveSelected)
  BY DEF CsRemove
<1>2. PICK pre \in {Prepared("remove", ok) : ok \in BOOLEAN} :
       ses' \in {Ended(pre, RemoveSelected(pre.s), again) :
                  again \in BOOLEAN}
  BY <1>1 DEF Command
<1>3. PICK ok \in BOOLEAN, again \in BOOLEAN :
       /\ pre = Prepared("remove", ok)
       /\ ses' = Ended(pre, RemoveSelected(pre.s), again)
  BY <1>2
<1>4. pre = Before(ses, "remove", ok) /\ ses.fault = "none" /\ "remove" \in Commands
  <2>1. pre = Before(ses, "remove", ok)
    BY <1>3 DEF Prepared, Before, Begun
  <2>2. ses.fault = "none"
    BY <1>1 DEF Command
  <2>3. "remove" \in Commands
    BY DEF Commands
  <2> QED BY <2>1, <2>2, <2>3
<1>5. PICK h : h = RemoveSelected(pre.s)
  OBVIOUS
<1>6. Rest(pre.s) /\ pre.s.cmd = "remove"
  BY <1>4, Prepares
<1>7. ASSUME pre.go, pre.s.fault = "none" PROVE Rest(h) /\ h.cmd = "remove" /\ h.sel = 0
  <2>1. Given(pre.s)
    BY <1>6, <1>7 DEF Given
  <2>2. Left(pre.s, h) /\ h.sel = 0
    BY <1>5, <2>1, RemoveLeaves
  <2> QED BY <1>6, <2>2 DEF Left
<1>8. PICK t : t = Ended(Before(ses, "remove", ok), h, again)
  OBVIOUS
<1>9. ses' = t
  BY <1>3, <1>4, <1>5, <1>8
<1>10. Rest(t) /\ t.cmd = "remove"
  BY <1>4, <1>7, <1>8, Ends
<1>11. ASSUME IsConnected(ses), ses.sel = ses.conn, t.fault = "none" PROVE t.sel \notin t.valid
  <2>1. pre.go
    BY <1>4, <1>11, Prepares DEF NeedsOffline
  <2>2. pre.s.fault = "none"
    BY <1>4, <1>8, <1>11 DEF Ended
  <2>3. t = Reconnect(h, pre, again) /\ h.sel = 0
    BY <1>4, <1>7, <1>8, <2>1, <2>2 DEF Ended
  <2>4. t.sel = 0
    BY <2>3 DEF Reconnect
  <2>5. t.valid \subseteq Ptrs
    BY <1>10 DEF Rest, Fine, Sessions
  <2> QED BY <2>4, <2>5, PtrsPositive
<1>12. GivesBack(ses, t) /\ KeepsName(ses, t)
  BY <1>10, <1>11 DEF GivesBack, KeepsName
<1> QED BY <1>9, <1>10, <1>12 DEF Step

\* The chainsetup that was disconnected for an edit is connected again.
LEMMA EditSetupStep ==
  ASSUME Rest(ses), EditSetup
  PROVE  Step(ses, ses')
<1>1. PICK cmd \in {"option", "chain"}, valid \in BOOLEAN :
         Command(cmd, LAMBDA s : Edited(s, valid))
  BY DEF EditSetup
<1>2. PICK pre \in {Prepared(cmd, ok) : ok \in BOOLEAN} :
       ses' \in {Ended(pre, Edited(pre.s, valid), again) :
                  again \in BOOLEAN}
  BY <1>1 DEF Command
<1>3. PICK ok \in BOOLEAN, again \in BOOLEAN :
       /\ pre = Prepared(cmd, ok)
       /\ ses' = Ended(pre, Edited(pre.s, valid), again)
  BY <1>2
<1>4. pre = Before(ses, cmd, ok) /\ ses.fault = "none" /\ cmd \in Commands
  <2>1. pre = Before(ses, cmd, ok)
    BY <1>3 DEF Prepared, Before, Begun
  <2>2. ses.fault = "none"
    BY <1>1 DEF Command
  <2>3. cmd \in Commands
    BY <1>1 DEF Commands
  <2> QED BY <2>1, <2>2, <2>3
<1>5. PICK h : h = Edited(pre.s, valid)
  OBVIOUS
<1>6. Rest(pre.s) /\ pre.s.cmd = cmd
  BY <1>4, Prepares
<1>7. ASSUME pre.go, pre.s.fault = "none"
      PROVE  /\ Rest(h) /\ h.cmd = cmd
             /\ h.sel = pre.s.sel /\ h.ssel = pre.s.ssel /\ h.conn = pre.s.conn
  <2>1. Given(pre.s)
    BY <1>6, <1>7 DEF Given
  <2>2. Left(pre.s, h) /\ h.sel = pre.s.sel /\ h.ssel = pre.s.ssel /\ h.conn = pre.s.conn
    BY <1>1, <1>5, <2>1, EditLeaves
  <2> QED BY <1>6, <2>2 DEF Left
<1>8. PICK t : t = Ended(Before(ses, cmd, ok), h, again)
  OBVIOUS
<1>9. ses' = t
  BY <1>3, <1>4, <1>5, <1>8
<1>10. Rest(t) /\ t.cmd = cmd
  BY <1>4, <1>7, <1>8, Ends
<1>11. ASSUME IsConnected(ses), ses.sel = ses.conn, t.fault = "none", t.sel \in t.valid, ~t.failed
       PROVE  /\ IsConnected(t) /\ t.conn = ses.conn
              /\ ses.engine = "running" => t.engine = "running"
  <2>1. cmd \in NeedsOffline
    BY <1>1 DEF NeedsOffline
  <2>2. /\ pre.go /\ pre.reconnect /\ pre.restart = (ses.engine = "running")
        /\ pre.s.sel = ses.sel /\ pre.s.ssel = ses.ssel
        /\ pre.s.fault = "none" => pre.s.conn = 0
    BY <1>4, <1>11, <2>1, Prepares
  <2>3. pre.s.fault = "none"
    BY <1>4, <1>8, <1>11 DEF Ended
  <2>4. t = Reconnect(h, pre, again)
    BY <1>4, <1>8, <2>2, <2>3 DEF Ended
  <2>5. /\ Fine(h) /\ h.conn = 0 /\ h.sel = ses.sel /\ h.ssel = ses.ssel
    BY <1>7, <2>2, <2>3 DEF Rest
  <2>6. h.ssel \in {0, h.sel}
    BY <1>4, <2>5 DEF Rest, Agreed
  <2>7. h.sel = t.sel /\ h.valid = t.valid
    BY <2>4, <2>5, Reconnects DEF Same
  <2>8. h.sel # 0 /\ h.sel \in h.valid
    BY <1>11, <2>5, <2>7, PtrsPositive DEF Fine, Sessions
  <2>9. IsConnected(t) /\ t.conn = h.sel /\ (pre.restart => t.engine = "running")
    BY <1>11, <2>2, <2>4, <2>5, <2>6, <2>8, Reconnects
  <2> QED BY <1>11, <2>2, <2>5, <2>9
<1>12. GivesBack(ses, t)
  BY <1>11 DEF GivesBack
<1>13. KeepsName(ses, t)
  BY <1>1, <1>10 DEF KeepsName
<1> QED BY <1>9, <1>10, <1>12, <1>13 DEF Step

\* The edited copy of the connected chainsetup has its name.
LEMMA CsEditStep ==
  ASSUME Rest(ses), CsEdit
  PROVE  Step(ses, ses')
<1>1. PICK edited \in BOOLEAN, parsed \in BOOLEAN, valid \in BOOLEAN, good \in BOOLEAN :
         Command("edit", LAMBDA s : EditCopy(s, edited, parsed, valid, good))
  BY DEF CsEdit
<1>2. PICK pre \in {Prepared("edit", ok) : ok \in BOOLEAN} :
       ses' \in {Ended(pre, EditCopy(pre.s, edited, parsed, valid, good), again) :
                  again \in BOOLEAN}
  BY <1>1 DEF Command
<1>3. PICK ok \in BOOLEAN, again \in BOOLEAN :
       /\ pre = Prepared("edit", ok)
       /\ ses' = Ended(pre, EditCopy(pre.s, edited, parsed, valid, good), again)
  BY <1>2
<1>4. pre = Before(ses, "edit", ok) /\ ses.fault = "none" /\ "edit" \in Commands
  <2>1. pre = Before(ses, "edit", ok)
    BY <1>3 DEF Prepared, Before, Begun
  <2>2. ses.fault = "none"
    BY <1>1 DEF Command
  <2>3. "edit" \in Commands
    BY DEF Commands
  <2> QED BY <2>1, <2>2, <2>3
<1>5. PICK h : h = EditCopy(pre.s, edited, parsed, valid, good)
  OBVIOUS
<1>6. Rest(pre.s) /\ pre.s.cmd = "edit"
  BY <1>4, Prepares
<1>7. ASSUME pre.go, pre.s.fault = "none"
      PROVE  /\ Rest(h) /\ h.cmd = "edit"
             /\ pre.s.sel = pre.s.conn /\ h.fault = "none" =>
                  Named(h, pre.s.name[pre.s.sel]) # 0
  <2>1. "edit" \in NeedsSelected
    BY DEF NeedsSelected
  <2>2. pre.s.sel # 0
    BY <1>4, <1>7, <2>1, Prepares
  <2>3. edited \in BOOLEAN /\ parsed \in BOOLEAN /\ valid \in BOOLEAN /\ good \in BOOLEAN
    BY <1>1
  <2>4. PICK s : s = pre.s
    OBVIOUS
  <2>5. Rest(s) /\ s.fault = "none" /\ s.sel # 0
    BY <1>6, <1>7, <2>2, <2>4
  <2>6. h = EditCopy(s, edited, parsed, valid, good)
    BY <1>5, <2>4
  <2>7. Copied(s, h)
    BY <2>3, <2>5, <2>6, EditCopyLeaves DEF Given
  <2> QED BY <1>6, <2>4, <2>7 DEF Copied
<1>8. PICK t : t = Ended(Before(ses, "edit", ok), h, again)
  OBVIOUS
<1>9. ses' = t
  BY <1>3, <1>4, <1>5, <1>8
<1>10. Rest(t) /\ t.cmd = "edit"
  BY <1>4, <1>7, <1>8, Ends
<1>11. ASSUME IsConnected(ses), ses.sel = ses.conn, t.fault = "none"
       PROVE  /\ Named(t, ses.name[ses.conn]) # 0
              /\ \A p \in ToSet(t.setups) : t.name[p] # TempName
  <2>1. /\ pre.go /\ ~pre.reconnect /\ pre.s.fault = "none"
        /\ pre.s.sel = ses.sel /\ pre.s.conn = ses.conn /\ pre.s.name = ses.name
    BY <1>4, <1>11, Prepares
  <2>2. t = Reconnect(h, pre, again)
    BY <1>4, <1>8, <2>1 DEF Ended
  <2>3. t = h
    BY <2>1, <2>2 DEF Reconnect
  <2>4. Named(t, ses.name[ses.conn]) # 0
    BY <1>7, <1>11, <2>1, <2>3
  <2>5. Plain(t)
    BY <1>10, <1>11 DEF Rest
  <2> QED BY <2>4, <2>5 DEF Plain
<1>12. KeepsName(ses, t)
  BY <1>11 DEF KeepsName
<1>13. GivesBack(ses, t)
  BY <1>10 DEF GivesBack, NeedsOffline
<1> QED BY <1>9, <1>10, <1>12, <1>13 DEF Step

-----------------------------------------------------------------------------
(* The session.                                                            *)

\* An empty session.
LEMMA SessionInitRest == SessionInit => Rest(ses)
<1> SUFFICES ASSUME SessionInit PROVE Rest(ses)
  OBVIOUS
<1>1. /\ ses.setups = <<>> /\ ses.sel = 0 /\ ses.ssel = 0 /\ ses.conn = 0 /\ ses.on = {}
      /\ ses.engine = "none"
  BY DEF SessionInit, EmptySession
<1>2. ses \in Sessions
  <2>1. <<>> \in Seq(Ptrs) /\ [p \in Ptrs |-> TempName] \in [Ptrs -> Titles]
    BY DEF Titles
  <2>2. "none" \in States /\ "none" \in Faults /\ "none" \in Commands /\ 0 \in Refs
    BY DEF States, Faults, Commands, Refs
  <2> QED BY <2>1, <2>2 DEF SessionInit, EmptySession, Sessions
<1>3. ToSet(ses.setups) = {}
  BY <1>1 DEF ToSet
<1>4. Listed(ses)
  BY <1>1, <1>3 DEF Listed, IsInjective
<1>5. Basic(ses)
  BY <1>1 DEF Basic, Known, Single, Driven
<1>6. Len(ses.setups) = 0
  BY <1>1
<1>7. Agreed(ses) /\ Room(ses) /\ Plain(ses)
  BY <1>1, <1>3, <1>6, SessionAssumption DEF Agreed, Room, Plain
<1> QED BY <1>2, <1>4, <1>5, <1>7 DEF Rest, Fine

\* What every command does, or none.
LEMMA SessionStep ==
  ASSUME Rest(ses), [SessionNext]_ses
  PROVE  Rest(ses)' /\ (ses' # ses => Step(ses, ses'))
<1>1. CASE UNCHANGED ses
  BY <1>1
<1>2. CASE SessionNext
  <2>1. Step(ses, ses')
    BY <1>2, CsAddStep, CsLoadStep, CsSelectStep, CsRemoveStep, CsConnectStep,
       CsDisconnectStep, EditSetupStep, CsEditStep, LaunchStep, StartEngineStep,
       StopEngineStep, HaltEngineStep, SetPositionStep DEF SessionNext
  <2> QED BY <2>1 DEF Step
<1> QED BY <1>1, <1>2

(* Every field keeps its type; the session holds no chainsetup twice, nor  *)
(* two of a name, although cs-edit has two copies of one in the middle.    *)
THEOREM SessionTyped == SessionSpec => []SessionTypeOK
<1>1. SessionInit => Rest(ses)
  BY SessionInitRest
<1>2. Rest(ses) /\ [SessionNext]_ses => Rest(ses)'
  BY SessionStep
<1>3. Rest(ses) => SessionTypeOK
  <2> SUFFICES ASSUME Rest(ses) PROVE SessionTypeOK
    OBVIOUS
  <2>1. ses \in Sessions /\ Listed(ses)
    BY DEF Rest, Fine
  <2>2. DOMAIN ses = DOMAIN EmptySession
    BY <2>1 DEF Sessions, EmptySession
  <2>3. /\ ses.setups \in Seq(Ptrs) /\ ses.name \in [Ptrs -> SetupNames \cup {TempName}]
        /\ ses.valid \subseteq Ptrs /\ ses.on \subseteq Ptrs
        /\ {ses.sel, ses.ssel, ses.conn} \subseteq {0} \cup Ptrs
        /\ ses.engine \in {"none", "idle", "running"} /\ ses.fault \in Faults
    BY <2>1 DEF Sessions, Titles, Refs, States
  <2> QED BY <2>1, <2>2, <2>3 DEF SessionTypeOK, Listed
<1> QED BY <1>1, <1>2, <1>3, PTL DEF SessionSpec

(* Only the connected chainsetup is enabled and only with it is there an   *)
(* engine; a command that disconnects it for its duration gives back what  *)
(* it found; cs-edit leaves a chainsetup of the old one's name.            *)
THEOREM SessionAlwaysSound == SessionSpec => SessionSound
<1>1. SessionInit => Rest(ses)
  BY SessionInitRest
<1>2. Rest(ses) /\ [SessionNext]_ses => Rest(ses)'
  BY SessionStep
<1>3. Rest(ses) => ConnectedOnly
  BY DEF Rest, Fine, Basic, Single, Driven, ConnectedOnly, Sound
<1>4. Rest(ses) /\ [SessionNext]_ses =>
        [/\ ses'.cmd \in NeedsOffline /\ ses'.fault = "none"
         /\ IsConnected(ses) /\ ses.sel = ses.conn
         /\ ses'.sel \in ses'.valid /\ ~ses'.failed
         => /\ IsConnected(ses') /\ ses'.conn = ses.conn
            /\ ses.engine = "running" => ses'.engine = "running"]_ses
  BY SessionStep DEF Step, GivesBack
<1>5. Rest(ses) /\ [SessionNext]_ses =>
        [/\ ses'.cmd = "edit" /\ ses'.fault = "none"
         /\ IsConnected(ses) /\ ses.sel = ses.conn
         => /\ Named(ses', ses.name[ses.conn]) # 0
            /\ \A p \in ToSet(ses'.setups) : ses'.name[p] # TempName]_ses
  BY SessionStep DEF Step, KeepsName
<1>6. SessionSpec => []ConnectedOnly
  BY <1>1, <1>2, <1>3, PTL DEF SessionSpec
<1>7. SessionSpec => ConnectionGivenBack
  BY <1>1, <1>2, <1>4, PTL DEF SessionSpec, ConnectionGivenBack
<1>8. SessionSpec => HotSwapKeeps
  BY <1>1, <1>2, <1>5, PTL DEF SessionSpec, HotSwapKeeps
<1> QED BY <1>6, <1>7, <1>8 DEF SessionSound
=============================================================================
