---------------------------- MODULE EciCommands ----------------------------
(***************************************************************************)
(* The commands of the interactive mode, as they act on the audio objects  *)
(* and chains of the selected chainsetup: the tables of what a command     *)
(* needs, the preconditions, of which only the first that applies is       *)
(* tested, the command and the reconnection after it.                      *)
(*                                                                         *)
(* ECA_CONTROL keeps pointers to the selected input and output.  Objects   *)
(* are freed with their chainsetup, and proxies of objects when it is      *)
(* connected: a pointer may dangle, and meet a new object at its address.  *)
(* Session has chainsetups of equal names, here they differ.  The objects  *)
(* are files: proxied when added, direct once they were connected.         *)
(* A definition that stands right before the one it varies, and that       *)
(* nothing uses, is a slip.                                                *)
(***************************************************************************)
EXTENDS Integers, Sequences, SequencesExt

CONSTANTS
  EcSetups,  \* the chainsetups that can be added
  EcObjects, \* addresses of audio objects
  EcNames,   \* names of chains
  EcLoose,   \* what the user does that the tables do not cover: "unselected",
             \* "adopted", "loaded", "unstarted", or none of it
  EcSteps    \* bound: commands

ASSUME EcAssumption ==
  /\ EcSetups \subseteq Nat \ {0} /\ EcObjects \subseteq Nat \ {0}
  /\ EcLoose \subseteq {"unselected", "adopted", "loaded", "unstarted"}
  /\ EcSteps \in Nat

VARIABLE ec

EcSides == {"ai", "ao"}
NoPtr == <<>>       \* a null pointer; others are <<address, proxied>>
NoAct == [err |-> FALSE, stray |-> FALSE, editing |-> FALSE,
          conn |-> 0, run |-> FALSE, offline |-> FALSE]

EcEmpty == [ai |-> <<>>, ao |-> <<>>, chains |-> <<>>, selids |-> <<>>]
EcChain(n) == [name |-> n, ai |-> 0, ao |-> 0]

(* The chainsetup made of the command line: one input, one chain, one      *)
(* output; connected or not, with the engine running or not.               *)
EcFirst == CHOOSE c \in EcSetups : \A d \in EcSetups : c <= d
EcPlain(n) ==
  [ai |-> <<1>>, ao |-> <<2>>, chains |-> <<[name |-> n, ai |-> 1, ao |-> 2]>>, selids |-> <<n>>]

----------------------------------------------------------------------------
(* The tables of ECA_IAMODE_PARSER, for the commands modelled.  "forward"  *)
(* stands for what moves an object or hands it to an editor, "get" for     *)
(* what asks one for its name, position, length or format.                 *)

EcOf(area, verbs) == {area} \X verbs
EcOfSides(verbs) == EcSides \X verbs

NeedsArgument ==
  EcOf("cs", {"add", "select", "set-length", "set-audio-format", "set-position", "option"})
  \cup EcOf("c", {"add", "select", "index-select", "deselect", "select-add", "rename"})
  \cup EcOfSides({"add", "select", "index-select", "forward"})
EcNeedsConnected == EcOf("engine", {"launch", "halt", "start"}) \cup EcOf("cs", {"disconnect", "set-position"})
EcNeedsSelected ==
  EcOf("cs", {"remove", "connect", "set-length", "option", "set-position", "get-position"})
  \cup EcOf("c", {"remove", "clear", "rename", "muting", "list", "select"})
  \cup EcOfSides({"add", "select", "index-select", "remove", "attach", "forward", "get"})
  \cup {<<"ao", "add-default">>}
EcNeedsOffline ==
  EcOf("cs", {"remove", "set-length", "option"}) \cup EcOf("c", {"add", "remove", "rename", "clear"})
  \cup EcOfSides({"add", "remove", "attach", "forward"}) \cup {<<"ao", "add-default">>}
NeedsObject(side) == EcOf(side, {"describe", "remove", "attach", "forward", "get"})

(* Commands that touch the selected chainsetup and are not in the table.   *)
Unchecked ==
  {<<"cs", "set-audio-format">>} \cup EcOfSides({"list", "describe"})
  \cup EcOf("c", {"add", "index-select", "deselect", "select-add", "select-all", "is-muted"})

EcCommands ==
  NeedsArgument \cup EcNeedsConnected \cup EcNeedsSelected \cup Unchecked
  \cup {<<"engine", "stop">>, <<"cs", "load">>, <<"word", "unknown">>}

----------------------------------------------------------------------------
(* The session and its chainsetups.                                        *)

EcError(s) == [s EXCEPT !.last.err = TRUE]
EcFault(s) == [s EXCEPT !.fault = TRUE]
EcUnchosen == [side \in EcSides |-> 0]

EcMine(s) == s.setup[s.sel]
OkAudioObject(s, ptr) ==
  ptr # NoPtr /\ ptr[1] \in Range(EcMine(s).ai \o EcMine(s).ao) /\ ptr[2] = (ptr[1] \in s.proxied)

(* get_audio_input(), get_audio_output(): a pointer that is not one of the *)
(* selected chainsetup is forgotten.                                       *)
GetObjectKept(s, side) == s
GetObject(s, side) ==
  IF s.sel = 0 \/ OkAudioObject(s, s.ptr[side]) THEN s ELSE [s EXCEPT !.ptr[side] = NoPtr]

EcValid(s, c) ==
  LET u == s.setup[c] IN
  /\ u.ai # <<>> /\ u.ao # <<>> /\ u.chains # <<>>
  /\ \A k \in 1..Len(u.chains) : u.chains[k].ai # 0 /\ u.chains[k].ao # 0
EcConnected(s) == s.conn # 0 /\ EcValid(s, s.conn)

(* Without devices the first connection replaces all proxies.              *)
EcUnproxied(s) == s.proxied \ Range(EcMine(s).ai \o EcMine(s).ao)

EcDisconnect(s) ==
  IF s.conn = 0 THEN EcFault(s) ELSE [s EXCEPT !.conn = 0, !.engine = "none"]
EcConnect(s, ok) ==
  LET t == IF EcConnected(s) THEN EcDisconnect(s) ELSE s
      u == [t EXCEPT !.proxied = EcUnproxied(s)]
  IN IF ok THEN [u EXCEPT !.conn = s.sel] ELSE EcError(u)

EcStart(s) == IF EcConnected(s) THEN [s EXCEPT !.engine = "running"] ELSE s

----------------------------------------------------------------------------
(* check_action_preconditions(): whether the command may go on, and with   *)
(* what.  Both pointers are looked at, whatever the command needs, unless  *)
(* an earlier case applies.                                                *)

EcGo(s) == [s |-> s, go |-> TRUE]
EcRefuse(s) == [s |-> EcError(s), go |-> FALSE]

EcTest(s, cmd, arg, ok) ==
  LET i == GetObject(s, "ai")
      o == GetObject(i, "ao")
  IN CASE ~arg /\ cmd \in NeedsArgument -> EcRefuse(s)
       [] s.sel # 0 /\ i.ptr["ai"] = NoPtr /\ cmd \in NeedsObject("ai") -> EcRefuse(i)
       [] s.sel # 0 /\ o.ptr["ao"] = NoPtr /\ cmd \in NeedsObject("ao") -> EcRefuse(o)
       [] s.sel = 0 /\ cmd \in EcNeedsSelected ->
            IF EcConnected(s) THEN EcGo([s EXCEPT !.sel = s.conn]) ELSE EcRefuse(s)
       [] ~EcConnected(s) /\ cmd \in EcNeedsConnected ->
            LET t == IF s.sel # 0 /\ EcValid(s, s.sel) THEN EcConnect(o, ok) ELSE o
            IN IF EcConnected(t) THEN EcGo(t) ELSE EcRefuse(t)
       [] s.sel = s.conn /\ cmd \in EcNeedsOffline ->
            EcGo([EcDisconnect(o) EXCEPT !.last.offline = TRUE])
       [] OTHER -> EcGo(o)

(* The end of action().                                                    *)
EcReconnectQuietly(s, ok, runs) ==
  IF ~s.last.offline \/ s.sel = 0 \/ ~EcValid(s, s.sel) THEN s
  ELSE LET t == EcConnect(s, ok) IN
       IF t.sel = t.conn /\ s.last.run /\ runs THEN EcStart(t) ELSE t
EcReconnect(s, ok, runs) ==
  IF ~s.last.offline THEN s
  ELSE IF s.sel = 0 \/ ~EcValid(s, s.sel) THEN EcError(s)
  ELSE LET t == EcConnect(s, ok) IN
       IF t.sel = t.conn /\ s.last.run /\ runs THEN EcStart(t) ELSE t

----------------------------------------------------------------------------
(* Chainsetup commands.                                                    *)

SetupAdd(s, c) == IF c \in s.there THEN EcError(s)
                  ELSE [s EXCEPT !.there = s.there \cup {c}, !.setup[c] = EcEmpty, !.sel = c]
SetupSelect(s, c) == IF c \in s.there THEN [s EXCEPT !.sel = c]
                     ELSE EcError([s EXCEPT !.sel = 0])
(* The audio objects are freed with the chainsetup.                        *)
SetupRemove(s) ==
  [s EXCEPT !.there = s.there \ {s.sel}, !.setup[s.sel] = EcEmpty, !.sel = 0,
            !.proxied = EcUnproxied(s), !.chosen[s.sel] = EcUnchosen]
SetupLoad(s, c) ==
  IF c \in s.there \/ \E d \in s.there : s.setup[d] # EcEmpty THEN EcError([s EXCEPT !.sel = 0])
  ELSE [s EXCEPT !.there = s.there \cup {c}, !.sel = c, !.proxied = {1, 2},
                 !.setup[c] = EcPlain(CHOOSE n \in EcNames : TRUE)]
SetupEdit(s) == [s EXCEPT !.last.editing = TRUE]

(* A position is the engine's, if it runs the selected chainsetup.         *)
SetupCommand(s, verb, x, ok) ==
  CASE verb = "add" -> SetupAdd(s, x)
    [] verb = "select" -> SetupSelect(s, x)
    [] verb = "remove" -> SetupRemove(s)
    [] verb = "load" -> SetupLoad(s, x)
    [] verb = "connect" -> IF EcValid(s, s.sel) THEN EcConnect(s, ok) ELSE EcError(s)
    [] verb = "disconnect" -> EcDisconnect(s)
    [] verb \in {"option", "set-length"} -> SetupEdit(s)
    [] OTHER -> s

EngineCommand(s, verb, ok) ==
  CASE verb = "start" -> EcStart(s)
    [] verb = "stop" -> IF s.engine = "running" THEN [s EXCEPT !.engine = "idle"] ELSE s
    [] verb = "launch" -> IF s.engine = "none" THEN [s EXCEPT !.engine = "idle"] ELSE EcError(s)
    [] verb = "halt" -> IF s.engine # "none" THEN [s EXCEPT !.engine = "none"] ELSE EcError(s)

----------------------------------------------------------------------------
(* Chains.                                                                 *)

EcChainNames(u) == [k \in 1..Len(u.chains) |-> u.chains[k].name]
EcKeep(names, P(_)) == SelectSeq(names, LAMBDA n : P(n))

(* The first chain whose name is selected.                                 *)
FirstChain(u) ==
  LET there == EcKeep(u.selids, LAMBDA n : n \in Range(EcChainNames(u))) IN
  IF there = <<>> THEN "none" ELSE Head(there)

ChainsAdded(u, n) ==
  [u EXCEPT !.chains = IF n \in Range(EcChainNames(u)) THEN @ ELSE Append(@, EcChain(n)),
            !.selids = <<n>>]
ChainsRemoved(u) ==
  LET Gone(cs, n) == LET k == SelectInSeq(cs, LAMBDA c : c.name = n)
                     IN IF k = 0 THEN cs ELSE RemoveAt(cs, k)
  IN [u EXCEPT !.chains = FoldLeft(Gone, @, u.selids), !.selids = <<>>]
ChainRenamed(u, n) ==
  LET k == SelectInSeq(u.chains, LAMBDA c : c.name = FirstChain(u))
  IN IF k = 0 THEN u ELSE [u EXCEPT !.chains[k].name = n]

ChainSelection(u, verb, x) ==
  CASE verb = "select" -> <<x>>
    [] verb = "deselect" -> EcKeep(u.selids, LAMBDA n : n # x)
    [] verb = "select-add" -> <<x>> \o u.selids
    [] verb = "index-select" -> EcKeep(EcChainNames(u), LAMBDA n : n = x)
    [] verb = "select-all" -> EcChainNames(u)
    [] OTHER -> u.selids

ChainCommand(s, verb, x) ==
  LET u == EcMine(s) IN
  CASE verb = "add" -> [SetupEdit(s) EXCEPT !.setup[s.sel] = ChainsAdded(u, x)]
    [] verb = "remove" -> [SetupEdit(s) EXCEPT !.setup[s.sel] = ChainsRemoved(u)]
    [] verb = "clear" -> SetupEdit(s)
    [] verb = "rename" -> IF Len(u.selids) # 1 THEN EcError(s)
                          ELSE [SetupEdit(s) EXCEPT !.setup[s.sel] = ChainRenamed(u, x)]
    [] OTHER -> [s EXCEPT !.setup[s.sel].selids = ChainSelection(u, verb, x)]

----------------------------------------------------------------------------
(* Audio objects.                                                          *)

Chosen(s, side, o) ==
  [s EXCEPT !.ptr[side] = IF o = 0 THEN NoPtr ELSE <<o, o \in s.proxied>>, !.chosen[s.sel][side] = o]

(* Chains of the selected names get the object, others lose it.            *)
EcAttached(u, side, o) ==
  LET To(c) == IF c.name \in Range(u.selids) THEN o ELSE IF c[side] = o THEN 0 ELSE c[side]
  IN [u EXCEPT !.chains = [k \in 1..Len(u.chains) |-> [u.chains[k] EXCEPT ![side] = To(u.chains[k])]]]
EcDetached(u, side, o) ==
  LET To(c) == IF c[side] = o THEN 0 ELSE c[side]
  IN [u EXCEPT !.chains = [k \in 1..Len(u.chains) |-> [u.chains[k] EXCEPT ![side] = To(u.chains[k])]],
               ![side] = SelectSeq(@, LAMBDA p : p # o)]

(* Memory for the object is where nothing else is; if it is not known, or  *)
(* cannot be opened that way (x = 0), nothing is selected.                 *)
EcTaken(s) == UNION {Range(s.setup[c].ai \o s.setup[c].ao) : c \in s.there}
AddObject(s, side, x) ==
  IF x = 0 THEN EcError(Chosen(s, side, 0))
  ELSE LET u == [EcMine(s) EXCEPT ![side] = Append(@, x)]
           t == [SetupEdit(s) EXCEPT !.proxied = @ \cup {x},
                                     !.setup[s.sel] = EcAttached(u, side, x)]
       IN Chosen(t, side, x)

RemoveObject(s, side) ==
  LET o == s.ptr[side][1] IN
  [SetupEdit(s) EXCEPT !.proxied = @ \ {o}, !.ptr[side] = NoPtr, !.chosen[s.sel][side] = 0,
                       !.setup[s.sel] = EcDetached(EcMine(s), side, o)]

AttachObjectTo(s, side) ==
  [SetupEdit(s) EXCEPT !.setup[s.sel] = EcAttached(@, side, s.ptr[side][1])]

(* History: whether it is the object the user chose that is acted on.      *)
Acts(s, side) == [s EXCEPT !.last.stray = s.ptr[side][1] # s.chosen[s.sel][side]]

(* audio_input_as_selected() and the commands on the object.  Nothing can  *)
(* be removed or attached through a null pointer, but it can be followed.  *)
ObjectCommand(s, side, verb, x) ==
  LET g == GetObject(s, side) IN
  CASE verb = "add" -> AddObject(s, side, x)
    [] verb = "add-default" -> AddObject(s, side, x)
    [] verb \in {"select", "index-select"} ->
         Chosen(s, side, IF x \in Range(EcMine(s)[side]) THEN x ELSE 0)
    [] verb = "list" -> s
    [] verb = "describe" -> Acts(s, side)
    [] g.ptr[side] = NoPtr -> IF verb \in {"remove", "attach"} THEN g ELSE EcFault(g)
    [] verb = "remove" -> RemoveObject(Acts(g, side), side)
    [] verb = "attach" -> AttachObjectTo(Acts(g, side), side)
    [] verb = "forward" -> SetupEdit(Acts(g, side))
    [] verb = "get" -> Acts(g, side)

----------------------------------------------------------------------------
(* command(), action(): the words, the preconditions, the switch, the      *)
(* reconnection.                                                           *)

Handle(s, cmd, x, ok) ==
  CASE cmd[1] = "word" -> EcError(s)
    [] s.sel = 0 /\ cmd \in Unchecked -> EcFault(s)
    [] cmd[1] = "cs" -> SetupCommand(s, cmd[2], x, ok)
    [] cmd[1] = "engine" -> EngineCommand(s, cmd[2], ok)
    [] cmd[1] = "c" -> ChainCommand(s, cmd[2], x)
    [] OTHER -> ObjectCommand(s, cmd[1], cmd[2], x)

EcArguments(s, cmd) ==
  CASE cmd \in EcOf("cs", {"add", "select", "load"}) -> EcSetups
    [] cmd[1] = "c" /\ cmd \in NeedsArgument -> EcNames
    [] cmd \in EcOfSides({"add", "add-default"}) ->
         {0} \cup (EcObjects \ EcTaken(s))
    [] cmd \in EcOfSides({"select", "index-select"}) -> {0} \cup EcTaken(s)
    [] OTHER -> {0}

(* What the tables leave open is up to EcLoose.                            *)
EcMayAsk(s, cmd) ==
  /\ s.sel = 0 /\ (cmd \in Unchecked) => "unselected" \in EcLoose
  /\ s.sel = 0 /\ s.conn # 0 /\ cmd \in EcNeedsOffline \cup EcOfSides({"get"}) => "adopted" \in EcLoose
  /\ cmd = <<"cs", "load">> => "loaded" \in EcLoose

EcRemember(s) ==
  [s EXCEPT !.n = s.n + 1,
            !.last = [NoAct EXCEPT !.conn = s.conn, !.run = (s.engine = "running")]]

(* ok: whether a connection succeeds, runs: whether the engine starts.     *)
EcAct(s, cmd, x, ok, runs) ==
  LET pre == EcTest(EcRemember(s), cmd, TRUE, ok) IN
  IF ~pre.go \/ pre.s.fault THEN pre.s
  ELSE LET t == Handle(pre.s, cmd, x, ok) IN
       IF t.fault THEN t ELSE EcReconnect(t, ok, runs)

EcCommand ==
  /\ ec.n < EcSteps /\ ~ec.fault
  /\ \E cmd \in EcCommands : EcMayAsk(ec, cmd)
       /\ ec' \in {EcAct(ec, cmd, x, ok, runs) :
                     x \in EcArguments(ec, cmd), ok \in BOOLEAN,
                     runs \in IF "unstarted" \in EcLoose THEN BOOLEAN ELSE {TRUE}}

(* A command without the argument it needs.                                *)
EcBare ==
  /\ ec.n < EcSteps /\ ~ec.fault
  /\ \E cmd \in NeedsArgument : ec' = EcTest(EcRemember(ec), cmd, FALSE, TRUE).s

EcBegin(there, conn, engine) ==
  [setup   |-> [c \in EcSetups |-> IF c \in there THEN EcPlain(CHOOSE n \in EcNames : TRUE)
                                   ELSE EcEmpty],
   there   |-> there,
   sel     |-> IF there = {} THEN 0 ELSE EcFirst, \* selected_chainsetup_repp
   conn    |-> conn,                              \* connected_chainsetup_repp
   engine  |-> engine,
   proxied |-> IF there # {} /\ conn = 0 THEN {1, 2} ELSE {},
   ptr     |-> [side \in EcSides |-> NoPtr],  \* selected_audio_input_repp, output
   chosen  |-> [c \in EcSetups |-> EcUnchosen], \* history: what the user chose
   fault   |-> FALSE,
   last    |-> NoAct,                         \* history: the last command
   n       |-> 0]

EcInit ==
  ec \in {EcBegin({}, 0, "none"), EcBegin({EcFirst}, 0, "none"),
          EcBegin({EcFirst}, EcFirst, "none"), EcBegin({EcFirst}, EcFirst, "running")}

EcNext == EcCommand \/ EcBare
EcSpec == EcInit /\ [][EcNext]_ec

----------------------------------------------------------------------------
(* Properties.                                                             *)

(* Every field keeps its type.                                             *)
EcTypeOK ==
  /\ ec.there \subseteq EcSetups /\ {ec.sel, ec.conn} \subseteq {0} \cup ec.there
  /\ ec.engine \in {"none", "idle", "running"} /\ ec.proxied \subseteq EcObjects
  /\ \A c \in EcSetups : /\ Range(ec.setup[c].ai \o ec.setup[c].ao) \subseteq EcObjects
                         /\ Range(ec.setup[c].selids) \subseteq EcNames
  /\ ec.fault \in BOOLEAN /\ ec.n \in 0..EcSteps

(* No command follows a null pointer, to a chainsetup or to an object: the *)
(* preconditions keep it away.                                             *)
NoNullFollowed == ~ec.fault

(* A command acts on the object the user selected last on that side, and   *)
(* it is one of the selected chainsetup: never on one that has taken the   *)
(* address of an object that is gone.                                      *)
ActsOnChosen == ~ec.last.stray

(* What edits a chainsetup finds it disconnected, or not the connected one.*)
EditsOffline ==
  ec.last.editing => ec.last.conn # ec.sel \/ ec.last.offline

(* A command that disconnects the chainsetup for its time connects it and  *)
(* starts the engine again, or it reports an error.                        *)
GapReported ==
  ec.last.offline => \/ ec.last.err
                     \/ /\ ec.conn = ec.last.conn
                        /\ ec.last.run => ec.engine = "running"

(* What the users of the interactive mode rely on: the four together.      *)
CommandsSound == NoNullFollowed /\ ActsOnChosen /\ EditsOffline /\ GapReported

(* Connecting a chainsetup keeps the selected objects.  False: the proxies *)
(* they were selected as are deleted (the README has the counterexample).  *)
SelectionKept ==
  [][ec.conn = 0 /\ ec'.conn # 0 /\ ec'.conn = ec.sel => \A side \in EcSides :
       OkAudioObject(ec, ec.ptr[side]) => OkAudioObject(ec', ec'.ptr[side])]_ec
=============================================================================
