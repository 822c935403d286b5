------------------------------ MODULE Settings ------------------------------
(***************************************************************************)
(* The options of a chainsetup and their text: ECA_CHAINSETUP_PARSER reads *)
(* options one at a time (cs-option) or all those of a file (cs-load), and *)
(* writes the chainsetup as such a file (cs-save, cs-edit).                *)
(*                                                                         *)
(* A word is an option, <<"i", "file">> for -i:file; a text is a sequence  *)
(* of words.  Of a letter the parser knows, what it does not look at is    *)
(* not part of the word.  A definition that stands right before the one it *)
(* varies, and that nothing uses, is a slip.                               *)
(***************************************************************************)
EXTENDS Integers, Sequences, FiniteSets, SequencesExt, TLC

CONSTANTS
  OptThemes, \* what the user works on: "buffering", "flags", "objects", "chains",
             \* "controllers"
  OptLoose,  \* what a text does not keep and is used all the same: "multitrack",
             \* "modes", "late", "fine", "muted", "served", "removed", "split",
             \* "forced", "nested", "several", or none
  OptSteps   \* bound: what the user does, the last of it no change of a setting

ASSUME OptAssumption ==
  /\ OptThemes \subseteq {"buffering", "flags", "objects", "chains", "controllers"}
  /\ OptLoose \subseteq {"multitrack", "modes", "late", "fine", "muted", "served",
                         "removed", "split", "forced", "nested", "several"}
  /\ OptSteps \in Nat

VARIABLE opt

(* Parameters of a buffering mode; booleans are 0 and 1.                   *)
BufParams(b, raise, prio, db, size, maxb) ==
  [b |-> b, raise |-> raise, prio |-> prio, db |-> db, size |-> size, maxb |-> maxb]
ModeParams(mode) ==
  CASE mode = "nonrt" -> BufParams(1024, 0, 50, 0, 100000, 1)
    [] mode = "rt" -> BufParams(1024, 1, 50, 1, 100000, 1)
    [] mode = "rtlowlatency" -> BufParams(256, 1, 50, 1, 100000, 0)

DefaultFormat == [enc |-> "s16", ch |-> 2, il |-> TRUE]

(* override: a function of the parameters that were set.                   *)
NewSetup ==
  [name |-> "", override |-> <<>>, mode |-> "auto", active |-> "none",
   params |-> ModeParams("nonrt"), openmode |-> "rw",
   multi |-> [given |-> FALSE, on |-> FALSE, offset |-> -1],
   xruns |-> TRUE, psr |-> FALSE, mix |-> "avg", length |-> 0, looping |-> FALSE,
   format |-> DefaultFormat, chains |-> <<>>, ins |-> <<>>, outs |-> <<>>,
   inpos |-> <<>>, outpos |-> <<>>, selids |-> <<>>, recent |-> "none",
   midi |-> <<>>, served |-> FALSE, mmc |-> {}, sync |-> FALSE, managers |-> {}]

(* An operator is the word that makes it; a controller drives what was the *)
(* target when it was added: an operator, "op", or a controller, "ctrl".   *)
NoTarget == <<"none", 0>>
OptChain(n) == [name |-> n, ai |-> 0, ao |-> 0, ops |-> <<>>, ctrls |-> <<>>,
                target |-> NoTarget, muted |-> FALSE]

(* What a reading of one option gives.                                     *)
Unmatched(s) == [cs |-> s, match |-> FALSE, ok |-> FALSE]
Read(s) == [cs |-> s, match |-> TRUE, ok |-> TRUE]
Refused(s) == [cs |-> s, match |-> TRUE, ok |-> FALSE]

Overridden(s, p, v) == [s EXCEPT !.override = (p :> v) @@ @]
Effective(s) == s.override @@ s.params

----------------------------------------------------------------------------
(* Options of the whole chainsetup.                                        *)

PriorityOption(s, n) ==
  IF n < 0 THEN Overridden(s, "raise", 0)
  ELSE Overridden(Overridden(s, "prio", IF n = 0 THEN 50 ELSE n), "raise", 1)

ZOption(s, w) ==
  CASE w[2] = "db" ->
         Overridden(Overridden(s, "size", IF w[3] = 0 THEN 100000 ELSE w[3]), "db", 1)
    [] w[2] = "nodb" -> Overridden(s, "db", 0)
    [] w[2] = "intbuf" -> Overridden(s, "maxb", 1)
    [] w[2] = "nointbuf" -> Overridden(s, "maxb", 0)
    [] w[2] = "multitrack" -> [s EXCEPT !.multi = [given |-> TRUE, on |-> TRUE, offset |-> w[3]]]
    [] w[2] = "nomultitrack" -> [s EXCEPT !.multi = [given |-> TRUE, on |-> FALSE, offset |-> 0]]
    [] w[2] = "psr" -> [s EXCEPT !.psr = TRUE]
    [] w[2] = "nopsr" -> [s EXCEPT !.psr = FALSE]
    [] w[2] = "xruns" -> [s EXCEPT !.xruns = FALSE]
    [] w[2] = "noxruns" -> [s EXCEPT !.xruns = TRUE]
    [] w[2] = "mixmode" -> [s EXCEPT !.mix = IF w[3] = "sum" THEN "sum" ELSE "avg"]
    [] OTHER -> s

GeneralOption(s, w) ==
  CASE w[1] = "b" -> IF w[2] > 0 THEN Overridden(s, "b", w[2]) ELSE s
    [] w[1] = "B" -> [s EXCEPT !.mode = IF w[2] \in {"nonrt", "rt", "rtlowlatency"} THEN w[2] ELSE "auto"]
    [] w[1] = "n" -> [s EXCEPT !.name = w[2]]
    [] w[1] = "r" -> PriorityOption(s, w[2])
    [] w[1] = "x" -> [s EXCEPT !.openmode = "w"]
    [] w[1] = "X" -> [s EXCEPT !.openmode = "rw"]
    [] w[1] = "z" -> ZOption(s, w)

ControlOption(s, w) ==
  IF w[1] = "tl" THEN [s EXCEPT !.looping = TRUE]
  ELSE [s EXCEPT !.length = IF w[2] < 0 THEN 0 ELSE w[2]]

OptNames(s) == [k \in 1..Len(s.chains) |-> s.chains[k].name]
ChainsOption(s, names) ==
  IF "all" \in Range(names) THEN [s EXCEPT !.selids = OptNames(s)]
  ELSE LET With(cs, n) == IF \E c \in Range(cs) : c.name = n THEN cs ELSE Append(cs, OptChain(n))
       IN [s EXCEPT !.selids = names, !.chains = FoldLeft(With, @, names)]

InterpretGlobal(s, w) ==
  CASE w[1] \in {"b", "B", "n", "r", "x", "X", "z"} -> Read(GeneralOption(s, w))
    [] w[1] \in {"t", "tl"} -> Read(ControlOption(s, w))
    [] w[1] = "a" -> Read(ChainsOption(s, w[2]))
    [] OTHER -> Unmatched(s)

----------------------------------------------------------------------------
(* Options of one object.                                                  *)

FormatOption(s, w) ==
  IF w[2] = "bad" THEN Refused(s)
  ELSE Read([s EXCEPT !.format = [enc |-> IF w[2] = "" THEN @.enc ELSE w[2],
                                  ch |-> IF w[3] > 0 THEN w[3] ELSE @.ch,
                                  il |-> w[4]]])

(* What a kind of object can be opened for, and whether it has positions.  *)
IoModes(kind) == CASE kind = "file" -> {"r", "w", "rw"}
                   [] kind = "device" -> {"r", "w"}
                   [] kind = "playonly" -> {"r"}
                   [] OTHER -> {}
Seeks(kind) == kind # "device"

(* All chains selected get the object; it is a new one.                    *)
OptAttached(s, side, k) ==
  [s EXCEPT !.chains = [c \in 1..Len(s.chains) |->
     IF s.chains[c].name \in Range(s.selids) THEN [s.chains[c] EXCEPT ![side] = k] ELSE s.chains[c]]]

InputOption(s, kind) ==
  IF "r" \notin IoModes(kind) THEN Refused(s)
  ELSE LET t == [s EXCEPT !.ins = Append(@, [kind |-> kind, format |-> s.format, mode |-> "r"]),
                          !.inpos = Append(@, 0), !.recent = "in"]
       IN Read(OptAttached(t, "ai", Len(t.ins)))

OutputOption(s, kind) ==
  LET mode == IF s.openmode = "rw" /\ "rw" \in IoModes(kind) THEN "rw" ELSE "w" IN
  IF mode \notin IoModes(kind) THEN Refused(s)
  ELSE LET t == [s EXCEPT !.outs = Append(@, [kind |-> kind, format |-> s.format, mode |-> mode]),
                          !.outpos = Append(@, 0), !.recent = "out"]
       IN Read(OptAttached(t, "ao", Len(t.outs)))

(* The offset is kept at the end of a list of its own.                     *)
OffsetOption(s, pos) ==
  IF s.recent = "none" THEN Read(s)
  ELSE LET object == IF s.recent = "in" THEN Last(s.ins) ELSE Last(s.outs) IN
       IF pos > 0 /\ ~Seeks(object.kind) THEN Refused(s)
       ELSE Read(IF object.mode = "r" THEN [s EXCEPT !.inpos[Len(s.inpos)] = pos]
                 ELSE [s EXCEPT !.outpos[Len(s.outpos)] = pos])

ManagerOption(s, name) == [s EXCEPT !.managers = @ \cup {name}]

(* Devices, and what the server sends; each of them needs the server.      *)
MidiOption(s, w) ==
  CASE w = <<"Md", "unknown">> -> s
    [] w[1] = "Md" /\ w[2] # "unknown" -> [s EXCEPT !.midi = Append(@, w[2]), !.served = TRUE]
    [] w[1] = "Mms" -> [s EXCEPT !.mmc = @ \cup {w[2]}, !.served = TRUE]
    [] w[1] = "Mss" -> [s EXCEPT !.sync = TRUE, !.served = TRUE]

(* The first selected chain there is, 0 if there is none.                  *)
FirstChosen(s) ==
  LET there == SelectSeq(s.selids, LAMBDA n : n \in Range(OptNames(s)))
  IN IF there = <<>> THEN 0 ELSE SelectInSeq(OptNames(s), LAMBDA n : n = there[1])

OperatorAdded(s, op) ==
  LET k == FirstChosen(s) IN
  IF k = 0 THEN s
  ELSE [s EXCEPT !.chains[k].ops = Append(@, op),
                 !.chains[k].target = <<"op", Len(s.chains[k].ops) + 1>>]

OperatorOption(s, op) ==
  IF Len(s.selids) = 1 THEN Read(OperatorAdded(s, op)) ELSE Unmatched(s)

(* A preset is added to the first chain, though several are an error; one  *)
(* that is not known is no error.                                          *)
PresetOption(s, w) ==
  LET t == IF w[2] = "unknown" THEN s ELSE OperatorAdded(s, w)
  IN IF Len(s.selids) = 1 THEN Read(t) ELSE Unmatched(t)

(* -kx: the controller added last is the target.                           *)
TargetOption(s) ==
  LET k == FirstChosen(s) IN
  IF k = 0 THEN s
  ELSE [s EXCEPT !.chains[k].target =
          IF s.chains[k].ctrls = <<>> THEN NoTarget ELSE <<"ctrl", Len(s.chains[k].ctrls)>>]

ControllerOption(s, v) ==
  LET k == FirstChosen(s) IN
  IF Len(s.selids) # 1 THEN Unmatched(s)
  ELSE IF k = 0 \/ s.chains[k].target = NoTarget THEN Read(s)
  ELSE Read([s EXCEPT !.chains[k].ctrls = Append(@, [v |-> v, on |-> s.chains[k].target])])

InterpretObject(s, w) ==
  CASE w[1] = "a" -> Read(ChainsOption(s, w[2]))
    [] w[1] = "f" -> FormatOption(s, w)
    [] w[1] = "i" -> InputOption(s, w[2])
    [] w[1] = "o" -> OutputOption(s, w[2])
    [] w[1] = "y" -> OffsetOption(s, w[2])
    [] w[1] = "G" -> Read(ManagerOption(s, w[2]))
    [] w[1] \in {"Md", "Mms", "Mss"} -> Read(MidiOption(s, w))
    [] w[1] = "ea" -> OperatorOption(s, w)
    [] w[1] = "pn" -> PresetOption(s, w)
    [] w[1] = "kx" -> Read(TargetOption(s))
    [] w[1] = "k" -> ControllerOption(s, w[2])
    [] OTHER -> Unmatched(s)

(* cs-option.                                                              *)
InterpretOption(s, w) ==
  LET OrObject(r) == IF r.match THEN r ELSE InterpretObject(s, w)
  IN OrObject(InterpretGlobal(s, w))

----------------------------------------------------------------------------
(* All options of a file: what is global first, which makes the chains;    *)
(* then all of them in turn, up to the first that is refused.              *)

AddDefaultChain(s) ==
  IF s.chains # <<>> THEN s
  ELSE [s EXCEPT !.chains = <<OptChain("default")>>, !.selids = Append(@, "default")]

SecondPass(s, words) ==
  LET OrGlobal(o, w) == IF o.match THEN o ELSE InterpretGlobal(o.cs, w)
      Next1(r, w) == IF r.ok THEN OrGlobal(InterpretObject(r.cs, w), w) ELSE r
  IN FoldLeft(Next1, Read(s), words)

InterpretOptionsOnce(s, words) ==
  LET Global(c, w) == InterpretGlobal(c, w).cs
  IN SecondPass(AddDefaultChain(FoldLeft(Global, s, words)), SelectSeq(words, LAMBDA w : w[1] # "a"))
InterpretOptions(s, words) ==
  LET Global(c, w) == InterpretGlobal(c, w).cs
  IN SecondPass(AddDefaultChain(FoldLeft(Global, s, words)), words)

DefaultOutput(s) ==
  IF s.ins = <<>> \/ s.outs # <<>> THEN s
  ELSE InterpretObject([s EXCEPT !.selids = OptNames(s)], <<"o", "device">>).cs

(* cs-load.  A file that is refused makes no chainsetup.                   *)
FromText(words) ==
  LET r == InterpretOptions(NewSetup, words) IN [r EXCEPT !.cs = DefaultOutput(@)]

----------------------------------------------------------------------------
(* Writing.                                                                *)

Realtime(objects) == {k \in DOMAIN objects : objects[k].kind = "device"}
Operators(s) == FlattenSeq([k \in 1..Len(s.chains) |-> s.chains[k].ops])

(* select_active_buffering_mode(): at the connection, and before saving.   *)
(* rtcaps: whether the process may use real-time scheduling.               *)
SelectMode(s, rtcaps) ==
  LET ri == Realtime(s.ins)
      ro == Realtime(s.outs)
      mixed == /\ ri # {} /\ ro # {} /\ Len(s.chains) > 1
               /\ ri # DOMAIN s.ins /\ ro # DOMAIN s.outs
      on == IF s.multi.given THEN s.multi.on ELSE mixed
      t == [s EXCEPT !.multi.on = on]
      To(u, m) == [u EXCEPT !.active = m, !.params = ModeParams(m)]
  IN CASE s.mode # "auto" -> To(t, s.mode)
       [] ri = {} /\ ro = {} -> To(t, "nonrt")
       [] on -> To(t, "rt")
       [] ~rtcaps -> To(Overridden(t, "raise", 0), "rt")
       [] Operators(s) = <<>> /\ (ri = {} \/ ro = {}) -> To(t, "rt")
       [] OTHER -> To(t, "rtlowlatency")

BufferingTextPlain(s) == <<<<"B", IF s.active = "none" THEN s.mode ELSE s.active>>>>
BufferingText(s) ==
  LET p == Effective(s) IN
  IF s.override = <<>> THEN <<<<"B", IF s.active = "none" THEN s.mode ELSE s.active>>>>
  ELSE << <<"b", p.b>>, <<"r", IF p.raise = 1 THEN p.prio ELSE -1>>,
          <<"z", IF p.maxb = 1 THEN "intbuf" ELSE "nointbuf">>,
          IF p.db = 1 THEN <<"z", "db", p.size>> ELSE <<"z", "nodb">> >>

(* -z:multitrack is glued to the word before it: it is not seen again.     *)
GeneralText(s) ==
  BufferingText(s)
  \o << <<"n", s.name>>, <<IF s.openmode = "w" THEN "x" ELSE "X">>,
        <<"z", IF s.xruns THEN "noxruns" ELSE "xruns">>,
        <<"z", IF s.psr THEN "psr" ELSE "nopsr">>, <<"z", "mixmode", s.mix>> >>
  \o (IF s.length > 0 THEN <<<<"t", s.length>>>> ELSE <<>>)
  \o (IF s.looping THEN <<<<"tl">>>> ELSE <<>>)

MidiText(s) == [k \in 1..Len(s.midi) |-> <<"Md", s.midi[k]>>]

AttachedTo(s, side, k) ==
  LET cs == SelectSeq(s.chains, LAMBDA c : c[side] = k) IN [n \in 1..Len(cs) |-> cs[n].name]
ObjectsText(s, side, letter, objects, pos) ==
  FlattenSeq([k \in 1..Len(objects) |->
    << <<"a", AttachedTo(s, side, k)>>, <<"f", objects[k].format.enc, objects[k].format.ch, TRUE>>,
       <<letter, objects[k].kind>> >> \o (IF pos[k] # 0 THEN <<<<"y", pos[k]>>>> ELSE <<>>)])

(* Parameters are written with two digits, those here are thousandths.     *)
TwoDigits(v) == 10 * ((v + 5) \div 10)
(* An operator with its controllers, each with those that drive it.        *)
Drives(c, target) == SelectSeq([j \in 1..Len(c.ctrls) |-> j], LAMBDA j : c.ctrls[j].on = target)
ControllerText(c, j) == <<"k", TwoDigits(c.ctrls[j].v)>>
Driven(c, j) ==
  LET subs == Drives(c, <<"ctrl", j>>)
  IN <<ControllerText(c, j)>>
     \o FlattenSeq([n \in 1..Len(subs) |-> << <<"kx">>, ControllerText(c, subs[n]) >>])
OperatorText(c, k) ==
  LET on == Drives(c, <<"op", k>>)
  IN << [c.ops[k] EXCEPT ![Len(c.ops[k])] = TwoDigits(@)] >>
     \o FlattenSeq([n \in 1..Len(on) |-> Driven(c, on[n])])
ChainsText(s) ==
  FlattenSeq([k \in 1..Len(s.chains) |->
    IF s.chains[k].ops = <<>> THEN <<>>
    ELSE << <<"a", <<s.chains[k].name>>>> >>
         \o FlattenSeq([n \in 1..Len(s.chains[k].ops) |-> OperatorText(s.chains[k], n)])])

ToText(s) ==
  GeneralText(s) \o MidiText(s) \o ObjectsText(s, "ai", "i", s.ins, s.inpos)
  \o ObjectsText(s, "ao", "o", s.outs, s.outpos) \o ChainsText(s)

----------------------------------------------------------------------------
(* The user.                                                               *)

Extra(o, words) == IF o \in OptLoose THEN words ELSE {}

Words(theme) ==
  CASE theme = "buffering" ->
         {<<"b", 64>>, <<"b", 0>>, <<"r", 0>>, <<"r", -1>>, <<"B", "rt">>, <<"B", "nonrt">>, <<"B", "auto">>,
          <<"z", "db", 0>>, <<"z", "nodb">>, <<"z", "nointbuf">>, <<"ea", 500>>}
    [] theme = "flags" ->
         {<<"x">>, <<"X">>, <<"n", "cs">>, <<"z", "psr">>, <<"z", "nopsr">>, <<"z", "xruns">>, <<"z", "noxruns">>,
          <<"z", "mixmode", "sum">>, <<"z", "mixmode", "other">>, <<"z", "intbuf">>, <<"t", 2>>, <<"t", -1>>, <<"tl">>}
         \cup Extra("multitrack", {<<"z", "multitrack", -1>>, <<"z", "nomultitrack">>})
    [] theme = "objects" ->
         {<<"a", <<"p">>>>, <<"a", <<"q">>>>, <<"a", <<"p", "q">>>>, <<"a", <<"all">>>>, <<"f", "", 1, TRUE>>,
          <<"f", "f32", 0, TRUE>>, <<"f", "bad", 0, TRUE>>, <<"i", "file">>, <<"i", "device">>,
          <<"o", "file">>, <<"o", "device">>, <<"o", "playonly">>, <<"i", "unknown">>, <<"y", 3>>, <<"y", 0>>}
         \cup Extra("modes", {<<"x">>, <<"X">>}) \cup Extra("split", {<<"f", "", 0, FALSE>>})
    [] theme = "chains" ->
         {<<"a", <<"p">>>>, <<"a", <<"q">>>>, <<"a", <<"p", "q">>>>, <<"a", <<"all">>>>, <<"ea", 500>>, <<"ea", 70>>,
          <<"pn", "verb", 70>>, <<"pn", "unknown", 0>>, <<"Md", "dev">>, <<"Md", "unknown">>, <<"o", "file">>}
         \cup Extra("fine", {<<"ea", 125>>})
         \cup Extra("served", {<<"Mss">>, <<"Mms", 1>>, <<"G", "jack">>})
    [] theme = "controllers" ->
         {<<"a", <<"p">>>>, <<"a", <<"q">>>>, <<"ea", 500>>, <<"k", 10>>, <<"k", 20>>, <<"kx">>}

Said(s, words) ==
  LET Say(r, w) == InterpretOption(r.cs, w) IN FoldLeft(Say, Read(s), words)

Beginnings(theme) ==
  IF theme # "buffering" THEN 
       {<< <<"n", "new">>, <<"a", <<"p">>>> >>
        \o (IF theme = "controllers" THEN << <<"ea", 500>> >> ELSE <<>>)}
  ELSE {<< <<"n", "new">>, <<"a", <<"p">>>>, <<"i", i>>, <<"o", o>> >> : i, o \in {"file", "device"}}

(* "all" means the chains there are, to a file those it has in the end.    *)
InOrder(words) ==
  \A k \in DOMAIN words : words[k] = <<"a", <<"all">>>> =>
    \A j \in k..Len(words) : words[j][1] = "a" /\ words[j] # words[k] =>
      \A n \in Range(words[j][2]) : \E i \in 1..k : words[i][1] = "a" /\ n \in Range(words[i][2])

(* Of the controllers of an operator only the last is driven, and by one.  *)
OnlyLastDriven(c) ==
  \A j \in 1..Len(c.ctrls) :
    LET subs == Drives(c, <<"ctrl", j>>) IN
    subs # <<>> =>
      /\ Len(subs) = 1 /\ c.ctrls[j].on[1] = "op"
      /\ \A i \in (j + 1)..Len(c.ctrls) : c.ctrls[i].on # c.ctrls[j].on

OptBegin(theme, words, rtcaps) ==
  [theme  |-> theme,
   cs     |-> Said(NewSetup, words).cs,
   said   |-> words,      \* history: the options that made it, if nothing else has
   plain  |-> TRUE,       \* history: whether nothing else has
   harmed |-> FALSE,      \* history: whether a refused option changed something
   text   |-> <<>>,       \* the file last saved
   kept   |-> NewSetup,   \* history: what was saved
   conn   |-> FALSE,
   rtcaps |-> rtcaps,
   n      |-> 0]

OptInit ==
  opt \in UNION {{OptBegin(theme, words, rtcaps) : words \in Beginnings(theme),
                     rtcaps \in IF theme = "buffering" THEN BOOLEAN ELSE {TRUE}} : theme \in OptThemes}

GiveOption ==
  /\ ~opt.conn /\ opt.n < OptSteps - 1
  /\ \E w \in Words(opt.theme) : \E r \in {InterpretOption(opt.cs, w)} :
       LET said == Append(opt.said, w)
       IN /\ "late" \in OptLoose \/ InOrder(said)
          /\ w[1] = "B" /\ w[2] # "auto" => "forced" \in OptLoose \/ opt.rtcaps
          /\ "nested" \in OptLoose \/ \A k \in 1..Len(r.cs.chains) : OnlyLastDriven(r.cs.chains[k])
          /\ w[1] = "pn" => "several" \in OptLoose \/ Len(opt.cs.selids) = 1
          /\ w[1] = "y" => "removed" \in OptLoose \/ Len(opt.cs.ins) = Len(opt.cs.inpos)
          /\ opt' = [opt EXCEPT !.cs = r.cs, !.n = @ + 1,
                                !.said = IF r.ok /\ opt.plain THEN said ELSE <<>>,
                                !.plain = @ /\ r.ok,
                                !.harmed = @ \/ (~r.ok /\ r.cs # opt.cs)]

(* ai-remove of the first input; its offset stays where it is.             *)
FirstRemoved(s) ==
  LET Behind(c) == [c EXCEPT !.ai = IF @ <= 1 THEN 0 ELSE @ - 1]
  IN [s EXCEPT !.ins = Tail(@), !.chains = [k \in 1..Len(@) |-> Behind(@[k])]]
Muted(s) == [s EXCEPT !.chains[1].muted = TRUE]

OptEdits ==
  (IF /\ opt.cs.ins # <<>> /\ (Len(opt.cs.ins) > 1 \/ opt.cs.recent = "out")
      /\ (Range(opt.cs.inpos) = {0} \/ "removed" \in OptLoose)
   THEN {FirstRemoved(opt.cs)} ELSE {})
  \cup Extra("muted", {Muted(opt.cs)})

(* What commands other than cs-option do to the chainsetup.                *)
EditSetting ==
  /\ ~opt.conn /\ opt.n < OptSteps - 1
  /\ \E cs \in OptEdits :
       opt' = [opt EXCEPT !.cs = cs, !.n = @ + 1, !.said = <<>>, !.plain = FALSE]

OptValid(s) == /\ s.ins # <<>> /\ s.outs # <<>> /\ s.chains # <<>>
               /\ \A k \in 1..Len(s.chains) : s.chains[k].ai # 0 /\ s.chains[k].ao # 0

(* Without real-time objects, or with nothing else, no double buffering.   *)
EnableMode(s) ==
  LET objects == s.ins \o s.outs IN
  IF Effective(s).db = 1 /\ Realtime(objects) \in {{}, DOMAIN objects}
  THEN [s EXCEPT !.params.db = 0] ELSE s

ConnectSetup ==
  /\ ~opt.conn /\ opt.n < OptSteps /\ OptValid(opt.cs)
  /\ opt' = [opt EXCEPT !.cs = EnableMode(SelectMode(@, opt.rtcaps)), !.conn = TRUE, !.n = @ + 1,
                        !.said = <<>>, !.plain = FALSE]
DisconnectSetup ==
  /\ opt.conn /\ opt.n < OptSteps
  /\ opt' = [opt EXCEPT !.conn = FALSE, !.n = @ + 1]

SaveSetup ==
  /\ opt.n < OptSteps
  /\ \E s \in {SelectMode(opt.cs, opt.rtcaps)} :
     opt.kept # s /\ opt' = [opt EXCEPT !.cs = s, !.kept = s, !.text = ToText(s), !.n = @ + 1,
                        !.said = <<>>, !.plain = FALSE]

(* The file, by another name: the chainsetup takes the place of the one    *)
(* that was saved.                                                         *)
LoadSetup ==
  /\ opt.n < OptSteps /\ opt.text # <<>> /\ ~opt.conn
  /\ \E r \in {FromText(opt.text)} :
     /\ r.ok
     /\ opt' = [opt EXCEPT !.cs = r.cs, !.n = @ + 1, !.said = <<>>, !.plain = FALSE]

OptNext ==
  \/ GiveOption \/ EditSetting
  \/ ConnectSetup \/ DisconnectSetup \/ SaveSetup \/ LoadSetup
OptSpec == OptInit /\ [][OptNext]_opt

----------------------------------------------------------------------------
(* Properties.                                                             *)

(* Every field keeps its type.                                             *)
OptTypeOK ==
  /\ opt.cs.active \in {"none", "nonrt", "rt", "rtlowlatency"} /\ opt.n \in 0..OptSteps
  /\ Len(opt.cs.ins) <= Len(opt.cs.inpos) /\ Len(opt.cs.outs) <= Len(opt.cs.outpos)
  /\ \A k \in 1..Len(opt.cs.chains) :
       /\ opt.cs.chains[k].ai \in 0..Len(opt.cs.ins)
       /\ opt.cs.chains[k].ao \in 0..Len(opt.cs.outs)

(* What is in effect: parameters that matter, and what chains are made of. *)
InEffect(s) ==
  LET p == Effective(s) IN
  [b |-> p.b, maxb |-> p.maxb, raise |-> p.raise, prio |-> p.raise * p.prio, db |-> p.db, size |-> p.db * p.size]
Flags(s) == <<s.name, s.openmode, s.multi, s.xruns, s.psr, s.mix, s.length, s.looping, s.midi, s.served,
              s.mmc, s.sync, s.managers>>
(* Where a controller acts: what it drives, up to the operator.            *)
ActsOn(c, j) ==
  LET Up[i \in 1..Len(c.ctrls)] ==
        LET on == c.ctrls[i].on IN
        <<c.ctrls[i].v>> \o (IF on[1] = "op" THEN <<on[2]>> ELSE Up[on[2]])
  IN Up[j]
Made(c) ==
  LET acts == [j \in 1..Len(c.ctrls) |-> ActsOn(c, j)] IN
  [name |-> c.name, ai |-> c.ai, ao |-> c.ao, ops |-> c.ops, muted |-> c.muted,
   ctrls |-> [a \in Range(acts) |-> Cardinality({j \in DOMAIN acts : acts[j] = a})]]
UsedChains(s) ==
  {Made(s.chains[k]) : k \in {j \in 1..Len(s.chains) :
     LET c == s.chains[j] IN c.ai # 0 \/ c.ao # 0 \/ c.ops # <<>>}}

(* A chainsetup read from the file it was saved to is the one that was     *)
(* saved: options, objects with their formats, modes and offsets, chains   *)
(* with what they are attached to and their operators, and the buffering   *)
(* that is in effect.  The order of chains and unused chains may be lost,  *)
(* and one without an output gets the default output.                      *)
LoadedAsSaved ==
  opt.text # <<>> =>
    \E r \in {FromText(opt.text)}, k \in {opt.kept} :
    \E s \in {SelectMode(r.cs, opt.rtcaps)} :
       /\ r.ok /\ Flags(s) = Flags(k) /\ s.ins = k.ins
       /\ \A i \in 1..Len(k.ins) : s.inpos[i] = k.inpos[i]
       /\ k.outs # <<>> \/ k.ins = <<>> =>
            /\ s.outs = k.outs /\ UsedChains(s) = UsedChains(k)
            /\ \A i \in 1..Len(k.outs) : s.outpos[i] = k.outpos[i]
            /\ InEffect(s) = InEffect(k)

(* The order of chains settles with the first reading: a chainsetup that   *)
(* was read and is saved again gives the same file from then on.           *)
SavedAgain(words) == ToText(SelectMode(FromText(words).cs, opt.rtcaps))
SavedTwice ==
  opt.text # <<>> /\ opt.kept.outs # <<>> =>
    SavedAgain(SavedAgain(opt.text)) = SavedAgain(opt.text)

(* Options in a file do what they do one at a time: the two passes are not *)
(* to be noticed.                                                          *)
PassesUnseen ==
  opt.plain => \E r \in {InterpretOptions(NewSetup, opt.said)} : r.ok /\ r.cs = opt.cs

(* An option that is refused has changed nothing.                          *)
RefusedHarmless == ~opt.harmed

(* Options do what they say, and keep it in a file: the four together.     *)
SettingsSound == LoadedAsSaved /\ SavedTwice /\ PassesUnseen /\ RefusedHarmless

(* Saving is looking: a connected chainsetup stays as it is.  False: the   *)
(* buffering mode is selected again (the README has the counterexample).   *)
SavingChangesNothing ==
  [][opt'.kept # opt.kept /\ opt.conn => InEffect(opt'.cs) = InEffect(opt.cs)]_opt
=============================================================================
