------------------------------ MODULE ChainOps ------------------------------
(***************************************************************************)
(* The chains of the selected chainsetup: their operators (effects) and    *)
(* controllers, what is selected in them, and how they are edited - by the *)
(* user's thread when the engine is not there, by the engine thread, from  *)
(* its command queue, when it is.  Operators and controllers are numbered  *)
(* in the order they were asked for; a number is never used again, so a    *)
(* pointer to a deleted object is a number that no chain holds.            *)
(*                                                                         *)
(* The life of the engine is in Engine; here it is absent, idle (launched, *)
(* processing nothing) or running.  A definition that stands right before  *)
(* the one it varies, and that nothing uses, is a slip.                    *)
(***************************************************************************)
EXTENDS Erasing, SequencesExt

CONSTANTS
  Chains,    \* the chains of the chainsetup, 1..n in their order
  MaxIds,    \* bound: operators and controllers ever asked for
  MaxEdits   \* bound: a command is given with fewer edits pending

ASSUME ChainAssumption ==
  /\ Chains \subseteq Nat \ {0} /\ Chains # {}
  /\ MaxIds \in Nat /\ MaxEdits \in Nat

VARIABLES
  chain,     \* the CHAIN objects
  target,    \* the object a controller drives
  inited,    \* operators and controllers initialised for the engine's buffers
  sel,       \* selected_chainids
  engine,    \* "none", "idle" or "running"
  edits,     \* ep_exec_edit commands in the engine's queue
  used,      \* history: operators and controllers asked for
  pend       \* the operator a cop-set has selected and not yet set, or 0

chainVars == <<chain, target, inited, sel, engine, edits, used, pend>>

OpIds == 1..MaxIds
Engines == {"none", "idle", "running"}
EditTypes == {"cop", "ctrl", "set", "cset"}

(* An edit names a chain and, for "set" (a parameter, bypass or mute), the *)
(* index of an operator (0: the chain itself), for "cset" of a controller; *)
(* for an addition, the new object.  obj is the object that index stood    *)
(* for when the edit was queued, asked the one the user's command was      *)
(* about: both are history.  The values set are data: what matters is the  *)
(* object they reach.                                                      *)
Edit(type, c, op, obj, asked) ==
  [type |-> type, chain |-> c, op |-> op, obj |-> obj, asked |-> asked]

EmptyChain == [ops   |-> <<>>,  \* chainops_rep
               ctrls |-> <<>>,  \* gcontrollers_rep
               sop   |-> 0,     \* selected_chainop_number_rep
               sctrl |-> 0,     \* selected_controller_number_rep
               sobj  |-> 0,     \* selected_controller_repp
               dyn   |-> 0,     \* selected_dynobj_repp
               init  |-> FALSE] \* initialized_rep

----------------------------------------------------------------------------
(* One chain.                                                              *)

Valid(s, i) == i \in 1..Len(s)

AddOpFirst(r, id) ==
  [r EXCEPT !.ops = <<id>> \o r.ops, !.sop = 1, !.dyn = id, !.init = FALSE]
AddOp(r, id) ==
  [r EXCEPT !.ops = Append(r.ops, id), !.sop = Len(r.ops) + 1,
            !.dyn = id, !.init = FALSE]

AddCtrl(r, id) ==
  [r EXCEPT !.ctrls = Append(r.ctrls, id), !.sctrl = Len(r.ctrls) + 1,
            !.sobj = id]

SelectOp(r, i) ==
  IF Valid(r.ops, i) THEN [r EXCEPT !.sop = i, !.dyn = r.ops[i]] ELSE r

SelectCtrlGiven(r, i) ==
  [r EXCEPT !.sctrl = i, !.sobj = IF Valid(r.ctrls, i) THEN r.ctrls[i] ELSE 0]
SelectCtrl(r, i) ==
  IF Valid(r.ctrls, i) THEN [r EXCEPT !.sctrl = i, !.sobj = r.ctrls[i]]
                       ELSE [r EXCEPT !.sctrl = 0, !.sobj = 0]

Driving(r, id, tg) == {k \in ToSet(r.ctrls) : tg[k] = id}

RemoveOpFirst(r, tg) ==
  IF ~Valid(r.ops, r.sop) THEN r
  ELSE LET id == r.ops[r.sop]
           ks == SelectSeq(r.ctrls, LAMBDA k : tg[k] = id)
           gone == IF ks = <<>> THEN {} ELSE {Head(ks)}
       IN [r EXCEPT !.ops = Without(r.ops, {id}), !.ctrls = Without(r.ctrls, gone),
                    !.sobj = IF r.sobj \in gone THEN 0 ELSE r.sobj,
                    !.sop = -1, !.init = FALSE]
(* remove_chain_operator(-1): the controllers of the operator go with it.  *)
RemoveOp(r, tg) ==
  IF ~Valid(r.ops, r.sop) THEN r
  ELSE LET id == r.ops[r.sop]
           gone == Driving(r, id, tg)
       IN [r EXCEPT !.ops = Without(r.ops, {id}), !.ctrls = Without(r.ctrls, gone),
                    !.sobj = IF r.sobj \in gone THEN 0 ELSE r.sobj,
                    !.sop = -1, !.init = FALSE]

RemoveCtrl(r) ==
  IF ~Valid(r.ctrls, r.sctrl) THEN r
  ELSE SelectCtrl([r EXCEPT !.ctrls = Without(r.ctrls, {r.ctrls[r.sctrl]})], -1)

(* clear() empties the chain and leaves what was selected in it.           *)
ClearAll(r) == [r EXCEPT !.ops = <<>>, !.ctrls = <<>>, !.init = FALSE]

(* chain_operator_names() selects every operator to read its name, then    *)
(* what was selected before, if it was anything.                           *)
ListOps(r) == SelectOp(SelectOp(r, Len(r.ops)), r.sop)

ListCtrls(r) == SelectCtrl(r, r.sctrl)

InitChain(r) == [r EXCEPT !.init = TRUE]
Release(r) == [r EXCEPT !.init = FALSE]

----------------------------------------------------------------------------
(* A chain as text, and back.  -kx makes the last controller the target.   *)

Token(kind, id) == [kind |-> kind, id |-> id]
On(r, tg, id) == SelectSeq(r.ctrls, LAMBDA k : tg[k] = id)

CtrlTokens(r, tg, k) ==
  LET ns == On(r, tg, k) IN
  <<Token("ctrl", k)>> \o
  FlattenSeq([j \in 1..Len(ns) |-> <<Token("kx", 0), Token("ctrl", ns[j])>>])

OpTokens(r, tg, id) ==
  LET ks == On(r, tg, id) IN
  <<Token("op", id)>> \o
  FlattenSeq([j \in 1..Len(ks) |-> CtrlTokens(r, tg, ks[j])])

ChainTextGrouped(r, tg) ==
  [i \in 1..Len(r.ops) |-> Token("op", r.ops[i])] \o
  [i \in 1..Len(r.ctrls) |-> Token("ctrl", r.ctrls[i])]
ChainText(r, tg) ==
  FlattenSeq([i \in 1..Len(r.ops) |-> OpTokens(r, tg, r.ops[i])])

LoadToken(st, t) ==
  CASE t.kind = "op" -> [st EXCEPT !.r = AddOp(st.r, t.id)]
    [] t.kind = "kx" -> [st EXCEPT !.r.dyn = st.r.sobj]
    [] t.kind = "ctrl" ->
         IF st.r.dyn = 0 THEN st
         ELSE [r |-> AddCtrl(st.r, t.id), tg |-> [st.tg EXCEPT ![t.id] = st.r.dyn]]

ReadBack(tokens) ==
  FoldLeft(LoadToken, [r |-> EmptyChain, tg |-> [i \in OpIds |-> 0]], tokens)

----------------------------------------------------------------------------
(* Edits.                                                                  *)

(* An addition goes to the chain selected when it is executed, if exactly  *)
(* one is; a controller is dropped if that chain has no target for it.     *)
Taken(e) ==
  /\ Len(sel) = 1
  /\ e.type = "ctrl" => chain[Head(sel)].dyn # 0

AddTo(r, e) == IF e.type = "cop" THEN AddOp(r, e.obj) ELSE AddCtrl(r, e.obj)

EditedChains(e) ==
  IF e.type \in {"cop", "ctrl"} /\ Taken(e)
  THEN [chain EXCEPT ![Head(sel)] = AddTo(chain[Head(sel)], e)]
  ELSE chain

EditedTargets(e) ==
  IF e.type = "ctrl" /\ Taken(e)
  THEN [target EXCEPT ![e.obj] = chain[Head(sel)].dyn]
  ELSE target

Nth(s, i) == IF Valid(s, i) THEN s[i] ELSE 0

(* The object an index reaches: set_parameter(), bypass_operator(),        *)
(* set_controller_parameter().                                             *)
Addressed(e) ==
  IF e.type = "cset" THEN Nth(chain[e.chain].ctrls, e.op)
                     ELSE Nth(chain[e.chain].ops, e.op)

ChainObjects(ch) == UNION {ToSet(ch[c].ops) \cup ToSet(ch[c].ctrls) : c \in Chains}
AllInit(ch) == [c \in Chains |-> InitChain(ch[c])]

ReinitCop(e) == e.type = "cop"
Reinit(e) == e.type \in {"cop", "ctrl"}

(* The engine thread takes an edit: execute_edit(), reinit_chains(true).   *)
HandleEdit ==
  /\ engine # "none" /\ edits # <<>>
  /\ LET e == Head(edits)
         ch == EditedChains(e) IN
     /\ chain' = IF Reinit(e) THEN AllInit(ch) ELSE ch
     /\ inited' = IF Reinit(e) THEN inited \cup ChainObjects(ch) ELSE inited
     /\ target' = EditedTargets(e)
     /\ edits' = Tail(edits)
  /\ UNCHANGED <<sel, engine, used, pend>>

(* A command that edits: the engine's queue, or at once without an engine. *)
Give(e) ==
  IF engine = "none"
  THEN /\ chain' = EditedChains(e)
       /\ target' = EditedTargets(e)
       /\ UNCHANGED <<inited, edits>>
  ELSE /\ Len(edits) < MaxEdits
       /\ edits' = Append(edits, e)
       /\ UNCHANGED <<chain, target, inited>>

----------------------------------------------------------------------------
(* The user's commands.                                                    *)

Selected == Head(sel)
SelOp(r) == Nth(r.ops, r.sop)
SelCtrl(r) == Nth(r.ctrls, r.sctrl)

SelectChainIds ==
  /\ pend = 0
  /\ \E s \in {<<>>} \cup {<<c>> : c \in Chains} \cup (Chains \X Chains) :
       IsInjective(s) /\ s # sel /\ sel' = s
  /\ UNCHANGED <<chain, target, inited, engine, edits, used, pend>>

Add(type) ==
  /\ pend = 0 /\ Len(sel) = 1 /\ used < MaxIds
  /\ used' = used + 1
  /\ Give(Edit(type, Selected, 0, used + 1, used + 1))
  /\ UNCHANGED <<sel, engine, pend>>

CopAdd == Add("cop")
CtrlAdd == Add("ctrl")

(* Commands that only change what is selected; they act at once.           *)
Reselect(r) == {SelectOp(r, i) : i \in 1..Len(r.ops)}
          \cup {SelectCtrl(r, i) : i \in 1..Len(r.ctrls)}
          \cup {ListOps(r), ListCtrls(r)}

SelectInChain ==
  /\ pend = 0 /\ Len(sel) = 1
  /\ \E r \in Reselect(chain[Selected]) :
       r # chain[Selected] /\ chain' = [chain EXCEPT ![Selected] = r]
  /\ UNCHANGED <<target, inited, sel, engine, edits, used, pend>>

(* c-muting, c-bypass; copp-set, cop-bypass; ctrlp-set: the object that is *)
(* selected now, by its index.                                             *)
SetParam ==
  /\ pend = 0 /\ Len(sel) > 0
  /\ LET r == chain[Selected] IN
     \/ Give(Edit("set", Selected, 0, 0, 0))
     \/ /\ Len(sel) = 1 /\ SelOp(r) # 0
        /\ Give(Edit("set", Selected, r.sop, SelOp(r), SelOp(r)))
     \/ /\ Len(sel) = 1 /\ SelCtrl(r) # 0
        /\ Give(Edit("cset", Selected, r.sctrl, SelCtrl(r), SelCtrl(r)))
  /\ UNCHANGED <<sel, engine, used, pend>>

(* cop-set checks its index and selects the operator ...                   *)
CopSetSelect ==
  /\ pend = 0 /\ Len(sel) = 1
  /\ \E i \in 1..Len(chain[Selected].ops) :
       /\ chain' = [chain EXCEPT ![Selected] = SelectOp(chain[Selected], i)]
       /\ pend' = chain[Selected].ops[i]
  /\ UNCHANGED <<target, inited, sel, engine, edits, used>>
(* ... and sets a parameter of the operator it then finds selected.        *)
CopSetSet ==
  /\ pend # 0
  /\ LET r == chain[Selected] IN
     Give(Edit("set", Selected, r.sop, SelOp(r), pend))
  /\ pend' = 0
  /\ UNCHANGED <<sel, engine, used>>

(* Commands that need the chainsetup disconnected: the engine is closed    *)
(* when it has done the edits before the exit command, the chains are      *)
(* changed, and the engine started again if it was running.                *)
Offline(ch) ==
  /\ pend = 0 /\ edits = <<>>
  /\ IF engine = "running"
     THEN /\ chain' = AllInit(ch) /\ inited' = ChainObjects(ch)
          /\ engine' = engine
     ELSE /\ chain' = [c \in Chains |-> Release(ch[c])] /\ inited' = {}
          /\ engine' = "none"
  /\ UNCHANGED <<target, sel, edits, used, pend>>

CopRemove ==
  /\ Len(sel) = 1
  /\ Offline([chain EXCEPT ![Selected] = RemoveOp(chain[Selected], target)])

CtrlRemove ==
  /\ Len(sel) = 1
  /\ Offline([chain EXCEPT ![Selected] = RemoveCtrl(chain[Selected])])

ClearChains ==
  /\ Len(sel) > 0
  /\ Offline([c \in Chains |->
                IF c \in ToSet(sel) THEN ClearAll(chain[c]) ELSE chain[c]])

(* -kx as an option: the selected controller becomes the target.           *)
TargetController ==
  /\ Len(sel) > 0
  /\ Offline([chain EXCEPT ![Selected].dyn = chain[Selected].sobj])

LaunchEngine ==
  /\ pend = 0 /\ engine = "none"
  /\ engine' \in {"idle", "running"}
  /\ chain' = AllInit(chain) /\ inited' = ChainObjects(chain)
  /\ UNCHANGED <<target, sel, edits, used, pend>>

StartOrStop ==
  /\ pend = 0 /\ engine # "none"
  /\ engine' = IF engine = "idle" THEN "running" ELSE "idle"
  /\ UNCHANGED <<chain, target, inited, sel, edits, used, pend>>

Halt ==
  /\ pend = 0 /\ engine # "none" /\ edits = <<>>
  /\ engine' = "none" /\ inited' = {}
  /\ chain' = [c \in Chains |-> Release(chain[c])]
  /\ UNCHANGED <<target, sel, edits, used, pend>>

ChainInit ==
  /\ chain = [c \in Chains |-> EmptyChain]
  /\ target = [i \in OpIds |-> 0]
  /\ inited = {} /\ sel = <<>>
  /\ engine = "none" /\ edits = <<>> /\ used = 0 /\ pend = 0

ChainNext ==
  \/ HandleEdit \/ SelectChainIds \/ CopAdd \/ CtrlAdd \/ SelectInChain
  \/ SetParam \/ CopSetSelect \/ CopSetSet
  \/ CopRemove \/ CtrlRemove \/ ClearChains \/ TargetController
  \/ LaunchEngine \/ StartOrStop \/ Halt

ChainSpec == ChainInit /\ [][ChainNext]_chainVars

----------------------------------------------------------------------------
(* Properties.                                                             *)

SomeIds == {0} \cup OpIds
IsChain(r) ==
  /\ DOMAIN r = DOMAIN EmptyChain
  /\ r.ops \in Seq(OpIds) /\ r.ctrls \in Seq(OpIds)
  /\ r.sop \in Int /\ r.sctrl \in Nat
  /\ r.sobj \in SomeIds /\ r.dyn \in SomeIds /\ r.init \in BOOLEAN

EditRecords == [type : EditTypes, chain : Chains, op : Int,
                obj : SomeIds, asked : SomeIds]

(* Every variable keeps its type.                                          *)
ChainTypeOK ==
  /\ DOMAIN chain = Chains /\ \A c \in Chains : IsChain(chain[c])
  /\ target \in [OpIds -> SomeIds]
  /\ inited \subseteq OpIds
  /\ sel \in Seq(Chains) /\ engine \in Engines
  /\ edits \in Seq(EditRecords)
  /\ used \in 0..MaxIds /\ pend \in SomeIds

(* CHAIN::process() requires an initialised chain: whenever there is an    *)
(* engine, every chain, operator and controller it will run has been       *)
(* initialised for its buffers, those added while it runs included.        *)
ProcessReady ==
  engine # "none" =>
    /\ \A c \in Chains : chain[c].init
    /\ ChainObjects(chain) \subseteq inited

(* A queued command to set a parameter or to bypass still stands for the   *)
(* object that was selected when the user gave it, whatever was queued     *)
(* before it and whatever is selected since.                               *)
PendingEditsExact ==
  \A i \in 1..Len(edits) : edits[i].op > 0 => Addressed(edits[i]) = edits[i].obj

(* No controller outlives, on its chain, the operator it drives, and a     *)
(* controller that drives something else does not go with it (unless the   *)
(* whole chain is cleared).                                                *)
ControllersGo ==
  \A c \in Chains :
    LET gone == ToSet(chain[c].ops) \ ToSet(chain'[c].ops)
        ks   == ToSet(chain[c].ctrls)
    IN gone # {} =>
         ToSet(chain'[c].ctrls) \in {{}, {k \in ks : target[k] \notin gone}}
ControllersGoWithOperator == [][ControllersGo]_chainVars

Flat(r) == \A k \in ToSet(r.ctrls) : target[k] \in ToSet(r.ops)

(* A chain without controllers of controllers, written by to_string() and  *)
(* read back, has the same operators, and each the same controllers.       *)
RoundTrip ==
  \A c \in Chains :
    Flat(chain[c]) =>
      LET l == ReadBack(ChainText(chain[c], target)) IN
      /\ l.r.ops = chain[c].ops
      /\ ToSet(l.r.ctrls) = ToSet(chain[c].ctrls)
      /\ \A id \in ToSet(chain[c].ops) : On(l.r, l.tg, id) = On(chain[c], target, id)

(* CHAIN and its operators, edited by the user and from the queue of the   *)
(* engine: the two together.                                               *)
OperatorsSound == ProcessReady /\ PendingEditsExact

(* What comments and preconditions say and the code does not keep: these   *)
(* four are false (the README has the counterexamples).                    *)

(* eca-engine.cpp:521 calls the edits of chain operators "stateless        *)
(* addressing": an operator is added to the chain its edit names.          *)
AddsWhereAsked ==
  [][edits # <<>> /\ edits' = Tail(edits) /\ Head(edits).type = "cop" =>
       Head(edits).obj \in ToSet(chain'[Head(edits).chain].ops)]_chainVars

(* Every controller drives an object of its own chain.                     *)
TargetsAlive ==
  \A c \in Chains : \A k \in ToSet(chain[c].ctrls) :
    target[k] \in ToSet(chain[c].ops) \cup ToSet(chain[c].ctrls)

(* cop-set sets a parameter of the operator it names.                      *)
CopSetExact ==
  \A i \in 1..Len(edits) : edits[i].type = "set" => edits[i].obj = edits[i].asked

(* selected_chain_operator() is none, or the index of an operator.         *)
SelectionValid ==
  \A c \in Chains : chain[c].sop \in -1..Len(chain[c].ops)
=============================================================================
