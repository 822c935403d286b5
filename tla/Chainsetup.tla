----------------------------- MODULE Chainsetup -----------------------------
(***************************************************************************)
(* A chainsetup: its chains, its audio inputs and outputs, which chain is  *)
(* attached to which, the proxies (double-buffering clients) put before    *)
(* objects that are not devices, and enabling it: choosing the buffering   *)
(* mode, opening every object and agreeing on a sampling rate.             *)
(*                                                                         *)
(* Chains refer to objects by index, the user to chains by name.  What     *)
(* edits a chainsetup finds it disabled: ECA_CONTROL disconnects it first. *)
(* A definition that stands right before the one it varies, and that       *)
(* nothing uses, is a slip.                                                *)
(***************************************************************************)
EXTENDS Erasing, SequencesExt, FiniteSetsExt

CONSTANTS
  Names,      \* names of chains
  Files, Devices, Loops, \* the audio objects, by kind
  Lock,       \* the rate an object has when it is opened, 0 if it takes any
  Unopenable, \* objects whose open() may fail
  LoopTwice,  \* TRUE: a loop device may be added twice on the same side
  MaxChains, MaxInputs, MaxOutputs \* bounds

Objects == Files \cup Devices \cup Loops
DefaultRate == 1

ASSUME SetupAssumption ==
  /\ Objects \subseteq Nat \ {0} /\ Unopenable \subseteq Objects
  /\ Lock \in [Objects -> Nat] /\ LoopTwice \in BOOLEAN
  /\ MaxChains \in Nat /\ MaxInputs \in Nat /\ MaxOutputs \in Nat

VARIABLES
  chains,  \* the CHAIN objects: name, index of input and output, or 0
  selids,  \* selected_chainids
  ins, outs, \* inputs and outputs: the object and whether it has a proxy
  loopmap, \* loop_map
  db,      \* db_clients_rep
  option,  \* "on", "off": double buffering as the user wants it; or "auto"
  enabled, \* is_enabled_rep
  open,    \* objects that are open
  rate     \* samples_per_second() of the objects

setupVars == <<chains, selids, ins, outs, loopmap, db, option, enabled, open, rate>>
audio == <<ins, outs, loopmap, db, open, rate>>

None == 0

----------------------------------------------------------------------------
(* Indices start at 1 here, and 0 is the -1 of the code.                   *)

Ids(s) == {s[i].id : i \in 1..Len(s)}
Places(s, o) == {i \in 1..Len(s) : s[i].id = o}
Object(s, i) == IF i \in 1..Len(s) THEN s[i].id ELSE None

HasRealtime == (Ids(ins) \cup Ids(outs)) \cap Devices # {}
HasNonRealtime == (Ids(ins) \cup Ids(outs)) \ Devices # {}

(* select_active_buffering_mode(): unless the user decides, every mode but *)
(* "nonrt" double-buffers, and with realtime objects the mode is another.  *)
DoubleBuffering == option = "on" \/ (option = "auto" /\ HasRealtime)

Proxied(o) == o \notin Devices \cup Loops
Entry(o) == [id |-> o, proxy |-> Proxied(o)]
CountProxies(s) == Cardinality({i \in 1..Len(s) : s[i].proxy})

WithoutProxies(s) == [i \in 1..Len(s) |-> [s[i] EXCEPT !.proxy = FALSE]]
WithProxies(s) == [i \in 1..Len(s) |-> Entry(s[i].id)]

(* input_removed(), output_removed(): indices above the one removed move.  *)
ShiftEqual(i, gap) == IF i > gap THEN i - 1 ELSE i
Shift(i, gap) ==
  IF i > gap THEN i - 1 ELSE IF i = gap THEN None ELSE i

(* attach_input_to_selected_chains(): for every place of the object, the   *)
(* chains that have it are disconnected, the selected ones connected.      *)
Attached(c, i, places) ==
  IF c.name \in ToSet(selids) /\ places # {} THEN Max(places)
  ELSE IF i \in places THEN None ELSE i

AttachIn(cs, places) ==
  [k \in 1..Len(cs) |-> [cs[k] EXCEPT !.in = Attached(cs[k], cs[k].in, places)]]
AttachOut(cs, places) ==
  [k \in 1..Len(cs) |-> [cs[k] EXCEPT !.out = Attached(cs[k], cs[k].out, places)]]

----------------------------------------------------------------------------
(* Chains.                                                                 *)

NamesOf(cs) == {cs[k].name : k \in 1..Len(cs)}
NewChain(n) == [name |-> n, in |-> None, out |-> None]

(* c-add and -a: add the chains that do not exist yet; select them.        *)
AddChains ==
  /\ ~enabled
  /\ \E s \in {<<n>> : n \in Names} \cup (Names \X Names) :
       LET new == Without(s, NamesOf(chains)) IN
       /\ IsInjective(s) /\ Len(chains) + Len(new) <= MaxChains
       /\ chains' = chains \o [k \in 1..Len(new) |-> NewChain(new[k])]
       /\ selids' = s
  /\ UNCHANGED <<option, enabled>> /\ UNCHANGED audio

(* c-select, c-deselect, c-select-all.                                     *)
SelectChains ==
  /\ \E s \in {<<>>} \cup {<<n>> : n \in Names}
            \cup {[k \in 1..Len(chains) |-> chains[k].name]} :
       s # selids /\ selids' = s
  /\ UNCHANGED <<chains, option, enabled>>
  /\ UNCHANGED audio

(* For each selected name the first chain of that name that is left goes:  *)
(* of the chains of a name as many as it is selected times.                *)
FirstNamed(cs, n) == SelectInSeq(cs, LAMBDA c : c.name = n)
SoFar(k) == {l \in 1..k : chains[l].name = chains[k].name}
Times(n) == {j \in 1..Len(selids) : selids[j] = n}

RemoveChains ==
  /\ ~enabled /\ selids # <<>>
  /\ chains' = Erase(chains, {k \in 1..Len(chains) :
                 Cardinality(SoFar(k)) <= Cardinality(Times(chains[k].name))})
  /\ selids' = <<>>
  /\ UNCHANGED <<option, enabled>> /\ UNCHANGED audio

FirstSelected ==
  LET there == SelectSeq(selids, LAMBDA n : n \in NamesOf(chains)) IN
  IF there = <<>> THEN 0 ELSE FirstNamed(chains, Head(there))

(* c-rename: the first selected chain; what is selected keeps its name.    *)
RenameChain ==
  /\ ~enabled /\ Len(selids) = 1 /\ FirstSelected # 0
  /\ \E n \in Names : chains' = [chains EXCEPT ![FirstSelected].name = n]
  /\ UNCHANGED <<selids, option, enabled>>
  /\ UNCHANGED audio

----------------------------------------------------------------------------
(* Audio objects.                                                          *)

MayAdd(s, o) ==
  /\ ~enabled
  /\ \/ o \notin Ids(ins) \cup Ids(outs)
     \/ o \in Loops /\ (LoopTwice \/ o \notin Ids(s))

Registered(o) == IF o \in Loops THEN loopmap \cup {o} ELSE loopmap
CountedProxyUncounted(o) == db
CountedProxy(o) == IF Proxied(o) THEN db + 1 ELSE db

AddInput ==
  /\ \E o \in Objects :
       /\ MayAdd(ins, o) /\ Len(ins) < MaxInputs
       /\ ins' = Append(ins, Entry(o))
       /\ chains' = AttachIn(chains, Places(ins', o))
       /\ rate' = [rate EXCEPT ![o] = DefaultRate]
       /\ db' = CountedProxy(o) /\ loopmap' = Registered(o)
  /\ UNCHANGED <<selids, outs, option, enabled, open>>

AddOutput ==
  /\ \E o \in Objects :
       /\ MayAdd(outs, o) /\ Len(outs) < MaxOutputs
       /\ outs' = Append(outs, Entry(o))
       /\ chains' = AttachOut(chains, Places(outs', o))
       /\ rate' = [rate EXCEPT ![o] = DefaultRate]
       /\ db' = CountedProxy(o) /\ loopmap' = Registered(o)
  /\ UNCHANGED <<selids, ins, option, enabled, open>>

(* remove_audio_object_impl(): the chains are told the last place of the   *)
(* object, the first place is erased; a loop device leaves the other side  *)
(* too.                                                                    *)
Gap(s, o) == IF Places(s, o) = {} THEN 0 ELSE Max(Places(s, o))
Erased(s, o) == IF Places(s, o) = {} THEN s ELSE RemoveAt(s, Min(Places(s, o)))
OtherGap(s, o) == IF o \in Loops THEN Gap(s, o) ELSE 0
Other(s, o) == IF o \in Loops THEN Erased(s, o) ELSE s

Moved(i, gap) == IF gap = 0 THEN i ELSE Shift(i, gap)

ShiftChains(ingap, outgap) ==
  [k \in 1..Len(chains) |->
     [chains[k] EXCEPT !.in = Moved(chains[k].in, ingap),
                       !.out = Moved(chains[k].out, outgap)]]

Uncounted(s, o) == IF s[Gap(s, o)].proxy THEN db - 1 ELSE db

RemoveInput ==
  /\ ~enabled
  /\ \E o \in Ids(ins) :
       /\ chains' = ShiftChains(Gap(ins, o), OtherGap(outs, o))
       /\ ins' = Erased(ins, o) /\ outs' = Other(outs, o)
       /\ db' = Uncounted(ins, o) /\ open' = open \ {o}
       /\ loopmap' = loopmap \ {o}
       /\ rate' = [rate EXCEPT ![o] = DefaultRate]
  /\ UNCHANGED <<selids, option, enabled>>

RemoveOutput ==
  /\ ~enabled
  /\ \E o \in Ids(outs) :
       /\ chains' = ShiftChains(OtherGap(ins, o), Gap(outs, o))
       /\ outs' = Erased(outs, o) /\ ins' = Other(ins, o)
       /\ db' = Uncounted(outs, o) /\ open' = open \ {o}
       /\ loopmap' = loopmap \ {o}
       /\ rate' = [rate EXCEPT ![o] = DefaultRate]
  /\ UNCHANGED <<selids, option, enabled>>

(* ai-attach, ao-attach.                                                   *)
AttachObject ==
  /\ ~enabled
  /\ \/ \E o \in Ids(ins) : chains' = AttachIn(chains, Places(ins, o))
     \/ \E o \in Ids(outs) : chains' = AttachOut(chains, Places(outs, o))
  /\ UNCHANGED <<selids, option, enabled>> /\ UNCHANGED audio

----------------------------------------------------------------------------
(* enable().                                                               *)

(* enable_active_buffering_mode(): proxies for all objects that can have   *)
(* one, or for none; or what there is.  Deleting a proxy closes its object.*)
Behind(s, o) == \E i \in Places(s, o) : s[i].proxy
Kept == [ins |-> ins, outs |-> outs, db |-> db, open |-> open]
Direct == [ins |-> WithoutProxies(ins), outs |-> WithoutProxies(outs),
           db |-> db - CountProxies(ins) - CountProxies(outs),
           open |-> open \ {o \in Objects : Behind(ins, o) \/ Behind(outs, o)}]
Buffered == [ins |-> WithProxies(ins), outs |-> WithProxies(outs),
             db |-> db + CountProxies(WithProxies(ins)) + CountProxies(WithProxies(outs)),
             open |-> open]

Switched ==
  CASE DoubleBuffering /\ HasRealtime /\ HasNonRealtime ->
         IF db = 0 THEN Buffered ELSE Kept
    [] DoubleBuffering /\ ~(HasRealtime /\ HasNonRealtime) -> Direct
    [] ~DoubleBuffering -> IF db > 0 THEN Direct ELSE Kept

(* The opening of the objects, one after the other: whether it goes on,    *)
(* the first locked rate (0: none yet), what is open and at which rate.    *)
Opening == [ok |-> TRUE, first |-> 0, open |-> Switched.open, rate |-> rate]

OpenObject(st, o, bad) ==
  IF ~st.ok \/ o \in st.open THEN st
  ELSE IF o \in bad THEN [st EXCEPT !.ok = FALSE]
  ELSE [st EXCEPT !.open = st.open \cup {o},
                  !.rate[o] = IF Lock[o] = 0 THEN @ ELSE Lock[o]]

(* set_samples_per_second(): every object of the chainsetup, open or not.  *)
SetRate(st, r) ==
  [st EXCEPT !.first = r,
             !.rate = [o \in Objects |->
                         IF o \in Ids(ins) \cup Ids(outs) THEN r ELSE st.rate[o]]]

AgreeRateNever(st, o) ==
  IF ~st.ok \/ st.first # 0 \/ Lock[o] = 0 THEN st
  ELSE [st EXCEPT !.first = st.rate[o]]
AgreeRate(st, o) ==
  IF ~st.ok THEN st
  ELSE IF st.first = 0
       THEN IF Lock[o] = 0 THEN st ELSE SetRate(st, st.rate[o])
  ELSE IF st.rate[o] = st.first THEN st ELSE [st EXCEPT !.ok = FALSE]

Ordered(s) == [i \in 1..Len(s) |-> s[i].id]

Opened(bad) ==
  LET inputs  == FoldLeft(LAMBDA st, o : OpenObject(st, o, bad), Opening, Ordered(ins))
      agreed  == FoldLeft(AgreeRate, inputs, Ordered(ins))
      outputs == FoldLeft(LAMBDA st, o : AgreeRate(OpenObject(st, o, bad), o),
                          agreed, Ordered(outs))
  IN IF outputs.ok /\ outputs.first = 0 THEN SetRate(outputs, outputs.rate[ins[1].id])
                                        ELSE outputs

IsValid ==
  /\ ins # <<>> /\ outs # <<>> /\ chains # <<>>
  /\ \A k \in 1..Len(chains) : chains[k].in # None /\ chains[k].out # None

(* When an object cannot be opened, or the rates differ, enable() throws   *)
(* and what it has opened stays open.                                      *)
Enable ==
  /\ ~enabled /\ IsValid
  /\ ins' = Switched.ins /\ outs' = Switched.outs /\ db' = Switched.db
  /\ \E bad \in SUBSET Unopenable :
       LET st == Opened(bad) IN
       open' = st.open /\ rate' = st.rate /\ enabled' = st.ok
  /\ UNCHANGED <<chains, selids, loopmap, option>>

Disable ==
  /\ enabled /\ enabled' = FALSE
  /\ open' = open \ (Ids(ins) \cup Ids(outs))
  /\ UNCHANGED <<chains, selids, ins, outs, loopmap, db, option, rate>>

SetupInit ==
  /\ chains = <<>> /\ selids = <<>> /\ ins = <<>> /\ outs = <<>>
  /\ loopmap = {} /\ db = 0 /\ option \in {"on", "off", "auto"}
  /\ enabled = FALSE /\ open = {} /\ rate = [o \in Objects |-> DefaultRate]

SetupNext ==
  \/ AddChains \/ SelectChains \/ RemoveChains \/ RenameChain
  \/ AddInput \/ AddOutput \/ RemoveInput \/ RemoveOutput
  \/ AttachObject \/ Enable \/ Disable

SetupSpec == SetupInit /\ [][SetupNext]_setupVars

----------------------------------------------------------------------------
(* Properties.                                                             *)

Entries == [id : Objects, proxy : BOOLEAN]
ChainRecords == [name : Names, in : Nat, out : Nat]

(* Every variable keeps its type.                                          *)
SetupTypeOK ==
  /\ chains \in Seq(ChainRecords) /\ selids \in Seq(Names)
  /\ ins \in Seq(Entries) /\ outs \in Seq(Entries)
  /\ loopmap \subseteq Loops
  /\ db \in Nat /\ option \in {"on", "off", "auto"} /\ enabled \in BOOLEAN
  /\ open \subseteq Objects /\ rate \in [Objects -> Nat]

(* The engine indexes the inputs and outputs with what the chains say: an  *)
(* index is none or that of an object, whatever was removed before.        *)
IndicesValid ==
  \A k \in 1..Len(chains) :
    chains[k].in \in 0..Len(ins) /\ chains[k].out \in 0..Len(outs)

(* db_clients_rep decides how the objects are switched at the next         *)
(* connection: it is the number of the proxies there are.  A proxy works   *)
(* only with the db server, which runs when there are devices and other    *)
(* objects together: an enabled chainsetup has proxies only then.          *)
ProxiesExact ==
  LET proxies == CountProxies(ins) + CountProxies(outs) IN
  /\ db = proxies
  /\ enabled /\ proxies > 0 => DoubleBuffering /\ HasRealtime /\ HasNonRealtime

(* An enabled chainsetup has all its objects open, at one rate.            *)
EnabledOpen ==
  enabled => /\ Ids(ins) \cup Ids(outs) \subseteq open
             /\ \A o, p \in Ids(ins) \cup Ids(outs) : rate[o] = rate[p]

(* What connecting a chainsetup relies on: the first two together.         *)
SetupSound == IndicesValid /\ ProxiesExact

Remaining(o) == IF o \in Ids(ins') \cup Ids(outs') THEN o ELSE None
(* Removing an object disconnects the chains that had it, and every other  *)
(* chain keeps the object it had, on both sides, although indices move.    *)
RemovalsExact ==
  [][Len(ins') + Len(outs') < Len(ins) + Len(outs) =>
       \A k \in 1..Len(chains) :
         /\ Object(ins', chains'[k].in) = Remaining(Object(ins, chains[k].in))
         /\ Object(outs', chains'[k].out) = Remaining(Object(outs, chains[k].out))]_setupVars

(* What comments say and the code does not keep: these five are false (the *)
(* README has the counterexamples).                                        *)

(* eca-chainsetup.cpp:1835: "make sure that all input devices have a       *)
(* common sampling rate": an object that was opened at a rate of its own   *)
(* is used at that rate.                                                   *)
LockedRates ==
  enabled => \A o \in Ids(ins) \cup Ids(outs) : Lock[o] \in {0, rate[o]}

(* In double-buffering mode every object that can have a proxy has one.    *)
AllProxied ==
  enabled /\ DoubleBuffering /\ HasRealtime =>
    ins = WithProxies(ins) /\ outs = WithProxies(outs)

(* remove_chains() ensures that as many chains go as were selected.        *)
SelectedRemoved ==
  [][selids # <<>> /\ Len(chains') < Len(chains) =>
       Len(chains') = Len(chains) - Len(selids)]_setupVars

(* A chainsetup that is not enabled has no object open.                    *)
ClosedWhenDisabled == ~enabled => open = {}

(* Every loop device among the inputs and outputs is in the loop map: it   *)
(* has not been deleted.                                                   *)
NoneDangling == (Ids(ins) \cup Ids(outs)) \cap Loops \subseteq loopmap
=============================================================================
