---------------------------- MODULE ChannelEffects ----------------------------
(***************************************************************************)
(* What CHAIN::init() and CHAIN::process() make of the operators of a      *)
(* chain: how many channels there are on the way, which channel a sample   *)
(* came from, and what each operator remembers of it, for each channel or  *)
(* for all.  One frame stands for a block.                                 *)
(*                                                                         *)
(* A sample is the set of the input channels it depends on; 0 stands for   *)
(* what was processed before the chain was initialised.  Operators are     *)
(* named by their options (-ea, -chcopy, ...).                             *)
(***************************************************************************)
EXTENDS Integers, Sequences, SequencesExt, FiniteSets

CONSTANTS
  CeFirst, CeSecond,  \* operators of the chain, <<option, parameters>>
  CeInputs,           \* numbers of channels of the input
  CeChannels,         \* values a channel parameter is set to
  CeSteps             \* bound on the calls

ASSUME CeAssumption ==
  CeInputs \subseteq Nat \ {0} /\ CeChannels \subseteq Nat /\ CeSteps \in Nat

VARIABLE ce

Bigger(a, b) == IF a > b THEN a ELSE b
Widest == 4
None == {}

(* cells: channels the operator has a state for; first: -ec has not seen a *)
(* sample yet; fed: what each channel has been given since init().         *)
NewOperator(kind, par) ==
  [kind |-> kind, par |-> par, cells |-> 0, chans |-> 0, first |-> TRUE, bypassed |-> FALSE,
   mem |-> [c \in 1..Widest |-> None], all |-> None, fed |-> [c \in 1..Widest |-> None]]

PerChannel == {"efb", "efs1", "ef1", "ef3", "efs", "ef4", "ete", "ec", "fx", "evp", "ev"}

----------------------------------------------------------------------------
(* output_channels() of the classes.                                       *)

LastUsed(map) == IF \E k \in DOMAIN map : map[k] > 0
                 THEN CHOOSE k \in DOMAIN map : map[k] > 0 /\ \A j \in DOMAIN map : map[j] > 0 => j <= k
                 ELSE 0
OutputChannels(o, n) ==
  CASE o.kind \in {"chcopy", "chmove"} -> Bigger(Bigger(o.par[1], o.par[2]), n)
    [] o.kind \in {"chmix", "chmute", "eadb"} -> Bigger(o.par[1], n)
    [] o.kind = "chorder" -> LastUsed(o.par)
    [] o.kind \in {"epp", "eca"} -> 2
    [] OTHER -> n

----------------------------------------------------------------------------
(* One sample of a filter: <<what comes out, what is remembered>>.         *)

BwFilter(x, m) == <<x \cup m, x \cup m>>
LowpassSimpleFilter(x, m) == <<x \cup m, x>>
ResonantBandpassFilter(x, m) == <<x \cup m, x \cup m>>
ResonantLowpassFilter(x, m) == <<x \cup m, x \cup m>>
ResonatorFilter(x, m) == <<x \cup m, x \cup m>>
RcFilter(x, m) == <<x \cup m, x \cup m>>
ReverbFilter(x, m) == <<x \cup m, x \cup m>>
CompressSample(x, m) == <<x \cup m, x \cup m>>
(* Statistics see what they do not change.                                 *)
Analysed(x, m) == <<x, x \cup m>>
DcFixed(x, m) == <<x, m>>

Sample(kind, x, m) ==
  CASE kind = "efb" -> BwFilter(x, m) [] kind = "efs1" -> LowpassSimpleFilter(x, m)
    [] kind = "ef1" -> ResonantBandpassFilter(x, m) [] kind = "ef3" -> ResonantLowpassFilter(x, m)
    [] kind = "efs" -> ResonatorFilter(x, m) [] kind = "ef4" -> RcFilter(x, m)
    [] kind = "ete" -> ReverbFilter(x, m) [] kind = "ec" -> CompressSample(x, m)
    [] kind = "fx" -> DcFixed(x, m) [] kind \in {"evp", "ev"} -> Analysed(x, m)

----------------------------------------------------------------------------
(* init() of the operators, for a buffer of n channels.                    *)

Clamped(c, n) == IF c < 1 THEN 1 ELSE IF c > n THEN n ELSE c
InitFilterKept(o, n) == [o EXCEPT !.cells = n]
InitFilter(o, n) == [o EXCEPT !.cells = n, !.mem = [c \in 1..Widest |-> None]]
(* The buckets keep the number of channels they were made for first.       *)
InitBuckets(o, n) == [InitFilter(o, n) EXCEPT !.cells = IF o.cells = 0 THEN n ELSE o.cells]
InitFix(o, n) == [o EXCEPT !.cells = Bigger(@, n)]
InitPair(o, n) == [o EXCEPT !.par = <<Clamped(@[1], n), Bigger(@[2], 1)>>]
InitMix(o, n) == [o EXCEPT !.chans = n, !.par = <<Bigger(@[1], 1)>>]

InitOperator(o, n) ==
  CASE o.kind = "ev" -> InitBuckets(o, n)
    [] o.kind = "fx" -> InitFix(o, n)
    [] o.kind \in PerChannel \ {"ev", "fx"} -> InitFilter(o, n)
    [] o.kind \in {"chcopy", "chmove"} -> InitPair(o, n)
    [] o.kind = "chmix" -> InitMix(o, n)
    [] OTHER -> [o EXCEPT !.chans = n]

----------------------------------------------------------------------------
(* process(), of a frame f.                                                *)

Widened(f, n) == [c \in 1..Bigger(n, Len(f)) |-> IF c <= Len(f) THEN f[c] ELSE None]
Exactly(f, n) == [c \in 1..n |-> IF c <= Len(f) THEN f[c] ELSE None]
Done(o, f) == [op |-> o, frame |-> f, bad |-> FALSE]

ProcessChannels(o, f) ==
  [op |-> [o EXCEPT !.mem = [c \in 1..Widest |-> IF c <= Len(f) THEN Sample(o.kind, f[c], @[c])[2] ELSE @[c]]],
   frame |-> [c \in DOMAIN f |-> Sample(o.kind, f[c], o.mem[c])[1]], bad |-> Len(f) > o.cells]

(* -ec takes its first sample, of the first channel, as it is; those of    *)
(* the other channels are divided by what was before them, which is zero.  *)
ProcessCompress(o, f) ==
  LET r == ProcessChannels(o, f) IN
  [r EXCEPT !.op.first = FALSE, !.frame[1] = IF o.first THEN f[1] ELSE @]

(* -eca looks at the two channels together, and keeps what it has seen.    *)
ProcessAdvanced(o, f) ==
  LET seen == f[1] \cup f[2] \cup o.all IN
  Done([o EXCEPT !.all = seen], [c \in DOMAIN f |-> IF c <= 2 THEN seen ELSE f[c]])

ProcessPan(o, f) == Done(o, Exactly(f, 2))

Within(c, f) == c \in DOMAIN f
ProcessCopy(o, f) ==
  Done(o, IF Within(o.par[1], f) /\ Within(o.par[2], f) THEN [f EXCEPT ![o.par[2]] = f[o.par[1]]] ELSE f)
ProcessMoveLoud(o, f) == ProcessCopy(o, f)
ProcessMove(o, f) ==
  LET r == ProcessCopy(o, f) IN
  [r EXCEPT !.frame = IF Within(o.par[1], f) /\ o.par[1] # o.par[2] THEN [@ EXCEPT ![o.par[1]] = None] ELSE @]
(* Channels are counted when the operator is initialised.                  *)
ProcessMute(o, f) ==
  Done(o, IF o.par[1] \in 1..o.chans /\ Within(o.par[1], f) THEN [f EXCEPT ![o.par[1]] = None] ELSE f)
ProcessMix(o, f) ==
  [Done(o, IF Within(o.par[1], f)
           THEN [f EXCEPT ![o.par[1]] = UNION {f[c] : c \in 1..o.chans \cap DOMAIN f}] ELSE f)
     EXCEPT !.bad = o.chans > Len(f)]
ProcessOrder(o, f) ==
  LET n == LastUsed(o.par)  w == Widened(f, n) IN
  Done(o, Exactly([c \in DOMAIN w |-> IF c > n THEN w[c]
                                      ELSE IF Within(o.par[c], w) THEN w[o.par[c]] ELSE None], n))

ProcessOperator(o, f) ==
  CASE o.kind = "ec" -> ProcessCompress(o, f)
    [] o.kind \in PerChannel \ {"ec"} -> ProcessChannels(o, f)
    [] o.kind = "eca" -> ProcessAdvanced(o, f)
    [] o.kind = "epp" -> ProcessPan(o, f)
    [] o.kind = "chcopy" -> ProcessCopy(o, f)
    [] o.kind = "chmove" -> ProcessMove(o, f)
    [] o.kind = "chmute" -> ProcessMute(o, f)
    [] o.kind = "chmix" -> ProcessMix(o, f)
    [] o.kind = "chorder" -> ProcessOrder(o, f)
    [] OTHER -> Done(o, f)

----------------------------------------------------------------------------
(* CHAIN::init(): each operator is initialised with the channels that the  *)
(* ones before it ask for.  What they remember is from then on the past.   *)
Past(s) == IF s = None THEN None ELSE {0}
Aged(o) == [o EXCEPT !.mem = [c \in 1..Widest |-> Past(@[c])], !.all = Past(@),
                     !.fed = [c \in 1..Widest |-> None]]
InitChainNarrow(ops, n) ==
  FoldLeft(LAMBDA a, o : [n |-> n, ops |-> Append(a.ops, InitOperator(Aged(o), n))],
           [n |-> n, ops |-> <<>>], ops).ops
InitChain(ops, n) ==
  FoldLeft(LAMBDA a, o :
             LET out == OutputChannels(o, a.n) IN
             [n |-> out, ops |-> Append(a.ops, InitOperator(Aged(o), Bigger(out, a.n)))],
           [n |-> n, ops |-> <<>>], ops).ops

(* CHAIN::process().                                                       *)
ProcessChain(ops, frame) ==
  FoldLeft(LAMBDA a, o :
             IF o.bypassed THEN [a EXCEPT !.ops = Append(@, o)]
             ELSE LET f == Widened(a.frame, OutputChannels(o, Len(a.frame)))
                      fed == [c \in 1..Widest |-> o.fed[c] \cup IF c <= Len(f) THEN f[c] ELSE None]
                      r == ProcessOperator([o EXCEPT !.fed = fed], f)
                  IN [ops |-> Append(a.ops, r.op), frame |-> r.frame, bad |-> a.bad \/ r.bad,
                      io |-> Append(a.io, [op |-> r.op, in |-> f, out |-> r.frame])],
           [ops |-> <<>>, frame |-> frame, bad |-> FALSE, io |-> <<>>], ops)

NewChain(a, b, n) ==
  [ops |-> <<NewOperator(a[1], a[2]), NewOperator(b[1], b[2])>>, inputs |-> n, ready |-> FALSE,
   io |-> <<>>, bad |-> FALSE, bypass |-> FALSE, room |-> <<0, 0>>, steps |-> 0]
CeInit == \E a \in CeFirst, b \in CeSecond, n \in CeInputs : ce = NewChain(a, b, n)

CeTurn(o) == ce.steps < CeSteps /\ ~ce.bad /\ ce' = [o EXCEPT !.steps = @ + 1]

(* Channels that each operator finds, and whether they are those that it   *)
(* found in the chain when that was initialised.  -ev has room for those   *)
(* it found first.                                                         *)
Room(o, n) == Bigger(OutputChannels(o, n), n)
Left(o, n) == IF o.bypassed THEN n ELSE IF o.kind \in {"chorder", "epp"} THEN OutputChannels(o, n) ELSE Room(o, n)
Found(ops, k) == Room(ops[k], IF k = 1 THEN ce.inputs ELSE Left(ops[1], ce.inputs))
RoomAtInit(ops) ==
  LET all == [k \in 1..2 |-> [ops[k] EXCEPT !.bypassed = FALSE]] IN
  [k \in 1..2 |-> IF ops[k].kind = "ev" /\ ce.ready THEN ce.room[k] ELSE Found(all, k)]
Fits(ops, room) ==
  \A k \in 1..2 :
    LET o == ops[k]  n == Found(ops, k) IN
    ~o.bypassed =>
      /\ o.kind \in PerChannel => n <= room[k]
      /\ o.kind \in {"chmix", "chmute"} => n = room[k]
CeChange(ops) == CeTurn([ce EXCEPT !.ops = ops, !.io = <<>>])

CeInitialise ==
  CeTurn([ce EXCEPT !.ops = InitChain(@, ce.inputs), !.room = RoomAtInit(ce.ops), !.ready = TRUE, !.io = <<>>])
CeProcess ==
  ce.ready /\
  LET r == IF ce.bypass THEN [ops |-> ce.ops, io |-> <<>>, bad |-> FALSE]
           ELSE ProcessChain(ce.ops, [c \in 1..ce.inputs |-> {c}])
  IN CeTurn([ce EXCEPT !.ops = r.ops, !.io = r.io, !.bad = r.bad])
CeSet ==
  \E k \in 1..2, v \in CeChannels :
    \E p \in DOMAIN ce.ops[k].par : CeChange([ce.ops EXCEPT ![k].par[p] = v])
(* An operator that is bypassed gives the channels it would have made to   *)
(* none of those behind it.                                                *)
CeBypass ==
  \/ \E k \in 1..2 : CeChange([ce.ops EXCEPT ![k].bypassed = ~@])
  \/ CeTurn([ce EXCEPT !.bypass = ~@, !.io = <<>>])

CeNext == CeInitialise \/ CeProcess \/ CeSet \/ CeBypass

----------------------------------------------------------------------------
(* Properties.                                                             *)

CeTypeOK ==
  /\ \A k \in 1..2 : ce.ops[k].cells \in 0..Widest /\ ce.ops[k].chans \in 0..Widest
  /\ Len(ce.io) <= 2 /\ ce.bad \in BOOLEAN /\ ce.steps \in 0..CeSteps

(* An operator has a state for every channel it is given, whatever the     *)
(* ones before it have made of the channels, unless a parameter or bypass  *)
(* set since init() made it find other channels than there were then (the  *)
(* code does not initialise it again and reads beyond its state).          *)
StateForAll == ce.bad => ~Fits(ce.ops, ce.room)

(* What a filter gives on a channel comes from what it was given on that   *)
(* channel, and from no block before it was initialised.                   *)
ChannelsApart ==
  \A j \in DOMAIN ce.io :
    LET o == ce.io[j].op  f == ce.io[j].out IN
    o.kind \in PerChannel => \A c \in DOMAIN f : f[c] \subseteq o.fed[c]

(* The operators that route channels do what the manual page says:         *)
(* copying and moving one channel leaves the others, mixing takes all of   *)
(* them, an order names the source of each.  Mixing and muting count the   *)
(* channels at init() and know no others.                                  *)
RoutedBy(o, f) ==
  CASE o.kind = "chcopy" -> [c \in DOMAIN f |-> IF c = o.par[2] THEN f[o.par[1]] ELSE f[c]]
    [] o.kind = "chmove" -> [c \in DOMAIN f |-> IF c = o.par[2] THEN f[o.par[1]]
                                               ELSE IF c = o.par[1] THEN None ELSE f[c]]
    [] o.kind = "chmute" -> [c \in DOMAIN f |-> IF c = o.par[1] THEN None ELSE f[c]]
    [] o.kind = "chmix" -> [c \in DOMAIN f |-> IF c = o.par[1] THEN UNION Range(f) ELSE f[c]]
    [] o.kind = "chorder" -> [c \in 1..LastUsed(o.par) |-> IF Within(o.par[c], f) THEN f[o.par[c]] ELSE None]
Routing == {"chcopy", "chmove", "chmute", "chmix", "chorder"}
RoutedAsAsked ==
  \A j \in DOMAIN ce.io :
    LET o == ce.io[j].op  f == ce.io[j].in IN
    /\ o.kind \in Routing
    /\ o.kind \in {"chmix", "chmute"} => o.chans = Len(f)
    => ce.io[j].out = RoutedBy(o, f)

(* The three together.                                                     *)
ChannelsExact == StateForAll /\ ChannelsApart /\ RoutedAsAsked
=============================================================================
