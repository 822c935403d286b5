----------------------------- MODULE SignalFlow ------------------------------
(***************************************************************************)
(* ECA_ENGINE's iteration (eca-engine.cpp): inputs_to_chains(),            *)
(* process_chains(), mix_to_outputs() and update_engine_state(), with      *)
(* CHAIN::process() and LOOP_DEVICE (audioio-loop.cpp).  One slot for each *)
(* chain and one shared buffer, in which both shared inputs and mixes are  *)
(* kept, carry the audio.  A buffer is its channels and its frames.        *)
(***************************************************************************)
EXTENDS Integers, Sequences, FiniteSets, SequencesExt

CONSTANTS
  SfSetups,   \* the setups, as Mixdown has them
  SfBlock,    \* buffersize
  SfSeeks,    \* positions of a seek
  SfPrefill,  \* prefill_threshold_rep, in blocks
  SfSteps     \* bound of the steps

VARIABLE sf

FlowSetup == sf.setup
(* update_cache_latency_values(): the first objects decide.                *)
FirstOf(objs) == LET rts == SelectSeq(objs, LAMBDA x : x.kind = "rt") IN IF rts = <<>> THEN -1 ELSE
  LET r == rts[1]
      filled == IF SfPrefill * SfBlock > r.space THEN r.space ELSE SfPrefill * SfBlock
  IN r.lat + filled
RecordingOffset(setup) ==
  LET in == FirstOf(setup.ins) out == FirstOf(setup.outs) IN
  CASE setup.multitrack = "off" -> 0
    [] setup.multitrack = "given" -> setup.offset
    [] setup.multitrack = "auto" -> IF out > in THEN out ELSE in

(* The audio of the objects and of the operators, and the promise.         *)
Flow == INSTANCE Mixdown WITH
  MixBlock <- SfBlock, setup <- [sf.setup EXCEPT !.offset = RecordingOffset(sf.setup)],
  muted <- sf.muted, pos <- sf.pos, rt <- sf.rt, waited <- (sf.preroll \div SfBlock) - 1,
  held <- IF sf.loop.filled /\ sf.loop.empty = 0 THEN sf.loop.sbuf.frames ELSE <<>>,
  over <- sf.loop.empty > 0, drained <- sf.loop.finished, ended <- sf.ended, tapes <- sf.tapes

----------------------------------------------------------------------------
(* Buffers.                                                                *)
Frames(b) == b.frames
SilentBuffer(n, ch) == [ch |-> ch, frames |-> [t \in 1..n |-> [c \in 1..ch |-> 0]]]
Emptied(b) == [b EXCEPT !.frames = <<>>]
WithChannels(b, n) ==
  [ch |-> n, frames |-> [t \in DOMAIN b.frames |-> [c \in 1..n |-> IF c <= b.ch THEN b.frames[t][c] ELSE 0]]]
Cell(b, t, c) == IF t <= Len(b.frames) /\ c <= b.ch THEN b.frames[t][c] ELSE 0

(* mix_to_outputs_divide_helper(), mix_to_outputs_sum_helper(): the first  *)
(* chain replaces what was in the buffer, the others are added.            *)
MixFirst(to, from, share) ==
  [to EXCEPT !.frames = [t \in DOMAIN from.frames |-> [c \in 1..to.ch |->
     IF c <= from.ch THEN from.frames[t][c] \div share ELSE 0]]]
MixAnother(to, from, share) ==
  [to EXCEPT !.frames = [t \in 1..(IF Len(@) > Len(from.frames) THEN Len(@) ELSE Len(from.frames)) |->
     [c \in 1..to.ch |-> Cell(to, t, c) + (Cell(from, t, c) \div share)]]]

----------------------------------------------------------------------------
(* LOOP_DEVICE.                                                            *)
NewLoop == [sbuf |-> SilentBuffer(SfBlock, 0), writes |-> 0, filled |-> FALSE, finished |-> FALSE, empty |-> 0]
LoopSeek(l) == [l EXCEPT !.writes = 0, !.empty = 0, !.filled = FALSE, !.finished = FALSE]

SameObject(a, b, objs) == a = b \/ (objs[a].kind = "loop" /\ objs[b].kind = "loop")
RegisteredOutputs == Cardinality({o \in DOMAIN FlowSetup.outs : FlowSetup.outs[o].kind = "loop"})

LoopReads(l) == IF l.empty = 0 /\ l.filled THEN l.sbuf ELSE SilentBuffer(SfBlock, FlowSetup.loopch)
LoopRead(l) == IF l.empty = 0 THEN l ELSE [l EXCEPT !.finished = TRUE]

(* write_buffer(): the first write of a round clears the buffer, in which  *)
(* the last one that is not empty decides that there is something.         *)
LoopWriteOver(l, b) ==
  [l EXCEPT !.sbuf = MixFirst(WithChannels(@, FlowSetup.loopch), b, RegisteredOutputs), !.filled = TRUE,
            !.empty = IF b.frames = <<>> THEN @ + 1 ELSE 0]
LoopWrite(l, b) ==
  LET first == l.writes = 0
      clear == IF first THEN SilentBuffer(Len(l.sbuf.frames), FlowSetup.loopch) ELSE l.sbuf
      round == IF l.writes + 1 = RegisteredOutputs THEN 0 ELSE l.writes + 1
  IN IF b.frames = <<>> THEN [l EXCEPT !.writes = round, !.sbuf = clear, !.empty = @ + 1]
     ELSE [l EXCEPT !.writes = round, !.empty = 0, !.filled = TRUE,
                    !.sbuf = MixAnother(clear, b, RegisteredOutputs)]

----------------------------------------------------------------------------
(* The objects' read_buffer(), write_buffer() and finished().              *)
ObjectFinished(s, i) ==
  LET in == s.setup.ins[i] IN
  CASE in.kind = "file" -> s.at[i] >= in.len /\ (in.knows \/ s.short[i])
    [] in.kind = "rt" -> FALSE
    [] in.kind = "loop" -> s.loop.finished

ReadInto(s, i) ==
  LET in == s.setup.ins[i]
      n == IF in.len - s.at[i] < SfBlock THEN (IF in.len > s.at[i] THEN in.len - s.at[i] ELSE 0) ELSE SfBlock
      from == IF in.kind = "rt" THEN s.rt ELSE s.at[i]
  IN IF in.kind = "loop" THEN LoopReads(s.loop)
     ELSE [ch |-> in.ch, frames |-> [t \in 1..(IF in.kind = "rt" THEN SfBlock ELSE n) |->
             [c \in 1..in.ch |-> Flow!Sample(i, c, from + t)]]]
AfterRead(s, i) ==
  LET in == s.setup.ins[i]
      n == Len(ReadInto(s, i).frames)
  IN CASE in.kind = "file" -> [s EXCEPT !.at[i] = @ + n, !.short[i] = n < SfBlock]
       [] in.kind = "rt" -> s
       [] in.kind = "loop" -> [s EXCEPT !.loop = LoopRead(@)]

WriteTo(s, o, b) ==
  LET out == s.setup.outs[o]
      tape == s.tapes[o] \o WithChannels(b, out.ch).frames
  IN IF out.kind = "loop" THEN [s EXCEPT !.loop = LoopWrite(@, b)]
     ELSE [s EXCEPT !.tapes[o] = SubSeq(tape, 1, IF Len(tape) > out.room THEN out.room ELSE Len(tape)),
                    !.outfin = IF Len(tape) > out.room THEN @ + 1 ELSE @]

----------------------------------------------------------------------------
(* update_cache_chain_connections(): chains are counted by object, so that *)
(* a loop device that was added twice has the chains of both places.       *)
InputCount(s, i) == Cardinality({c \in DOMAIN s.setup.chains : SameObject(s.setup.chains[c].from, i, s.setup.ins)})
OutputCount(s, o) == Cardinality({c \in DOMAIN s.setup.chains : SameObject(s.setup.chains[c].to, o, s.setup.outs)})

(* inputs_to_chains(): an input of one chain is read into its slot, one of *)
(* several into the shared buffer, which all of their slots copy.          *)
ReadInput(s, i) ==
  LET mine == {c \in DOMAIN s.setup.chains : s.setup.chains[c].from = i}
      ended == ObjectFinished(s, i)
      read == IF ended THEN s ELSE AfterRead(s, i)
      counted == IF ended \/ ObjectFinished(read, i) THEN read ELSE [read EXCEPT !.notfin = @ + 1]
      shared == IF ended THEN Emptied(s.mix) ELSE ReadInto(s, i)
  IN IF InputCount(s, i) > 1
     THEN [counted EXCEPT !.mix = shared,
             !.slots = [c \in DOMAIN @ |-> IF c \in mine THEN shared ELSE @[c]]]
     ELSE IF mine = {} THEN s
     ELSE [counted EXCEPT !.slots = [c \in DOMAIN @ |->
             IF c \in mine THEN (IF ended THEN Emptied(@[c]) ELSE ReadInto(s, i)) ELSE @[c]]]
(* A slot that is not emptied when its input has ended.                    *)
InputsToChainsStale(s) ==
  LET r == FoldLeft(ReadInput, s, [i \in 1..Len(s.setup.ins) |-> i])
  IN [r EXCEPT !.slots = [c \in DOMAIN @ |-> IF @[c].frames = <<>> THEN s.slots[c] ELSE @[c]]]
InputsToChains(s) == FoldLeft(ReadInput, s, [i \in 1..Len(s.setup.ins) |-> i])

(* CHAIN::process(): controllers read the position of the chain.           *)
RunChainLate(s, c) ==
  LET b == s.slots[c]
      done(frame) == FoldLeft(LAMBDA f, op : Flow!Operated(op, s.cpos[c] + Len(b.frames), f), frame, s.setup.chains[c].ops)
      frames == [t \in DOMAIN b.frames |-> IF s.muted[c] THEN [k \in 1..b.ch |-> 0] ELSE done(b.frames[t])]
  IN [s EXCEPT !.slots[c] = [ch |-> IF frames = <<>> THEN b.ch ELSE Len(frames[1]), frames |-> frames],
               !.cpos[c] = @ + Len(frames)]
RunChain(s, c) ==
  LET b == s.slots[c]
      done(frame) == FoldLeft(LAMBDA f, op : Flow!Operated(op, s.cpos[c], f), frame, s.setup.chains[c].ops)
      frames == [t \in DOMAIN b.frames |-> IF s.muted[c] THEN [k \in 1..b.ch |-> 0] ELSE done(b.frames[t])]
  IN [s EXCEPT !.slots[c] = [ch |-> IF frames = <<>> THEN b.ch ELSE Len(frames[1]), frames |-> frames],
               !.cpos[c] = @ + Len(frames)]
RunChains(s) == FoldLeft(RunChain, s, [c \in 1..Len(s.setup.chains) |-> c])

(* mix_to_outputs(): during preroll, outputs whose chains all come from    *)
(* realtime inputs are left out.                                           *)
RealtimeTarget(s, o) ==
  LET mine == {c \in DOMAIN s.setup.chains : s.setup.chains[c].to = o}
  IN mine # {} /\ \A c \in mine : s.setup.ins[s.setup.chains[c].from].kind = "rt"

MixOutput(s, o) ==
  LET mine == SelectSeq([c \in DOMAIN s.setup.chains |-> c], LAMBDA c : s.setup.chains[c].to = o)
      count == OutputCount(s, o)
      share == IF s.setup.avg THEN count ELSE 1
      AddChain(b, k) == IF k = 1 THEN MixFirst(b, s.slots[mine[1]], share) ELSE MixAnother(b, s.slots[mine[k]], share)
      mixed == FoldLeft(AddChain, WithChannels(s.mix, s.setup.outs[o].ch), [k \in DOMAIN mine |-> k])
  IN CASE mine = <<>> -> [s EXCEPT !.mix = WithChannels(@, s.setup.outs[o].ch)]
       [] count = 1 -> WriteTo([s EXCEPT !.mix = WithChannels(@, s.setup.outs[o].ch)], o, s.slots[mine[1]])
       [] count > 1 /\ Len(mine) = count -> WriteTo([s EXCEPT !.mix = mixed], o, mixed)
       [] OTHER -> [s EXCEPT !.mix = mixed]
MixToOutputs(s, preroll) ==
  FoldLeft(LAMBDA r, o : IF preroll /\ RealtimeTarget(r, o) THEN r ELSE MixOutput(r, o),
           s, [o \in 1..Len(s.setup.outs) |-> o])

----------------------------------------------------------------------------
(* create_cache_object_lists(), init_chains() and prepare_operation(): the *)
(* initial state of a connected setup, started.                            *)
NewFlow(setup) ==
  LET widest == CHOOSE n \in 1..9 : /\ \A x \in Range(setup.ins) \cup Range(setup.outs) : x.ch <= n
                                    /\ \E x \in Range(setup.ins) \cup Range(setup.outs) : x.ch = n
  IN [ setup |-> setup, muted |-> [c \in DOMAIN setup.chains |-> FALSE],
       at |-> [i \in DOMAIN setup.ins |-> 0], short |-> [i \in DOMAIN setup.ins |-> FALSE],
       loop |-> NewLoop, mix |-> SilentBuffer(SfBlock, widest),
       slots |-> [c \in DOMAIN setup.chains |-> SilentBuffer(SfBlock, widest)],
       cpos |-> [c \in DOMAIN setup.chains |-> 0], tapes |-> [o \in DOMAIN setup.outs |-> <<>>],
       notfin |-> 0, outfin |-> 0, preroll |-> SfBlock, pos |-> 0, rt |-> 0, ended |-> "no", steps |-> 0 ]

SfInit == \E setup \in SfSetups : sf = NewFlow(setup)

SfStep(s) == sf.steps < SfSteps /\ sf' = [s EXCEPT !.steps = @ + 1]

(* engine_iteration(), with the position that posthandle_control_position()*)
(* advances, and update_engine_state().                                    *)
SfIterate ==
  /\ sf.ended = "no"
  /\ LET waits == sf.preroll < RecordingOffset(FlowSetup)
         read == RunChains(InputsToChains([sf EXCEPT !.notfin = 0]))
         done == MixToOutputs(read, waits)
     IN SfStep([done EXCEPT
          !.preroll = IF waits THEN @ + SfBlock ELSE @, !.pos = @ + SfBlock, !.rt = @ + SfBlock,
          !.ended = IF done.outfin > 0 THEN "error" ELSE IF done.notfin = 0 THEN "finished" ELSE "no"])

(* ECA_CHAINSETUP::seek_position(): everything but devices is moved; the   *)
(* engine forgets how it ended.                                            *)
SfSeekFilled(p) ==
  SfStep([sf EXCEPT !.at = [i \in DOMAIN @ |-> IF p < FlowSetup.ins[i].len THEN p ELSE FlowSetup.ins[i].len],
             !.short = [i \in DOMAIN @ |-> FALSE],
             !.loop = [@ EXCEPT !.writes = 0, !.empty = 0, !.finished = FALSE],
             !.cpos = [c \in DOMAIN @ |-> p], !.pos = p, !.tapes = [o \in DOMAIN @ |-> <<>>],
             !.outfin = 0, !.notfin = 0, !.ended = "no"])
SfSeek(p) ==
  SfStep([sf EXCEPT !.at = [i \in DOMAIN @ |-> IF p < FlowSetup.ins[i].len THEN p ELSE FlowSetup.ins[i].len],
             !.short = [i \in DOMAIN @ |-> FALSE], !.loop = LoopSeek(@),
             !.cpos = [c \in DOMAIN @ |-> p], !.pos = p, !.tapes = [o \in DOMAIN @ |-> <<>>],
             !.outfin = 0, !.notfin = 0, !.ended = "no"])

(* A stop and a new prepare_operation(): preroll starts over.              *)
SfRestart == SfStep([sf EXCEPT !.preroll = SfBlock, !.outfin = 0, !.notfin = 0, !.ended = "no"])

SfMute == \E c \in DOMAIN sf.muted : SfStep([sf EXCEPT !.muted[c] = ~@])

SfNext == SfIterate \/ (\E p \in SfSeeks : SfSeek(p)) \/ SfRestart \/ SfMute

----------------------------------------------------------------------------
(* Properties.                                                             *)
SfTypeOK ==
  /\ sf.setup \in SfSetups /\ sf.steps \in 0..SfSteps
  /\ sf.muted \in [DOMAIN sf.setup.chains -> BOOLEAN]
  /\ sf.ended \in {"no", "finished", "error"}
  /\ sf.loop.writes \in 0..RegisteredOutputs

(* What each output gets is the mix of its chains at that time, and the    *)
(* processing ends when all inputs have ended: the shared buffer, a block  *)
(* that is short or empty, the round of a loop device and a seek leave no  *)
(* trace in what is heard.                                                 *)
FlowMixes == Flow!MixSpec
=============================================================================
