------------------------------- MODULE Mixdown -------------------------------
(***************************************************************************)
(* What the engine promises of the audio that passes through it: at every  *)
(* block each output takes the mix of its chains, each chain what its      *)
(* input gives at that time, and a loop device one block later what was    *)
(* written to it.  No buffer is named.                                     *)
(*                                                                         *)
(* A setup is a record: ins and outs, sequences of objects with their kind *)
(* ("file", "rt" or "loop") and channels; chains with the indices of their *)
(* input and output and their operators; avg, the mode of mixing; offset,  *)
(* what a multitrack recording leaves out.  Audio is a sequence of frames. *)
(***************************************************************************)
EXTENDS Integers, Sequences, FiniteSetsExt, SequencesExt

CONSTANTS MixBlock   \* frames of a block

VARIABLES setup, muted, pos, rt, waited, held, over, drained, ended, tapes

mixVars == <<setup, muted, pos, rt, waited, held, over, drained, ended, tapes>>

----------------------------------------------------------------------------
(* The sample of a channel of an input at a time.                          *)
Sample(i, c, t) == 64 * (100 * i + 10 * c + t)

(* What an operator makes of a frame: it may read the position of its      *)
(* chain, as a controller does, and may add a channel.                     *)
Operated(op, p, frame) ==
  CASE op = "double" -> [c \in DOMAIN frame |-> 2 * frame[c]]
    [] op = "ramp" -> [c \in DOMAIN frame |-> (p + 1) * frame[c]]
    [] op = "copy" -> [c \in 1..(IF Len(frame) < 2 THEN 2 ELSE Len(frame)) |-> IF c = 2 THEN frame[1] ELSE frame[c]]

Silent(n, c) == [t \in 1..n |-> [k \in 1..c |-> 0]]
AtLeast(a, b) == IF a > b THEN a ELSE b
AtMost(a, b) == IF a < b THEN a ELSE b

ChainIds == DOMAIN setup.chains
ChainsTo(o) == {c \in ChainIds : setup.chains[c].to = o}

(* What an input gives for the block at hand, and whether it has ended     *)
(* with it.  Some files know their end, others have to read past it.       *)
Gives(i) ==
  LET in == setup.ins[i] IN
  CASE in.kind = "file" ->
         [t \in 1..AtLeast(0, AtMost(MixBlock, in.len - pos)) |-> [c \in 1..in.ch |-> Sample(i, c, pos + t)]]
    [] in.kind = "rt" -> [t \in 1..MixBlock |-> [c \in 1..in.ch |-> Sample(i, c, rt + t)]]
    [] in.kind = "loop" -> IF drained THEN <<>> ELSE IF over \/ held = <<>> THEN Silent(MixBlock, in.ch) ELSE held
Ends(i) ==
  LET in == setup.ins[i] IN
  CASE in.kind = "file" -> pos + MixBlock > in.len \/ (in.knows /\ pos + MixBlock = in.len)
    [] in.kind = "rt" -> FALSE
    [] in.kind = "loop" -> over \/ drained

(* What leaves a chain.                                                    *)
Leaves(c) ==
  LET chain == setup.chains[c]
      operated(frame) == FoldLeft(LAMBDA f, op : Operated(op, pos, f), frame, chain.ops)
      given == Gives(chain.from)
  IN [t \in DOMAIN given |-> IF muted[c] THEN [k \in DOMAIN given[t] |-> 0] ELSE operated(given[t])]

(* What an output takes: the sum of its chains, or their mean.             *)
At(frames, t, k) == IF t <= Len(frames) /\ k \in DOMAIN frames[t] THEN frames[t][k] ELSE 0
Takes(o) ==
  LET chains == ChainsTo(o)
      left == [c \in chains |-> Leaves(c)]
      share == IF setup.avg THEN Cardinality(chains) ELSE 1
  IN [t \in 1..Max({0} \cup {Len(left[c]) : c \in chains}) |->
        [k \in 1..setup.outs[o].ch |-> MapThenSumSet(LAMBDA c : At(left[c], t, k) \div share, chains)]]

(* A recording leaves out what is heard before its offset has passed.      *)
Waiting == (waited + 1) * MixBlock < setup.offset
Recording(o) == ChainsTo(o) # {} /\ \A c \in ChainsTo(o) : setup.ins[setup.chains[c].from].kind = "rt"
Skips(o) == Waiting /\ Recording(o)

Looped == {o \in DOMAIN setup.outs : setup.outs[o].kind = "loop"}
LoopTakes ==
  LET taken == [o \in Looped |-> Takes(o)] IN
  IF \A o \in Looped : taken[o] = <<>> THEN <<>>
  ELSE [t \in 1..MixBlock |-> [k \in 1..setup.loopch |->
          MapThenSumSet(LAMBDA o : At(taken[o], t, k) \div Cardinality(Looped), Looped)]]

Fits(o, frames) == SubSeq(frames, 1, AtMost(Len(frames), setup.outs[o].room))
Overfull(o) == setup.outs[o].kind # "loop" /\ ~Skips(o) /\ Len(tapes[o] \o Takes(o)) > setup.outs[o].room

----------------------------------------------------------------------------
MixInit ==
  /\ muted \in [ChainIds -> BOOLEAN]
  /\ pos = 0 /\ rt = 0 /\ waited = 0 /\ held = <<>> /\ over = FALSE /\ drained = FALSE /\ ended = "no"
  /\ tapes = [o \in DOMAIN setup.outs |-> <<>>]

(* A block of all outputs.                                                 *)
MixBlocks ==
  /\ ended = "no"
  /\ pos' = pos + MixBlock /\ rt' = rt + MixBlock
  /\ waited' = IF Waiting THEN waited + 1 ELSE waited
  /\ tapes' = [o \in DOMAIN tapes |->
       IF o \in Looped \/ Skips(o) THEN tapes[o] ELSE Fits(o, tapes[o] \o Takes(o))]
  /\ drained' = (drained \/ (over /\ \E i \in DOMAIN setup.ins : setup.ins[i].kind = "loop"))
  /\ IF Looped = {} THEN UNCHANGED <<held, over>>
     ELSE IF LoopTakes = <<>> THEN over' = TRUE /\ held' = <<>>
     ELSE over' = FALSE /\ held' = LoopTakes
  /\ ended' = IF \E o \in DOMAIN setup.outs : Overfull(o) THEN "error"
              ELSE IF \A i \in DOMAIN setup.ins : Ends(i) THEN "finished" ELSE "no"
  /\ UNCHANGED <<setup, muted>>

(* A seek starts over from a position; nothing of before is heard.         *)
MixSeek ==
  /\ pos' \in Nat
  /\ held' = <<>> /\ over' = FALSE /\ drained' = FALSE /\ ended' = "no"
  /\ tapes' = [o \in DOMAIN tapes |-> <<>>]
  /\ UNCHANGED <<setup, muted, rt, waited>>

MixRestart == waited' = 0 /\ ended' = "no" /\ UNCHANGED <<setup, muted, pos, rt, held, over, drained, tapes>>

MixMute == /\ \E c \in ChainIds : muted' = [muted EXCEPT ![c] = ~@]
           /\ UNCHANGED <<setup, pos, rt, waited, held, over, drained, ended, tapes>>

MixNext == MixBlocks \/ MixSeek \/ MixRestart \/ MixMute
MixSpec == MixInit /\ [][MixNext]_mixVars
=============================================================================
