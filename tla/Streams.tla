------------------------------- MODULE Streams -------------------------------
(***************************************************************************)
(* Audio objects that play another object differently: AUDIO_SEQUENCER_    *)
(* BASE with the classes audioloop, select, playat and EWFFILE, AUDIO_IO_  *)
(* REVERSE and AUDIO_IO_RESAMPLE; and the tone generator.  The engine      *)
(* opens such an object, moves it, and reads it block by block; each keeps *)
(* a position of its own and the position of its child, the buffer size of *)
(* its child, and what was read too early.                                 *)
(*                                                                         *)
(* The child is a file.  Sample n of it is the number n; -1 is silence.    *)
(***************************************************************************)
EXTENDS Integers, Sequences, SequencesExt, FiniteSets

CONSTANTS
  StKinds,    \* classes
  StFile,     \* samples in the file
  StBlock,    \* samples in a block
  StTimes,    \* offsets, start positions and lengths, in samples
  StSeeks,    \* positions moved to
  StRatios,   \* rates: <<of the object, of its child>>
  StPhases,   \* size of the phase counter of a tone
  StSteps     \* bound on the calls

ASSUME StAssumption ==
  /\ StFile \in Nat \ {0} /\ StBlock \in Nat \ {0} /\ StTimes \subseteq Nat
  /\ StSeeks \subseteq Nat /\ StPhases \in Nat \ {0} /\ StSteps \in Nat
  /\ StRatios \subseteq (Nat \ {0}) \X (Nat \ {0})

VARIABLE st

Sequencers == {"loop", "select", "playat", "ewf"}
Hush == -1
Least(a, b) == IF a < b THEN a ELSE b
Most(a, b) == IF a > b THEN a ELSE b

----------------------------------------------------------------------------
(* The child.  Reading less than a block sets the mark of the end, seeking *)
(* clears it.                                                              *)

FileSamples == [n \in 1..StFile |-> n - 1]
AtStart(data) == [data |-> data, pos |-> 0, eof |-> FALSE]
FileBlock(f, n) == SubSeq(f.data, f.pos + 1, Least(f.pos + n, Len(f.data)))
FileRead(f, n) ==
  [f EXCEPT !.pos = @ + Len(FileBlock(f, n)), !.eof = Len(FileBlock(f, n)) < n]
FileSeek(f, to) == [f EXCEPT !.pos = to, !.eof = FALSE]
FileWrite(f, block) ==
  [f EXCEPT !.pos = @ + Len(block),
     !.data = [t \in 1..Most(Len(@), f.pos + Len(block)) |->
                 IF t > f.pos /\ t <= f.pos + Len(block) THEN block[t - f.pos]
                 ELSE IF t <= Len(@) THEN @[t] ELSE Hush]]

(* SAMPLE_BUFFER::length_in_samples(), copy_range().                       *)
Resized(b, n) == [t \in 1..n |-> IF t <= Len(b) THEN b[t] ELSE Hush]
Overlaid(b, src, from) ==
  [t \in 1..Len(b) |-> IF t > from /\ t <= from + Len(src) THEN src[t - from] ELSE b[t]]

----------------------------------------------------------------------------
(* AUDIO_SEQUENCER_BASE.                                                   *)

SegmentEnd(o) == o.start + o.clen

(* priv_public_to_child_pos().                                             *)
ChildPos(o, pos) ==
  IF pos <= o.off THEN o.start
  ELSE IF o.looping
  THEN LET loop == o.clen - o.start
           res == pos - o.off
       IN o.start + (IF loop > 0 THEN res % loop ELSE res)
  ELSE pos - o.off + o.start

(* open(): a length that was not given is that of the child.  The position *)
(* is then given to the child.                                             *)
SeqOpened(o) ==
  LET c == [o EXCEPT !.clen = IF o.given THEN @ ELSE Len(o.child.data), !.open = TRUE,
                     !.child = [@ EXCEPT !.pos = 0, !.eof = FALSE]]
  IN [c EXCEPT !.len = IF o.looping THEN @ ELSE c.off + c.clen]

(* seek_position().                                                        *)
SeqSeekPublic(o, pos) ==
  IF o.open /\ (o.mode = "read" \/ o.started)
  THEN [o EXCEPT !.child = FileSeek(@, pos)] ELSE o
SeqSeek(o, pos) ==
  IF o.open /\ (o.mode = "read" \/ o.started)
  THEN [o EXCEPT !.child = FileSeek(@, ChildPos(o, pos))] ELSE o

(* read_buffer().  Case 1: the block is before the offset.                 *)
ReadBefore(o) ==
  [o EXCEPT !.buf = [t \in 1..StBlock |-> Hush], !.pos = @ + StBlock]

(* Case 2: it begins before the offset.  The part before is not touched.   *)
ReadAcross(o) ==
  LET f == IF ChildPos(o, o.pos) # o.child.pos THEN FileSeek(o.child, ChildPos(o, o.pos)) ELSE o.child
      segment == o.pos + StBlock - o.off
  IN [o EXCEPT !.child = FileRead(f, segment), !.pos = @ + StBlock,
               !.buf = Overlaid(Resized(@, StBlock), FileBlock(f, segment), StBlock - segment)]

(* Case 3a: the end of the segment is in the block.                        *)
ReadLast(o) ==
  LET block == FileBlock(o.child, StBlock)
      n == Least(Len(block), SegmentEnd(o) - ChildPos(o, o.pos))
  IN [o EXCEPT !.child = FileRead(@, StBlock), !.buf = Resized(block, n), !.pos = @ + n]

(* Case 3b: the loop starts again in the block.                            *)
ReadAroundShort(o) ==
  LET block == FileBlock(o.child, StBlock)
      over == ChildPos(o, o.pos + StBlock) - o.start
  IN [o EXCEPT !.pos = @ + StBlock, !.buf = Resized(block, StBlock - over),
        !.child = FileSeek(@, ChildPos(o, o.pos + StBlock - over))]
ReadAround(o) ==
  LET over == ChildPos(o, o.pos + StBlock) - o.start
      again == FileSeek(FileRead(o.child, StBlock), ChildPos(o, o.pos + StBlock - over))
      block == FileBlock(o.child, StBlock)
  IN [o EXCEPT !.pos = @ + StBlock,
        !.child = IF over > 0 THEN FileRead(again, over) ELSE again,
        !.buf = IF over > 0
                THEN Overlaid(Resized(block, StBlock), FileBlock(again, over), StBlock - over)
                ELSE block]

(* Case 3c.                                                                *)
ReadOn(o) ==
  LET block == FileBlock(o.child, StBlock) IN
  [o EXCEPT !.child = FileRead(@, StBlock), !.buf = block, !.pos = @ + Len(block)]

SeqRead(o) ==
  LET one == ChildPos(o, o.pos)  two == ChildPos(o, o.pos + StBlock) IN
  IF o.pos + StBlock <= o.off THEN ReadBefore(o)
  ELSE IF o.pos < o.off THEN ReadAcross(o)
  ELSE IF two >= SegmentEnd(o) /\ ~o.looping THEN ReadLast(o)
  ELSE IF two < one /\ o.looping THEN ReadAround(o)
  ELSE ReadOn(o)

(* write_buffer(): the first block sets the offset.                        *)
SeqWrite(o, block) ==
  [o EXCEPT !.off = IF o.started THEN @ ELSE o.pos, !.started = TRUE,
            !.child = FileWrite(@, block), !.pos = @ + Len(block)]

SeqFinished(o) ==
  \/ o.child.eof
  \/ o.mode = "read" /\ ~o.looping /\ ChildPos(o, o.pos) >= SegmentEnd(o)

----------------------------------------------------------------------------
(* AUDIO_IO_REVERSE: the block before the last one read is read forwards,  *)
(* and turned round.                                                       *)

ReverseSeek(o, pos) == [o EXCEPT !.fin = FALSE]
ReverseReadLate(o) ==
  LET new == Len(o.child.data) - o.pos
      f == FileSeek(o.child, IF new <= 0 THEN 0 ELSE new)
      block == FileBlock(f, StBlock)
  IN [o EXCEPT !.child = FileRead(f, StBlock), !.fin = @ \/ new <= 0,
               !.buf = Reverse(block), !.pos = @ + StBlock]
ReverseRead(o) ==
  LET new == Len(o.child.data) - o.pos - StBlock
      count == IF new <= 0 THEN -new ELSE StBlock
      f == FileSeek(o.child, IF new <= 0 THEN 0 ELSE new)
      block == Resized(FileBlock(f, StBlock), Least(count, Len(FileBlock(f, StBlock))))
  IN [o EXCEPT !.child = FileRead(f, StBlock), !.fin = @ \/ new <= 0,
               !.buf = Reverse(block), !.pos = @ + Len(block)]

----------------------------------------------------------------------------
(* AUDIO_IO_RESAMPLE, with a resampler that repeats or skips samples.  A   *)
(* block of the child may give more than fits, which is kept for the next. *)

Up(o, n) == (n * o.ratio[1]) \div o.ratio[2]
Down(o, n) == (n * o.ratio[2]) \div o.ratio[1]
RoundedUp(o, n) == (n * o.ratio[1] + o.ratio[2] - 1) \div o.ratio[2]
AtRate(o, block) == [t \in 1..Up(o, Len(block)) |-> block[Down(o, t - 1) + 1]]

ResampleOpened(o) == [o EXCEPT !.open = TRUE, !.len = RoundedUp(o, Len(o.child.data)),
                               !.child = [@ EXCEPT !.pos = 0, !.eof = FALSE]]
ResampleSeek(o, pos) == [o EXCEPT !.child = FileSeek(@, Down(o, pos))]
SoughtTo(o, pos) == Up(o, Down(o, pos))

(* One turn of the loop of read_buffer().  The mark of the end stays with  *)
(* the buffer that is read into.                                           *)
ResampleTurnLossy(o, k) ==
  IF Len(o.buf) >= StBlock \/ o.short THEN o ELSE
  LET n == Down(o, StBlock)
      block == AtRate(o, FileBlock(o.child, n))
      f == FileRead(o.child, n)
      fits == Least(Len(block), StBlock - Len(o.buf))
      tag == o.tag \/ f.eof
  IN [o EXCEPT !.child = f, !.buf = @ \o SubSeq(block, 1, fits), !.tag = tag,
               !.short = tag /\ Len(o.buf) + fits < StBlock]
ResampleTurn(o, k) ==
  IF Len(o.buf) >= StBlock \/ o.short THEN o ELSE
  LET n == Down(o, StBlock)
      block == AtRate(o, FileBlock(o.child, n))
      f == FileRead(o.child, n)
      fits == Least(Len(block), StBlock - Len(o.buf))
      tag == o.tag \/ f.eof
  IN [o EXCEPT !.child = f, !.buf = @ \o SubSeq(block, 1, fits), !.tag = tag,
               !.left = SubSeq(block, fits + 1, Len(block)),
               !.short = tag /\ Len(o.buf) + fits < StBlock]
ResampleRead(o) ==
  LET first == [o EXCEPT !.buf = o.left, !.left = <<>>, !.short = FALSE]
      read == FoldLeft(ResampleTurn, first, [k \in 1..(StBlock + 1) |-> k])
  IN [read EXCEPT !.pos = @ + Len(read.buf)]

----------------------------------------------------------------------------
(* AUDIO_IO_TONE: samples are phases.                                      *)

ToneSeekLazy(o, pos) ==
  [o EXCEPT !.fin = @ /\ ~(o.given /\ pos < o.len)]
ToneSeek(o, pos) ==
  [o EXCEPT !.phase = (o.step * pos) % StPhases,
            !.fin = @ /\ ~(o.given /\ pos < o.len)]
ToneRead(o) ==
  LET last == o.given /\ o.pos + StBlock >= o.len
      n == IF last THEN Most(0, o.len - o.pos) ELSE StBlock
  IN [o EXCEPT !.buf = [t \in 1..n |-> (o.phase + (t - 1) * o.step) % StPhases],
               !.phase = (o.phase + n * o.step) % StPhases,
               !.fin = @ \/ last, !.pos = @ + n]

----------------------------------------------------------------------------
(* The calls of the engine.                                                *)

(* seek_position() of the classes, and the position it returns.            *)
Sought(o, pos) ==
  [(CASE o.kind \in Sequencers -> SeqSeek(o, pos)
      [] o.kind = "reverse" -> ReverseSeek(o, pos)
      [] o.kind = "resample" -> ResampleSeek(o, pos)
      [] o.kind = "tone" -> ToneSeek(o, pos)) EXCEPT
     !.pos = IF o.kind = "resample" THEN SoughtTo(o, pos) ELSE pos]

Opened(o) ==
  LET made == CASE o.kind \in Sequencers -> SeqOpened(o)
                [] o.kind = "resample" -> ResampleOpened(o)
                [] o.kind = "reverse" -> [o EXCEPT !.open = TRUE, !.len = Len(o.child.data),
                                                   !.child = AtStart(@.data)]
                [] o.kind = "tone" -> [o EXCEPT !.open = TRUE, !.fin = FALSE]
  IN [Sought(made, made.pos) EXCEPT !.pos = made.pos]

Finished(o) ==
  CASE o.kind \in Sequencers -> SeqFinished(o)
    [] o.kind \in {"reverse", "tone"} -> o.fin
    [] o.kind = "resample" -> o.child.eof

ReadBlock(o) ==
  CASE o.kind \in Sequencers -> SeqRead(o)
    [] o.kind = "reverse" -> ReverseRead(o)
    [] o.kind = "resample" -> ResampleRead(o)
    [] o.kind = "tone" -> ToneRead(o)

(* Parameters: as in the manual page, the EWF file or, for a tone, a step  *)
(* and a duration.  For the properties only: used, a block was read since  *)
(* the object was opened or moved; had, the buffer that the last block was *)
(* read into; old, how many of its samples were left from before the       *)
(* object was moved; early, a recording was moved to before its offset.    *)
Object(kind, mode) ==
  [kind |-> kind, mode |-> mode, off |-> 0, start |-> 0, clen |-> 0, given |-> FALSE,
   looping |-> FALSE, ratio |-> <<1, 1>>, step |-> 0,
   open |-> FALSE, pos |-> 0, len |-> 0, at |-> 0, buf |-> <<>>, wrote |-> <<>>,
   child |-> AtStart(IF mode = "read" THEN FileSamples ELSE <<>>),
   started |-> FALSE, fin |-> FALSE, left |-> <<>>, tag |-> FALSE, short |-> FALSE,
   phase |-> 0, used |-> FALSE, prev |-> Hush, had |-> <<>>, old |-> 0, early |-> FALSE, t |-> 0]

Segment(kind, off, start, clen, looping) ==
  [Object(kind, "read") EXCEPT !.off = off, !.start = start, !.clen = Most(clen, 0),
                               !.given = clen >= 0, !.looping = looping]

Asked ==
  {Segment("loop", 0, 0, -1, TRUE), Object("reverse", "read"), Object("ewf", "write")}
  \cup {Segment("select", 0, s, c, FALSE) : s, c \in StTimes}
  \cup {Segment("playat", a, 0, -1, FALSE) : a \in StTimes}
  \cup {Segment("ewf", a, s, c, l) : a, s \in StTimes, c \in StTimes \cup {-1}, l \in BOOLEAN}
  \cup {[Object("resample", "read") EXCEPT !.ratio = r] : r \in StRatios}
  \cup {[Object("tone", "read") EXCEPT !.step = s, !.given = l > 0, !.len = l] : s \in {1, 3}, l \in StTimes}

StInit == \E o \in Asked : o.kind \in StKinds /\ st = o

Turn(o) == st.t < StSteps /\ st' = [o EXCEPT !.t = @ + 1]

StOpen ==
  ~st.open /\ Turn([Opened(st) EXCEPT !.buf = <<>>, !.at = st.pos, !.prev = Hush, !.used = FALSE])
StSeek ==
  st.open /\ \E to \in StSeeks :
    Turn([Sought(st, to) EXCEPT !.buf = <<>>, !.at = Sought(st, to).pos, !.used = FALSE, !.prev = Hush,
            !.early = @ \/ (st.started /\ to < st.off)])
(* The engine does not read an object that is finished.  It hands over the *)
(* buffer as the chain left it, or one that is used for the first time.    *)
StRead ==
  /\ st.open /\ st.mode = "read" /\ ~Finished(st)
  /\ \E had \in {st.buf, <<>>} :
       Turn([ReadBlock([st EXCEPT !.buf = had]) EXCEPT
               !.at = st.pos, !.used = TRUE, !.had = had, !.old = IF st.used THEN 0 ELSE Len(st.left),
               !.prev = IF st.buf = <<>> THEN Hush ELSE Last(st.buf)])
StWrite ==
  /\ st.open /\ st.mode = "write"
  /\ LET block == [t \in 1..StBlock |-> st.pos + t] IN
     Turn([SeqWrite(st, block) EXCEPT
             !.wrote = [t \in 1..Most(Len(@), st.pos + StBlock) |->
                          IF t > st.pos /\ t <= st.pos + StBlock THEN t
                          ELSE IF t <= Len(@) THEN @[t] ELSE Hush]])
StClose ==
  st.open /\ st.mode = "read" /\ Turn([st EXCEPT !.open = FALSE, !.buf = <<>>, !.at = st.pos])

StNext == StOpen \/ StSeek \/ StRead \/ StWrite \/ StClose

----------------------------------------------------------------------------
(* Properties.                                                             *)

StTypeOK ==
  /\ DOMAIN st = DOMAIN Object("loop", "read") /\ st.kind \in StKinds
  /\ st.pos \in Nat /\ st.at \in Nat /\ st.child.pos \in Nat /\ st.t \in 0..StSteps
  /\ Len(st.buf) <= StBlock /\ Len(st.left) <= StBlock

(* What is used of the child, and what should be heard at a position.      *)
Length(o) == Least(IF o.given THEN o.clen ELSE StFile, Most(0, StFile - o.start))
Heard(o, p) ==
  LET c == p - o.off IN
  IF c < 0 \/ Length(o) = 0 THEN Hush
  ELSE IF o.looping THEN o.start + (c % Length(o))
  ELSE IF c < Length(o) THEN o.start + c ELSE Hush

(* The code does not loop over less than a block, nor over a segment whose *)
(* length is given unless that starts with the file.                       *)
OddLoop(o) ==
  o.looping /\ (Length(o) <= StBlock \/ (o.given /\ (o.start > 0 \/ o.clen > StFile)))
Crosses(o) == o.at < o.off /\ o.at + StBlock > o.off

(* A sequenced object gives at each position what its offset, its segment  *)
(* and its loop say, however it was moved to.  In the block that crosses   *)
(* the offset the samples before it are those the buffer held, and a       *)
(* segment that ends in it is not cut; an odd loop plays samples of the    *)
(* file from its start on.  What is recorded is in the file at its         *)
(* distance from the offset, unless it was moved to before that.           *)
SequencerExact ==
  st.kind \in Sequencers =>
    /\ \A k \in 1..Len(st.buf) :
         LET p == st.at + k - 1  x == st.buf[k] IN
         IF Crosses(st) /\ p < st.off THEN x = Resized(st.had, StBlock)[k]
         ELSE IF OddLoop(st) \/ (Crosses(st) /\ p >= st.off + Length(st))
         THEN x = Hush \/ x \in st.start..(StFile - 1)
         ELSE x = Heard(st, p)
    /\ st.mode = "write" /\ st.started /\ ~st.early =>
         \A p \in (st.off + 1)..Len(st.wrote) :
           st.wrote[p] # Hush => p - st.off <= Len(st.child.data) /\ st.child.data[p - st.off] = p

(* The position of the object after a block is that of what comes next,    *)
(* and an object says that it is finished only when all of it was read.    *)
PositionTrue ==
  st.open /\ st.mode = "read" /\ st.kind \in Sequencers /\ ~OddLoop(st) =>
    /\ st.pos >= st.off /\ ~SeqFinished(st) => st.child.pos = ChildPos(st, st.pos)
    /\ SeqFinished(st) => ~st.looping /\ (Length(st) = 0 \/ st.pos >= st.off + Length(st))

(* users_guide.latex:605: a segment is looped over as a whole.             *)
EwfLoops ==
  st.kind = "ewf" /\ st.looping /\ st.given /\ st.start > 0 =>
    \A k \in 1..Len(st.buf) : st.buf[k] = Heard(st, st.at + k - 1)

(* ecasound_manpage.yo:555: the file is played backwards.  Only what comes *)
(* before the last block is.                                               *)
Backwards == \A k \in 1..Len(st.buf) : st.buf[k] = StFile - st.at - k
ReverseExact == st.kind = "reverse" => Backwards
ReverseButLast == st.kind = "reverse" /\ ~st.fin => Backwards

(* A resampled object goes through the file in order, from where it was    *)
(* moved to, and leaves out no more than the rounding of one block; only   *)
(* what was left of the last block before it was moved is given once more, *)
(* at the start of the first block after that.                             *)
Follows(x, y, r) == y >= x /\ (y - x) * r[1] < 2 * r[2] + r[1]
ResampleWhole ==
  st.kind = "resample" /\ st.open /\ st.used =>
    LET new == SubSeq(st.buf, st.old + 1, Len(st.buf))
        all == (IF st.prev = Hush THEN <<>> ELSE <<st.prev>>) \o new \o st.left
    IN /\ st.old <= Len(st.buf)
       /\ \A k \in 1..(Len(all) - 1) : Follows(all[k], all[k + 1], st.ratio)
       /\ all # <<>> => Last(all) = st.child.pos - 1 \/ Follows(Last(all), st.child.pos, st.ratio)
(* What it does not keep: a block is full unless the file ends in it, and  *)
(* an object that is finished has given all it has read.                   *)
ResampleFull ==
  st.kind = "resample" /\ st.open =>
    /\ st.buf # <<>> => Len(st.buf) = StBlock \/ st.child.eof
    /\ Finished(st) => st.left = <<>>

(* A tone is in phase with its position, wherever it was moved from, and   *)
(* has its length.                                                         *)
ToneInPhase ==
  st.kind = "tone" /\ st.open =>
    /\ \A k \in 1..Len(st.buf) : st.buf[k] = (st.step * (st.at + k - 1)) % StPhases
    /\ st.phase = (st.step * st.pos) % StPhases
    /\ st.fin /\ st.given => st.pos >= st.len

(* What each of these objects plays at a position does not depend on how   *)
(* it came there.                                                          *)
StreamsExact == SequencerExact /\ PositionTrue /\ ReverseButLast /\ ResampleWhole /\ ToneInPhase
=============================================================================
