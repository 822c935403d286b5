----------------------------- MODULE SampleBuffer -----------------------------
(***************************************************************************)
(* SAMPLE_BUFFER: blocks of memory, one per channel, that are kept when    *)
(* the buffer is made smaller and reused when it grows again.  It is shown *)
(* to be a SampleMatrix: nothing of what is left in the memory comes back  *)
(* into view, and no access is outside of the memory.                      *)
(*                                                                         *)
(* Samples are the sets of SampleMatrix; memory that has not been written  *)
(* holds {"?"}.  The operations that use another buffer take one whose     *)
(* samples are all {"x"}.                                                  *)
(***************************************************************************)
EXTENDS Integers, Sequences, FiniteSetsExt

CONSTANTS
  SbChannels,     \* numbers of channels asked for
  SbLengths,      \* lengths asked for
  SbSteps,        \* bound on the calls
  SbPairs,        \* ratios of rates: <<to, from>>
  SbMargin,       \* samples added for resampling
  SbRanges,       \* ranges made silent: <<start, end>>
  SbNarrowInit,   \* may memory be made for resampling when channels are out of use?
  SbInitAgain,    \* may it be made twice?
  SbEmptyResample \* may an empty buffer be resampled?

ASSUME SbAssumption ==
  /\ SbChannels \subseteq Nat /\ SbLengths \subseteq Nat /\ SbSteps \in Nat
  /\ SbPairs \subseteq (Nat \ {0}) \X (Nat \ {0}) /\ SbMargin \in Nat
  /\ SbNarrowInit \in BOOLEAN /\ SbInitAgain \in BOOLEAN /\ SbEmptyResample \in BOOLEAN

VARIABLE sb

Garbage == {"?"}
Greater(a, b) == IF a > b THEN a ELSE b
Smaller(a, b) == IF a < b THEN a ELSE b
Block(n) == [t \in 1..n |-> Garbage]

(* Samples from..to of the channels in chans are set; f gives the sample.  *)
Write(o, chans, from, to, f) ==
  [o EXCEPT
    !.bad = @ \/ \E c \in chans : from <= to /\ to > Len(o.mem[c]),
    !.mem = [c \in DOMAIN @ |->
       IF c \in chans THEN [t \in DOMAIN @[c] |-> IF t \in from..to THEN f ELSE @[c][t]] ELSE @[c]]]

Active(o) == 1..o.channels

(* number_of_channels(len).                                                *)
NumberOfChannelsOnly(o, n) ==
  LET new == IF n <= Len(o.mem) THEN o
             ELSE [o EXCEPT !.mem = @ \o [k \in 1..(n - Len(@)) |-> Block(o.reserved)]]
  IN [new EXCEPT !.channels = n]
NumberOfChannels(o, n) ==
  LET new == IF n <= Len(o.mem) THEN o
             ELSE [o EXCEPT !.mem = @ \o [k \in 1..(n - Len(@)) |-> Block(o.reserved)]]
      fresh == (o.channels + 1)..n
  IN [Write(new, fresh, 1, o.reserved, {}) EXCEPT !.channels = n]

(* length_in_samples(len).                                                 *)
Reallocate(o, n) ==
  IF n <= o.reserved THEN o
  ELSE [o EXCEPT !.reserved = n * 2, !.old = IF @ = 0 THEN 0 ELSE n * 2,
          !.bad = @ \/ \E c \in DOMAIN o.mem : o.len > Len(o.mem[c]),
          !.mem = [c \in DOMAIN @ |-> [t \in 1..(n * 2) |->
                     IF t <= o.len /\ t <= Len(@[c]) THEN @[c][t] ELSE Garbage]]]
LengthInSamples(o, n) ==
  LET r == Reallocate(o, n) IN
  [(IF n > o.len THEN Write(r, DOMAIN r.mem, o.len + 1, r.reserved, {}) ELSE r) EXCEPT !.len = n]

(* The constructor.                                                        *)
New(c, n) ==
  Write([mem |-> [k \in 1..c |-> Block(n)], channels |-> c, len |-> n, reserved |-> n,
         old |-> 0, bad |-> FALSE, steps |-> 0], 1..c, 1, n, {})

(* copy_all_content(), copy_matching_channels(), add_matching_channels(),  *)
(* add_with_weight(), copy_range() of a buffer of c channels, n samples.   *)
CopyAll(o, c, n) ==
  LET w == NumberOfChannels(LengthInSamples(o, n), c) IN Write(w, 1..c, 1, n, {"x"})
CopyMatching(o, c, n) ==
  LET w == LengthInSamples(o, n) IN Write(w, 1..Smaller(c, o.channels), 1, n, {"x"})
AddMatching(o, c, n) ==
  LET w == IF n > o.len THEN LengthInSamples(o, n) ELSE o
      chans == 1..Smaller(c, o.channels)
  IN [w EXCEPT
        !.bad = @ \/ \E k \in chans : n > Len(w.mem[k]),
        !.mem = [k \in DOMAIN @ |-> IF k \in chans
                  THEN [t \in DOMAIN @[k] |-> IF t <= n THEN @[k][t] \cup {"x"} ELSE @[k][t]]
                  ELSE @[k]]]
AddWithWeight(o, c, n) == AddMatching(o, c, n)
CopyRange(o, from, n) == Write(o, Active(o), from + 1, Smaller(from + n, o.len), {"x"})

(* multiply_by(): by zero, which is also make_silent() of a channel.       *)
MultiplyByZero(o, c) == Write(o, {c}, 1, o.len, {})
MakeSilent(o) == Write(o, Active(o), 1, o.len, {})
(* The length that is cleared is the end of the range.                     *)
MakeSilentRange(o, a, b) == Write(o, Active(o), a + 1, a + Smaller(b, o.len), {})
MakeEmpty(o) == LengthInSamples(o, 0)

ReserveChannels(o, n) == NumberOfChannels(NumberOfChannels(o, n), o.channels)
ReserveLength(o, n) == LengthInSamples(LengthInSamples(o, n), o.len)

(* import_interleaved() and export_interleaved(), and their noninterleaved *)
(* forms.                                                                  *)
Import(o, c, n) ==
  LET w == LengthInSamples(NumberOfChannels(o, c), n) IN Write(w, 1..c, 1, n, {"x"})
Export(o, c) == IF c > o.channels THEN NumberOfChannels(o, c) ELSE o

(* resample_init_memory(), resample_with_memory().                         *)
Scaled(n, p) == (n * p[1]) \div p[2]
ResampleInit(o, p) ==
  LET need == Scaled(o.len, p) + SbMargin
      size == IF need > o.reserved THEN need * 2 ELSE o.reserved
  IN [o EXCEPT !.reserved = size,
        !.mem = [c \in DOMAIN @ |-> IF c \in Active(o) /\ need > o.reserved THEN Block(size) ELSE @[c]],
        !.old = IF @ = 0 THEN size ELSE @]
Resample(o, p) ==
  LET w == LengthInSamples(o, Scaled(o.len, p)) IN
  [Write(w, Active(o), 1, w.len, {"r"}) EXCEPT !.bad = @ \/ o.len > w.old \/ o.len = 0]

----------------------------------------------------------------------------
SbInit == sb = New(0, 0)

SbCall(o) == sb.steps < SbSteps /\ ~sb.bad /\ sb' = [o EXCEPT !.steps = @ + 1]

SetShape ==
  \/ \E n \in SbChannels : SbCall(NumberOfChannels(sb, n)) \/ SbCall(ReserveChannels(sb, n)) \/ (n > 0 /\ SbCall(Export(sb, n)))
  \/ \E n \in SbLengths : SbCall(LengthInSamples(sb, n)) \/ SbCall(ReserveLength(sb, n))
  \/ SbCall(MakeEmpty(sb))
CopyFrom ==
  \E c \in SbChannels, n \in SbLengths :
    \/ SbCall(CopyAll(sb, c, n))
    \/ SbCall(CopyMatching(sb, c, n))
    \/ SbCall(AddMatching(sb, c, n))
    \/ SbCall(AddWithWeight(sb, c, n))
    \/ SbCall(Import(sb, c, n))
CopyPart ==
  \E from \in 0..(sb.len - 1), n \in SbLengths : SbCall(CopyRange(sb, from, n))
Silencing ==
  \/ \E c \in Active(sb) : SbCall(MultiplyByZero(sb, c))
  \/ SbCall(MakeSilent(sb))
  \/ \E r \in SbRanges : r[2] <= sb.len /\ SbCall(MakeSilentRange(sb, r[1], r[2]))
PrepareResampling ==
  \E p \in SbPairs :
    /\ SbNarrowInit \/ sb.channels = Len(sb.mem)
    /\ SbInitAgain \/ sb.old = 0
    /\ SbCall(ResampleInit(sb, p))
Resampling ==
  \E p \in SbPairs :
    /\ sb.old > 0 /\ (SbEmptyResample \/ sb.len > 0)
    /\ SbCall(Resample(sb, p))

SbNext == SetShape \/ CopyFrom \/ CopyPart \/ Silencing \/ PrepareResampling \/ Resampling
SbSpec == SbInit /\ [][SbNext]_sb

----------------------------------------------------------------------------
(* Properties.                                                             *)

SbTypeOK ==
  /\ sb.channels \in 0..Len(sb.mem) /\ sb.len \in 0..sb.reserved
  /\ sb.steps \in 0..SbSteps /\ sb.bad \in BOOLEAN /\ sb.old \in Nat

(* No operation reads or writes outside of the memory of a channel, or of  *)
(* the block the resampler copies from, whatever was made smaller before.  *)
WithinMemory == ~sb.bad

(* What is in use is what a matrix of samples would hold: nothing left     *)
(* from before a change of the length or of the channels comes back.       *)
Visible ==
  [rows |-> [c \in Active(sb) |-> [t \in 1..sb.len |-> IF t <= Len(sb.mem[c]) THEN sb.mem[c][t] ELSE Garbage]],
   len |-> sb.len]
Matrix == INSTANCE SampleMatrix WITH
  view <- Visible, MatrixChannels <- SbChannels \cup {0},
  MatrixLengths <- SbLengths \cup {0}
IsMatrix == Matrix!MatrixSpec /\ []WithinMemory
=============================================================================
