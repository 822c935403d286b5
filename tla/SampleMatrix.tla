----------------------------- MODULE SampleMatrix -----------------------------
(***************************************************************************)
(* What a SAMPLE_BUFFER is to the objects that use it: a matrix of samples *)
(* that may be made wider, longer, narrower or shorter at any time, where  *)
(* what comes into view is silent.  A sample is the set of the sources     *)
(* mixed in it; silence is the empty set.                                  *)
(***************************************************************************)
EXTENDS Integers, Sequences, FiniteSetsExt

CONSTANTS
  MatrixChannels,  \* numbers of channels
  MatrixLengths    \* lengths

VARIABLE view      \* a sequence of channels, each a sequence of samples, and the length

Silence == {}
Channels(v) == Len(v.rows)
Silent(n) == [t \in 1..n |-> Silence]
Cut(row, n) == [t \in 1..n |-> IF t <= Len(row) THEN row[t] ELSE Silence]

MatrixInit == view = [rows |-> <<>>, len |-> 0]

Reshape(v, c, n) ==
  [rows |-> [k \in 1..c |-> IF k <= Channels(v) THEN Cut(v.rows[k], n) ELSE Silent(n)], len |-> n]

(* Any number asked for, or the one there is.                              *)
SomeChannels == MatrixChannels \cup {Channels(view)}
SomeLengths == MatrixLengths \cup {view.len}
Resize == \E c \in SomeChannels, n \in SomeLengths : view' = Reshape(view, c, n)

(* All samples alike, and all samples of a part of some channels.          *)
Uniform(c, n, s) == [rows |-> [k \in 1..c |-> [t \in 1..n |-> s]], len |-> n]
Over(v, chans, a, b, s) ==
  [v EXCEPT !.rows = [k \in DOMAIN @ |->
     [t \in DOMAIN @[k] |-> IF k \in chans /\ t > a /\ t <= b THEN s ELSE @[k][t]]]]

(* Another buffer, all of whose samples are x, is put in, or mixed.        *)
Load == \E c \in SomeChannels, n \in SomeLengths : view' = Uniform(c, n, {"x"})
Put(v, c, n) == Over(Reshape(v, Channels(v), n), 1..c, 0, n, {"x"})
Mixed(v, c, n) ==
  LET w == Reshape(v, Channels(v), IF n > v.len THEN n ELSE v.len) IN
  [w EXCEPT !.rows = [k \in DOMAIN @ |->
     [t \in DOMAIN @[k] |-> IF k <= c /\ t <= n THEN @[k][t] \cup {"x"} ELSE @[k][t]]]]
Combine ==
  \E c \in MatrixChannels, n \in MatrixLengths : view' = Put(view, c, n) \/ view' = Mixed(view, c, n)
CopyIn ==
  \E from \in 0..view.len, n \in MatrixLengths :
    view' = Over(view, 1..Channels(view), from, from + n, {"x"})
Clear ==
  \E chans \in SUBSET (1..Channels(view)), a, b \in 0..view.len :
    view' = Over(view, chans, a, b, Silence)
(* Making room for resampling may lose what was there; resampling gives    *)
(* other samples, and another length.                                      *)
Lose == view' = Over(view, 1..Channels(view), 0, view.len, {"?"})
Resampled == view'.len \in Nat /\ view' = Uniform(Channels(view), view'.len, {"r"})

MatrixNext == Resize \/ Load \/ Combine \/ CopyIn \/ Clear \/ Lose \/ Resampled
MatrixSpec == MatrixInit /\ [][MatrixNext]_view
=============================================================================
