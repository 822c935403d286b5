----------------------------- MODULE DelayLines -----------------------------
(***************************************************************************)
(* The delay lines of the time based effects and of the comb and allpass   *)
(* filters, one channel.  A sample is represented by the time at which it  *)
(* came in, 0 stands for silence: what matters is which sample a tap gives *)
(* back, while the delay time and the number of taps are changed under a   *)
(* running engine, and while the line is initialised again.                *)
(*                                                                         *)
(*   etf etr efa efc   one queue, as long as the delay                     *)
(*   efi               one queue, popped once a counter reaches the delay  *)
(*   etd               one queue per tap, and a counter for all of them    *)
(*   etm               one ring for all taps, written downwards            *)
(*   etl               flanger, chorus and phaser: a ring twice as long as *)
(*                     the delay, read with a varying distance             *)
(***************************************************************************)
EXTENDS Integers, Sequences

CONSTANTS
  DlKinds,     \* the classes
  DlTimes,     \* delays, in samples
  DlCounts,    \* numbers of taps
  DlVariance,  \* of a modulated delay, in samples
  DlSamples,   \* bound on the samples processed
  DlSteps      \* bound on the calls that set or initialise

ASSUME DlAssumption ==
  /\ DlTimes \subseteq Nat \ {0} /\ DlCounts \subseteq Nat \ {0}
  /\ DlVariance \in Nat /\ DlSamples \in Nat /\ DlSteps \in Nat

VARIABLE dl

(* resize() to a smaller size keeps the oldest, to a larger adds silence.  *)
Shrunk(q, n) == IF Len(q) > n THEN SubSeq(q, 1, n) ELSE q
Zeros(n) == [k \in 0..(n - 1) |-> 0]
Larger(ring, n) ==
  [k \in 0..(n - 1) |-> IF k \in DOMAIN ring THEN ring[k] ELSE 0]
RingLen(ring, n) == IF n \in DOMAIN ring THEN ring ELSE Larger(ring, n)

OneQueue == {"etf", "etr", "efa", "efc"}

----------------------------------------------------------------------------
(* set_parameter() of the delay time.                                      *)

SetQueueTimeOnly(o, n) == [o EXCEPT !.time = n]
SetQueueTime(o, n) == [o EXCEPT !.time = n, !.q = [k \in DOMAIN @ |-> Shrunk(@[k], n)]]

(* The counter is set when a tap is cut.                                   *)
SetDelayTime(o, n) ==
  [SetQueueTime(o, n) EXCEPT
     !.count = IF \E k \in DOMAIN o.q : Len(o.q[k]) > n THEN n ELSE @]

SetMultitap(o, n, taps) ==
  LET made == [o EXCEPT !.time = n, !.taps = taps] IN
  IF ~o.ready THEN made
  ELSE [made EXCEPT !.ring = RingLen(@, n * taps), !.index = n * taps - 1,
                    !.filled = [k \in DOMAIN @ |-> FALSE]]

SetModulatingOn(o, n) ==
  LET made == [o EXCEPT !.time = n] IN
  IF ~o.ready THEN made ELSE [made EXCEPT !.ring = RingLen(@, 2 * n), !.filled = <<FALSE>>]
SetModulating(o, n) ==
  LET made == [o EXCEPT !.time = n] IN
  IF ~o.ready THEN made
  ELSE [made EXCEPT !.ring = RingLen(@, 2 * n), !.index = 0, !.filled = <<FALSE>>]

SetTime(o, n) ==
  CASE o.kind \in OneQueue -> SetQueueTime(o, n)
    [] o.kind = "efi" -> [o EXCEPT !.time = n]
    [] o.kind = "etd" -> SetDelayTime(o, n)
    [] o.kind = "etm" -> SetMultitap(o, n, o.taps)
    [] o.kind = "etl" -> SetModulating(o, n)

(* set_parameter() of the number of delays.                                *)
SetDelayTaps(o, n) ==
  [o EXCEPT !.taps = n, !.count = 0,
     !.q = IF o.ready THEN [k \in 1..n |-> IF k \in DOMAIN @ THEN @[k] ELSE <<>>] ELSE @]
SetTaps(o, n) ==
  IF o.kind = "etd" THEN SetDelayTaps(o, n) ELSE SetMultitap(o, o.time, n)

----------------------------------------------------------------------------
(* init().                                                                 *)

InitQueue(o) == [o EXCEPT !.q = << <<>> >>]
InitInverse(o) == [o EXCEPT !.q = << <<>> >>, !.count = 0]
(* What is cleared is the list of the taps of a channel.                   *)
InitDelay(o) == [SetDelayTime(o, o.time) EXCEPT !.q = <<>>]
InitMultitap(o) ==
  LET n == o.time * o.taps
      s == SetMultitap(o, o.time, o.taps)
  IN [s EXCEPT !.index = n - 1, !.ring = IF o.ready THEN [k \in DOMAIN s.ring |-> 0] ELSE Zeros(n),
       !.filled = IF o.ready THEN [k \in DOMAIN @ |-> FALSE] ELSE [k \in 1..o.taps |-> FALSE]]
(* The time is set before the rings are made, and then points behind them. *)
InitModulating(o) ==
  LET s == SetModulating(o, o.time) IN
  IF o.ready THEN [s EXCEPT !.ring = [k \in DOMAIN @ |-> 0]]
  ELSE [s EXCEPT !.ring = Zeros(2 * o.time), !.index = 2 * o.time, !.filled = <<FALSE>>]

InitLines(o) ==
  [(CASE o.kind \in OneQueue -> InitQueue(SetQueueTime(o, o.time))
      [] o.kind = "efi" -> InitInverse(o)
      [] o.kind = "etd" -> InitDelay(o)
      [] o.kind = "etm" -> InitMultitap(o)
      [] o.kind = "etl" -> InitModulating(o)) EXCEPT !.ready = TRUE]

----------------------------------------------------------------------------
(* process(), one sample.                                                  *)

ProcessQueue(o, t) ==
  LET q == o.q[1]  full == Len(q) >= o.time IN
  [o EXCEPT !.q = <<Append(IF full THEN Tail(q) ELSE q, t)>>,
            !.out = <<IF full THEN Head(q) ELSE 0>>]

ProcessInverse(o, t) ==
  LET q == Append(o.q[1], t)  full == o.count >= o.time IN
  [o EXCEPT !.q = <<IF full THEN Tail(q) ELSE q>>,
            !.out = <<IF full THEN Head(q) ELSE 0>>,
            !.count = IF full THEN @ ELSE @ + 1]

ProcessDelay(o, t) ==
  LET due(k) == o.count >= o.time * k
      usable == \A k \in 1..o.taps : k \in DOMAIN o.q /\ (due(k) => o.q[k] # <<>>)
  IN IF ~usable THEN [o EXCEPT !.bad = TRUE]
     ELSE [o EXCEPT !.out = [k \in 1..o.taps |-> IF due(k) THEN Head(o.q[k]) ELSE 0],
             !.q = [k \in DOMAIN @ |-> Append(IF due(k) THEN Tail(@[k]) ELSE @[k], t)],
             !.count = IF @ < o.time * o.taps THEN @ + 1 ELSE @]

ProcessMultitap(o, t) ==
  LET len == o.time * o.taps
      next == o.index - 1
      at(k) == (o.index + (k - 1) * o.time) % len
      usable == 1..o.taps \subseteq DOMAIN o.filled
  IN IF ~usable THEN [o EXCEPT !.bad = TRUE]
     ELSE [o EXCEPT
             !.out = [k \in 1..o.taps |-> IF o.filled[k] THEN o.ring[at(k)] ELSE 0],
             !.ring[o.index] = t,
             !.filled = [k \in DOMAIN @ |-> @[k] \/ (k <= o.taps /\ next < len - o.time * (k - 1))],
             !.index = IF next = -1 THEN len - 1 ELSE next]

ProcessModulating(o, t, p) ==
  LET at == (o.time + o.index + p) % (2 * o.time)
      last == o.index + 1 = 2 * o.time
  IN IF o.index \notin DOMAIN o.ring THEN [o EXCEPT !.bad = TRUE]
     ELSE [o EXCEPT !.out = <<IF o.filled[1] THEN o.ring[at] ELSE 0>>,
             !.ring[o.index] = t,
             !.index = IF last THEN 0 ELSE @ + 1,
             !.filled[1] = @ \/ last]

Processed(o, t, p) ==
  CASE o.kind \in OneQueue -> ProcessQueue(o, t)
    [] o.kind = "efi" -> ProcessInverse(o, t)
    [] o.kind = "etd" -> ProcessDelay(o, t)
    [] o.kind = "etm" -> ProcessMultitap(o, t)
    [] o.kind = "etl" -> ProcessModulating(o, t, p)

----------------------------------------------------------------------------
(* What the properties are told, which the code does not keep: set, the    *)
(* line was set up again after its last init(); made, the taps at its first*)
(* init(); off, its queues have been given another length than its delay:  *)
(* -efi made shorter, -etd made longer or given its taps while samples are *)
(* in its queues.                                                          *)
NewLine(k, n, c) ==
  [kind |-> k, time |-> n, taps |-> c, ready |-> FALSE, bad |-> FALSE,
   q |-> <<>>, count |-> 0, ring |-> Zeros(0), index |-> 0, filled |-> <<>>,
   out |-> <<>>, set |-> FALSE, made |-> 0, off |-> FALSE, t |-> 0, since |-> 0, steps |-> 0]
DlInit == \E k \in DlKinds, n \in DlTimes, c \in DlCounts : dl = NewLine(k, n, c)

DlChange(o) ==
  /\ dl.steps < DlSteps /\ ~dl.bad
  /\ dl' = [o EXCEPT !.steps = @ + 1, !.since = 0, !.out = <<>>]

Running(o) == \E k \in DOMAIN o.q : o.q[k] # <<>>

LengthChanged(o, n) ==
  Running(o) /\ ((o.kind = "efi" /\ n < o.time) \/ (o.kind = "etd" /\ n > o.time))

DlSetTime ==
  \E n \in DlTimes :
    DlChange([SetTime(dl, n) EXCEPT !.set = @ \/ dl.kind = "etl",
                !.off = @ \/ LengthChanged(dl, n)])
DlSetTaps ==
  /\ dl.kind \in {"etd", "etm"}
  /\ \E n \in DlCounts :
       DlChange([SetTaps(dl, n) EXCEPT !.set = dl.ready, !.off = @ \/ (Running(dl) /\ dl.kind = "etd")])
DlInitialise ==
  DlChange([InitLines(dl) EXCEPT !.set = FALSE, !.off = FALSE,
              !.made = IF dl.ready THEN @ ELSE dl.taps])
DlProcess ==
  /\ dl.ready /\ ~dl.bad /\ dl.t < DlSamples
  /\ \E p \in (IF dl.kind = "etl" THEN 0..DlVariance ELSE {0}) :
       dl' = [Processed(dl, dl.t + 1, p) EXCEPT !.t = @ + 1, !.since = @ + 1]

DlNext == DlSetTime \/ DlSetTaps \/ DlInitialise \/ DlProcess

----------------------------------------------------------------------------
(* Properties.                                                             *)

DlTypeOK ==
  /\ dl.kind \in DlKinds /\ dl.time \in DlTimes /\ dl.taps \in DlCounts
  /\ dl.ready \in BOOLEAN /\ dl.bad \in BOOLEAN /\ dl.count \in Nat
  /\ dl.t \in 0..DlSamples /\ dl.since \in 0..dl.t /\ dl.steps \in 0..DlSteps

(* What the delay of a tap should be.  The ring of a multitap delay is     *)
(* read, for the first tap, where it is about to be written.               *)
TapDelays(o, k) ==
  CASE o.kind = "etd" -> {o.time * k}
    [] o.kind = "etm" -> {IF k = 1 THEN o.time * o.taps ELSE o.time * (k - 1)}
    [] o.kind = "etl" -> {(2 * o.time - ((o.time + p) % (2 * o.time))) : p \in 0..DlVariance}
    [] OTHER -> {o.time}
LongestDelay(o) ==
  CASE o.kind \in {"etd", "etm"} -> o.time * o.taps
    [] o.kind = "etl" -> 2 * o.time
    [] OTHER -> o.time

(* When as many samples as the line is long have passed since a change of  *)
(* a running delay, each tap gives the sample of its delay time ago: no    *)
(* sequence of changes leaves a line of another length behind, but for the *)
(* queues that are off, until they are emptied by init().                  *)
TapExact ==
  dl.ready /\ dl.out # <<>> /\ dl.since > LongestDelay(dl) /\ ~dl.off =>
    \A k \in DOMAIN dl.out : \E d \in TapDelays(dl, k) : dl.out[k] = dl.t - d

(* No sample is read from or written to a line that does not exist, if the *)
(* taps of -etd and the time of -etl are set once more after init() (which *)
(* drops the one's queues and points behind the other's ring), and -etm    *)
(* has no more taps than at its first init().                              *)
LinesUsable ==
  dl.bad => \/ dl.kind \in {"etd", "etl"} /\ ~dl.set
            \/ dl.kind = "etm" /\ dl.taps > dl.made

(* The two together.                                                       *)
LinesExact == TapExact /\ LinesUsable
=============================================================================
