------------------------------ MODULE Dynamics ------------------------------
(***************************************************************************)
(* The operators and controllers that decide by what they have seen so     *)
(* far: the noise gate (one channel, sample by sample), the threshold, the *)
(* time crop and the manual gate (block by block), the peak meter and the  *)
(* volume statistics, which another thread reads while the engine runs,    *)
(* and the envelopes of controllers, which remember the stage in which     *)
(* they last found a position.                                             *)
(*                                                                         *)
(* Levels are ranked: a sample or the volume of a block is "low" or "high" *)
(* against the thresholds; for the threshold gate, which has two, "mid"    *)
(* lies between them.                                                      *)
(***************************************************************************)
EXTENDS Integers, Sequences, FiniteSets, FiniteSetsExt

CONSTANTS
  DyKinds,       \* the operators
  NgTimes,       \* times of a noise gate, in samples
  ThReopens,     \* values of the reopen count of a threshold gate
  GateLen,       \* samples in a block
  CropTimes,     \* start times and durations of a crop gate, in samples
  EnvPoints,     \* sequences of points <<position, value>>, in order
  EnvPositions,  \* positions asked for
  OscPresets,    \* envelopes of an oscillator: first and last value, points between
  OscUnit,       \* the period of an oscillator, in steps of its envelope
  DySteps        \* bound on the calls

ASSUME DyAssumption ==
  /\ NgTimes \subseteq Nat \ {0} /\ GateLen \in Nat \ {0} /\ CropTimes \subseteq Nat
  /\ DySteps \in Nat

VARIABLE dy

Step(o) == dy.steps < DySteps /\ dy' = [o EXCEPT !.steps = @ + 1]

----------------------------------------------------------------------------
(* EFFECT_NOISEGATE.  lows: consecutive samples below the threshold;       *)
(* above: samples over it, and run: consecutive ones, since the gate was   *)
(* closed.                                                                 *)

NgNew == \E t, a, h, r \in NgTimes :
  dy = [kind |-> "enm", steps |-> 0, state |-> "waiting", th |-> t, attack |-> a,
        hold |-> h, release |-> r, count |-> [waiting |-> 0, attacking |-> 0, holding |-> 0, releasing |-> 0],
        lows |-> 0, above |-> 0, run |-> 0, gain |-> <<1, 1>>]

CountedOn(o, what, limit, next) ==
  LET n == o.count[what] + 1 IN
  [o EXCEPT !.count[what] = n, !.state = IF n >= limit THEN next ELSE @]
Counted(o, what, limit, next) ==
  LET n == o.count[what] + 1 IN
  IF n >= limit THEN [o EXCEPT !.count[what] = 0, !.state = next]
  ELSE [o EXCEPT !.count[what] = n]

NgWaitingOn(o, below) ==
  IF below THEN Counted(o, "waiting", o.th, "attacking") ELSE o
NgWaiting(o, below) ==
  IF below THEN Counted(o, "waiting", o.th, "attacking") ELSE [o EXCEPT !.count["waiting"] = 0]

NgAttacking(o, below) ==
  IF ~below THEN [o EXCEPT !.count["attacking"] = 0, !.state = "waiting", !.gain = <<1, 1>>]
  ELSE [Counted(o, "attacking", o.attack, "active") EXCEPT
          !.gain = <<o.attack - (o.count["attacking"] + 1), o.attack>>]

NgActive(o, below) ==
  [o EXCEPT !.state = IF below THEN @ ELSE "holding", !.gain = <<0, 1>>]

(* Only the samples over the threshold are counted.                        *)
NgHolding(o, below) ==
  [(IF below THEN o ELSE Counted(o, "holding", o.hold, "releasing")) EXCEPT !.gain = <<0, 1>>]

NgReleasing(o) ==
  [Counted(o, "releasing", o.release, "waiting") EXCEPT
     !.gain = <<o.count["releasing"] + 1, o.release>>]

NgProcess(o, below) ==
  CASE o.state = "waiting" -> [NgWaiting(o, below) EXCEPT !.gain = <<1, 1>>]
    [] o.state = "attacking" -> NgAttacking(o, below)
    [] o.state = "active" -> NgActive(o, below)
    [] o.state = "holding" -> NgHolding(o, below)
    [] o.state = "releasing" -> NgReleasing(o)

NgSample ==
  dy.kind = "enm" /\ \E below \in BOOLEAN :
    LET seen == [dy EXCEPT !.lows = IF below THEN @ + 1 ELSE 0,
                   !.run = IF below THEN 0 ELSE @ + 1, !.above = IF below THEN @ ELSE @ + 1]
        n == NgProcess(seen, below)
    IN Step(IF n.state = "active" /\ dy.state # "active"
            THEN [n EXCEPT !.above = 0, !.run = 0] ELSE n)

----------------------------------------------------------------------------
(* The gates that cut whole blocks.  A closed gate sets the length of the  *)
(* block to zero.                                                          *)

GateBlock(o, size) == [o EXCEPT !.out = IF o.open THEN size ELSE 0]

ThNew == \E n \in ThReopens :
  dy = [kind |-> "ge", steps |-> 0, reopen |-> n, left |-> n, opened |-> FALSE,
        closed |-> FALSE, open |-> FALSE, out |-> 0, opens |-> 0, granted |-> n]

ThAnalyzeAgain(o, volume) ==
  IF ~o.opened
  THEN IF volume # "high" THEN o
       ELSE [o EXCEPT !.open = TRUE, !.opened = TRUE, !.closed = FALSE, !.opens = @ + 1]
  ELSE IF o.closed \/ volume # "low" THEN o
       ELSE [o EXCEPT !.open = FALSE, !.closed = TRUE,
               !.opened = o.left < 0, !.left = IF o.left > 0 THEN @ - 1 ELSE @]
ThAnalyze(o, volume) ==
  IF ~o.opened
  THEN IF volume # "high" THEN o
       ELSE [o EXCEPT !.open = TRUE, !.opened = TRUE, !.closed = FALSE, !.opens = @ + 1]
  ELSE IF o.closed \/ volume # "low" THEN o
       ELSE [o EXCEPT !.open = FALSE, !.closed = TRUE,
               !.opened = o.left = 0, !.left = IF o.left > 0 THEN @ - 1 ELSE @]

ThBlock ==
  dy.kind = "ge" /\ \E v \in {"low", "mid", "high"} : Step(GateBlock(ThAnalyze(dy, v), GateLen))
(* set_parameter(4); it counts from the next init().                       *)
ThSet == dy.kind = "ge" /\ \E n \in ThReopens : Step([dy EXCEPT !.reopen = n])
ThInitialise ==
  dy.kind = "ge" /\ Step([dy EXCEPT !.left = dy.reopen, !.opened = FALSE, !.closed = FALSE,
                                    !.open = FALSE, !.out = 0, !.opens = 0, !.granted = dy.reopen])

(* A crop gate counts the samples it is given; passed: the samples it let  *)
(* through since the start time was set, if its length has not changed.    *)
CropNew == \E b, d \in CropTimes :
  dy = [kind |-> "gc", steps |-> 0, begin |-> b, length |-> d, pos |-> 0, open |-> FALSE,
        out |-> 0, passed |-> 0, known |-> TRUE]

CropAnalyze(o, size) ==
  [o EXCEPT !.open = o.pos >= o.begin /\ (o.length = 0 \/ o.pos < o.begin + o.length),
            !.pos = @ + size]
CropBlock ==
  dy.kind = "gc" /\ \E size \in 1..GateLen :
    LET n == GateBlock(CropAnalyze(dy, size), size) IN Step([n EXCEPT !.passed = @ + n.out])
CropSet ==
  /\ dy.kind = "gc"
  /\ \E x \in CropTimes :
       \/ Step([dy EXCEPT !.begin = x, !.pos = 0, !.passed = 0, !.known = TRUE])
       \/ Step([dy EXCEPT !.length = x, !.known = FALSE])

ManualNew == \E b \in BOOLEAN :
  dy = [kind |-> "gm", steps |-> 0, wanted |-> b, open |-> FALSE, out |-> 0]
ManualAnalyze(o) == [o EXCEPT !.open = o.wanted]
ManualBlock == dy.kind = "gm" /\ Step(GateBlock(ManualAnalyze(dy), GateLen))
ManualSet == dy.kind = "gm" /\ \E b \in BOOLEAN : Step([dy EXCEPT !.wanted = b])

----------------------------------------------------------------------------
(* EFFECT_VOLUME_PEAK: get_parameter() reads the peak and clears it, with  *)
(* no lock, and the engine may come between.  unread: the highest sample   *)
(* since the last read began; missed: the highest that came between.       *)

PeakNew ==
  dy = [kind |-> "evp", steps |-> 0, peak |-> 0, reading |-> FALSE, got |-> 0, unread |-> 0, missed |-> 0]
PeakProcess(o, x) ==
  [o EXCEPT !.peak = Max({@, x}), !.unread = Max({@, x}), !.missed = IF o.reading THEN Max({@, x}) ELSE @]
PeakBlock == dy.kind = "evp" /\ \E x \in 0..2 : Step(PeakProcess(dy, x))
PeakRead ==
  dy.kind = "evp" /\ ~dy.reading /\ Step([dy EXCEPT !.got = dy.peak, !.reading = TRUE, !.unread = 0, !.missed = 0])
PeakClear == dy.kind = "evp" /\ dy.reading /\ Step([dy EXCEPT !.peak = 0, !.reading = FALSE])

(* EFFECT_VOLUME_BUCKETS: the engine only tries the lock, and does not     *)
(* look at the block when status() has it.                                 *)
BucketNew ==
  dy = [kind |-> "ev", steps |-> 0, lock |-> "none", todo |-> <<>>, total |-> 0,
        bucket |-> [b \in {"loud", "quiet"} |-> 0], seen |-> <<0, 0>>]
BucketAlways ==
  /\ dy.kind = "ev" /\ dy.todo = <<>>
  /\ \E b \in {<<"loud">>, <<"loud", "quiet">>} : Step([dy EXCEPT !.todo = <<"total">> \o b])
BucketTry ==
  /\ dy.kind = "ev" /\ dy.todo = <<>>
  /\ IF dy.lock = "none"
     THEN \E b \in {<<"loud">>, <<"loud", "quiet">>} :
            Step([dy EXCEPT !.lock = "engine", !.todo = <<"total">> \o b])
     ELSE Step(dy)
(* A sample is counted, then put in its bucket.                            *)
BucketCount(o) ==
  LET rest == [o EXCEPT !.todo = Tail(@)] IN
  IF Head(o.todo) = "total" THEN [rest EXCEPT !.total = @ + 1]
  ELSE [rest EXCEPT !.bucket[Head(o.todo)] = @ + 1,
                    !.todo = IF @ = <<>> THEN @ ELSE <<"total">> \o @]
BucketSample ==
  /\ dy.kind = "ev" /\ dy.todo # <<>>
  /\ LET n == BucketCount(dy) IN
     dy' = IF n.todo = <<>> THEN [n EXCEPT !.lock = "none"] ELSE n
StatusLock == dy.kind = "ev" /\ dy.lock = "none" /\ Step([dy EXCEPT !.lock = "status"])
StatusRead(o) == [o EXCEPT !.seen = <<o.total, o.bucket["loud"] + o.bucket["quiet"]>>]
StatusUnlock ==
  dy.kind = "ev" /\ dy.lock = "status" /\ Step([StatusRead(dy) EXCEPT !.lock = "none"])
BucketInitialise ==
  /\ dy.kind = "ev" /\ dy.lock = "none"
  /\ Step([dy EXCEPT !.total = 0, !.bucket = [b \in DOMAIN @ |-> 0]])

----------------------------------------------------------------------------
(* Controller sources.  A value is a fraction.                             *)

Between(p, q, x) == <<(x - p[1]) * q[2] + (q[1] - x) * p[2], q[1] - p[1]>>

(* GENERIC_LINEAR_ENVELOPE; stages are counted from 0.                     *)
EnvNew == \E e \in EnvPoints :
  dy = [kind |-> "klg", steps |-> 0, points |-> e, stage |-> -1, asked |-> -1, got |-> <<0, 1>>]

EnvValid(o, x) ==
  /\ o.stage \in 0..(Len(o.points) - 2)
  /\ x >= o.points[o.stage + 1][1] /\ x < o.points[o.stage + 2][1]
EnvSetStageLate(o, x) ==
  [o EXCEPT !.stage =
     IF x < o.points[1][1] THEN -1
     ELSE Min({n \in 0..(Len(o.points) - 2) : x <= o.points[n + 2][1]} \cup {Len(o.points) - 1})]
EnvSetStage(o, x) ==
  [o EXCEPT !.stage =
     IF x < o.points[1][1] THEN -1
     ELSE Min({n \in 0..(Len(o.points) - 2) : x < o.points[n + 2][1]} \cup {Len(o.points) - 1})]
EnvValue(o, x) ==
  LET s == IF EnvValid(o, x) THEN o ELSE EnvSetStage(o, x) IN
  [s EXCEPT !.asked = x,
     !.got = IF EnvValid(s, x) THEN Between(o.points[s.stage + 1], o.points[s.stage + 2], x)
             ELSE IF s.stage < 0 THEN <<o.points[1][2], 1>> ELSE <<o.points[Len(o.points)][2], 1>>]
EnvAsk == dy.kind = "klg" /\ \E x \in EnvPositions : Step(EnvValue(dy, x))
(* set_parameter() changes one position or one value.                      *)
OneApart(e, f) ==
  /\ Len(e) = Len(f)
  /\ Cardinality({k \in 1..Len(e) : e[k][1] # f[k][1]}) + Cardinality({k \in 1..Len(e) : e[k][2] # f[k][2]}) = 1
EnvSet ==
  /\ dy.kind = "klg"
  /\ \E e \in EnvPoints : OneApart(dy.points, e) /\ Step([dy EXCEPT !.points = e, !.asked = -1])

(* LINEAR_ENVELOPE and TWO_STAGE_LINEAR_ENVELOPE: a ramp after a hold.     *)
RampNew == \E h, l \in EnvPositions, k \in {"kl", "kl2"} :
  /\ k = "kl" => h = 0
  /\ dy = [kind |-> k, steps |-> 0, hold |-> h, ramp |-> l, asked |-> -1, got |-> <<0, 1>>]
LinearValue(o, x) == IF x < o.ramp THEN <<x, o.ramp>> ELSE <<1, 1>>
TwoStageValue(o, x) ==
  IF x < o.hold THEN <<0, 1>>
  ELSE IF x < o.hold + o.ramp THEN <<x - o.hold, o.ramp>> ELSE <<1, 1>>
RampAsk ==
  /\ dy.kind \in {"kl", "kl2"}
  /\ \E x \in EnvPositions :
       Step([dy EXCEPT !.asked = x,
               !.got = IF dy.kind = "kl" THEN LinearValue(dy, x) ELSE TwoStageValue(dy, x)])

(* GENERIC_OSCILLATOR: the search for a stage starts where the last one    *)
(* ended, and goes round.  Points are not removed by a preset that has     *)
(* fewer than the one before.                                              *)
Prepared(first, last, points) == <<<<0, first>>>> \o points \o <<<<OscUnit, last>>>>
OscNew == \E e \in OscPresets, m \in {0, 1} :
  dy = [kind |-> "kog", steps |-> 0, mode |-> m, table |-> Prepared(e.first, e.last, e.points),
        points |-> e.points, preset |-> e, stage |-> 0, asked |-> -1, at |-> 0, got |-> <<0, 1>>]
OscStage(o, x) ==
  LET n == Len(o.table) - 1
      around(k) == (o.stage + k) % n
      found == {k \in 0..(n - 1) :
                  x >= o.table[around(k) + 1][1] /\ x < o.table[around(k) + 2][1]}
  IN IF found = {} THEN o
     ELSE [o EXCEPT !.stage = around(Min(found)), !.at = x]
OscValue(o, pos) ==
  LET s == OscStage(o, pos % OscUnit)
      p == s.table[s.stage + 1]  q == s.table[s.stage + 2]
  IN [s EXCEPT !.asked = pos % OscUnit,
        !.got = IF s.mode = 0 THEN <<p[2], 1>> ELSE Between(p, q, s.at)]
OscAsk == dy.kind = "kog" /\ \E x \in EnvPositions : Step(OscValue(dy, x))
ParseEnvelope(o, e) ==
  LET all == [k \in 1..Max({Len(o.points), Len(e.points)}) |->
                IF k <= Len(e.points) THEN e.points[k] ELSE o.points[k]]
  IN [o EXCEPT !.points = all, !.preset = e, !.table = Prepared(e.first, e.last, all)]
OscPreset == dy.kind = "kog" /\ \E e \in OscPresets : Step([ParseEnvelope(dy, e) EXCEPT !.asked = -1])

----------------------------------------------------------------------------
DyInit ==
  \/ "enm" \in DyKinds /\ NgNew
  \/ "ge" \in DyKinds /\ ThNew
  \/ "gc" \in DyKinds /\ CropNew
  \/ "gm" \in DyKinds /\ ManualNew
  \/ "evp" \in DyKinds /\ PeakNew
  \/ "ev" \in DyKinds /\ BucketNew
  \/ "klg" \in DyKinds /\ EnvNew
  \/ "kl" \in DyKinds /\ RampNew
  \/ "kog" \in DyKinds /\ OscNew

DyNext ==
  \/ NgSample
  \/ ThBlock \/ ThSet \/ ThInitialise
  \/ CropBlock \/ CropSet \/ ManualBlock \/ ManualSet
  \/ PeakBlock \/ PeakRead \/ PeakClear
  \/ BucketTry \/ BucketSample \/ StatusLock \/ StatusUnlock \/ BucketInitialise
  \/ EnvAsk \/ EnvSet \/ RampAsk \/ OscAsk \/ OscPreset

----------------------------------------------------------------------------
(* Properties.                                                             *)

DyTypeOK ==
  /\ dy.steps \in 0..DySteps
  /\ dy.kind = "enm" => \A s \in DOMAIN dy.count : dy.count[s] \in 0..Max(NgTimes)
  /\ dy.kind \in {"ge", "gc", "gm"} => dy.out \in 0..GateLen
  /\ dy.kind = "evp" => {dy.peak, dy.unread, dy.got, dy.missed} \subseteq 0..2
  /\ dy.kind = "ev" => dy.lock \in {"none", "engine", "status"}
  /\ dy.kind = "klg" => dy.stage \in -1..(Len(dy.points) - 1)
  /\ dy.kind = "kog" => dy.stage \in 0..(Len(dy.table) - 2)

(* A noise gate is closed only after the signal has stayed below the       *)
(* threshold for the pre-hold and the attack time, without interruption;   *)
(* it is silent from then on until the signal has been above for the hold  *)
(* time; and a gain is never over one.                                     *)
NgOrder ==
  dy.kind = "enm" =>
    /\ dy.state = "active" => dy.gain[1] = 0
    /\ dy.state = "attacking" => dy.lows >= dy.th + dy.count["attacking"]
    /\ dy.state = "active" /\ dy.above = 0 => dy.lows >= dy.th + dy.attack
    /\ dy.state \in {"active", "holding"} => dy.gain[1] = 0 /\ dy.above <= dy.hold
    /\ dy.gain[1] >= 0 /\ dy.gain[1] <= dy.gain[2]

(* ecasound_manpage.yo:743: the gate is released if the signal stays above *)
(* the threshold over the hold time.                                       *)
NgHeld ==
  dy.kind = "enm" /\ dy.state = "releasing" /\ dy.count["releasing"] = 0 => dy.run >= dy.hold

(* A threshold gate is opened once, and as often again as the reopen count *)
(* said when it was initialised, and passes nothing when it is not open; a *)
(* crop gate lets through as much as its length says, give or take what a  *)
(* block is cut to.                                                        *)
GatesPass ==
  /\ dy.kind = "ge" =>
       /\ dy.granted >= 0 => dy.opens <= 1 + dy.granted
       /\ dy.open => dy.opens > 0
       /\ dy.out > 0 <=> dy.open
  /\ dy.kind = "gc" /\ dy.known /\ dy.length > 0 =>
       /\ dy.passed < dy.length + GateLen
       /\ dy.pos >= dy.begin + dy.length => dy.passed > dy.length - GateLen

(* The loudest sample since the last reading began is in the meter, or it  *)
(* came between the two halves of that reading: no other is lost.          *)
PeakKept ==
  dy.kind = "evp" /\ ~dy.reading =>
    dy.peak = dy.unread \/ (dy.peak < dy.unread /\ dy.unread = dy.missed)

(* What status() prints was counted from whole blocks: each sample that is *)
(* in the total is in a bucket.                                            *)
StatusWhole == dy.kind = "ev" => dy.seen[1] = dy.seen[2]

(* The value of an envelope at a position is what its points say, whatever *)
(* positions were asked for before: seeking back, or a point that is set   *)
(* in between, leaves no stage behind.                                     *)
PointsAt(points, x) ==
  IF x < points[1][1] THEN <<points[1][2], 1>>
  ELSE LET k == Max({j \in 1..Len(points) : points[j][1] <= x}) IN
       IF k = Len(points) THEN <<points[k][2], 1>> ELSE Between(points[k], points[k + 1], x)
Same(a, b) == a[1] * b[2] = b[1] * a[2]

SourcePure ==
  /\ dy.kind = "klg" /\ dy.asked >= 0 => Same(dy.got, PointsAt(dy.points, dy.asked))
  /\ dy.kind \in {"kl", "kl2"} /\ dy.asked >= 0 =>
       Same(dy.got, PointsAt(<< <<dy.hold, 0>>, <<dy.hold + dy.ramp, 1>> >>, dy.asked))
  /\ dy.kind = "kog" /\ dy.asked >= 0 =>
       LET e == Prepared(dy.preset.first, dy.preset.last, dy.preset.points)
           k == Max({j \in 1..Len(e) : e[j][1] <= dy.asked})
       IN Same(dy.got, IF dy.mode = 0 THEN <<e[k][2], 1>> ELSE PointsAt(e, dy.asked))

(* What these operators decide by is never older or newer than they say.   *)
DynamicsExact == NgOrder /\ GatesPass /\ PeakKept /\ StatusWhole /\ SourcePure
=============================================================================
