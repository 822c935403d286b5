---------------------------- MODULE EffectParams ----------------------------
(***************************************************************************)
(* The parameters of the chain operators (EFFECT_BASE and its classes) and *)
(* of the controller sources.  Each class keeps the values its parameters  *)
(* were given, and values it derives from them and from the sample rate:   *)
(* filter coefficients, times in samples, periods.  Parameters are set one *)
(* at a time, by the option parser, by interactive commands and by         *)
(* controllers while the engine runs; a chainsetup is saved by reading     *)
(* them, and a new sample rate reads and sets them all.                    *)
(*                                                                         *)
(* A class is a table.  init: the values of a new object.  keep: what is   *)
(* done with a value that is not taken as it is.  uses: the parameters,    *)
(* the rate and the other derived values that a derived value is computed  *)
(* from.  redo: the derived values that are computed again when parameter  *)
(* p is set, and atInit: when the object is initialised.  A derived value  *)
(* is modelled by the values it was computed from.  stored: parameters     *)
(* kept in samples, and read back by dividing by the rate.                 *)
(***************************************************************************)
EXTENDS Integers, Sequences, SequencesExt, FiniteSets

CONSTANTS
  EpKinds,     \* the classes
  EpVals,      \* values a parameter may be given
  EpRates,     \* samples per unit of time
  EpSteps      \* bound on the number of calls

ASSUME EpAssumption ==
  EpVals \subseteq Nat /\ EpRates \subseteq Nat \ {0} /\ EpSteps \in Nat

VARIABLE ep

AsGiven(n) == [p \in 1..n |-> "any"]
Of(params, others) == [params |-> params, others |-> others]
NoneDerived == [x \in {} |-> {}]
Plain(init) ==
  [init |-> init, keep |-> AsGiven(Len(init)), uses |-> NoneDerived,
   redo |-> [p \in 1..Len(init) |-> {}], atInit |-> {}, stored |-> {}]

(* What is kept of a value.  "half": 0 is half of the first parameter.     *)
(* "one": 0 is 1.  "positive": other values are ignored.  "inside": only   *)
(* values between the bounds are taken.  "full": 0 or too much is all.     *)
(* "sample": a time of less than one sample is one.  "least": not less     *)
(* than the smallest.  "channel": out of range is the first one.           *)
MaxVal == 4
Kept(rule, x, old, first, rate) ==
  CASE rule = "half" /\ x = 0 -> first \div 2
    [] rule \in {"one", "least"} /\ x = 0 -> 1
    [] rule = "positive" /\ x = 0 -> old
    [] rule = "inside" /\ (x = 0 \/ x >= MaxVal) -> old
    [] rule = "full" /\ (x = 0 \/ x > MaxVal) -> MaxVal
    [] rule = "sample" /\ (x * rate) \div 2 = 0 -> 2 \div rate
    [] rule = "channel" /\ x \notin 1..MaxVal -> 1
    [] OTHER -> x

----------------------------------------------------------------------------
(* The classes: amplitude.                                                 *)

Amplify == Plain(<<4>>)
AmplifyDb ==
  [Plain(<<0, 0>>) EXCEPT !.uses = [gain |-> Of({1}, {}), iter |-> Of({2}, {})],
     !.redo = <<{"gain"}, {"iter"}>>, !.atInit = {"iter"}]
Clipcount == Plain(<<4, 0>>)
AmplifyChannel == Plain(<<4, 1>>)
Limiter == Plain(<<4>>)
Compress == Plain(<<1, 1>>)
Noisegate == [Plain(<<4, 2, 2, 2, 2>>) EXCEPT !.stored = 2..5]
NormalPan ==
  [Plain(<<2>>) EXCEPT !.uses = [gains |-> Of({1}, {})], !.redo = <<{"gains"}>>]
AdvCompressor ==
  [Plain(<<1, 1, 1, 1>>) EXCEPT !.keep = [p \in 1..4 |-> "one"],
     !.uses = [target |-> Of({1}, {}), filter |-> Of({2}, {"rate"}), fast |-> Of({3}, {}), slow |-> Of({4}, {})],
     !.redo = <<{"target"}, {"filter"}, {"fast"}, {"slow"}>>]

(* Filters.  b of a bandpass and a of a bandreject combine two others.     *)
BandpassStale ==
  [Plain(<<2, 2>>) EXCEPT !.keep = <<"any", "half">>,
     !.uses = [C |-> Of({2}, {"rate"}), D |-> Of({1}, {"rate"}), b |-> Of({}, {"C", "D"})],
     !.redo = <<{"D", "b"}, {"C", "D"}>>]
Bandpass ==
  [Plain(<<2, 2>>) EXCEPT !.keep = <<"any", "half">>,
     !.uses = [C |-> Of({2}, {"rate"}), D |-> Of({1}, {"rate"}), b |-> Of({}, {"C", "D"})],
     !.redo = <<{"D", "b"}, {"C", "D", "b"}>>]
Bandreject ==
  [Plain(<<2, 2>>) EXCEPT !.keep = <<"any", "half">>,
     !.uses = [C |-> Of({2}, {"rate"}), D |-> Of({1}, {"rate"}), a |-> Of({}, {"C", "D"})],
     !.redo = <<{"D", "a"}, {"C", "a"}>>]
Highpass ==
  [Plain(<<1>>) EXCEPT !.uses = [a |-> Of({1}, {"rate"})], !.redo = <<{"a"}>>]
Lowpass ==
  [Plain(<<1>>) EXCEPT !.uses = [a |-> Of({1}, {"rate"})], !.redo = <<{"a"}>>]
LowpassSimple ==
  [Plain(<<1>>) EXCEPT !.uses = [A |-> Of({1}, {"rate"}), B |-> Of({}, {"A", "rate"})],
     !.redo = <<{"A", "B"}>>]
Allpass == Plain(<<0, 0>>)
Comb == Plain(<<1, 1>>)
InverseComb == Plain(<<1, 1>>)
ResonantBandpass ==
  [Plain(<<2, 2>>) EXCEPT !.keep = <<"any", "half">>,
     !.uses = [R |-> Of({2}, {"rate"}), a |-> Of({1}, {"R", "rate"})],
     !.redo = <<{"R", "a"}, {"R", "a"}>>]
ResonantLowpass ==
  [Plain(<<1, 1, 1>>) EXCEPT !.keep = <<"one", "any", "any">>,
     !.uses = [coef |-> Of({1, 2}, {"rate"}), gain |-> Of({3}, {"coef"})],
     !.redo = [p \in 1..3 |-> {"coef", "gain"}]]
Resonator ==
  [Plain(<<2, 2>>) EXCEPT !.keep = <<"any", "half">>,
     !.uses = [b1 |-> Of({2}, {"rate"}), b0 |-> Of({1}, {"b1", "rate"})],
     !.redo = <<{"b1", "b0"}, {"b1", "b0"}>>]
RcLowpass == Plain(<<1, 1>>)

(* Delays; their first parameter is a time.                                *)
Timed(n) ==
  [Plain([p \in 1..n |-> 2]) EXCEPT !.keep = [p \in 1..n |-> IF p = 1 THEN "sample" ELSE "any"],
     !.uses = [dtime |-> Of({1}, {"rate"})], !.atInit = {"dtime"},
     !.redo = [p \in 1..n |-> IF p = 1 THEN {"dtime"} ELSE {}]]
DelayClass == [Timed(5) EXCEPT !.keep[3] = "one", !.keep[5] = "full"]
MultitapClass == [Timed(3) EXCEPT !.keep[2] = "one"]
FakeStereoClass == Timed(1)
ReverbClass == Timed(3)
ModulatingClass == Timed(4)
AdvReverb ==
  [Plain(<<1, 1, 1>>) EXCEPT !.keep = <<"any", "one", "any">>,
     !.uses = [dpos |-> Of({1}, {"rate"}), mul |-> Of({2}, {})], !.atInit = {"dpos", "mul"},
     !.redo = <<{"dpos", "mul"}, {"dpos", "mul"}, {}>>]

(* Envelopes and pitch.  A pulse gate has its parameters set by its        *)
(* constructor, which then resets what that has set.                       *)
PulseGate ==
  [Plain(<<1, 0>>) EXCEPT !.keep = <<"positive", "inside">>,
     !.uses = [period |-> Of({1}, {"rate"}), on |-> Of({2}, {"period"})],
     !.redo = <<{"period"}, {"on"}>>]
Tremolo ==
  [Plain(<<1, 1>>) EXCEPT !.keep = <<"positive", "any">>,
     !.uses = [incr |-> Of({}, {"rate"})], !.atInit = {"incr"}]
PitchShift ==
  [Plain(<<4>>) EXCEPT !.keep = <<"least">>,
     !.uses = [target |-> Of({1}, {"rate"})], !.atInit = {"target"}, !.redo = <<{"target"}>>]

(* Channels are counted from one by the user.                              *)
ChannelPair == Plain(<<1, 1>>)
ChannelMute == Plain(<<1>>)
MixToChannel == Plain(<<1>>)
AudioStamp == Plain(<<1>>)

(* An instance of a plugin is made for one sample rate.                    *)
LadspaClass ==
  [Plain(<<1, 2>>) EXCEPT !.uses = [plugin |-> Of({}, {"rate"})], !.atInit = {"plugin"}]

(* Sources of controllers.  The envelope of an oscillator starts and ends  *)
(* with its fourth and fifth parameters, and is made when a point is set.  *)
SineOscillator ==
  [Plain(<<1, 0>>) EXCEPT !.uses = [period |-> Of({1}, {})], !.redo = <<{"period"}, {}>>]
GenericOscillator ==
  [Plain(<<1, 0, 1, 1, 1, 1, 1>>) EXCEPT
     !.uses = [loop |-> Of({1}, {}), table |-> Of({4, 5, 6, 7}, {})],
     !.redo = <<{"loop"}, {}, {}, {}, {}, {"table"}, {"table"}>>]
TwoStage == Plain(<<0, 0>>)
LinearEnvelope == Plain(<<1>>)
MidiController ==
  [Plain(<<1, 1>>) EXCEPT !.keep = <<"any", "channel">>]
VolumeController == Plain(<<1, 0>>)

Class(k) ==
  CASE k = "ea" -> Amplify [] k = "eadb" -> AmplifyDb [] k = "eac" -> AmplifyChannel
    [] k = "eaw" -> Clipcount [] k = "eal" -> Limiter [] k = "ec" -> Compress
    [] k = "enm" -> Noisegate [] k = "epp" -> NormalPan [] k = "eca" -> AdvCompressor
    [] k = "efb" -> Bandpass [] k = "efr" -> Bandreject [] k = "efh" -> Highpass
    [] k = "efl" -> Lowpass [] k = "efs1" -> LowpassSimple [] k = "efa" -> Allpass
    [] k = "efc" -> Comb [] k = "efi" -> InverseComb [] k = "ef1" -> ResonantBandpass
    [] k = "ef3" -> ResonantLowpass [] k = "efs" -> Resonator [] k = "ef4" -> RcLowpass
    [] k = "etd" -> DelayClass [] k = "etm" -> MultitapClass [] k = "ete" -> AdvReverb
    [] k = "etf" -> FakeStereoClass [] k = "etr" -> ReverbClass
    [] k = "etl" -> ModulatingClass [] k = "eemp" -> PulseGate [] k = "eemt" -> Tremolo
    [] k = "ei" -> PitchShift [] k = "chcopy" -> ChannelPair [] k = "chmute" -> ChannelMute
    [] k = "chmix" -> MixToChannel [] k = "eS" -> AudioStamp [] k = "el:" -> LadspaClass
    [] k = "kos" -> SineOscillator [] k = "kog" -> GenericOscillator [] k = "kl2" -> TwoStage
    [] k = "kl" -> LinearEnvelope [] k = "km" -> MidiController [] k = "kv" -> VolumeController

Params(k) == 1..Len(Class(k).init)

----------------------------------------------------------------------------
(* A derived value is the function from what it uses to the values used.   *)

Computed(o, x) ==
  LET c == Class(o.kind).uses[x] IN
  <<[p \in c.params |-> o.v[p]],
    [u \in c.others |-> IF u = "rate" THEN <<o.rate>> ELSE o.d[u]]>>

(* Those that other derived values use come first.                         *)
Leaves(k) == {x \in DOMAIN Class(k).uses : Class(k).uses[x].others \subseteq {"rate"}}
Compute(o, names) ==
  LET first == [o EXCEPT !.d = [x \in DOMAIN @ |->
                  IF x \in names \cap Leaves(o.kind) THEN Computed(o, x) ELSE @[x]]]
  IN [first EXCEPT !.d = [x \in DOMAIN @ |->
        IF x \in names \ Leaves(o.kind) THEN Computed(first, x) ELSE @[x]]]

(* get_parameter(), set_parameter().                                       *)
GetParameter(o, p) ==
  IF p \in Class(o.kind).stored THEN o.v[p] \div o.rate ELSE o.v[p]

SetParameter(o, p, x) ==
  LET c == Class(o.kind)
      k == Kept(c.keep[p], x, o.v[p], o.v[1], o.rate)
      n == [o EXCEPT !.v[p] = IF p \in c.stored THEN k * o.rate ELSE k]
  IN Compute(n, c.redo[p])

SetAll(o, values) ==
  FoldLeft(LAMBDA a, p : SetParameter(a, p, values[p]), o, [p \in 1..Len(values) |-> p])
ReadAll(o) == [p \in Params(o.kind) |-> GetParameter(o, p)]

(* new_expr(): constructors set every parameter.                           *)
NewObject(k, rate) ==
  LET o == [kind |-> k, rate |-> rate, ready |-> FALSE,
            v |-> [p \in Params(k) |-> 0], d |-> [x \in DOMAIN Class(k).uses |-> <<>>]]
  IN IF k = "eemp" THEN [o EXCEPT !.v = Class(k).init] ELSE SetAll(o, Class(k).init)

(* EFFECT_BASE::set_samples_per_second(): the values are read at the old   *)
(* rate and set at the new one.                                            *)
SetRateOnly(o, r) == [o EXCEPT !.rate = r]
SetSamplesPerSecond(o, r) ==
  IF r = o.rate THEN o ELSE SetAll([o EXCEPT !.rate = r], ReadAll(o))

(* init() of the class; the delays set their time again.                   *)
InitObject(o) == [Compute(o, Class(o.kind).atInit) EXCEPT !.ready = TRUE]

(* chain_operator_to_eos() and create_chain_operator().                    *)
SavedShort(o) == [p \in Params(o.kind) |-> IF p = 2 THEN 0 ELSE GetParameter(o, p)]
Saved(o) == ReadAll(o)
Restored(o) == SetAll(NewObject(o.kind, o.rate), Saved(o))

----------------------------------------------------------------------------
NewEffect(k, r) == [fx |-> NewObject(k, r), steps |-> 0, given |-> [p \in Params(k) |-> -1]]
EpInit == \E k \in EpKinds, r \in EpRates : ep = NewEffect(k, r)

EpStep == ep.steps < EpSteps
Took(o, given) == ep' = [fx |-> o, steps |-> ep.steps + 1, given |-> given]

EpSet ==
  /\ EpStep
  /\ \E p \in Params(ep.fx.kind), x \in EpVals :
       /\ p = 1 /\ "half" \in Range(Class(ep.fx.kind).keep) => x > 0
       /\ Took(SetParameter(ep.fx, p, x), [ep.given EXCEPT ![p] = x])
(* A chain is given another rate before it is initialised again.           *)
EpRate ==
  /\ EpStep
  /\ \E r \in EpRates \ {ep.fx.rate} :
       Took([SetSamplesPerSecond(ep.fx, r) EXCEPT !.ready = FALSE], ep.given)
EpInitialise == EpStep /\ ~ep.fx.ready /\ Took(InitObject(ep.fx), ep.given)
EpRestore ==
  /\ EpStep
  /\ Took(Restored(ep.fx), [p \in Params(ep.fx.kind) |-> Saved(ep.fx)[p]])

EpNext == EpSet \/ EpRate \/ EpInitialise \/ EpRestore

----------------------------------------------------------------------------
(* Properties.                                                             *)

EpTypeOK ==
  /\ ep.fx.kind \in EpKinds /\ ep.fx.rate \in EpRates /\ ep.steps \in 0..EpSteps
  /\ DOMAIN ep.fx.v = Params(ep.fx.kind)
  /\ DOMAIN ep.fx.d = DOMAIN Class(ep.fx.kind).uses

(* What an initialised object works with is what its parameters and the    *)
(* rate of the chain say now, in whatever order they were set: no          *)
(* coefficient is left from an earlier value.                              *)
DerivedCurrent ==
  ep.fx.ready => \A x \in DOMAIN ep.fx.d : ep.fx.d[x] = Computed(ep.fx, x)

(* Values are read back as they were given, the ones the class replaces    *)
(* aside, although other parameters and the rate have changed since.       *)
ReadsBack ==
  \A p \in Params(ep.fx.kind) :
    LET x == ep.given[p]  rule == Class(ep.fx.kind).keep[p] IN
    x > 0 /\ (rule \in {"any", "half", "one", "positive"} \/ x \in 2..(MaxVal - 1))
      => GetParameter(ep.fx, p) = x

(* A chainsetup that is saved and loaded again has the same effects.       *)
RestoredSame ==
  LET r == InitObject(Restored(ep.fx))  o == InitObject(ep.fx) IN
  r.v = o.v /\ r.d = o.d

(* The three together.                                                     *)
ParamsExact == DerivedCurrent /\ ReadsBack /\ RestoredSame
=============================================================================
