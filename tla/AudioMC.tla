------------------------------- MODULE AudioMC -------------------------------
(***************************************************************************)
(* What plays, records and changes samples, for TLC: each behaviour is one *)
(* of a component; the others stay in their first state.                   *)
(***************************************************************************)
EXTENDS ForkedStream, Streams, SoundFiles,
        EffectParams, DelayLines, Dynamics, ChannelEffects, SampleBuffer, SignalFlow,
        Devices, JackPorts

VARIABLE which

NoForks == fs = [i \in Objs |-> StreamOf("flac", "write")] /\ procs = <<>> /\ busy = Idle
NoStream == st = Object("loop", "read")
NoFile == af = NewFile("raw", Empty) /\ afLost = "none"
NoLibrary == lf = NewLibraryFile("wav", "read", "s16", NoDisk) /\ lfLost = "none"
NoParams == ep = NewEffect("ea", 1)
NoLine == dl = NewLine("efi", 1, 2)
NoDynamics == PeakNew
NoFlow == sf = NewFlow(CHOOSE x \in SfSetups : TRUE)
NoDevice == dv = NewDevice("alsa", "read", TRUE, TRUE)
NoChain == ce = NewChain(<<"ea", <<>>>>, <<"ea", <<>>>>, 1)

Init ==
  /\ which \in {"fork", "stream", "file", "library", "params", "line", "dynamics", "chain", "buffer", "flow", "device", "ports"}
  /\ IF which = "fork" THEN ForkInit ELSE NoForks
  /\ IF which = "stream" THEN StInit ELSE NoStream
  /\ IF which = "file" THEN AfInit ELSE NoFile
  /\ IF which = "library" THEN LfInit ELSE NoLibrary
  /\ IF which = "params" THEN EpInit ELSE NoParams
  /\ IF which = "line" THEN DlInit ELSE NoLine
  /\ IF which = "dynamics" THEN DyInit ELSE NoDynamics
  /\ IF which = "chain" THEN CeInit ELSE NoChain
  /\ IF which = "device" THEN DvInit ELSE NoDevice
  /\ JpInit /\ SbInit /\ (IF which = "flow" THEN SfInit ELSE NoFlow)

files == <<af, afLost>>
libraries == <<lf, lfLost>>
OfFork(A) == which = "fork" /\ A /\ UNCHANGED <<st, files, libraries, ep, dl, dy, ce, sb, sf, dv, jp, which>>

Next ==
  \/ OfFork(ForkNext)
  \/ which = "stream" /\ StNext /\ UNCHANGED <<forkVars, files, libraries, ep, dl, dy, ce, sb, sf, dv, jp, which>>
  \/ which = "file" /\ AfNext /\ UNCHANGED <<forkVars, st, libraries, ep, dl, dy, ce, sb, sf, dv, jp, which>>
  \/ which = "library" /\ LfNext /\ UNCHANGED <<forkVars, st, files, ep, dl, dy, ce, sb, sf, dv, jp, which>>
  \/ which = "params" /\ EpNext /\ UNCHANGED <<forkVars, st, files, libraries, dl, dy, ce, sb, sf, dv, jp, which>>
  \/ which = "line" /\ DlNext /\ UNCHANGED <<forkVars, st, files, libraries, ep, dy, ce, sb, sf, dv, jp, which>>
  \/ which = "dynamics" /\ DyNext /\ UNCHANGED <<forkVars, st, files, libraries, ep, dl, ce, sb, sf, dv, jp, which>>
  \/ which = "chain" /\ CeNext /\ UNCHANGED <<forkVars, st, files, libraries, ep, dl, dy, sb, sf, dv, jp, which>>
  \/ which = "buffer" /\ SbNext /\ UNCHANGED <<forkVars, st, files, libraries, ep, dl, dy, ce, sf, dv, jp, which>>
  \/ which = "flow" /\ SfNext /\ UNCHANGED <<forkVars, st, files, libraries, ep, dl, dy, ce, sb, dv, jp, which>>
  \/ which = "device" /\ DvNext /\ UNCHANGED <<forkVars, st, files, libraries, ep, dl, dy, ce, sb, sf, jp, which>>
  \/ which = "ports" /\ JpNext /\ UNCHANGED <<forkVars, st, files, libraries, ep, dl, dy, ce, sb, sf, dv, which>>

audioVars == <<forkVars, st, files, libraries, ep, dl, dy, ce, sb, sf, dv, jp, which>>

(* The fairness of ForkSpec; what the others promise are invariants.       *)
Spec ==
  /\ Init /\ [][Next]_audioVars
  /\ WF_audioVars(OfFork(ForkReturns))
  /\ \A p \in 1..ForkMax : WF_audioVars(OfFork(ProcessOf(p)))

(* The type invariants of the components.                                  *)
TypeOK ==
  /\ ForkTypeOK /\ StTypeOK /\ AfTypeOK /\ LfTypeOK
  /\ EpTypeOK /\ DlTypeOK /\ DyTypeOK /\ CeTypeOK /\ SbTypeOK /\ SfTypeOK
  /\ DvTypeOK /\ JpTypeOK

(* The parameters of effects mean what they are set to, and what effects,  *)
(* gates, envelopes and routes make of the samples follows from them alone.*)
EffectsExact == ParamsExact /\ LinesExact /\ DynamicsExact /\ ChannelsExact

(* Realtime devices and ports at the JACK server keep every block, match   *)
(* what is open and never stop the engine for ever.                        *)
RealtimeSound == DevicesSound /\ JackPortsSound

----------------------------------------------------------------------------
(* Values of the constants.                                                *)

(* What sound files contain.                                               *)
Contents == {<<1, 2, 3>>, <<1, 2, 3, 4>>}
(* Rates of an object and of its child, that do and do not divide a block. *)
Ratios == {<<1, 2>>, <<2, 1>>, <<2, 3>>, <<3, 2>>}
(* Operators that route channels, and those that remember what they saw.   *)
Routers == {<<"chcopy", <<1, 2>>>>, <<"chcopy", <<2, 1>>>>, <<"chmove", <<1, 3>>>>, <<"chmove", <<3, 1>>>>,
            <<"chmute", <<2>>>>, <<"chmix", <<1>>>>, <<"chmix", <<3>>>>,
            <<"chorder", <<2, 1>>>>, <<"chorder", <<1, 0, 2>>>>, <<"epp", <<>>>>}
Keepers == {<<k, <<>>>> : k \in {"efb", "efs1", "ef3", "ef4", "ete", "eca",
                                "fx", "evp", "ev"}}
SecondOps == Keepers \cup {<<"chmove", <<3, 1>>>>, <<"chmix", <<1>>>>, <<"chorder", <<1, 0, 2>>>>}
Reopens == {-1, 0, 1, 2}
Envelopes ==
  {<<<<1, 0>>, <<2, 2>>, <<4, 1>>>>, <<<<1, 0>>, <<3, 2>>, <<4, 1>>>>, <<<<0, 0>>, <<2, 2>>, <<4, 1>>>>,
   <<<<0, 1>>>>, <<<<0, 0>>, <<3, 2>>, <<4, 1>>>>}
Presets ==
  {[first |-> 0, last |-> 1, points |-> <<<<1, 2>>, <<3, 0>>>>],
   [first |-> 1, last |-> 1, points |-> <<<<2, 2>>, <<2, 0>>>>]}
Pairs == {<<1, 2>>, <<2, 1>>}
SilentRanges == {<<0, 1>>, <<0, 2>>}
(* Objects at the JACK server, and the ports of the soundcard there.       *)
JackIn == [dir |-> "read", kind |-> "jack_multi", channels |-> 1, params |-> <<<<"capture", 1>>, <<"capture", 2>>>>, prefix |-> "in"]
JackOut == [dir |-> "write", kind |-> "jack", channels |-> 2, params |-> <<"system">>, prefix |-> "out"]
JackAlsa == [dir |-> "write", kind |-> "jack_alsa", channels |-> 1, params |-> <<>>, prefix |-> "out"]
JackObjects == {JackIn, JackOut, JackAlsa}
Soundcard ==
  <<[name |-> <<"capture", 1>>, client |-> "system", dir |-> "write", latency |-> 2],
    [name |-> <<"capture", 2>>, client |-> "system", dir |-> "write", latency |-> 3],
    [name |-> <<"playback", 1>>, client |-> "system", dir |-> "read", latency |-> 1]>>
(* Setups of files, devices and loops.                                     *)
FileIn(n, k) == [kind |-> "file", len |-> n, ch |-> 1, knows |-> k, lat |-> 0, space |-> 0]
RtIn == [kind |-> "rt", len |-> 0, ch |-> 2, knows |-> FALSE, lat |-> 3, space |-> 0]
LoopIn == [kind |-> "loop", len |-> 0, ch |-> 2, knows |-> FALSE, lat |-> 0, space |-> 0]
FileOut(c, room) == [kind |-> "file", ch |-> c, room |-> room, lat |-> 0, space |-> 0]
RtOut == [kind |-> "rt", ch |-> 1, room |-> 99, lat |-> 1, space |-> 9]
LoopOut == [kind |-> "loop", ch |-> 2, room |-> 0, lat |-> 0, space |-> 0]
Chain(i, o, ops) == [from |-> i, to |-> o, ops |-> ops]
Flowing(ins, outs, chains, avg, mode) ==
  [ins |-> ins, outs |-> outs, chains |-> chains, avg |-> avg, loopch |-> 2, multitrack |-> mode, offset |-> 5]
FlowSetups == 
 {Flowing(<<FileIn(5, TRUE), FileIn(3, FALSE)>>, <<FileOut(2, 99)>>, <<Chain(1, 1, <<"ramp">>), Chain(2, 1, <<>>)>>, avg, "off") : avg \in BOOLEAN} \cup
 {Flowing(<<FileIn(4, k)>>, <<FileOut(1, 99), FileOut(2, room)>>, <<Chain(1, 2, <<"copy", "double">>), Chain(1, 1, <<"ramp">>)>>, TRUE, "off") : k \in BOOLEAN, room \in {3, 99}} \cup
 {Flowing(<<FileIn(4, TRUE), FileIn(2, FALSE), LoopIn>>, <<LoopOut, FileOut(2, 99)>>, <<Chain(1, 1, <<>>), Chain(2, 1, <<"copy">>), Chain(3, 2, <<"ramp">>)>>, TRUE, "off"),
  Flowing(<<FileIn(4, TRUE), LoopIn, LoopIn>>, <<FileOut(2, 99), LoopOut>>, <<Chain(1, 2, <<>>), Chain(2, 1, <<"double">>), Chain(3, 1, <<>>)>>, FALSE, "off")} \cup
 {Flowing(<<RtIn, FileIn(6, TRUE)>>, <<FileOut(1, 99), RtOut>>, <<Chain(1, 1, <<>>), Chain(2, 2, <<"ramp">>)>>, TRUE, m) : m \in {"auto", "given"}}
=============================================================================
