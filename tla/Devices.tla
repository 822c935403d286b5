------------------------------- MODULE Devices -------------------------------
(***************************************************************************)
(* The realtime devices under the engine: AUDIO_IO_ALSA_PCM, OSSDEVICE,    *)
(* ARTS_INTERFACE and REALTIME_NULL, with the flags of AUDIO_IO_DEVICE,    *)
(* and the calls the engine makes of them.  The hardware is external: it   *)
(* takes or gives a block at a time whatever the program does, runs dry or *)
(* over, and may be suspended.  A block is its number; silence is 0.       *)
(*                                                                         *)
(* OSSDEVICE, ARTS_INTERFACE and REALTIME_NULL declare stop(void), which   *)
(* does not override stop(bool): of a stop by the engine they do nothing.  *)
(***************************************************************************)
EXTENDS Integers, Sequences

CONSTANTS
  DvKinds,        \* "alsa", "oss", "arts", "rtnull"
  DvPrefill,      \* prefill_threshold_rep, in blocks
  DvSpace,        \* blocks of the hardware: its buffer, fragments, total_buffers_rep
  DvSuspends,     \* values of ignore_xruns with which a device may be suspended
  DvLateStop,     \* may the engine stop while a trigger request is pending?
  DvRunsOver,     \* kinds whose capture buffer may run over
  DvRestarts,     \* kinds that are started again without being opened again
  DvDrains,       \* kinds of which a drain is expected
  DvOpens,        \* does open() succeed once the device has been opened? Its outcomes
  DvSteps         \* bound on the steps

ASSUME DvAssumption ==
  /\ DvKinds \subseteq {"alsa", "oss", "arts", "rtnull"}
  /\ DvPrefill \in Nat \ {0} /\ DvSpace \in Nat \ {0, 1} /\ DvSteps \in Nat
  /\ DvLateStop \in BOOLEAN /\ DvOpens \subseteq BOOLEAN /\ DvSuspends \subseteq BOOLEAN

VARIABLE dv

NewDevice(kind, dir, ignore, trigger) ==
  [kind |-> kind, dir |-> dir, ignore |-> ignore, trigger |-> trigger,
   opened |-> FALSE, prepared |-> FALSE, running |-> FALSE, request |-> FALSE,
   hw |-> "none", queue |-> <<>>, now |-> 0, began |-> 0, done |-> 0,
   sent |-> 0, last |-> 0, xruns |-> 0, known |-> 0,
   phase |-> "off", used |-> FALSE, drained |-> FALSE, lost |-> FALSE, fault |-> FALSE, steps |-> 0]

----------------------------------------------------------------------------
(* The hardware.  `last' is the last block heard, or read.                 *)
(* Without a trigger playback starts as soon as there is something to play.*)
SelfStarting(d) == d.dir = "write" /\ (d.kind = "arts" \/ (d.kind = "oss" /\ ~d.trigger))
Moves(d) == d.hw = "running" \/ (SelfStarting(d) /\ d.hw = "setup" /\ d.queue # <<>>)
Full(d) == Len(d.queue) >= DvSpace

Plays(d) ==
  IF d.queue = <<>> THEN (IF d.kind = "alsa" THEN [d EXCEPT !.hw = "xrun"] ELSE d)
  ELSE LET b == Head(d.queue) IN
       [d EXCEPT !.queue = Tail(@), !.last = IF b = 0 THEN @ ELSE b,
                 !.lost = @ \/ b \notin {0, d.last + 1}]
Captures(d) ==
  IF ~Full(d) THEN [d EXCEPT !.queue = Append(@, d.now + 1), !.now = @ + 1]
  ELSE IF d.kind = "alsa" THEN [d EXCEPT !.hw = "xrun", !.now = @ + 1]
  ELSE [d EXCEPT !.queue = Append(Tail(@), d.now + 1), !.now = @ + 1]

(* The calls of the drivers; one of a handle that is closed is a fault.    *)
Called(d) == [d EXCEPT !.fault = @ \/ d.hw = "none"]
PcmDrop(d) == [Called(d) EXCEPT !.hw = IF @ = "none" THEN @ ELSE "setup", !.queue = <<>>]
PcmDrain(d) ==
  LET play[n \in 0..DvSpace] == IF n = 0 THEN Called(d) ELSE IF play[n - 1].queue = <<>> THEN play[n - 1] ELSE Plays(play[n - 1])
  IN PcmDrop(IF d.hw = "running" THEN play[DvSpace] ELSE d)
PcmPrepare(d) == [Called(d) EXCEPT !.hw = IF @ = "none" THEN @ ELSE "prepared", !.queue = <<>>]
PcmStart(d) ==
  [Called(d) EXCEPT !.hw = IF @ = "prepared" /\ (d.dir = "read" \/ d.queue # <<>>) THEN "running" ELSE @]
Give(d, b) == [Called(d) EXCEPT !.queue = Append(@, b)]
(* A block read is the one after the last, or an overrun has been counted. *)
Take(d) ==
  LET b == Head(d.queue) IN
  [d EXCEPT !.queue = Tail(@), !.last = b, !.known = d.xruns,
            !.lost = @ \/ b <= d.last \/ (b > d.last + 1 /\ d.xruns = d.known)]

----------------------------------------------------------------------------
(* AUDIO_IO_ALSA_PCM.                                                      *)
BaseStop(d) == [d EXCEPT !.running = FALSE, !.prepared = FALSE]
AlsaStop(d, drain) == BaseStop(IF drain /\ d.dir = "write" THEN PcmDrain(d) ELSE PcmDrop(d))
AlsaClose(d) ==
  LET s == IF d.prepared /\ d.running THEN AlsaStop(d, FALSE) ELSE d IN
  [Called(s) EXCEPT !.hw = "none", !.queue = <<>>, !.opened = FALSE]
AlsaPrepare(d) == [PcmPrepare(d) EXCEPT !.prepared = TRUE]
AlsaStart(d) == [PcmStart(d) EXCEPT !.running = TRUE]
GiveUp(d) == AlsaClose(AlsaStop(d, FALSE))
Accepts(d) == d.hw \in {"prepared", "running"}

HandleXrunCaptureUnstarted(d) ==
  IF d.hw = "suspended" THEN GiveUp(d) ELSE AlsaPrepare(AlsaStop([d EXCEPT !.xruns = @ + 1], FALSE))
HandleXrunCapture(d) ==
  IF d.hw = "suspended" THEN GiveUp(d)
  ELSE AlsaStart(AlsaPrepare(AlsaStop([d EXCEPT !.xruns = @ + 1], FALSE)))
AlsaRead(d) ==
  IF d.hw = "running" THEN Take(d)
  ELSE IF d.hw = "setup" \/ ~d.ignore THEN GiveUp(d)
  ELSE LET h == HandleXrunCapture(d) IN
       IF h.hw = "running" THEN Take(Captures(h)) ELSE Called(h)

HandleXrunPlayback(d) ==
  IF d.hw = "suspended" THEN GiveUp(d)
  ELSE [AlsaPrepare(AlsaStop([d EXCEPT !.xruns = @ + 1], FALSE)) EXCEPT !.request = TRUE]
AlsaWriteUntriggered(d, b) ==
  IF Accepts(d) THEN Give(d, b)
  ELSE IF d.hw \in {"none", "setup"} \/ ~d.ignore THEN GiveUp(d)
  ELSE LET h == HandleXrunPlayback(d) IN
       [(IF Accepts(h) THEN Give(h, b) ELSE Called(h)) EXCEPT !.request = TRUE]
AlsaWrite(d, b) ==
  AlsaWriteUntriggered(IF d.request THEN AlsaStart([d EXCEPT !.request = FALSE]) ELSE d, b)

(* OSSDEVICE and ARTS_INTERFACE.  Without a trigger the first read, which  *)
(* comes next, starts to capture.                                          *)
OssStart(d) == [d EXCEPT !.running = TRUE, !.hw = IF SelfStarting(d) THEN @ ELSE "running"]
OssClose(d) == [BaseStop(d) EXCEPT !.hw = "none", !.queue = <<>>, !.opened = FALSE]

(* REALTIME_NULL: `began' is when it was started, `done' what has passed.  *)
NullAvailable(d) ==
  IF d.dir = "read" THEN d.now - d.began - d.done ELSE DvSpace - (d.done - (d.now - d.began))
NullTransfer(d) ==
  [d EXCEPT !.done = @ + 1, !.xruns = IF d.running /\ NullAvailable(d) > DvSpace THEN @ + 1 ELSE @]
NullPrepareOnly(d) == [d EXCEPT !.prepared = TRUE]
NullPrepare(d) == [d EXCEPT !.prepared = TRUE, !.done = 0]
NullStart(d) == [d EXCEPT !.running = TRUE, !.began = d.now]

----------------------------------------------------------------------------
(* The calls of the engine.                                                *)
PrefillSpace(d) == IF d.dir = "read" \/ d.kind = "arts" THEN 0 ELSE DvSpace
PrepareOnly(d) ==
  CASE d.kind = "alsa" -> AlsaPrepare(d) [] d.kind = "rtnull" -> NullPrepare(d)
    [] OTHER -> [d EXCEPT !.prepared = TRUE]
WriteDevice(d, b) ==
  CASE d.kind = "alsa" -> AlsaWrite(d, b) [] d.kind = "rtnull" -> NullTransfer(d) [] OTHER -> Give(d, b)
(* Silence that free running hardware takes at once is not waited for.     *)
Prefilled(d) ==
  LET n == IF PrefillSpace(d) < DvPrefill THEN PrefillSpace(d) ELSE DvPrefill
      after[k \in 0..n] == IF k = 0 THEN d ELSE
        IF Full(after[k - 1]) /\ d.kind # "rtnull" THEN WriteDevice(Plays(after[k - 1]), 0) ELSE WriteDevice(after[k - 1], 0)
  IN after[n]
PrepareDevice(d) == Prefilled(PrepareOnly(d))
StartDevice(d) ==
  CASE d.kind = "alsa" -> AlsaStart(d) [] d.kind = "rtnull" -> NullStart(d) [] OTHER -> OssStart(d)
StopDevice(d, drain) ==
  IF ~d.running THEN d ELSE IF d.kind = "alsa" THEN AlsaStop(d, drain) ELSE BaseStop(d)
CloseDevice(d) ==
  CASE d.kind = "alsa" -> AlsaClose(d) [] d.kind = "oss" -> OssClose(d)
    [] d.kind = "arts" -> [d EXCEPT !.hw = "none", !.queue = <<>>, !.opened = FALSE]
    [] OTHER -> [d EXCEPT !.hw = "none", !.opened = FALSE]

(* Does the transfer return, now?                                          *)
Returns(d) ==
  IF d.kind = "rtnull" THEN ~d.running \/ NullAvailable(d) >= 1
  ELSE IF d.dir = "write" THEN ~Full(d) \/ (d.kind = "alsa" /\ ~Accepts(d))
  ELSE d.queue # <<>> \/ (d.kind = "alsa" /\ d.hw \notin {"prepared", "running"})

----------------------------------------------------------------------------
DvInit ==
  \E k \in DvKinds, dir \in {"read", "write"}, ignore \in BOOLEAN, t \in BOOLEAN :
    /\ dv = NewDevice(k, dir, ignore, t)
    /\ (k # "alsa" => ignore) /\ (k # "oss" => t)

DvStep(next) == dv.steps < DvSteps /\ dv' = [next EXCEPT !.steps = dv.steps + 1]

DvOpen ==
  /\ dv.phase = "off" /\ ~dv.opened
  /\ \E ok \in DvOpens :
       /\ ok \/ dv.kind \in {"alsa", "oss"}
       /\ DvStep([dv EXCEPT !.opened = ok, !.hw = "setup", !.used = FALSE])

(* A start of the engine: devices are prepared, outputs filled, and then   *)
(* started.                                                                *)
DvPrepare ==
  /\ dv.phase = "off" /\ dv.opened /\ ~dv.running
  /\ ~dv.used \/ dv.kind \in DvRestarts
  /\ DvStep([PrepareDevice(dv) EXCEPT !.phase = "prepared", !.drained = FALSE])
DvStart ==
  /\ dv.phase = "prepared"
  /\ DvStep([StartDevice(dv) EXCEPT !.phase = "on", !.used = TRUE, !.known = dv.xruns,
               !.last = IF dv.dir = "read" THEN dv.now ELSE @])

(* A device that has closed itself has finished: the engine stops.         *)
DvIterate ==
  /\ dv.phase = "on" /\ Returns(dv)
  /\ LET d == IF dv.dir = "write" THEN [WriteDevice(dv, dv.sent + 1) EXCEPT !.sent = dv.sent + 1]
              ELSE IF dv.kind = "alsa" THEN AlsaRead(dv)
              ELSE IF dv.kind = "rtnull" THEN NullTransfer(dv) ELSE Take(dv)
     IN DvStep([d EXCEPT !.phase = IF d.opened THEN "on" ELSE "off", !.last = IF d.opened \/ d.dir = "read" THEN @ ELSE d.sent])

(* What a stop without a drain drops is not missed, nor what a suspended   *)
(* device held.                                                            *)
DvStop ==
  /\ dv.phase = "on" /\ (DvLateStop \/ ~dv.request)
  /\ \E drain \in BOOLEAN :
       LET d == StopDevice(dv, drain) IN
       DvStep([d EXCEPT !.phase = "off", !.drained = drain /\ dv.hw # "suspended",
                 !.last = IF (drain /\ dv.hw # "suspended") \/ dv.kind # "alsa" \/ dv.dir = "read" THEN @ ELSE dv.sent])
DvClose ==
  /\ dv.phase = "off" /\ dv.opened
  /\ DvStep([CloseDevice(dv) EXCEPT !.last = IF dv.dir = "write" THEN dv.sent ELSE @])

(* Time passes for the hardware.                                           *)
HwTick ==
  /\ dv.opened
  /\ IF dv.kind = "rtnull" THEN dv.phase = "on" /\ DvStep([dv EXCEPT !.now = @ + 1])
     ELSE IF ~Moves(dv) THEN dv.dir = "read" /\ dv.hw = "xrun" /\ DvStep([dv EXCEPT !.now = @ + 1])
     ELSE IF dv.dir = "write" THEN DvStep(Plays(dv))
     ELSE (Full(dv) => dv.kind \in DvRunsOver) /\ DvStep(Captures(dv))
HwSuspend ==
  /\ dv.kind = "alsa" /\ dv.hw = "running" /\ dv.ignore \in DvSuspends
  /\ DvStep([dv EXCEPT !.hw = "suspended", !.queue = <<>>])

DvNext ==
  DvOpen \/ DvPrepare \/ DvStart \/ DvIterate \/ DvStop \/ DvClose \/ HwTick \/ HwSuspend
DvSpec == DvInit /\ [][DvNext]_dv

----------------------------------------------------------------------------
DvTypeOK ==
  /\ dv.phase \in {"off", "prepared", "on"}
  /\ dv.hw \in {"none", "setup", "prepared", "running", "xrun", "suspended"}
  /\ Len(dv.queue) <= DvSpace /\ dv.sent \in Nat /\ dv.xruns \in Nat

(* From a start to the stop, what has been written is heard in order and   *)
(* without loss, through underruns too; what is read follows without gaps  *)
(* but the overruns that are counted; and a drained stop returns when all  *)
(* that was written has been heard.                                        *)
DeviceKeepsAll ==
  /\ ~dv.lost
  /\ dv.drained /\ dv.dir = "write" /\ dv.kind \in DvDrains => dv.last = dv.sent

(* No call is made of a handle that has been closed, and no handle is left *)
(* open by an object that is not.                                          *)
HandlesMatch == ~dv.fault /\ (dv.hw # "none") = dv.opened

(* The engine is never blocked in a transfer to or from a device that does *)
(* not move: after an underrun it is triggered again.                      *)
NeverStalls ==
  dv.phase = "on" => dv.opened /\ (Returns(dv) \/ Moves(dv) \/ dv.kind = "rtnull")

(* The null device is never ahead of the clock by more than its buffer,    *)
(* however often it is started.                                            *)
NullPaced == dv.kind = "rtnull" /\ dv.running => NullAvailable(dv) >= 0

DevicesSound == DeviceKeepsAll /\ HandlesMatch /\ NeverStalls /\ NullPaced
=============================================================================
