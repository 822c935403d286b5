----------------------------- MODULE MidiServer -----------------------------
(***************************************************************************)
(* The MIDI server (MIDI_SERVER) and its parser.  The i/o thread polls the  *)
(* device, parses what it reads into the latest values of the controllers   *)
(* that somebody follows, and acknowledges stop requests; the engine thread *)
(* starts and stops it and follows controllers, the control thread enables  *)
(* and disables it.  They share three atomic flags and the map of values.   *)
(*                                                                          *)
(* A byte is its class and, for a data byte, its value: a status byte of a  *)
(* controller message ("cc") carries its channel, the other classes are     *)
(* voice, system common and real-time status bytes.                         *)
(***************************************************************************)
EXTENDS Integers, Sequences

CONSTANTS
  MidiChannels,   \* subset of 0 .. 15
  MidiData,       \* data bytes: controller numbers and values
  MidiLine,       \* bound on the bytes waiting in the device
  MidiMessages,   \* bound on the messages sent to ecasound
  MidiForeign,    \* what else the sender may do: a subset of
                  \* {"voice", "cut", "status"}
  MidiErrors,     \* whether a read may fail: subset of BOOLEAN
  MidiTurns       \* bound on the calls that start, stop and follow

ASSUME MidiAssumption ==
  /\ MidiChannels \subseteq 0 .. 15 /\ MidiData \subseteq 0 .. 127
  /\ {MidiLine, MidiMessages, MidiTurns} \subseteq Nat
  /\ MidiForeign \subseteq {"voice", "cut", "status"} /\ MidiErrors \subseteq BOOLEAN

VARIABLES
  ms,     \* the flags and the parser of the server
  mt,     \* the values that are followed: traced controllers to values
  line,   \* the bytes the device has received
  mc      \* the sender's view, and the callers
midiVars == <<ms, mt, line, mc>>

Controllers == MidiChannels \X MidiData
Byte == [class : {"cc"}, ch : MidiChannels]
          \cup [class : {"voice", "common", "realtime"}]
          \cup [class : {"data"}, v : MidiData]
Status0(class) == [class |-> class]
Data(v) == [class |-> "data", v |-> v]

-----------------------------------------------------------------------------
(***************************************************************************)
(* parse_receive_queue(), one byte: s is the parser, t the values.  A       *)
(* running status of 0 is "none".                                           *)
(***************************************************************************)
NoteStatusEvery(s, b) ==
  CASE b.class = "cc" -> [s EXCEPT !.status = "cc", !.channel = b.ch]
    [] b.class = "voice" -> [s EXCEPT !.status = "voice"]
    [] b.class \in {"common", "realtime"} ->
         [s EXCEPT !.status = "none", !.channel = -1]

NoteStatus(s, b) ==
  CASE b.class = "cc" -> [s EXCEPT !.status = "cc", !.channel = b.ch]
    [] b.class = "voice" -> [s EXCEPT !.status = "voice"]
    [] b.class = "common" -> [s EXCEPT !.status = "none", !.channel = -1]
    [] b.class = "realtime" -> s

Listening(s) == s.status # "none" /\ s.channel # -1

NoteData(s, b) ==
  IF ~Listening(s) THEN s
  ELSE [s EXCEPT !.number = IF @ = -1 THEN b.v ELSE -1]

ParseByte(s, b) == IF b.class = "data" THEN NoteData(s, b) ELSE NoteStatus(s, b)

Followed(s, t, b) ==
  LET c == <<s.channel, s.number>> IN
  IF b.class = "data" /\ Listening(s) /\ s.number # -1 /\ c \in DOMAIN t
    THEN [t EXCEPT ![c] = b.v]
    ELSE t

-----------------------------------------------------------------------------
(* A server that is constructed: no thread, nothing running.                *)
MidiInit ==
  /\ ms = [running |-> FALSE, stop |-> FALSE, exit |-> FALSE,
           thread |-> "none", status |-> "none", channel |-> -1,
           number |-> -1]
  /\ mt = <<>>
  /\ line = <<>>
  /\ mc = [truth |-> <<>>, sent |-> 0, last |-> -1, turns |-> 0,
           wanted |-> FALSE, joining |-> FALSE]

(***************************************************************************)
(* The i/o thread: it sleeps while the server is not running, otherwise     *)
(* reads what the device has, parses it and then looks for a stop request.  *)
(***************************************************************************)
IoIdle ==
  /\ ms.thread = "top" /\ ~ms.running
  /\ ms' = [ms EXCEPT !.thread = IF ms.exit THEN "gone" ELSE "top"]
  /\ UNCHANGED <<mt, line, mc>>

IoSelect ==
  /\ ms.thread = "top" /\ ms.running
  /\ \E bad \in MidiErrors :
       ms' = [ms EXCEPT !.thread = IF bad THEN "gone" ELSE "read"]
  /\ UNCHANGED <<mt, line, mc>>

IoByte ==
  /\ ms.thread = "read" /\ line # <<>>
  /\ ms' = ParseByte(ms, Head(line))
  /\ mt' = Followed(ms, mt, Head(line))
  /\ line' = Tail(line)
  /\ UNCHANGED mc

IoRead ==
  /\ ms.thread = "read"
  /\ ms' = [ms EXCEPT !.thread = IF ms.stop THEN "clear" ELSE "top"]
  /\ UNCHANGED <<mt, line, mc>>

IoClear ==
  /\ ms.thread = "clear"
  /\ ms' = [ms EXCEPT !.stop = FALSE, !.thread = "rest"]
  /\ UNCHANGED <<mt, line, mc>>

IoRest ==
  /\ ms.thread = "rest"
  /\ ms' = [ms EXCEPT !.running = FALSE, !.thread = "top"]
  /\ UNCHANGED <<mt, line, mc>>

IoThread == IoIdle \/ IoSelect \/ IoByte \/ IoRead \/ IoClear \/ IoRest

-----------------------------------------------------------------------------
(***************************************************************************)
(* The callers.  enable() and disable() come with the chainsetup, start()   *)
(* and stop() with the engine; disable() joins the i/o thread.              *)
(***************************************************************************)
MidiEnable ==
  /\ ms.thread = "none" /\ mc.turns < MidiTurns
  /\ ms' = [running |-> FALSE, stop |-> FALSE, exit |-> FALSE,
            thread |-> "top", status |-> "none", channel |-> -1,
            number |-> -1]
  /\ mc' = [mc EXCEPT !.turns = @ + 1, !.wanted = FALSE]
  /\ UNCHANGED <<mt, line>>

MidiStart ==
  /\ ms.thread # "none" /\ ~mc.joining /\ ~mc.wanted /\ mc.turns < MidiTurns
  /\ ms' = [ms EXCEPT !.stop = FALSE, !.running = TRUE]
  /\ mc' = [mc EXCEPT !.turns = @ + 1, !.wanted = TRUE]
  /\ UNCHANGED <<mt, line>>

MidiStop ==
  /\ ms.thread # "none" /\ ~mc.joining /\ mc.wanted
  /\ ms' = [ms EXCEPT !.stop = TRUE]
  /\ mc' = [mc EXCEPT !.wanted = FALSE]
  /\ UNCHANGED <<mt, line>>

MidiDisable ==
  /\ ms.thread # "none" /\ ~mc.joining /\ ~mc.wanted
  /\ ms' = [ms EXCEPT !.stop = TRUE, !.exit = TRUE]
  /\ mc' = [mc EXCEPT !.joining = TRUE]
  /\ UNCHANGED <<mt, line>>

(* The thread is gone; the chainsetup closes the device.                    *)
MidiJoined ==
  /\ mc.joining /\ ms.thread = "gone"
  /\ ms' = [ms EXCEPT !.thread = "none"]
  /\ mc' = [mc EXCEPT !.joining = FALSE, !.truth = mt, !.last = -1]
  /\ line' = <<>>
  /\ UNCHANGED mt

(* A new engine resets the parser (init()).  The sender begins again with a *)
(* status byte; one that does not know of the new engine need not.          *)
MidiReset ==
  /\ ms.thread # "none" /\ ~mc.joining /\ ~mc.wanted /\ line = <<>>
  /\ ms' = [ms EXCEPT !.status = "none", !.channel = -1, !.number = -1]
  /\ \E last \in {-1} \cup (IF "status" \in MidiForeign THEN {mc.last} ELSE {}) :
       mc' = [mc EXCEPT !.last = last]
  /\ UNCHANGED <<mt, line>>

(* add_controller_trace(): the value starts over, also of a controller that *)
(* is already followed.  Here nothing is under way, so that the value of a  *)
(* message is not counted for a controller that is followed after it.       *)
MidiFollow ==
  /\ mc.turns < MidiTurns /\ line = <<>>
  /\ \E c \in Controllers, v \in MidiData :
       mt' = [k \in DOMAIN mt \cup {c} |-> IF k = c THEN v ELSE mt[k]]
  /\ mc' = [mc EXCEPT !.turns = @ + 1, !.truth = mt']
  /\ UNCHANGED <<ms, line>>

MidiUnfollow ==
  /\ line = <<>>
  /\ \E c \in DOMAIN mt : mt' = [k \in DOMAIN mt \ {c} |-> mt[k]]
  /\ mc' = [mc EXCEPT !.truth = mt']
  /\ UNCHANGED <<ms, line>>

-----------------------------------------------------------------------------
(***************************************************************************)
(* The other end of the cable sends whole controller messages, without the  *)
(* status byte when it is still the running status, real-time bytes between *)
(* any two bytes, and system common messages.  mc.truth is what a receiver  *)
(* of the MIDI specification holds for the controllers that are followed.   *)
(***************************************************************************)
Sent(bytes) ==
  /\ ms.thread # "none" /\ mc.sent < MidiMessages
  /\ Len(line) + Len(bytes) <= MidiLine
  /\ line' = line \o bytes
  /\ UNCHANGED <<ms, mt>>

SendController ==
  \E ch \in MidiChannels, n \in MidiData, v \in MidiData, gap \in BOOLEAN :
    LET begin == <<[class |-> "cc", ch |-> ch]>>
        tick == IF gap THEN <<Status0("realtime")>> ELSE <<>>
        c == <<ch, n>>
    IN /\ Sent((IF mc.last = ch THEN <<>> ELSE begin) \o tick \o <<Data(n)>>
                 \o tick \o <<Data(v)>>)
       /\ mc' = [mc EXCEPT !.sent = @ + 1, !.last = ch,
                           !.truth = IF c \in DOMAIN @
                                     THEN [@ EXCEPT ![c] = v] ELSE @]

(* A system common message; a note, or a controller message that is cut off *)
(* before its value.                                                        *)
SendOther ==
  \E what \in {"common"} \cup (MidiForeign \ {"status"}),
     ch \in MidiChannels, n \in MidiData :
    /\ Sent(CASE what = "common" -> <<Status0("common"), Data(n)>>
              [] what = "voice" -> <<Status0("voice"), Data(n), Data(n)>>
              [] what = "cut" -> <<[class |-> "cc", ch |-> ch], Data(n),
                                   Status0("common")>>)
    /\ mc' = [mc EXCEPT !.sent = @ + 1, !.last = -1]

MidiCalls ==
  \/ MidiEnable \/ MidiStart \/ MidiStop \/ MidiDisable \/ MidiJoined
  \/ MidiReset \/ MidiFollow \/ MidiUnfollow
MidiNext == IoThread \/ MidiCalls \/ SendController \/ SendOther

(* The i/o thread is scheduled, and select() waits for a second at most.    *)
MidiFairness == WF_midiVars(IoThread) /\ WF_midiVars(MidiJoined)
MidiSpec == MidiInit /\ [][MidiNext]_midiVars /\ MidiFairness

-----------------------------------------------------------------------------
(* The types of the server's state.                                         *)
MidiTypeOK ==
  /\ ms.thread \in {"none", "top", "read", "clear", "rest", "gone"}
  /\ \A f \in {"running", "stop", "exit"} : ms[f] \in BOOLEAN
  /\ ms.status \in {"none", "cc", "voice"}
  /\ ms.channel \in MidiChannels \cup {-1}
  /\ ms.number \in MidiData \cup {-1}
  /\ DOMAIN mt \subseteq Controllers
  /\ \A c \in DOMAIN mt : mt[c] \in MidiData
  /\ \A i \in DOMAIN line : line[i] \in Byte

(* Once everything that was received has been parsed, each controller that  *)
(* is followed has the value of the last message sent to it: running        *)
(* status, real-time bytes in the middle of a message and system messages   *)
(* between them are understood (parse_receive_queue()).                     *)
TraceExact == (line = <<>>) => mt = mc.truth

(* A stopped server comes to rest, and disable() does not wait for ever.    *)
MidiStops == (ms.stop /\ ~mc.wanted) ~> (~ms.running \/ mc.wanted)
DisableEnds == mc.joining ~> ~mc.joining

(* A server that was started and not stopped since is running               *)
(* (start() ensures is_running()).                                          *)
MidiStarted == (mc.wanted /\ ms.thread \in {"top", "read"}) => ms.running
=============================================================================
