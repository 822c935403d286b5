------------------------------- MODULE PeersMC -------------------------------
(***************************************************************************)
(* The parts that face another program, or a user, for TLC: each behaviour *)
(* is one of the JACK driver, of the MIDI server, of the network server,   *)
(* of the client library or of the program itself; the others stay in      *)
(* their first state.                                                      *)
(***************************************************************************)
EXTENDS JackDriver, MidiServer, NetEci, EciClient, Frontend

VARIABLE which

(* Two commands, one of them longer than the first buffer, and quit.       *)
Lines == {[name |-> "a", length |-> 1], [name |-> "b", length |-> 2],
          [name |-> Quit, length |-> 1]}

(* How the program is started, and the OSC messages that reach it.         *)
Arguments ==
  {<<"in">>, <<"-c">>, <<"-C", "--server">>, <<"-K", "--osc-udp-port">>,
   <<"--server", "--no-server", "-E", "-c">>, <<"--help", "-c">>, <<"-K", "in">>, <<>>}
Messages ==
  {<<"ecasound", "chain", "c1", "op", "1", "param", "2">>,
   <<"ecasound", "chain", "c1", "ctrl", "2", "param", "1">>,
   <<"ecasound", "chain", "c2", "op", "1", "param", "2">>,
   <<"ecasound", "chain", "c1", "op">>, <<"other", "chain", "c1">>}

Init ==
  /\ which \in {"jack", "midi", "net", "eci", "program"}
  /\ JackInit /\ MidiInit /\ NetInit /\ EciInit /\ FeInit
  /\ which # "jack" => jk = Manager("none")
  /\ which # "program" => fe = FeBegin(<<>>)

(* Two things happen to the driver at most: the user or another client of   *)
(* JACK does something, or the server shuts down.                           *)
JackTurns == ex'.user + ex'.others + (IF jk'.shutdown THEN 1 ELSE 0) <= 2

OfJack(A) ==
  /\ which = "jack" /\ A /\ JackTurns
  /\ UNCHANGED <<midiVars, netVars, eciVars, fe, which>>
OfProgram(A) ==
  which = "program" /\ Alive /\ A /\ UNCHANGED <<jackVars, midiVars, netVars, eciVars, which>>

Next ==
  \/ OfJack(JackNext)
  \/ which = "midi" /\ MidiNext /\ UNCHANGED <<jackVars, netVars, eciVars, fe, which>>
  \/ which = "net" /\ NetNext /\ UNCHANGED <<jackVars, midiVars, eciVars, fe, which>>
  \/ which = "eci" /\ EciNext /\ UNCHANGED <<jackVars, midiVars, netVars, fe, which>>
  \/ OfProgram(FeNext)

peerVars == <<jackVars, midiVars, netVars, eciVars, fe, which>>

(* JackFairness and FeFairness; the properties of the others are           *)
(* invariants.                                                             *)
Spec ==
  /\ Init /\ [][Next]_peerVars
  /\ WF_peerVars(OfJack(ExecStep))
  /\ SF_peerVars(OfJack(Free /\ JackSync))
  /\ SF_peerVars(OfJack(Free /\ JackProcess))
  /\ WF_peerVars(OfProgram(Main)) /\ WF_peerVars(OfProgram(Calls))
  /\ WF_peerVars(OfProgram(EngineTurn)) /\ WF_peerVars(OfProgram(Watchdog))
  /\ WF_peerVars(OfProgram(LeaveServer))

(* The type invariants of the five.                                        *)
TypeOK == JackTypeOK /\ MidiTypeOK /\ NetTypeOK /\ EciTypeOK /\ FeTypeOK

(* Answers belong to the commands they are given for, at the network       *)
(* server and at the client library; and the program tells and is told     *)
(* how it ends.                                                            *)
AnswersMatch == SessionExact /\ AnswerCurrent /\ ProgramSound

(* Who waits is answered: the transport by its callbacks (SyncAnswered),   *)
(* and whoever has asked the program to end (ProgramEnds).                 *)
WaitsAnswered ==
  [](ex.seeks = 0) =>
    (((which = "jack" /\ TransportWaits) \/ (which = "program" /\ AskedToEnd))
       ~> \/ which = "jack" /\ TransportAnswered
          \/ which = "program" /\ (Left \/ StaysOn))
=============================================================================
