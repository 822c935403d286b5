------------------------------- MODULE SetupMC -------------------------------
(***************************************************************************)
(* What a session is made of, for TLC: each behaviour is one of the chains *)
(* of a chainsetup and their operators, one of a chainsetup, one of a      *)
(* session, one of the commands on its objects or one of the options it is *)
(* saved as; the others stay in their first state.                         *)
(***************************************************************************)
EXTENDS ChainOps, Chainsetup, Session, EciCommands, Settings

VARIABLE which

(* A file is opened at a rate of its own, its number; the others take any. *)
Rates == [o \in Objects |-> IF o \in Files THEN o ELSE 0]

Init ==
  /\ which \in {"chains", "chainsetup", "session", "commands", "settings"}
  /\ ChainInit /\ SetupInit /\ SessionInit /\ EcInit /\ OptInit
  /\ which # "chainsetup" => option = "auto"
  /\ which # "commands" => ec.there = {}
  /\ which # "settings" => opt.theme = "flags"

Next ==
  \/ which = "chains" /\ ChainNext /\ UNCHANGED <<setupVars, ses, ec, opt, which>>
  \/ which = "chainsetup" /\ SetupNext /\ UNCHANGED <<chainVars, ses, ec, opt, which>>
  \/ which = "session" /\ SessionNext /\ UNCHANGED <<chainVars, setupVars, ec, opt, which>>
  \/ which = "commands" /\ EcNext /\ UNCHANGED <<chainVars, setupVars, ses, opt, which>>
  \/ which = "settings" /\ OptNext /\ UNCHANGED <<chainVars, setupVars, ses, ec, which>>

Spec == Init /\ [][Next]_<<chainVars, setupVars, ses, ec, opt, which>>

(* The type invariants of the five, each for the behaviours it is about.   *)
TypeOK ==
  /\ which = "chains" => ChainTypeOK
  /\ which = "chainsetup" => SetupTypeOK
  /\ which = "session" => SessionTypeOK
  /\ which = "commands" => EcTypeOK
  /\ which = "settings" => OptTypeOK

(* What a user is served: commands act on what is selected, what is        *)
(* connected can be processed, and what is saved is what was set, and      *)
(* reads back as it was.                                                   *)
UserServed ==
  /\ which = "chains" => RoundTrip
  /\ which = "chainsetup" => EnabledOpen
  /\ which = "commands" => CommandsSound
  /\ which = "settings" => SettingsSound
=============================================================================
