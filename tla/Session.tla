------------------------------ MODULE Session ------------------------------
(***************************************************************************)
(* A session: its chainsetups, which one is selected (ECA_CONTROL and      *)
(* ECA_SESSION each keep a pointer), which one is connected, and the       *)
(* preconditions every command of the interactive mode goes through:       *)
(* selecting the connected chainsetup, connecting the selected one, or     *)
(* disconnecting it for the time of the command.                           *)
(*                                                                         *)
(* The inside of a chainsetup is in Chainsetup; here it is valid or not,   *)
(* and enable() succeeds or fails.  The engine is in Engine; here it is    *)
(* absent, idle or running.  After a null pointer was followed, or memory  *)
(* freed or written under the engine, nothing is said: the model stops.    *)
(* A definition that stands right before the one it varies, and that       *)
(* nothing uses, is a slip.                                                *)
(***************************************************************************)
EXTENDS Integers, Sequences, SequencesExt

CONSTANTS
  SetupNames,   \* names the user gives to chainsetups
  TempName,     \* "cs-edit-temp"
  MaxSetups     \* bound: chainsetups in the session

ASSUME SessionAssumption == TempName \notin SetupNames /\ MaxSetups \in Nat \ {0}

VARIABLE ses

Ptrs == 1..MaxSetups + 1
Faults == {"none", "null", "freed", "race"}

EmptySession ==
  [setups  |-> <<>>,   \* chainsetups_rep, as pointers
   name    |-> [p \in Ptrs |-> TempName],
   valid   |-> {},     \* is_valid()
   sel     |-> 0,      \* ECA_CONTROL: selected_chainsetup_repp
   ssel    |-> 0,      \* ECA_SESSION: selected_chainsetup_repp
   conn    |-> 0,      \* connected_chainsetup_repp
   on      |-> {},     \* is_enabled()
   engine  |-> "none", \* "none", "idle", "running"
   fault   |-> "none",
   cmd     |-> "none", \* history: the last command,
   failed  |-> FALSE,  \* an enable() or the loading failed in it,
   lost    |-> 0]      \* the chainsetup it has deleted

Found(s, n) == {i \in 1..Len(s.setups) : s.name[s.setups[i]] = n}
Named(s, n) ==
  IF Found(s, n) = {} THEN 0
  ELSE s.setups[CHOOSE i \in Found(s, n) : \A j \in Found(s, n) : i <= j]

(* selected_chainsetup(), connected_chainsetup(): "" for none.             *)
NameOf(s, p) == IF p = 0 THEN "" ELSE s.name[p]

IsConnected(s) == s.conn # 0 /\ s.conn \in s.valid /\ s.conn \in s.on

Fault(s, f) == IF s.fault = "none" THEN [s EXCEPT !.fault = f] ELSE s

Select(s, n) == [s EXCEPT !.sel = Named(s, n), !.ssel = Named(s, n)]

----------------------------------------------------------------------------
(* Connecting.                                                             *)

(* ECA_SESSION::disconnect_chainsetup(), ECA_CONTROL's, which closes the   *)
(* engine first.                                                           *)
SessionDisconnect(s) ==
  IF s.conn = 0 THEN Fault(s, "null")
  ELSE [s EXCEPT !.on = s.on \ {s.conn}, !.conn = 0]

Disconnect(s) == SessionDisconnect([s EXCEPT !.engine = "none"])

(* ok: whether enable() succeeds.                                          *)
SessionConnectKeeping(s, ok) ==
  IF s.ssel = 0 THEN Fault(s, "null")
  ELSE IF s.ssel = s.conn THEN s
  ELSE IF ok THEN [s EXCEPT !.on = s.on \cup {s.ssel}, !.conn = s.ssel]
             ELSE [s EXCEPT !.failed = TRUE]
SessionConnect(s, ok) ==
  IF s.ssel = 0 THEN Fault(s, "null")
  ELSE IF s.ssel = s.conn THEN s
  ELSE LET d == IF s.conn # 0 THEN SessionDisconnect(s) ELSE s IN
       IF ok THEN [d EXCEPT !.on = d.on \cup {d.ssel}, !.conn = d.ssel]
             ELSE [d EXCEPT !.failed = TRUE]

Connect(s, ok) ==
  SessionConnect(IF IsConnected(s) THEN Disconnect(s) ELSE s, ok)

----------------------------------------------------------------------------
(* action_requires_...() and check_action_preconditions(): the first case  *)
(* that applies, and only that one.                                        *)

NeedsSelected == {"remove", "edit", "connect", "option", "setpos"}
NeedsConnected == {"disconnect", "launch", "start", "run", "halt", "setpos"}
NeedsOffline == {"remove", "option", "chain"}

Outcome(s, go, reconnect, restart) ==
  [s |-> s, go |-> go, reconnect |-> reconnect, restart |-> restart]

Precondition(s, cmd, ok) ==
  IF s.sel = 0 /\ cmd \in NeedsSelected
  THEN IF IsConnected(s) THEN Outcome(Select(s, NameOf(s, s.conn)), TRUE, FALSE, FALSE)
                         ELSE Outcome(s, FALSE, FALSE, FALSE)
  ELSE IF ~IsConnected(s) /\ cmd \in NeedsConnected
  THEN LET t == IF s.sel # 0 /\ s.sel \in s.valid THEN Connect(s, ok) ELSE s
       IN Outcome(t, IsConnected(t), FALSE, FALSE)
  ELSE IF NameOf(s, s.sel) = NameOf(s, s.conn) /\ cmd \in NeedsOffline
  THEN Outcome(Disconnect(s), TRUE, TRUE, s.engine = "running")
  ELSE Outcome(s, TRUE, FALSE, FALSE)

Start(s) == IF IsConnected(s) THEN [s EXCEPT !.engine = "running"] ELSE s

(* The end of action(): reconnect, restart.                                *)
ReconnectIdle(s, pre, ok) ==
  IF ~pre.reconnect \/ s.sel = 0 \/ s.sel \notin s.valid THEN s ELSE Connect(s, ok)
Reconnect(s, pre, ok) ==
  IF ~pre.reconnect \/ s.sel = 0 \/ s.sel \notin s.valid THEN s
  ELSE LET t == Connect(s, ok) IN
       IF pre.restart /\ NameOf(t, t.sel) = NameOf(t, t.conn) THEN Start(t) ELSE t

(* action(): the preconditions, the command itself, and the reconnection.  *)
Prepared(cmd, ok) ==
  Precondition([ses EXCEPT !.cmd = cmd, !.failed = FALSE, !.lost = 0], cmd, ok)

Ended(pre, after, again) ==
  IF pre.go /\ pre.s.fault = "none" THEN Reconnect(after, pre, again) ELSE pre.s

Command(cmd, Handle(_)) ==
  /\ ses.fault = "none"
  /\ \E pre \in {Prepared(cmd, ok) : ok \in BOOLEAN} :
       ses' \in {Ended(pre, Handle(pre.s), again) : again \in BOOLEAN}

----------------------------------------------------------------------------
(* The commands.                                                           *)

Unused(s) ==
  CHOOSE p \in Ptrs : p \notin ToSet(s.setups) \cup {s.sel, s.ssel, s.conn}

AddedAnyway(s, n, valid) ==
  LET p == Unused(s) IN
  [s EXCEPT !.setups = Append(s.setups, p), !.name[p] = n, !.ssel = p,
            !.valid = IF valid THEN s.valid \cup {p} ELSE s.valid \ {p}]
(* ECA_SESSION::add_chainsetup(): a second one of a name is deleted again. *)
Added(s, n, valid) ==
  LET p == Unused(s) IN
  IF Named(s, n) # 0 THEN [s EXCEPT !.ssel = 0]
  ELSE [s EXCEPT !.setups = Append(s.setups, p), !.name[p] = n, !.ssel = p,
                 !.valid = IF valid THEN s.valid \cup {p} ELSE s.valid \ {p}]

(* ECA_CONTROL::add_chainsetup() selects it if there is one more.          *)
CsAdd ==
  /\ Len(ses.setups) < MaxSetups
  /\ \E n \in SetupNames :
       Command("add", LAMBDA s :
         IF Named(s, n) # 0 THEN Added(s, n, FALSE)
                            ELSE Select(Added(s, n, FALSE), n))

Load(s, n, parsed, valid) ==
  LET t == IF parsed THEN Added(s, n, valid) ELSE [s EXCEPT !.ssel = 0]
  IN [t EXCEPT !.sel = t.ssel, !.failed = (t.ssel = 0)]

CsLoad ==
  /\ Len(ses.setups) < MaxSetups
  /\ \E n \in SetupNames, parsed, valid \in BOOLEAN :
       Command("load", LAMBDA s : Load(s, n, parsed, valid))

CsSelect ==
  \E n \in SetupNames : Command("select", LAMBDA s : Select(s, n))

(* The session deletes the one it has selected, connected or not.          *)
RemoveSelected(s) ==
  LET t == [s EXCEPT !.sel = 0] IN
  IF s.ssel = 0 THEN t
  ELSE Fault([t EXCEPT !.setups = RemoveFirst(s.setups, s.ssel),
                       !.ssel = 0, !.lost = s.ssel,
                       !.on = s.on \ {s.ssel}, !.valid = s.valid \ {s.ssel}],
             IF s.ssel = s.conn THEN "freed" ELSE "none")

CsRemove == Command("remove", RemoveSelected)

CsConnect ==
  \E ok \in BOOLEAN :
    Command("connect", LAMBDA s : IF s.sel \in s.valid THEN Connect(s, ok) ELSE s)

CsDisconnect == Command("disconnect", Disconnect)

(* Commands that edit the selected chainsetup; it may become valid or      *)
(* invalid by them.  Those on chains do not ask for a selected one.        *)
Edited(s, valid) ==
  IF s.sel = 0 THEN Fault(s, "null")
  ELSE IF s.sel = s.conn /\ s.engine # "none" THEN Fault(s, "race")
  ELSE [s EXCEPT !.valid = IF valid THEN s.valid \cup {s.sel} ELSE s.valid \ {s.sel}]

EditSetup ==
  \E cmd \in {"option", "chain"}, valid \in BOOLEAN :
    Command(cmd, LAMBDA s : Edited(s, valid))

(* cs-edit: an editor is run on a copy in a file, the file is loaded.  The *)
(* connected chainsetup is replaced under a temporary name, another one is *)
(* removed first.                                                          *)
SwapUnnamed(s, old, ok) ==
  LET d == Select(Disconnect(s), TempName)
      c == IF d.sel \in d.valid THEN Connect(d, ok) ELSE d
      r == IF s.engine = "running" THEN Start(c) ELSE c
  IN Select(RemoveSelected(Select(r, NameOf(s, old))), TempName)
Swap(s, old, ok) ==
  LET d == Select(Disconnect(s), TempName)
      c == IF d.sel \in d.valid THEN Connect(d, ok) ELSE d
      r == IF s.engine = "running" THEN Start(c) ELSE c
      t == Select(RemoveSelected(Select(r, NameOf(s, old))), TempName)
  IN [t EXCEPT !.name[t.sel] = NameOf(s, old)]

EditCopy(s, edited, parsed, valid, ok) ==
  LET hot == NameOf(s, s.sel) = NameOf(s, s.conn)
      b   == IF hot THEN s ELSE RemoveSelected(s)
      l   == Load(b, IF hot THEN TempName ELSE NameOf(s, s.sel), parsed, valid)
  IN IF s.ssel = 0 THEN Fault(s, "null")
     ELSE IF ~edited THEN b
     ELSE IF hot /\ l.sel # 0 THEN Swap(l, s.sel, ok) ELSE l

CsEdit ==
  \E edited, parsed, valid, ok \in BOOLEAN :
    Command("edit", LAMBDA s : EditCopy(s, edited, parsed, valid, ok))

Launch == Command("launch", LAMBDA s :
            IF s.engine = "none" THEN [s EXCEPT !.engine = "idle"] ELSE s)
StartEngine == \E cmd \in {"start", "run"} : Command(cmd, Start)
StopEngine == Command("stop", LAMBDA s :
                IF s.engine = "running" THEN [s EXCEPT !.engine = "idle"] ELSE s)
HaltEngine == Command("halt", LAMBDA s : [s EXCEPT !.engine = "none"])
SetPosition == Command("setpos", LAMBDA s : s)

SessionInit == ses = EmptySession

SessionNext ==
  \/ CsAdd \/ CsLoad \/ CsSelect \/ CsRemove \/ CsConnect \/ CsDisconnect
  \/ EditSetup \/ CsEdit
  \/ Launch \/ StartEngine \/ StopEngine \/ HaltEngine \/ SetPosition

SessionSpec == SessionInit /\ [][SessionNext]_ses

----------------------------------------------------------------------------
(* Properties.                                                             *)

(* Every field keeps its type; the session holds no chainsetup twice, nor  *)
(* two of a name (commands find chainsetups by name, and compare names to  *)
(* see whether the selected one is the connected one).                     *)
SessionTypeOK ==
  /\ DOMAIN ses = DOMAIN EmptySession
  /\ ses.setups \in Seq(Ptrs) /\ IsInjective(ses.setups)
  /\ ses.name \in [Ptrs -> SetupNames \cup {TempName}]
  /\ \A p, q \in ToSet(ses.setups) : ses.name[p] = ses.name[q] => p = q
  /\ ses.valid \subseteq Ptrs /\ ses.on \subseteq Ptrs
  /\ {ses.sel, ses.ssel, ses.conn} \subseteq {0} \cup Ptrs
  /\ ses.engine \in {"none", "idle", "running"} /\ ses.fault \in Faults

Sound == ses.fault = "none"

(* Audio devices are held by the connected chainsetup only: no other is    *)
(* enabled, also when the connected one had become invalid; and the engine *)
(* works on the connected one, there is none without it.                   *)
ConnectedOnly ==
  Sound => /\ ses.on \subseteq {ses.conn} \cap ToSet(ses.setups)
           /\ ses.engine # "none" => IsConnected(ses)

(* A command that disconnects the chainsetup for its duration gives back   *)
(* what it found, the running engine included, if the chainsetup can still *)
(* be connected.                                                           *)
ConnectionGivenBack ==
  [][/\ ses'.cmd \in NeedsOffline /\ ses'.fault = "none"
     /\ IsConnected(ses) /\ ses.sel = ses.conn
     /\ ses'.sel \in ses'.valid /\ ~ses'.failed
     => /\ IsConnected(ses') /\ ses'.conn = ses.conn
        /\ ses.engine = "running" => ses'.engine = "running"]_ses

(* cs-edit of the connected chainsetup puts the edited one in its place,   *)
(* or keeps the old one; a name never leaves the session.                  *)
HotSwapKeeps ==
  [][/\ ses'.cmd = "edit" /\ ses'.fault = "none"
     /\ IsConnected(ses) /\ ses.sel = ses.conn
     => /\ Named(ses', ses.name[ses.conn]) # 0
        /\ \A p \in ToSet(ses'.setups) : ses'.name[p] # TempName]_ses

(* Commands that disconnect and connect on their own: the three together.  *)
SessionSound == []ConnectedOnly /\ ConnectionGivenBack /\ HotSwapKeeps

(* What preconditions and comments say and the code does not keep: these   *)
(* three are false (the README has the counterexamples).                   *)

(* eca-control-objects.cpp:96 requires of remove_chainsetup() that the     *)
(* connected chainsetup is not the selected one; no command may follow a   *)
(* null pointer or edit what the engine is processing.                     *)
NoFault == Sound

(* Selected is the same for ECA_CONTROL and for the session.               *)
SelectionsAgree == ses.sel = ses.ssel

(* An editor that cannot be started changes nothing.                       *)
EditLosesNothing ==
  [][ses'.cmd = "edit" => Len(ses'.setups) >= Len(ses.setups)]_ses
=============================================================================
