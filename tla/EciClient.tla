------------------------------ MODULE EciClient ------------------------------
(***************************************************************************)
(* The client library (libecasoundc, ecasoundc_sa.c): an application starts *)
(* ecasound as a child, writes commands to one pipe and reads, from another,*)
(* the well-formed messages in which the answers come among log messages.   *)
(*                                                                          *)
(* The n-th command is the number n.  A message is a sequence of pieces:    *)
(* each number, the type and the parts of the content are one piece each,   *)
(* between separators; [k |-> kind, v |-> value], the type a kind.          *)
(***************************************************************************)
EXTENDS Integers, Sequences

CONSTANTS
  EciTypes,     \* the return types, "e" for an error among them
  EciCommands,  \* bound on the commands of the application
  EciLogs,      \* bound on the log messages the child writes
  EciReads,     \* ECI_MAX_RESYNC_ATTEMPTS
  EciTimeouts,  \* bound on the reads that time out
  EciDeath      \* {TRUE} or {}: whether the child may die

ASSUME EciAssumption ==
  /\ EciReads \in Nat \ {0}
  /\ {EciCommands, EciLogs, EciTimeouts} \subseteq Nat

VARIABLES
  ec,    \* the handle: counters, parser, last values, where the call is
  eo     \* the child: commands not yet handled, what is in the answer pipe
eciVars == <<ec, eo>>

RetLevel == 256
GenLevel == 1
None == "-"
Num(n) == [k |-> "num", v |-> n]
Sym(s) == [k |-> s, v |-> 0]
NewLine == <<Sym("cr"), Sym("lf")>>

(* ECA_LOGGER_WELLFORMED::create_wellformed_message()                       *)
Header(level, type, size) ==
  <<Num(level), Sym("sp"), Num(size)>>
    \o (IF level = RetLevel
        THEN <<Sym("sp"), Sym(type)>> ELSE <<>>)
Message(level, type, content) ==
  Header(level, type, Len(content)) \o NewLine \o content
    \o NewLine \o NewLine

(* The content of the answer to command n, in two pieces.                   *)
Content(n) == [i \in 1 .. 2 |-> [k |-> "text", v |-> 2 * n + i]]

-----------------------------------------------------------------------------
(***************************************************************************)
(* The parser, eci_impl_update_state(): one piece.  A state in which a token *)
(* is being read collects it in buf.                                        *)
(***************************************************************************)
FreshParser ==
  [st |-> "init", ret |-> FALSE, phase |-> "none", buf |-> <<>>, size |-> 0]

NoValues == [t \in EciTypes |-> <<>>]

Begin(p) == [p EXCEPT !.phase = "reading", !.buf = <<>>]
Done(p, st) == [p EXCEPT !.st = st, !.phase = "none"]
TokenOf(p) == IF p.phase = "none" THEN Begin(p) ELSE p

Moved(p, c) ==
  CASE p.st = "init" ->
         IF c.k = "num" THEN [Begin(p) EXCEPT !.st = "loglevel"]
                        ELSE [p EXCEPT !.phase = "none"]
    [] p.st = "loglevel" ->
         IF c.k = "sp"
         THEN [Done(p, "msgsize") EXCEPT !.ret = (p.buf[1].v = RetLevel)]
         ELSE p
    [] p.st = "msgsize" ->
         IF c.k = (IF p.ret THEN "sp" ELSE "cr")
         THEN [Done(p, IF p.ret THEN "type" ELSE "lf1")
                 EXCEPT !.size = p.buf[1].v]
         ELSE TokenOf(p)
    [] p.st = "type" -> IF c.k = "cr" THEN Done(p, "lf1") ELSE TokenOf(p)
    [] p.st = "lf1" ->
         [p EXCEPT !.st = IF c.k = "lf" THEN "content" ELSE "init"]
    [] p.st = "content" ->
         IF c.k = "cr"
         THEN [p EXCEPT !.st = "lf2", !.phase = "validate",
                        !.buf = IF p.size = 0 THEN <<>> ELSE @]
         ELSE TokenOf(p)
    [] p.st = "lf2" ->
         [p EXCEPT !.st = IF c.k = "lf" THEN "cr3" ELSE "content"]
    [] p.st = "cr3" ->
         [p EXCEPT !.st = IF c.k = "cr" THEN "lf3" ELSE "content"]
    [] p.st = "lf3" ->
         [p EXCEPT !.st = IF c.k = "lf" THEN "init" ELSE "content"]

Collected(p, c) ==
  IF p.phase = "reading" THEN [p EXCEPT !.buf = Append(@, c)] ELSE p

(* The return type is stored when its line ends, the value and the counter  *)
(* when the message does: eci_impl_set_last_values().                       *)
UpdateState(e, c) ==
  LET p == e.parser
      f == [e EXCEPT !.parser = Collected(Moved(p, c), c)]
  IN CASE p.st = "type" /\ c.k = "cr" -> [f EXCEPT !.type = p.buf[1].k]
       [] p.st = "lf3" /\ c.k = "lf" /\ p.ret ->
            [f EXCEPT !.vals[e.type] = p.buf, !.seen = @ + 1]
       [] OTHER -> f

Parse(e, pieces) ==
  LET f[i \in 0 .. Len(pieces)] ==
        IF i = 0 THEN e ELSE UpdateState(f[i - 1], pieces[i])
  IN f[Len(pieces)]

-----------------------------------------------------------------------------
EciInit ==
  /\ ec = [pc |-> "none", sent |-> 0, seen |-> 0, lost |-> FALSE, type |-> None,
           vals |-> NoValues, parser |-> FreshParser, tries |-> 0,
           wait |-> FALSE]
  /\ eo = [alive |-> TRUE, todo |-> <<>>, pipe |-> <<>>, said |-> <<>>,
           logs |-> 0, times |-> 0]

(* eci_init_r(): the child is started and the first answer awaited.         *)
EciStart ==
  /\ ec.pc = "none"
  /\ ec' = [ec EXCEPT !.pc = "init", !.sent = 1]
  /\ eo' = [eo EXCEPT !.todo = <<1>>]

(***************************************************************************)
(* eci_command_r(): the values of the last command are cleared, the command *)
(* is written, and an answer that is still owed means that the connection   *)
(* is out of step for good.  Only a run is waited for without a timeout.    *)
(***************************************************************************)
CleanLastValuesSet(v) == [t \in EciTypes |-> IF t = "e" THEN <<>> ELSE v[t]]
CleanLastValues(v) == NoValues

EciCommand ==
  /\ ec.pc = "ready" /\ ec.sent < EciCommands
  /\ \E run \in {FALSE, TRUE} :
       ec' = [ec EXCEPT !.pc = "command", !.tries = 0, !.wait = run,
                        !.vals = CleanLastValues(@), !.sent = @ + 1,
                        !.lost = @ \/ ec.sent # ec.seen]
  /\ eo' = [eo EXCEPT !.todo = IF eo.alive THEN Append(@, ec.sent + 1) ELSE @]

(* The end of eci_impl_read_return_value() and of its caller.               *)
Returned(e) ==
  LET l == [e EXCEPT !.lost = @ \/ e.sent # e.seen, !.tries = 0] IN
  IF e.pc = "command" THEN [l EXCEPT !.pc = "ready"]
  ELSE [l EXCEPT !.pc = IF e.sent = e.seen THEN "ready" ELSE "gone"]

Reading == ec.pc \in {"init", "command"}

AttemptOneMore(e) ==
  IF e.tries + 1 > EciReads THEN Returned(e)
                            ELSE [e EXCEPT !.tries = @ + 1]

Attempt(e) ==
  IF e.tries + 1 >= EciReads THEN Returned(e)
                             ELSE [e EXCEPT !.tries = @ + 1]

(* One read(): as much of the pipe as is there, or as fits.                 *)
EciRead ==
  /\ Reading /\ eo.pipe # <<>>
  /\ \E n \in {Len(eo.pipe) \div 2, Len(eo.pipe)} \ {0} :
       LET e == Parse(ec, SubSeq(eo.pipe, 1, n)) IN
       /\ eo' = [eo EXCEPT !.pipe = SubSeq(@, n + 1, Len(@))]
       /\ ec' = IF e.sent = e.seen THEN Returned(e) ELSE Attempt(e)

(* Nothing comes: the poll times out, or the child has closed its end.      *)
EciTimeout ==
  /\ Reading /\ ~ec.wait /\ eo.pipe = <<>> /\ eo.alive
  /\ eo.times < EciTimeouts
  /\ eo' = [eo EXCEPT !.times = @ + 1]
  /\ ec' = Returned([ec EXCEPT !.lost = TRUE])

EciHangUp ==
  /\ Reading /\ eo.pipe = <<>> /\ ~eo.alive
  /\ ec' = Attempt(ec)
  /\ UNCHANGED eo

(* eci_cleanup_r(): quit, and the pipe is drained until the child closes it. *)
EciCleanup ==
  /\ ec.pc = "ready"
  /\ ec' = [ec EXCEPT !.pc = "cleanup", !.sent = @ + 1]
  /\ eo' = [eo EXCEPT !.todo = IF eo.alive THEN Append(@, 0) ELSE @]

EciDrain ==
  /\ ec.pc = "cleanup"
  /\ \/ /\ eo.pipe # <<>>
        /\ eo' = [eo EXCEPT !.pipe = Tail(@)]
        /\ UNCHANGED ec
     \/ /\ eo.pipe = <<>> /\ ~eo.alive
        /\ ec' = [ec EXCEPT !.pc = "gone"]
        /\ UNCHANGED eo

-----------------------------------------------------------------------------
(***************************************************************************)
(* The child: it handles the commands in order, answers each, quit apart,   *)
(* with one message, writes log messages when it likes, and may die.        *)
(***************************************************************************)
ChildAnswer ==
  /\ eo.alive /\ eo.todo # <<>> /\ Head(eo.todo) # 0
  /\ \E t \in EciTypes, whole \in {TRUE, FALSE} :
       LET a == [type |-> t,
                 content |-> IF whole THEN Content(Head(eo.todo)) ELSE <<>>]
       IN eo' = [eo EXCEPT !.todo = Tail(@), !.said = Append(@, a),
                           !.pipe = @ \o Message(RetLevel, t, a.content)]
  /\ UNCHANGED ec

ChildLog ==
  /\ eo.alive /\ eo.logs < EciLogs
  /\ eo' = [eo EXCEPT !.logs = @ + 1,
                      !.pipe = @ \o Message(GenLevel, None, Content(0))]
  /\ UNCHANGED ec

ChildEnd ==
  /\ eo.alive /\ eo.todo # <<>>
  /\ Head(eo.todo) = 0 \/ TRUE \in EciDeath
  /\ eo' = [eo EXCEPT !.alive = FALSE, !.todo = <<>>]
  /\ UNCHANGED ec

EciCaller == EciRead \/ EciTimeout \/ EciHangUp \/ EciDrain
EciChild == ChildAnswer \/ ChildLog \/ ChildEnd
EciNext == EciStart \/ EciCommand \/ EciCleanup \/ EciCaller \/ EciChild
EciSpec == EciInit /\ [][EciNext]_eciVars

-----------------------------------------------------------------------------
(* The types of the handle and of the child.                                *)
EciTypeOK ==
  /\ ec.pc \in {"none", "init", "ready", "command", "cleanup", "gone"}
  /\ ec.tries \in 0 .. EciReads - 1
  /\ ec.type \in EciTypes \cup {None}
  /\ eo.logs \in 0 .. EciLogs /\ eo.times \in 0 .. EciTimeouts

(***************************************************************************)
(* Unless eci_error() reports that the connection is out of step, the last  *)
(* type and value are those of the command just given, and no other field   *)
(* holds what an earlier command left, however the answers are cut and      *)
(* whatever is logged between them; the answer that is read is the one that *)
(* was counted.                                                             *)
(***************************************************************************)
AnswerCurrent ==
  (ec.pc = "ready" /\ ~ec.lost) =>
    /\ Len(eo.said) = ec.sent
    /\ LET a == eo.said[ec.sent] IN
       /\ ec.type = a.type
       /\ ec.vals = [NoValues EXCEPT ![a.type] = a.content]

(* An engine that answers each command in time is never reported lost:      *)
(* false, as the reads are counted and not the time (ecasoundc_sa.c:1023).  *)
NoFalseLoss == (eo.alive /\ eo.times = 0) => ~ec.lost
=============================================================================
