------------------------------- MODULE NetEci -------------------------------
(***************************************************************************)
(* The network server of the interactive mode (ECA_NETECI_SERVER): one      *)
(* thread polls the server socket and those of its clients, collects what   *)
(* arrives until a line is complete, executes the lines and writes the      *)
(* answers.                                                                 *)
(*                                                                          *)
(* A command is a model of its line: its name and its length in pieces.  On *)
(* the wire it is that many pieces, a carriage return and a line feed, and  *)
(* TCP delivers the pieces in order but cut anywhere.                       *)
(***************************************************************************)
EXTENDS Integers, Sequences

CONSTANTS
  NetClients,     \* the clients that may connect
  NetLines,       \* the commands they send, records [name, length]
  NetTurns,       \* bound on the commands of all clients
  NetChunk,       \* bound on what one read returns
  NetFirstBuffer, \* ECA_NETECI_START_BUFFER_SIZE, in pieces
  NetMaxBuffer,   \* ECA_NETECI_MAX_BUFFER_SIZE, in pieces
  NetWrites,      \* bound on the parts an answer is written in
  NetAfterQuit    \* whether a client sends commands behind a quit

ASSUME NetAssumption ==
  /\ {NetTurns, NetChunk, NetFirstBuffer, NetMaxBuffer, NetWrites}
       \subseteq Nat \ {0}
  /\ \A l \in NetLines : l.length \in Nat \ {0}
  /\ NetAfterQuit \in BOOLEAN

VARIABLES
  nc,    \* the connections
  ns     \* the server thread
netVars == <<nc, ns>>

Quit == "quit"
Wire(l) == [i \in 1 .. (l.length + 2) |->
              IF i <= l.length THEN l.name
              ELSE IF i = l.length + 1 THEN "cr" ELSE "lf"]

-----------------------------------------------------------------------------
(***************************************************************************)
(* parse_raw_incoming_data(), one piece b: a buffer that is full grows, or  *)
(* is flushed when it may not; a line feed after a carriage return ends a   *)
(* command and empties the buffer.                                          *)
(***************************************************************************)
Fits(s) ==
  CASE Len(s.buf) < s.size -> s
    [] Len(s.buf) = s.size /\ 2 * s.size <= NetMaxBuffer ->
         [s EXCEPT !.size = 2 * @]
    [] Len(s.buf) = s.size /\ 2 * s.size > NetMaxBuffer ->
         [s EXCEPT !.buf = <<>>]

Ends(buf) == Len(buf) > 0 /\ buf[Len(buf)] = "cr"

TakePieceKeeping(s, b) ==
  LET r == Fits(s) IN
  IF b = "lf" /\ Ends(r.buf)
    THEN [r EXCEPT !.cmds = Append(@, SubSeq(r.buf, 1, Len(r.buf) - 1))]
    ELSE [r EXCEPT !.buf = Append(@, b)]

TakePiece(s, b) ==
  LET r == Fits(s) IN
  IF b = "lf" /\ Ends(r.buf)
    THEN [r EXCEPT !.cmds = Append(@, SubSeq(r.buf, 1, Len(r.buf) - 1)),
                   !.buf = <<>>]
    ELSE [r EXCEPT !.buf = Append(@, b)]

(* The pieces 1 .. n of what a client has sent.                             *)
Parsed(c, n) ==
  LET f[i \in 0 .. n] ==
        IF i = 0 THEN [buf |-> nc[c].buf, size |-> nc[c].size, cmds |-> <<>>]
        ELSE TakePiece(f[i - 1], nc[c].wire[i])
  IN f[n]

Line(pieces) == [name |-> pieces[1], length |-> Len(pieces)]
IsLine(pieces) ==
  /\ pieces # <<>>
  /\ \A i \in DOMAIN pieces : pieces[i] = pieces[1]

-----------------------------------------------------------------------------
NoClient ==
  [fd |-> FALSE, listed |-> FALSE, up |-> FALSE, wire |-> <<>>, buf |-> <<>>,
   size |-> NetFirstBuffer, sent |-> <<>>, done |-> <<>>, got |-> <<>>]

NetInit ==
  /\ nc = [c \in NetClients |-> NoClient]
  /\ ns = [pc |-> "poll", ready |-> {}, who |-> "", cmds |-> <<>>,
           left |-> 0, clean |-> FALSE, exit |-> FALSE, turns |-> 0]

(***************************************************************************)
(* The clients: connect (accepted by handle_connection()), send, hang up.   *)
(***************************************************************************)
Connect(c) ==
  /\ ns.pc = "poll" /\ ~ns.exit /\ ~nc[c].listed /\ nc[c].sent = <<>>
  /\ nc' = [nc EXCEPT ![c] = [NoClient EXCEPT !.fd = TRUE, !.listed = TRUE,
                                              !.up = TRUE]]
  /\ UNCHANGED ns

Send(c) ==
  /\ nc[c].up /\ ns.turns < NetTurns
  /\ NetAfterQuit \/ \A i \in DOMAIN nc[c].sent : nc[c].sent[i].name # Quit
  /\ \E l \in NetLines :
       nc' = [nc EXCEPT ![c].wire = @ \o Wire(l), ![c].sent = Append(@, l)]
  /\ ns' = [ns EXCEPT !.turns = @ + 1]

HangUp(c) ==
  /\ nc[c].up
  /\ nc' = [nc EXCEPT ![c].up = FALSE]
  /\ UNCHANGED ns

-----------------------------------------------------------------------------
(***************************************************************************)
(* The server thread, check_for_events().                                   *)
(***************************************************************************)
Removed(n, c) == [n EXCEPT ![c].fd = FALSE]

Poll ==
  /\ ns.pc = "poll"
  /\ \/ /\ ns.exit
        /\ ns' = [ns EXCEPT !.pc = "gone"]
     \/ /\ ~ns.exit
        /\ ns' = [ns EXCEPT !.pc = "serve",
                            !.ready = {c \in NetClients :
                               nc[c].listed /\ (nc[c].wire # <<>>
                                                  \/ ~nc[c].up)}]
  /\ UNCHANGED nc

(* handle_client_messages(): what one read returns is parsed; nothing to    *)
(* read means that the client is gone.                                      *)
Read ==
  /\ ns.pc = "serve"
  /\ \E c \in ns.ready :
       IF nc[c].wire = <<>>
       THEN /\ nc' = Removed(nc, c)
            /\ ns' = [ns EXCEPT !.ready = @ \ {c}, !.clean = TRUE]
       ELSE \E n \in 1 .. Len(nc[c].wire) :
            LET p == Parsed(c, n) IN
            /\ n <= NetChunk
            /\ nc' = [nc EXCEPT ![c].wire = SubSeq(@, n + 1, Len(@)),
                                ![c].buf = p.buf, ![c].size = p.size]
            /\ ns' = [ns EXCEPT !.ready = @ \ {c}, !.who = c,
                                !.cmds = p.cmds, !.pc = "execute"]

(* One line: quit removes the client, anything else is executed; its answer *)
(* is still to be written.                                                  *)
Execute ==
  /\ ns.pc = "execute" /\ ns.cmds # <<>>
  /\ LET l == Head(ns.cmds)
         c == ns.who
     IN IF l # <<>> /\ l[1] = Quit
        THEN /\ nc' = Removed(nc, c)
             /\ ns' = [ns EXCEPT !.cmds = Tail(@), !.clean = TRUE]
        ELSE /\ nc' = [nc EXCEPT ![c].done = Append(@, l)]
             /\ ns' = [ns EXCEPT !.pc = "answer", !.left = NetWrites]

(* kvu_fd_write() writes the answer, or a part of it: what follows starts   *)
(* with the first byte again until enough has been written.  A client that  *)
(* is gone is removed.                                                      *)
Written(got, a, n) ==
  IF ns.left = NetWrites THEN Append(got, [line |-> a, part |-> n, again |-> 0])
  ELSE [got EXCEPT ![Len(got)].again = @ + n]

Answer ==
  /\ ns.pc = "answer"
  /\ LET c == ns.who
     IN IF ~nc[c].fd \/ ~nc[c].up
        THEN /\ nc' = Removed(nc, c)
             /\ ns' = [ns EXCEPT !.clean = TRUE, !.pc = "execute",
                                 !.cmds = Tail(@)]
        ELSE \E n \in 1 .. ns.left :
             /\ nc' = [nc EXCEPT ![c].got = Written(@, Head(ns.cmds), n)]
             /\ ns' = IF n = ns.left
                      THEN [ns EXCEPT !.pc = "execute", !.cmds = Tail(@)]
                      ELSE [ns EXCEPT !.left = @ - n]

Served ==
  /\ ns.pc = "execute" /\ ns.cmds = <<>>
  /\ ns' = [ns EXCEPT !.pc = "serve"]
  /\ UNCHANGED nc

(* clean_removed_clients() and back to the poll.                            *)
CleanClients ==
  /\ ns.pc = "serve" /\ ns.ready = {}
  /\ nc' = IF ~ns.clean THEN nc
           ELSE [c \in NetClients |->
                   IF nc[c].fd THEN nc[c]
                   ELSE [nc[c] EXCEPT !.listed = FALSE, !.buf = <<>>,
                                      !.wire = <<>>, !.up = FALSE]]
  /\ ns' = [ns EXCEPT !.pc = "poll", !.clean = FALSE, !.who = ""]

(* The program asks the server to leave its loop.                           *)
NetExit == ~ns.exit /\ ns' = [ns EXCEPT !.exit = TRUE] /\ UNCHANGED nc

NetServer == Poll \/ Read \/ Execute \/ Answer \/ Served \/ CleanClients
NetNext ==
  \/ NetServer \/ NetExit
  \/ \E c \in NetClients : Connect(c) \/ Send(c) \/ HangUp(c)

(* The server thread is scheduled and its poll has a timeout.               *)
NetFairness == WF_netVars(NetServer)
NetSpec == NetInit /\ [][NetNext]_netVars /\ NetFairness

-----------------------------------------------------------------------------
(* The types of the server's state.                                         *)
NetTypeOK ==
  /\ ns.pc \in {"poll", "serve", "execute", "answer", "gone"}
  /\ ns.ready \subseteq NetClients
  /\ \A c \in NetClients :
       /\ nc[c].size \in NetFirstBuffer .. NetMaxBuffer
       /\ Len(nc[c].buf) <= nc[c].size
       /\ nc[c].fd => nc[c].listed

(* What is executed for a client is what it sent, whole and in order, and   *)
(* what it reads is one answer to each command in the same order, of the    *)
(* length announced, however the network cuts the lines and the writes and  *)
(* whatever the other clients do; the last one may be under way, or cut off *)
(* when the client leaves.  Its bytes are the answer's if they are written  *)
(* at once; what is written again begins with the first byte.               *)
Whole(g) == g.part + g.again = NetWrites
SessionExact ==
  \A c \in NetClients :
    LET n == nc[c]
        last == Len(n.got)
    IN
    /\ Len(n.done) <= Len(n.sent)
    /\ \A i \in DOMAIN n.done :
         IsLine(n.done[i]) /\ Line(n.done[i]) = n.sent[i]
    /\ last <= Len(n.done)
    /\ \A i \in 1 .. last : n.got[i].line = n.done[i]
    /\ \A i \in 1 .. last - 1 : Whole(n.got[i])
    /\ last > 0 /\ n.up /\ ~(ns.pc = "answer" /\ ns.who = c) => Whole(n.got[last])

(* Every command of a client that stays connected is answered.              *)
EachAnswered ==
  \A c \in NetClients, i \in 1 .. NetTurns :
    (Len(nc[c].sent) >= i /\ nc[c].sent[i].name # Quit)
      ~> (Len(nc[c].got) >= i \/ ~nc[c].up \/ ns.exit)

(* Nothing is executed for a client that has been removed: false for what   *)
(* it sent behind a quit, and for lines that were read together with one    *)
(* whose answer could not be written (handle_client_messages() goes on).    *)
QuitFinal ==
  [][\A c \in NetClients : ~nc[c].fd => nc'[c].done = nc[c].done]_netVars
=============================================================================
