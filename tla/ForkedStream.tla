---------------------------- MODULE ForkedStream ----------------------------
(***************************************************************************)
(* Files played and recorded through another program (mpg123, lame,        *)
(* ogg123, flac, faad, mikmod, timidity): AUDIO_IO_FORKED_STREAM and the   *)
(* classes derived from it.  Two objects of one process; each forks a      *)
(* decoder or an encoder, talks to it over a pipe and has to end it.       *)
(*                                                                         *)
(* A process ends with its input, with a pipe that nobody reads, by a      *)
(* signal, or by itself.  The caller blocks in waitpid(), fread() and in   *)
(* opening a named pipe; nothing else of the caller happens meanwhile.     *)
(***************************************************************************)
EXTENDS Naturals, Sequences, SequencesExt, FiniteSets

CONSTANTS
  ForkKinds,    \* classes of the first object; the second is a FLAC writer
  ForkFrames,   \* samples in a file, or given to an encoder
  ForkPcm,      \* samples in a coded frame, the unit an MP3 decoder skips by
  ForkMax,      \* bound on the number of processes forked
  ForkCrash,    \* one of the processes may end by itself
  ForkFast,     \* ... and before they are first looked for
  ForkKills     \* objects may be closed without having been stopped

ASSUME ForkAssumption ==
  /\ ForkKinds \subseteq {"mp3", "ogg", "fifo", "flac", "aac", "mikmod", "timidity"}
  /\ ForkFrames \in Nat /\ ForkMax \in Nat /\ ForkPcm \in Nat \ {0}
  /\ {ForkCrash, ForkFast, ForkKills} \subseteq BOOLEAN

VARIABLES
  fs,      \* the objects
  procs,   \* the processes forked, in order
  busy     \* the call that blocks, its object, and what it does next

forkVars == <<fs, procs, busy>>

Objs == {1, 2}
Blocks(what, i, next) == [what |-> what, of |-> i, next |-> next]
Idle == Blocks("none", 1, "none")

(* The classes.  writes: it can encode; seeks: its decoder is started      *)
(* again at a position; kills: its process is killed by close(); keeps:    *)
(* the handle of an earlier fork stays if a fork fails; late: a failed     *)
(* fork ends the stream at once; marked: open() leaves the mark of the end *)
(* as it is.                                                               *)
Plainly(writes) ==
  [writes |-> writes, seeks |-> FALSE, kills |-> FALSE, keeps |-> FALSE, late |-> FALSE, marked |-> FALSE]
Mp3File ==
  [Plainly(TRUE) EXCEPT !.seeks = TRUE, !.kills = TRUE, !.keeps = TRUE, !.marked = TRUE]
OggVorbis == Plainly(TRUE)
Flac == Plainly(TRUE)
Aac == Plainly(TRUE)
Mikmod == [Plainly(FALSE) EXCEPT !.keeps = TRUE]
Timidity == [Plainly(FALSE) EXCEPT !.keeps = TRUE, !.late = TRUE]
(* One whose program writes into a named pipe.                             *)
NamedPipe == Plainly(FALSE)

ClassOf(o) ==
  CASE o.kind = "mp3" -> Mp3File [] o.kind = "ogg" -> OggVorbis [] o.kind = "flac" -> Flac
    [] o.kind = "aac" -> Aac [] o.kind = "mikmod" -> Mikmod [] o.kind = "timidity" -> Timidity
    [] o.kind = "fifo" -> NamedPipe

Seeks(o) == ClassOf(o).seeks /\ o.mode = "read"

(* lost: the processes that the object has forked another after, without   *)
(* having waited for them.                                                 *)
StreamOf(kind, mode) ==
  [kind |-> kind, mode |-> mode, open |-> FALSE, trig |-> FALSE, fin |-> FALSE,
   pid |-> 0, handle |-> 0, pos |-> 0, last |-> 0,
   got |-> <<>>, sent |-> 0, lost |-> {}, fault |-> "none"]

(* parent: the caller has its end of the pipe open; kin: processes that    *)
(* inherited that end; cut: killed before its work was done.               *)
Process(i, mode, from) ==
  [of |-> i, mode |-> mode, state |-> "run", at |-> from, pipe |-> <<>>,
   parent |-> TRUE, kin |-> {}, cut |-> FALSE, failed |-> FALSE]

Alive(p) == procs[p].state = "run"
Held(p) == procs[p].parent \/ \E q \in procs[p].kin : Alive(q)

----------------------------------------------------------------------------
(* fork_child_for_read(), fork_child_for_write().                          *)

(* A process keeps the files of its parent that are not marked.            *)
InheritsAll(ps) ==
  [p \in DOMAIN ps |-> IF ps[p].parent THEN [ps[p] EXCEPT !.kin = @ \cup {Len(ps) + 1}]
                                       ELSE ps[p]]
(* afs_fd_set_cloexec(): every end the caller holds is marked.             *)
Inherits(ps) == ps

(* init_state_before_fork(), and the offset MP3FILE passes on.             *)
ForkPos(o) == IF Seeks(o) THEN o.pos ELSE 0
ForkFrom(o) == ForkPos(o) - (ForkPos(o) % ForkPcm)

(* fast: the process has ended when wait_for_child() looks right after the  *)
(* fork, a decoder with all it had to say in the pipe, an encoder that      *)
(* failed.                                                                 *)
ForkedProcess(i, fast) ==
  LET new == Process(i, fs[i].mode, ForkFrom(fs[i])) IN
  IF ~fast THEN new
  ELSE IF fs[i].mode = "write" THEN [new EXCEPT !.state = "reaped", !.failed = TRUE]
  ELSE [new EXCEPT !.state = "reaped", !.at = ForkFrames,
                   !.pipe = [k \in 1..ForkFrames |-> k - 1]]

(* pid_of_child_rep and fd_rep are overwritten, whatever they were.         *)
Forked(i, fast, starting) ==
  LET o == fs[i]  p == Len(procs) + 1  late == ClassOf(o).late /\ fast IN
  /\ p <= ForkMax /\ (fast => ForkFast)
  /\ procs' = Append(Inherits(procs), ForkedProcess(i, fast))
  /\ fs' = [fs EXCEPT
       ![i].trig = starting \/ ~late, ![i].fin = @ \/ late,
       ![i].pid = p, ![i].lost = (@ \cup {o.pid}) \ {0}, ![i].pos = ForkPos(o), ![i].last = ForkPos(o),
       ![i].got = <<>>, ![i].handle = IF ~fast THEN p ELSE IF ClassOf(o).keeps THEN @ ELSE 0]

(* A named pipe is opened next, which needs the process to open it too.    *)
AfterFork(i, fast, next) ==
  IF fs[i].kind = "fifo" /\ ~fast THEN Blocks("fifo", i, next) ELSE Blocks(next, i, "none")

FifoOpened ==
  /\ busy.what = "fifo" /\ Alive(fs[busy.of].pid)
  /\ busy' = Blocks(busy.next, busy.of, "none")
  /\ UNCHANGED <<fs, procs>>

----------------------------------------------------------------------------
(* The calls of the chainsetup, the engine or the i/o server.              *)

Ready(i) == busy.what = "none" /\ fs[i].open

(* A writer of MP3 files keeps the mark of an earlier failure.             *)
ForkOpen(i) ==
  /\ busy.what = "none" /\ ~fs[i].open
  /\ fs' = [fs EXCEPT ![i].open = TRUE, ![i].trig = FALSE, ![i].got = <<>>, ![i].sent = 0,
              ![i].fin = @ /\ ClassOf(fs[i]).marked /\ fs[i].mode = "write",
              ![i].pos = ForkPos(fs[i])]
  /\ UNCHANGED <<procs, busy>>

StartIo(i) ==
  /\ Ready(i) /\ ~fs[i].trig
  /\ \E fast \in BOOLEAN :
       Forked(i, fast, TRUE) /\ busy' = AfterFork(i, fast, "none")

(* read_samples(), write_samples(): the process is started if need be.     *)
AskBlock(i) ==
  /\ Ready(i) /\ ~fs[i].fin
  /\ fs[i].mode = "write" => fs[i].sent < ForkFrames
  /\ IF fs[i].trig
     THEN UNCHANGED <<fs, procs>> /\ busy' = Blocks("io", i, "none")
     ELSE \E fast \in BOOLEAN :
            Forked(i, fast, FALSE) /\ busy' = AfterFork(i, fast, "io")

(* fread() returns a block of one sample, or nothing at the end of the     *)
(* stream or without a handle, which some classes do not test.             *)
Fread ==
  LET i == busy.of  o == fs[i]  h == o.handle
      more == h # 0 /\ procs[h].parent /\ procs[h].pipe # <<>> IN
  /\ busy.what = "io" /\ o.mode = "read"
  /\ h # 0 /\ procs[h].parent /\ Alive(h) => more
  /\ busy' = Idle
  /\ IF more
     THEN /\ procs' = [procs EXCEPT ![h].pipe = Tail(@)]
          /\ fs' = [fs EXCEPT ![i].got = Append(@, Head(procs[h].pipe)), ![i].fin = FALSE,
                              ![i].pos = @ + 1, ![i].last = @ + 1]
     ELSE /\ fs' = [fs EXCEPT ![i].fin = TRUE, ![i].trig = FALSE,
                      ![i].fault = IF h = 0 /\ ClassOf(o).keeps THEN "null" ELSE @]
          /\ UNCHANGED procs

(* write() after wait_for_child(): a process that has gone ends the stream.*)
Fwrite ==
  LET i == busy.of  p == fs[i].pid IN
  /\ busy.what = "io" /\ fs[i].mode = "write"
  /\ ~Alive(p) \/ procs[p].pipe = <<>>
  /\ busy' = Idle
  /\ IF Alive(p)
     THEN /\ procs' = [procs EXCEPT ![p].pipe = <<fs[i].sent>>]
          /\ fs' = [fs EXCEPT ![i].sent = @ + 1, ![i].fin = FALSE, ![i].pos = @ + 1]
     ELSE /\ procs' = [procs EXCEPT ![p].state = "reaped"]
          /\ fs' = [fs EXCEPT ![i].fin = TRUE, ![i].trig = FALSE, ![i].pos = @ + 1]

----------------------------------------------------------------------------
(* clean_child(): the pipe is closed, the process killed if that is asked  *)
(* for, and waited for.                                                    *)

Ended(i, force) ==
  LET p == fs[i].pid IN
  IF p = 0 THEN procs ELSE
  [procs EXCEPT ![p].parent = FALSE, ![p].cut = @ \/ (force /\ Alive(p)),
                ![p].state = IF force /\ @ = "run" THEN "zombie" ELSE @]

(* waitpid() returns when the process has ended.  One that was waited for  *)
(* before is no child any more, and the signal that then follows is meant  *)
(* for a number which may have been given to another process.              *)
Waited ==
  LET i == busy.of  p == fs[i].pid IN
  /\ busy.what = "wait"
  /\ p # 0 => ~Alive(p)
  /\ procs' = IF p = 0 THEN procs ELSE [procs EXCEPT ![p].state = "reaped"]
  /\ fs' = [fs EXCEPT ![i].pid = 0, ![i].open = busy.next # "close",
              ![i].fault = IF p # 0 /\ procs[p].state = "reaped" THEN "stray" ELSE @]
  /\ busy' = Idle

(* stop_io(): only a reader's process is killed.                           *)
StopIoForced(i) ==
  /\ Ready(i) /\ fs[i].trig
  /\ procs' = Ended(i, TRUE)
  /\ fs' = [fs EXCEPT ![i].trig = FALSE]
  /\ busy' = Blocks("wait", i, "none")
StopIo(i) ==
  /\ Ready(i) /\ fs[i].trig
  /\ procs' = Ended(i, fs[i].mode = "read")
  /\ fs' = [fs EXCEPT ![i].trig = FALSE]
  /\ busy' = Blocks("wait", i, "none")

(* MP3FILE::seek_position() restarts the process.  The other classes go    *)
(* back to the start only, after a stop, which the engine makes first.     *)
SeekLazy(i, to) ==
  /\ Ready(i) /\ fs[i].mode = "read"
  /\ ~Seeks(fs[i]) => to = 0 /\ ~fs[i].trig
  /\ fs' = [fs EXCEPT ![i].pos = to, ![i].fin = FALSE, ![i].got = <<>>]
  /\ UNCHANGED <<procs, busy>>
SeekTo(i, to) ==
  /\ Ready(i) /\ fs[i].mode = "read"
  /\ ~Seeks(fs[i]) => to = 0 /\ ~fs[i].trig
  /\ LET stop == fs[i].trig /\ fs[i].last # to IN
     /\ fs' = [fs EXCEPT ![i].pos = to, ![i].fin = FALSE, ![i].got = <<>>,
                         ![i].trig = @ /\ ~stop]
     /\ procs' = IF stop THEN Ended(i, TRUE) ELSE procs
     /\ busy' = IF stop THEN Blocks("wait", i, "none") ELSE busy

(* close(): MP3FILE kills, the others close the pipe and wait.             *)
CloseAtOnce(i) ==
  /\ Ready(i) /\ (fs[i].trig => ForkKills)
  /\ fs' = [fs EXCEPT ![i].open = FALSE]
  /\ UNCHANGED <<procs, busy>>
ForkClose(i) ==
  /\ Ready(i) /\ (fs[i].trig => ForkKills)
  /\ IF fs[i].pid # 0
     THEN /\ procs' = Ended(i, ClassOf(fs[i]).kills)
          /\ fs' = [fs EXCEPT ![i].trig = FALSE]
          /\ busy' = Blocks("wait", i, "close")
     ELSE fs' = [fs EXCEPT ![i].open = FALSE] /\ UNCHANGED <<procs, busy>>

----------------------------------------------------------------------------
(* The processes; a pipe has room for one sample.                          *)

Decode(p) ==
  /\ Alive(p) /\ procs[p].mode = "read" /\ Held(p)
  /\ procs[p].at < ForkFrames /\ procs[p].pipe = <<>>
  /\ procs' = [procs EXCEPT ![p].pipe = <<procs[p].at>>, ![p].at = @ + 1]
  /\ UNCHANGED <<fs, busy>>

Encode(p) ==
  /\ Alive(p) /\ procs[p].mode = "write" /\ procs[p].pipe # <<>>
  /\ procs' = [procs EXCEPT ![p].pipe = Tail(@), ![p].at = @ + 1]
  /\ UNCHANGED <<fs, busy>>

(* The end of its work, a pipe without reader, or a failure.               *)
Exits(p) ==
  /\ Alive(p)
  /\ \/ procs[p].mode = "read" /\ (procs[p].at >= ForkFrames \/ ~Held(p))
     \/ procs[p].mode = "write" /\ procs[p].pipe = <<>> /\ ~Held(p)
  /\ procs' = [procs EXCEPT ![p].state = "zombie"]
  /\ UNCHANGED <<fs, busy>>

Crashes(p) ==
  /\ ForkCrash /\ Alive(p) /\ \A q \in 1..Len(procs) : ~procs[q].failed
  /\ procs' = [procs EXCEPT ![p].state = "zombie", ![p].failed = TRUE]
  /\ UNCHANGED <<fs, busy>>

ProcessOf(p) == p <= Len(procs) /\ (Decode(p) \/ Encode(p) \/ Exits(p))

----------------------------------------------------------------------------
ForkInit ==
  /\ \E k \in ForkKinds, m \in {"read", "write"} :
       /\ m = "write" => ClassOf(StreamOf(k, m)).writes
       /\ fs = [i \in Objs |-> IF i = 1 THEN StreamOf(k, m) ELSE StreamOf("flac", "write")]
  /\ procs = <<>> /\ busy = Idle

ForkCall(i) ==
  \/ ForkOpen(i) \/ StartIo(i) \/ AskBlock(i)
  \/ (\E to \in 0..ForkFrames : SeekTo(i, to))
  \/ StopIo(i) \/ ForkClose(i)

ForkReturns == FifoOpened \/ Fread \/ Fwrite \/ Waited

ForkNext ==
  \/ (\E i \in Objs : ForkCall(i))
  \/ ForkReturns
  \/ (\E p \in 1..Len(procs) : ProcessOf(p) \/ Crashes(p))

ForkSpec ==
  /\ ForkInit /\ [][ForkNext]_forkVars
  /\ WF_forkVars(ForkReturns)
  /\ \A p \in 1..ForkMax : WF_forkVars(ProcessOf(p))

----------------------------------------------------------------------------
(* Properties.                                                             *)

ForkTypeOK ==
  /\ \A i \in Objs :
       /\ DOMAIN fs[i] = DOMAIN StreamOf("mp3", "read")
       /\ {fs[i].pid, fs[i].handle} \subseteq 0..Len(procs)
       /\ fs[i].lost \subseteq 1..Len(procs)
       /\ fs[i].fault \in {"none", "null", "stray"}
  /\ \A p \in 1..Len(procs) :
       /\ procs[p].of \in Objs /\ procs[p].state \in {"run", "zombie", "reaped"}
       /\ procs[p].kin \subseteq 1..Len(procs)
  /\ busy.what \in {"none", "io", "fifo", "wait"} /\ busy.of \in Objs

(* What a reader has got since its process was started or since it was     *)
(* moved are the samples of the file in order and without a gap, and from  *)
(* less than one coded frame before its position, in whatever order it is  *)
(* started, stopped and moved (MP3FILE: a decoder that is at the position  *)
(* already is kept, any other replaced).                                   *)
DeliversFile ==
  \A i \in Objs : LET g == fs[i].got  at == fs[i].pos - Len(g) IN
    fs[i].mode = "read" =>
    \A k \in 1..Len(g) : /\ g[k] = g[1] + k - 1
                         /\ at - g[1] \in 0..(ForkPcm - 1)

(* Everything that was written has been encoded when the writer is stopped *)
(* or closed, unless the encoder failed by itself.                         *)
EncodesAll ==
  \A p \in 1..Len(procs) :
    procs[p].mode = "write" /\ procs[p].state = "reaped" /\ ~procs[p].failed
      => ~procs[p].cut /\ procs[p].pipe = <<>>

(* A closed object has left no process and no open pipe behind.  One that   *)
(* had come to its end by itself when its object was started again is no    *)
(* longer known: it stays, with its pipe, but it is dead.                   *)
NothingLeft ==
  \A p \in 1..Len(procs) : LET o == fs[procs[p].of] IN
    IF p \in o.lost THEN ~Alive(p)
    ELSE ~o.open => procs[p].state = "reaped" /\ ~procs[p].parent

(* The three together.                                                     *)
ForksSound == DeliversFile /\ EncodesAll /\ NothingLeft

(* Waiting for a process ends: closing the pipe tells it, although other   *)
(* processes have been forked since, or it is killed.                      *)
WaitsEnd == busy.what = "wait" ~> busy.what = "none"

(* What the code does not keep: with ForkFast a handle that was never set  *)
(* is read, or a signal is sent to a process that was waited for; with     *)
(* ForkCrash the latter, by an object that writes.                         *)
ForkSound == \A i \in Objs : fs[i].fault = "none"
=============================================================================
