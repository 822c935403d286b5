----------------------------- MODULE AudioProofs -----------------------------
(***************************************************************************)
(* Of what plays and records: the streams of ForkedStream and their        *)
(* processes, for every class, file length, length of a coded frame and    *)
(* number of processes; sound files and the files of other libraries, for  *)
(* every length, block, sector and number of calls; sample buffers, for    *)
(* every number of channels, length and ratio of rates.                    *)
(***************************************************************************)
EXTENDS ForkedStream, SoundFiles, SampleBuffer, SequenceTheorems, TLAPS

Kinds == {"mp3", "ogg", "fifo", "flac", "aac", "mikmod", "timidity"}

Stream ==
  [kind : Kinds, mode : {"read", "write"}, open : BOOLEAN, trig : BOOLEAN,
   fin : BOOLEAN, pid : Nat, handle : Nat, pos : Nat, last : Nat,
   got : Seq(Int), sent : Nat, lost : SUBSET Nat,
   fault : {"none", "null", "stray"}]

Forking ==
  [of : Objs, mode : {"read", "write"}, state : {"run", "zombie", "reaped"},
   at : Int, pipe : Seq(Int), parent : BOOLEAN, kin : {{}}, cut : BOOLEAN,
   failed : BOOLEAN]

Blocking ==
  [what : {"none", "io", "fifo", "wait", "close"}, of : Objs, next : {"none", "io", "close"}]

Typed ==
  /\ fs \in [Objs -> Stream] /\ procs \in Seq(Forking) /\ busy \in Blocking
  /\ \A i \in Objs : fs[i].pid <= Len(procs) /\ fs[i].handle <= Len(procs)

\* A process belongs to the object that forked it; an object that is started or
\* waits for its process knows one, and has closed the pipe before it waits.
Owners ==
  /\ \A i \in Objs :
       /\ fs[i].pid # 0 => procs[fs[i].pid].of = i
       /\ fs[i].handle # 0 => procs[fs[i].handle].of = i
       /\ fs[i].trig => fs[i].pid # 0
  /\ \A p \in 1..Len(procs) : procs[p].mode = fs[procs[p].of].mode
  /\ busy.what \in {"io", "fifo"} => fs[busy.of].pid # 0
  /\ busy.what = "wait" =>
       /\ ~fs[busy.of].trig
       /\ fs[busy.of].pid # 0 => ~procs[fs[busy.of].pid].parent

-----------------------------------------------------------------------------
(* The operators. *)

\* What the constants are.
LEMMA Constants ==
  /\ ForkKinds \subseteq Kinds /\ ForkFrames \in Nat /\ ForkMax \in Nat
  /\ ForkPcm \in Nat /\ ForkPcm > 0
BY ForkAssumption DEF Kinds

\* Each kind of object has a class.
LEMMA Classes ==
  ASSUME NEW o \in Stream
  PROVE  ClassOf(o) \in [writes : BOOLEAN, seeks : BOOLEAN, kills : BOOLEAN,
                         keeps : BOOLEAN, late : BOOLEAN, marked : BOOLEAN]
BY DEF Stream, Kinds, ClassOf, Mp3File, OggVorbis, Flac, Aac, Mikmod, Timidity,
       NamedPipe, Plainly

\* A decoder starts less than one coded frame before the position asked for.
LEMMA StartsBefore ==
  ASSUME NEW o \in Stream
  PROVE  /\ ForkPos(o) \in Nat /\ ForkFrom(o) \in Int
         /\ ForkPos(o) - ForkFrom(o) \in 0..(ForkPcm - 1)
<1>1. ForkPos(o) \in Nat
  BY DEF ForkPos, Stream
<1>2. ForkPos(o) % ForkPcm \in 0..(ForkPcm - 1)
  BY <1>1, Constants
<1> QED BY <1>1, <1>2, Constants DEF ForkFrom

\* Ending a process closes the pipe of the caller, and touches no other process.
LEMMA EndedOne ==
  ASSUME Typed, NEW i \in Objs, NEW force \in BOOLEAN,
         NEW ps, ps = Ended(i, force)
  PROVE  /\ ps \in Seq(Forking) /\ Len(ps) = Len(procs)
         /\ \A p \in 1..Len(procs) :
              p # fs[i].pid => ps[p] = procs[p]
         /\ fs[i].pid # 0 =>
              ps[fs[i].pid] = [procs[fs[i].pid] EXCEPT !.parent = FALSE,
                                 !.cut = procs[fs[i].pid].cut \/ (force /\ Alive(fs[i].pid)),
                                 !.state = IF force /\ procs[fs[i].pid].state = "run"
                                           THEN "zombie" ELSE procs[fs[i].pid].state]
<1>0. /\ procs \in Seq(Forking) /\ fs[i].pid \in Nat /\ fs[i].pid <= Len(procs)
  BY DEF Typed, Stream
<1>1. CASE fs[i].pid = 0
  BY <1>0, <1>1 DEF Ended
<1>2. CASE fs[i].pid # 0
  <2>1. PICK p \in 1..Len(procs) : p = fs[i].pid
    BY <1>0, <1>2
  <2>2. PICK q : q = [procs[p] EXCEPT !.parent = FALSE,
                        !.cut = procs[p].cut \/ (force /\ Alive(p)),
                        !.state = IF force /\ procs[p].state = "run"
                                  THEN "zombie" ELSE procs[p].state]
    OBVIOUS
  <2>3. procs[p] \in Forking
    BY <1>0
  <2>4. PICK c \in BOOLEAN : c = (procs[p].cut \/ (force /\ Alive(p)))
    BY <2>3 DEF Forking
  <2>5. PICK s \in {"run", "zombie", "reaped"} :
          s = IF force /\ procs[p].state = "run" THEN "zombie" ELSE procs[p].state
    BY <2>3 DEF Forking
  <2>6. q \in Forking
    <3>1. q = [procs[p] EXCEPT !.parent = FALSE, !.cut = c, !.state = s]
      BY <2>2, <2>4, <2>5
    <3> QED BY <2>3, <3>1 DEF Forking
  <2>7. ps = [procs EXCEPT ![p] = q]
    BY <1>2, <2>1, <2>2 DEF Ended
  <2>8. ps \in Seq(Forking) /\ Len(ps) = Len(procs)
    BY <1>0, <2>1, <2>6, <2>7
  <2>9. \A n \in 1..Len(procs) : n # p => ps[n] = procs[n]
    BY <1>0, <2>1, <2>7
  <2>10. ps[p] = q
    BY <1>0, <2>1, <2>7
  <2> QED BY <2>1, <2>2, <2>8, <2>9, <2>10
<1> QED BY <1>1, <1>2

\* The process that is ended keeps what is in its pipe.
LEMMA EndedIt ==
  ASSUME Typed, NEW i \in Objs, NEW force \in BOOLEAN,
         NEW p \in 1..Len(procs), p = fs[i].pid,
         NEW q, q = Ended(i, force)[p]
  PROVE  /\ ~q.parent /\ q.of = procs[p].of /\ q.mode = procs[p].mode
         /\ q.pipe = procs[p].pipe /\ q.at = procs[p].at /\ q.failed = procs[p].failed
         /\ q.cut <=> procs[p].cut \/ (force /\ Alive(p))
         /\ q.state = IF force /\ procs[p].state = "run" THEN "zombie" ELSE procs[p].state
<1>1. PICK ps : ps = Ended(i, force)
  OBVIOUS
<1>2. procs[p] \in Forking /\ fs[i].pid # 0
  BY DEF Typed
<1>3. q = [procs[p] EXCEPT !.parent = FALSE,
             !.cut = procs[p].cut \/ (force /\ Alive(p)),
             !.state = IF force /\ procs[p].state = "run" THEN "zombie"
                       ELSE procs[p].state]
  BY <1>1, <1>2, EndedOne, ZenonT(60)
<1> QED BY <1>2, <1>3 DEF Forking

\* The other processes stay as they are.
LEMMA EndedOthers ==
  ASSUME Typed, NEW i \in Objs, NEW force \in BOOLEAN,
         NEW p \in 1..Len(procs), p # fs[i].pid
  PROVE  Ended(i, force)[p] = procs[p]
<1>1. procs \in Seq(Forking) /\ fs[i].pid \in Nat
  BY DEF Typed, Stream
<1> QED BY <1>1 DEF Ended

\* A fork gives the object a new process; only one that still runs is certain to
\* get the handle.
NewProcess(i, fast, o, q) ==
  /\ fs' = [fs EXCEPT ![i] = o] /\ procs' = Append(procs, q)
  /\ o.mode = fs[i].mode /\ o.open = fs[i].open
  /\ o.pid = Len(procs) + 1 /\ o.pos = o.last /\ o.got = <<>>
  /\ o.lost = (fs[i].lost \cup {fs[i].pid}) \ {0}
  /\ q.of = i /\ q.mode = o.mode /\ q.parent /\ ~q.cut
  /\ fast => /\ o.handle \in {0, fs[i].handle}
             /\ q.state = "reaped" /\ (q.mode = "write" => q.failed)
  /\ ~fast => /\ o.trig /\ o.handle = o.pid
              /\ q.state = "run" /\ q.pipe = <<>>
              /\ o.pos - q.at \in 0..(ForkPcm - 1)

\* Every fork is one of these.
LEMMA ForkedNew ==
  ASSUME Typed, NEW i \in Objs, NEW fast \in BOOLEAN, NEW starting \in BOOLEAN,
         Forked(i, fast, starting)
  PROVE  \E o \in Stream, q \in Forking : NewProcess(i, fast, o, q)
<1> DEFINE q == ForkedProcess(i, fast)
           late == ClassOf(fs[i]).late /\ fast
           p == Len(procs) + 1
           o == [fs[i] EXCEPT !.trig = starting \/ ~late, !.fin = fs[i].fin \/ late,
                   !.pid = p, !.lost = (fs[i].lost \cup {fs[i].pid}) \ {0},
                   !.pos = ForkPos(fs[i]), !.last = ForkPos(fs[i]),
                   !.got = <<>>,
                   !.handle = IF ~fast THEN p
                              ELSE IF ClassOf(fs[i]).keeps THEN fs[i].handle ELSE 0]
<1>0. fs[i] \in Stream /\ procs \in Seq(Forking) /\ p \in Nat /\ fs \in [Objs -> Stream]
  BY DEF Typed
<1>1. fs' = [fs EXCEPT ![i] = o] /\ procs' = Append(procs, q)
  BY <1>0, ZenonT(60) DEF Forked, Inherits
<1>2. o \in Stream
  <2>1. ForkPos(fs[i]) \in Nat /\ <<>> \in Seq(Int)
    BY <1>0, StartsBefore
  <2>2. PICK t \in BOOLEAN : t = (starting \/ ~late)
    BY <1>0, Classes
  <2>3. PICK f \in BOOLEAN : f = (fs[i].fin \/ late)
    BY <1>0, Classes DEF Stream
  <2>4. PICK h \in Nat : h = IF ~fast THEN p ELSE IF ClassOf(fs[i]).keeps THEN fs[i].handle ELSE 0
    BY <1>0 DEF Stream
  <2>6. PICK l \in SUBSET Nat : l = (fs[i].lost \cup {fs[i].pid}) \ {0}
    BY <1>0 DEF Stream
  <2>5. o = [fs[i] EXCEPT !.trig = t, !.fin = f, !.pid = p, !.lost = l, !.pos = ForkPos(fs[i]),
                          !.last = ForkPos(fs[i]), !.got = <<>>, !.handle = h]
    BY <2>2, <2>3, <2>4, <2>6
  <2>7. PICK d : d = [fs[i] EXCEPT !.trig = t, !.fin = f, !.pid = p, !.lost = l]
    OBVIOUS
  <2>8. d \in Stream
    BY <1>0, <2>7 DEF Stream
  <2>9. o = [d EXCEPT !.pos = ForkPos(fs[i]), !.last = ForkPos(fs[i]), !.got = <<>>, !.handle = h]
    BY <2>5, <2>7
  <2>10. [d EXCEPT !.pos = ForkPos(fs[i]), !.last = ForkPos(fs[i]), !.got = <<>>, !.handle = h]
           \in Stream
    BY <2>1, <2>8 DEF Stream
  <2> QED BY <2>9, <2>10
<1>3. q \in Forking
  <2>1. PICK new : new = Process(i, fs[i].mode, ForkFrom(fs[i]))
    OBVIOUS
  <2>2. new \in Forking
    BY <1>0, <2>1, StartsBefore DEF Process, Forking, Stream
  <2>3. CASE ~fast
    BY <2>1, <2>2, <2>3 DEF ForkedProcess
  <2>4. CASE fast /\ fs[i].mode = "write"
    BY <2>1, <2>2, <2>4 DEF ForkedProcess, Forking
  <2>5. CASE fast /\ fs[i].mode # "write"
    <3>1. PICK s : s = [k \in 1..ForkFrames |-> k - 1]
      OBVIOUS
    <3>2. s \in Seq(Int)
      BY <3>1, Constants
    <3>3. q = [new EXCEPT !.state = "reaped", !.at = ForkFrames, !.pipe = s]
      BY <2>1, <2>5, <3>1 DEF ForkedProcess
    <3>4. ForkFrames \in Int
      BY Constants
    <3> QED BY <2>2, <3>2, <3>3, <3>4 DEF Forking
  <2> QED BY <2>3, <2>4, <2>5
<1>4. /\ o.mode = fs[i].mode /\ o.open = fs[i].open
      /\ o.pid = Len(procs) + 1 /\ o.pos = o.last /\ o.got = <<>>
      /\ o.pos = ForkPos(fs[i]) /\ o.lost = (fs[i].lost \cup {fs[i].pid}) \ {0}
      /\ fast => o.handle \in {0, fs[i].handle}
      /\ ~fast => o.trig /\ o.handle = o.pid
  BY <1>0 DEF Stream
<1>5. /\ q.of = i /\ q.mode = fs[i].mode /\ q.parent /\ ~q.cut
      /\ fast => q.state = "reaped" /\ (q.mode = "write" => q.failed)
      /\ ~fast => q.state = "run" /\ q.pipe = <<>> /\ q.at = ForkFrom(fs[i])
  BY DEF ForkedProcess, Process
<1> HIDE DEF o, q
<1>6. ~fast => o.pos - q.at \in 0..(ForkPcm - 1)
  BY <1>0, <1>4, <1>5, StartsBefore
<1> QED BY <1>1, <1>2, <1>3, <1>4, <1>5, <1>6 DEF NewProcess

WaitOver(i) == busy.what = "wait" /\ busy.of = i /\ busy'.what = "none"

\* Without a fork no object gets another process, a handle or a start, and only
\* one whose process has been waited for loses it.
NoFork ==
  /\ Len(procs') = Len(procs)
  /\ \A i \in Objs :
       /\ fs'[i].handle = fs[i].handle /\ fs'[i].lost = fs[i].lost
       /\ fs'[i].trig => fs[i].trig
       /\ fs'[i].pid = fs[i].pid \/ (fs'[i].pid = 0 /\ WaitOver(i))

\* Who forks was not started, and blocks next, if at all, in its own call.
Forks(i, fast) ==
  /\ ~fs[i].trig /\ fs[i].open /\ busy.what = "none"
  /\ busy'.what \in {"none", "io", "fifo"} /\ busy'.of = i
  /\ \E o \in Stream, q \in Forking : NewProcess(i, fast, o, q)

\* Every step keeps the types, no object changes its direction, and only a fork
\* makes a process known to an object.
LEMMA NextTyped ==
  ASSUME Typed, Owners, [ForkNext]_forkVars
  PROVE  /\ Typed' /\ \A i \in Objs : fs'[i].mode = fs[i].mode
         /\ NoFork \/ \E i \in Objs, fast \in BOOLEAN : Forks(i, fast)
<1> DEFINE Keeps == /\ Typed' /\ \A i \in Objs : fs'[i].mode = fs[i].mode
                    /\ NoFork \/ \E i \in Objs, fast \in BOOLEAN : Forks(i, fast)
<1>0. /\ fs \in [Objs -> Stream] /\ procs \in Seq(Forking) /\ busy \in Blocking
      /\ Len(procs) \in Nat
      /\ \A i \in Objs : /\ fs[i] \in Stream /\ fs[i].pid \in Nat /\ fs[i].handle \in Nat
                         /\ fs[i].pid <= Len(procs) /\ fs[i].handle <= Len(procs)
  BY DEF Typed, Stream
\* One object changes, and its process and handle stay.
<1>a. ASSUME NEW i \in Objs, NEW o \in Stream, fs' = [fs EXCEPT ![i] = o],
             o.mode = fs[i].mode, o.handle = fs[i].handle, o.lost = fs[i].lost,
             o.pid = fs[i].pid \/ (o.pid = 0 /\ WaitOver(i)),
             o.trig => fs[i].trig,
             procs' \in Seq(Forking), Len(procs') = Len(procs), busy' \in Blocking
      PROVE  Keeps
  BY <1>0, <1>a DEF Typed, NoFork
\* One process changes.
<1>b. ASSUME NEW p \in 1..Len(procs), NEW q \in Forking, procs' = [procs EXCEPT ![p] = q],
             UNCHANGED <<fs, busy>>
      PROVE  Keeps
  BY <1>0, <1>b DEF Typed, NoFork
<1>c. ASSUME NEW i \in Objs, NEW fast \in BOOLEAN, NEW starting \in BOOLEAN,
             Forked(i, fast, starting), Ready(i), ~fs[i].trig,
             \E next \in {"none", "io"} : busy' = AfterFork(i, fast, next)
      PROVE  Keeps
  <2>1. PICK o \in Stream, q \in Forking : NewProcess(i, fast, o, q)
    BY <1>c, ForkedNew
  <2>2. procs' \in Seq(Forking) /\ Len(procs') = Len(procs) + 1
    BY <1>0, <2>1 DEF NewProcess
  <2>3. o.pid <= Len(procs') /\ o.handle <= Len(procs')
    BY <1>0, <2>1, <2>2 DEF NewProcess
  <2>4. busy' \in Blocking /\ busy'.what \in {"none", "io", "fifo"} /\ busy'.of = i
    BY <1>c DEF AfterFork, Blocks, Blocking
  <2>5. Typed' /\ \A j \in Objs : fs'[j].mode = fs[j].mode
    BY <1>0, <2>1, <2>2, <2>3, <2>4 DEF NewProcess, Typed
  <2>6. Forks(i, fast)
    BY <1>c, <2>1, <2>4 DEF Forks, Ready, Forked
  <2> QED BY <2>5, <2>6
<1>d. ASSUME NEW i \in Objs, NEW what \in {"none", "io", "fifo", "wait"},
             NEW next \in {"none", "io", "close"}
      PROVE  Blocks(what, i, next) \in Blocking
  BY DEF Blocks, Blocking, Objs
<1>e. Idle \in Blocking
  BY DEF Blocks, Idle, Blocking, Objs
<1>f. \A p \in 1..Len(procs) : procs[p] \in Forking
  BY <1>0
<1> HIDE DEF Keeps
<1>1. ASSUME NEW i \in Objs, ForkOpen(i) PROVE Keeps
  <2>1. PICK f \in BOOLEAN : f = (fs[i].fin /\ ClassOf(fs[i]).marked /\ fs[i].mode = "write")
    BY <1>0, Classes DEF Stream
  <2>2. PICK o : o = [fs[i] EXCEPT !.open = TRUE, !.trig = FALSE, !.got = <<>>, !.sent = 0,
                                   !.fin = f, !.pos = ForkPos(fs[i])]
    OBVIOUS
  <2>3. fs' = [fs EXCEPT ![i] = o] /\ UNCHANGED <<procs, busy>>
    BY <1>1, <2>1, <2>2 DEF ForkOpen
  <2>4. <<>> \in Seq(Int) /\ ForkPos(fs[i]) \in Nat /\ 0 \in Nat
    BY <1>0, StartsBefore
  <2>5. o \in Stream
    BY <1>0, <2>2, <2>4 DEF Stream
  <2>6. /\ o.mode = fs[i].mode /\ o.pid = fs[i].pid /\ o.handle = fs[i].handle
        /\ o.lost = fs[i].lost
        /\ (o.trig => fs[i].trig)
    BY <1>0, <2>2 DEF Stream
  <2> QED BY <1>0, <1>a, <2>3, <2>5, <2>6
<1>2. ASSUME NEW i \in Objs, StartIo(i) PROVE Keeps
  BY <1>c, <1>2 DEF StartIo
<1>3. ASSUME NEW i \in Objs, AskBlock(i) PROVE Keeps
  <2>1. CASE fs[i].trig
    <3>1. UNCHANGED <<fs, procs>> /\ busy' = Blocks("io", i, "none")
      BY <1>3, <2>1 DEF AskBlock
    <3> QED BY <1>0, <1>d, <3>1 DEF Keeps, Typed, NoFork
  <2>2. CASE ~fs[i].trig
    BY <1>c, <1>3, <2>2 DEF AskBlock
  <2> QED BY <2>1, <2>2
<1>4. ASSUME Fread PROVE Keeps
  <2>1. PICK i \in Objs : i = busy.of
    BY <1>0 DEF Blocking
  <2>2. busy' = Idle
    BY <1>4 DEF Fread
  <2>3. CASE /\ fs[i].handle # 0 /\ procs[fs[i].handle].parent
             /\ procs[fs[i].handle].pipe # <<>>
    <3>1. PICK p \in 1..Len(procs) : p = fs[i].handle
      BY <1>0, <2>3
    <3>2. procs[p] \in Forking /\ procs[p].pipe \in Seq(Int)
      BY <1>f DEF Forking
    <3>3. PICK q : q = [procs[p] EXCEPT !.pipe = Tail(procs[p].pipe)]
      OBVIOUS
    <3>4. Tail(procs[p].pipe) \in Seq(Int) /\ Head(procs[p].pipe) \in Int
      BY <2>3, <3>1, <3>2
    <3>5. q \in Forking
      BY <3>2, <3>3, <3>4 DEF Forking
    <3>6. PICK o : o = [fs[i] EXCEPT !.got = Append(fs[i].got, Head(procs[p].pipe)),
                                     !.fin = FALSE, !.pos = fs[i].pos + 1,
                                     !.last = fs[i].last + 1]
      OBVIOUS
    <3>7. /\ fs[i].got \in Seq(Int) /\ fs[i].pos + 1 \in Nat /\ fs[i].last + 1 \in Nat
      BY <1>0 DEF Stream
    <3>8. Append(fs[i].got, Head(procs[p].pipe)) \in Seq(Int)
      BY <3>4, <3>7
    <3>9. o \in Stream
      BY <1>0, <3>6, <3>7, <3>8 DEF Stream
    <3>10. /\ o.mode = fs[i].mode /\ o.pid = fs[i].pid /\ o.handle = fs[i].handle
           /\ o.lost = fs[i].lost
           /\ (o.trig => fs[i].trig)
      BY <1>0, <3>6 DEF Stream
    <3>11. fs' = [fs EXCEPT ![i] = o] /\ procs' = [procs EXCEPT ![p] = q]
      BY <1>4, <2>1, <2>3, <3>1, <3>3, <3>6 DEF Fread
    <3>12. procs' \in Seq(Forking) /\ Len(procs') = Len(procs)
      BY <1>0, <3>5, <3>11
    <3> QED BY <1>a, <1>e, <2>1, <2>2, <3>9, <3>10, <3>11, <3>12
  <2>4. CASE ~(/\ fs[i].handle # 0 /\ procs[fs[i].handle].parent
               /\ procs[fs[i].handle].pipe # <<>>)
    <3>1. PICK o : o = [fs[i] EXCEPT !.fin = TRUE, !.trig = FALSE,
                          !.fault = IF fs[i].handle = 0 /\ ClassOf(fs[i]).keeps THEN "null"
                                    ELSE fs[i].fault]
      OBVIOUS
    <3>2. fs' = [fs EXCEPT ![i] = o] /\ procs' = procs
      BY <1>4, <2>1, <2>4, <3>1 DEF Fread
    <3>3. PICK f \in {"none", "null", "stray"} :
            f = IF fs[i].handle = 0 /\ ClassOf(fs[i]).keeps THEN "null" ELSE fs[i].fault
      BY <1>0 DEF Stream
    <3>4. /\ o \in Stream /\ o.mode = fs[i].mode /\ o.pid = fs[i].pid /\ o.handle = fs[i].handle
          /\ o.lost = fs[i].lost
          /\ (o.trig => fs[i].trig)
      BY <1>0, <3>1, <3>3 DEF Stream
    <3> QED BY <1>0, <1>a, <1>e, <2>1, <2>2, <3>2, <3>4
  <2> QED BY <2>3, <2>4
<1>5. ASSUME Fwrite PROVE Keeps
  <2>1. PICK i \in Objs : i = busy.of
    BY <1>0 DEF Blocking
  <2>2. busy' = Idle
    BY <1>5 DEF Fwrite
  <2>3. PICK n \in Nat : n = fs[i].sent + 1
    BY <1>0 DEF Stream
  <2>4. PICK m \in Nat : m = fs[i].pos + 1
    BY <1>0 DEF Stream
  <2>5. PICK p \in 1..Len(procs) : p = fs[i].pid
    <3>1. busy.what = "io"
      BY <1>5 DEF Fwrite
    <3>2. fs[i].pid # 0
      BY <1>0, <2>1, <3>1 DEF Owners
    <3>3. fs[i].pid \in Nat /\ fs[i].pid <= Len(procs)
      BY <1>0 DEF Typed, Stream
    <3> QED BY <3>2, <3>3
  <2>6. procs[p] \in Forking
    BY <1>f
  <2>7. procs' \in Seq(Forking) /\ Len(procs') = Len(procs)
    <3>1. CASE Alive(p)
      <4>1. procs' = [procs EXCEPT ![p].pipe = <<fs[i].sent>>]
        BY <1>5, <2>1, <2>5, <3>1 DEF Fwrite
      <4>2. <<fs[i].sent>> \in Seq(Int)
        BY <1>0 DEF Stream
      <4>3. [procs[p] EXCEPT !.pipe = <<fs[i].sent>>] \in Forking
        BY <2>6, <4>2 DEF Forking
      <4> QED BY <1>0, <4>1, <4>3
    <3>2. CASE ~Alive(p)
      <4>1. procs' = [procs EXCEPT ![p].state = "reaped"]
        BY <1>5, <2>1, <2>5, <3>2 DEF Fwrite
      <4>2. [procs[p] EXCEPT !.state = "reaped"] \in Forking
        BY <2>6 DEF Forking
      <4> QED BY <1>0, <4>1, <4>2
    <3> QED BY <3>1, <3>2
  <2>8. PICK o \in {[fs[i] EXCEPT !.sent = n, !.fin = FALSE, !.pos = m],
                    [fs[i] EXCEPT !.fin = TRUE, !.trig = FALSE, !.pos = m]} :
          fs' = [fs EXCEPT ![i] = o]
    BY <1>5, <2>1, <2>3, <2>4, ZenonT(60) DEF Fwrite
  <2>9. /\ o \in Stream /\ o.mode = fs[i].mode /\ o.pid = fs[i].pid /\ o.handle = fs[i].handle
        /\ o.lost = fs[i].lost
        /\ (o.trig => fs[i].trig)
    BY <1>0, <2>8 DEF Stream
  <2> QED BY <1>a, <1>e, <2>1, <2>2, <2>7, <2>8, <2>9
<1>6. ASSUME Waited PROVE Keeps
  <2>1. PICK i \in Objs : i = busy.of
    BY <1>0 DEF Blocking
  <2>2. busy' = Idle
    BY <1>6 DEF Waited
  <2>3. procs' \in Seq(Forking) /\ Len(procs') = Len(procs)
    <3>1. CASE fs[i].pid = 0
      BY <1>0, <1>6, <2>1, <3>1 DEF Waited
    <3>2. CASE fs[i].pid # 0
      <4>1. PICK p \in 1..Len(procs) : p = fs[i].pid
        BY <1>0, <3>2
      <4>2. [procs[p] EXCEPT !.state = "reaped"] \in Forking
        BY <1>f DEF Forking
      <4>3. procs' = [procs EXCEPT ![p].state = "reaped"]
        BY <1>6, <2>1, <3>2, <4>1 DEF Waited
      <4> QED BY <1>0, <4>2, <4>3
    <3> QED BY <3>1, <3>2
  <2>4. PICK open \in BOOLEAN, f \in {"none", "null", "stray"} :
          fs' = [fs EXCEPT ![i].pid = 0, ![i].open = open, ![i].fault = f]
    <3>1. (busy.next # "close") \in BOOLEAN
      OBVIOUS
    <3>2. PICK f \in {"none", "null", "stray"} :
            f = IF fs[i].pid # 0 /\ procs[fs[i].pid].state = "reaped" THEN "stray"
                ELSE fs[i].fault
      BY <1>0 DEF Stream
    <3>3. fs' = [fs EXCEPT ![i].pid = 0, ![i].open = busy.next # "close", ![i].fault = f]
      BY <1>6, <2>1, <3>2 DEF Waited
    <3> QED BY <3>1, <3>3
  <2>5. PICK o : o = [fs[i] EXCEPT !.pid = 0, !.open = open, !.fault = f]
    OBVIOUS
  <2>6. fs' = [fs EXCEPT ![i] = o]
    BY <2>4, <2>5
  <2>7. /\ o \in Stream /\ o.mode = fs[i].mode /\ o.pid = 0 /\ o.handle = fs[i].handle
        /\ o.lost = fs[i].lost
        /\ (o.trig => fs[i].trig)
    BY <1>0, <2>5 DEF Stream
  <2>8. WaitOver(i)
    BY <1>6, <2>1, <2>2 DEF Waited, WaitOver, Idle, Blocks
  <2> QED BY <1>a, <1>e, <2>1, <2>2, <2>3, <2>6, <2>7, <2>8
<1>7. ASSUME NEW i \in Objs, StopIo(i) PROVE Keeps
  <2>1. PICK force \in BOOLEAN : force = (fs[i].mode = "read")
    OBVIOUS
  <2>2. procs' = Ended(i, force)
    BY <1>7, <2>1 DEF StopIo
  <2>3. procs' \in Seq(Forking) /\ Len(procs') = Len(procs)
    BY <2>2, EndedOne
  <2>4. PICK o : o = [fs[i] EXCEPT !.trig = FALSE]
    OBVIOUS
  <2>5. fs' = [fs EXCEPT ![i] = o] /\ busy' = Blocks("wait", i, "none")
    BY <1>7, <2>4 DEF StopIo
  <2>6. /\ o \in Stream /\ o.mode = fs[i].mode /\ o.pid = fs[i].pid /\ o.handle = fs[i].handle
        /\ o.lost = fs[i].lost
        /\ (o.trig => fs[i].trig)
    BY <1>0, <2>4 DEF Stream
  <2> QED BY <1>a, <1>d, <2>3, <2>5, <2>6
<1>8. ASSUME NEW i \in Objs, NEW to \in 0..ForkFrames, SeekTo(i, to) PROVE Keeps
  <2>1. PICK stop \in BOOLEAN : stop = (fs[i].trig /\ fs[i].last # to)
    BY <1>0 DEF Stream
  <2>2. PICK on \in BOOLEAN : on = (fs[i].trig /\ ~stop)
    BY <1>0 DEF Stream
  <2>3. PICK o : o = [fs[i] EXCEPT !.pos = to, !.fin = FALSE, !.got = <<>>, !.trig = on]
    OBVIOUS
  <2>4. /\ fs' = [fs EXCEPT ![i] = o]
        /\ procs' = IF stop THEN Ended(i, TRUE) ELSE procs
        /\ busy' = IF stop THEN Blocks("wait", i, "none") ELSE busy
    BY <1>8, <2>1, <2>2, <2>3 DEF SeekTo
  <2>5. procs' \in Seq(Forking) /\ Len(procs') = Len(procs)
    BY <1>0, <2>4, EndedOne
  <2>6. to \in Nat /\ <<>> \in Seq(Int)
    BY Constants
  <2>7. /\ o \in Stream /\ o.mode = fs[i].mode /\ o.pid = fs[i].pid /\ o.handle = fs[i].handle
        /\ o.lost = fs[i].lost
        /\ (o.trig => fs[i].trig)
    BY <1>0, <2>2, <2>3, <2>6 DEF Stream
  <2> QED BY <1>0, <1>a, <1>d, <2>4, <2>5, <2>7
<1>9. ASSUME NEW i \in Objs, ForkClose(i) PROVE Keeps
  <2>1. CASE fs[i].pid # 0
    <3>1. ClassOf(fs[i]).kills \in BOOLEAN
      BY <1>0, Classes
    <3>2. procs' = Ended(i, ClassOf(fs[i]).kills) /\ busy' = Blocks("wait", i, "close")
      BY <1>9, <2>1 DEF ForkClose
    <3>3. procs' \in Seq(Forking) /\ Len(procs') = Len(procs)
      BY <3>1, <3>2, EndedOne
    <3>4. PICK o : o = [fs[i] EXCEPT !.trig = FALSE]
      OBVIOUS
    <3>5. fs' = [fs EXCEPT ![i] = o]
      BY <1>9, <2>1, <3>4 DEF ForkClose
    <3>6. /\ o \in Stream /\ o.mode = fs[i].mode /\ o.pid = fs[i].pid /\ o.handle = fs[i].handle
          /\ o.lost = fs[i].lost
          /\ (o.trig => fs[i].trig)
      BY <1>0, <3>4 DEF Stream
    <3> QED BY <1>a, <1>d, <3>2, <3>3, <3>5, <3>6
  <2>2. CASE fs[i].pid = 0
    <3>1. PICK o : o = [fs[i] EXCEPT !.open = FALSE]
      OBVIOUS
    <3>2. fs' = [fs EXCEPT ![i] = o] /\ UNCHANGED <<procs, busy>>
      BY <1>9, <2>2, <3>1 DEF ForkClose
    <3>3. /\ o \in Stream /\ o.mode = fs[i].mode /\ o.pid = fs[i].pid /\ o.handle = fs[i].handle
          /\ o.lost = fs[i].lost
          /\ (o.trig => fs[i].trig)
      BY <1>0, <3>1 DEF Stream
    <3> QED BY <1>0, <1>a, <3>2, <3>3
  <2> QED BY <2>1, <2>2
<1>10. CASE FifoOpened
  <2>1. busy.of \in Objs /\ busy.next \in {"none", "io", "close"}
    BY <1>0 DEF Blocking
  <2>2. busy' \in Blocking
    BY <1>10, <2>1 DEF FifoOpened, Blocks, Blocking
  <2>3. UNCHANGED <<fs, procs>>
    BY <1>10 DEF FifoOpened
  <2> QED BY <1>0, <2>2, <2>3 DEF Keeps, Typed, NoFork
<1>11. ASSUME NEW p \in 1..Len(procs), ProcessOf(p) \/ Crashes(p) PROVE Keeps
  <2>0. procs[p] \in Forking /\ procs[p].at \in Int /\ procs[p].pipe \in Seq(Int)
        /\ procs[p].at + 1 \in Int
    BY <1>f DEF Forking
  <2>1. CASE Decode(p)
    <3>1. PICK q : q = [procs[p] EXCEPT !.pipe = <<procs[p].at>>, !.at = procs[p].at + 1]
      OBVIOUS
    <3>2. q \in Forking /\ procs' = [procs EXCEPT ![p] = q] /\ UNCHANGED <<fs, busy>>
      <4>1. <<procs[p].at>> \in Seq(Int)
        BY <2>0
      <4> QED BY <2>0, <2>1, <3>1, <4>1 DEF Decode, Forking
    <3> QED BY <1>b, <3>2
  <2>2. CASE Encode(p)
    <3>1. PICK q : q = [procs[p] EXCEPT !.pipe = Tail(procs[p].pipe), !.at = procs[p].at + 1]
      OBVIOUS
    <3>2. Tail(procs[p].pipe) \in Seq(Int)
      BY <2>0, <2>2 DEF Encode
    <3>3. q \in Forking /\ procs' = [procs EXCEPT ![p] = q] /\ UNCHANGED <<fs, busy>>
      BY <2>0, <2>2, <3>1, <3>2 DEF Encode, Forking
    <3> QED BY <1>b, <3>3
  <2>3. CASE Exits(p)
    <3>1. PICK q : q = [procs[p] EXCEPT !.state = "zombie"]
      OBVIOUS
    <3>2. q \in Forking /\ procs' = [procs EXCEPT ![p] = q] /\ UNCHANGED <<fs, busy>>
      BY <2>0, <2>3, <3>1 DEF Exits, Forking
    <3> QED BY <1>b, <3>2
  <2>4. CASE Crashes(p)
    <3>1. PICK q : q = [procs[p] EXCEPT !.state = "zombie", !.failed = TRUE]
      OBVIOUS
    <3>2. q \in Forking /\ procs' = [procs EXCEPT ![p] = q] /\ UNCHANGED <<fs, busy>>
      BY <2>0, <2>4, <3>1 DEF Crashes, Forking
    <3> QED BY <1>b, <3>2
  <2> QED BY <1>11, <2>1, <2>2, <2>3, <2>4 DEF ProcessOf
<1>12. CASE UNCHANGED forkVars
  BY <1>0, <1>12 DEF forkVars, Typed, Keeps, NoFork
<1> QED BY <1>1, <1>2, <1>3, <1>4, <1>5, <1>6, <1>7, <1>8, <1>9, <1>10, <1>11, <1>12
        DEF ForkNext, ForkCall, ForkReturns, Keeps

\* A process goes on, ends and is waited for, and its pipe is closed, never the
\* other way round.
Onward(r, q) ==
  /\ q.of = r.of /\ q.mode = r.mode
  /\ q.parent => r.parent
  /\ q.state = "run" => r.state = "run"
  /\ r.state = "reaped" => q.state = "reaped"

\* Every step moves each process on.
LEMMA Onwards ==
  ASSUME Typed, Owners, [ForkNext]_forkVars, NEW p \in 1..Len(procs)
  PROVE  Onward(procs[p], procs'[p])
<1>0. /\ procs \in Seq(Forking) /\ procs[p] \in Forking /\ Len(procs) \in Nat
      /\ \A i \in Objs : fs[i].pid \in Nat /\ fs[i].pid <= Len(procs)
  BY DEF Typed, Stream
<1>a. ASSUME NEW n, NEW q, procs' = [procs EXCEPT ![n] = q],
             n = p => Onward(procs[p], q)
      PROVE  Onward(procs[p], procs'[p])
  BY <1>0, <1>a DEF Onward
<1>b. CASE procs' = procs
  BY <1>b DEF Onward
<1>c. ASSUME NEW i \in Objs, NEW force \in BOOLEAN, procs' = Ended(i, force)
      PROVE  Onward(procs[p], procs'[p])
  <2>1. CASE p # fs[i].pid
    <3>1. procs'[p] = procs[p]
      BY <1>c, <2>1, EndedOthers
    <3> QED BY <3>1 DEF Onward
  <2>2. CASE p = fs[i].pid
    <3>1. p # 0 /\ Typed
      BY <1>0
    <3>2. procs'[p] = [procs[p] EXCEPT !.parent = FALSE,
                         !.cut = procs[p].cut \/ (force /\ Alive(p)),
                         !.state = IF force /\ procs[p].state = "run" THEN "zombie"
                                   ELSE procs[p].state]
      BY <1>c, <2>2, <3>1, EndedOne, ZenonT(60)
    <3> QED BY <1>0, <3>2 DEF Onward, Forking
  <2> QED BY <2>1, <2>2
<1>d. ASSUME NEW i \in Objs, NEW fast \in BOOLEAN, NEW starting \in BOOLEAN,
             Forked(i, fast, starting)
      PROVE  Onward(procs[p], procs'[p])
  <2>1. PICK q : procs' = Append(procs, q)
    BY <1>d DEF Forked, Inherits
  <2>2. procs'[p] = procs[p]
    BY <1>0, <2>1
  <2> QED BY <2>2 DEF Onward
<1>1. ASSUME NEW i \in Objs, ForkCall(i) PROVE Onward(procs[p], procs'[p])
  <2>1. CASE ForkOpen(i)
    BY <1>b, <2>1 DEF ForkOpen
  <2>2. CASE StartIo(i)
    BY <1>d, <2>2 DEF StartIo
  <2>3. CASE AskBlock(i)
    <3>1. CASE fs[i].trig
      BY <1>b, <2>3, <3>1 DEF AskBlock
    <3>2. CASE ~fs[i].trig
      BY <1>d, <2>3, <3>2 DEF AskBlock
    <3> QED BY <3>1, <3>2
  <2>4. ASSUME NEW to \in 0..ForkFrames, SeekTo(i, to)
        PROVE  Onward(procs[p], procs'[p])
    <3>1. CASE fs[i].trig /\ fs[i].last # to
      BY <1>c, <2>4, <3>1 DEF SeekTo
    <3>2. CASE ~(fs[i].trig /\ fs[i].last # to)
      BY <1>b, <2>4, <3>2 DEF SeekTo
    <3> QED BY <3>1, <3>2
  <2>5. CASE StopIo(i)
    <3>1. PICK force \in BOOLEAN : force = (fs[i].mode = "read")
      OBVIOUS
    <3>2. procs' = Ended(i, force)
      BY <2>5, <3>1 DEF StopIo
    <3> QED BY <1>c, <3>2
  <2>6. CASE ForkClose(i)
    <3>1. ClassOf(fs[i]).kills \in BOOLEAN
      BY Classes DEF Typed
    <3>2. CASE fs[i].pid # 0
      BY <1>c, <2>6, <3>1, <3>2 DEF ForkClose
    <3>3. CASE fs[i].pid = 0
      BY <1>b, <2>6, <3>3 DEF ForkClose
    <3> QED BY <3>2, <3>3
  <2> QED BY <1>1, <2>1, <2>2, <2>3, <2>4, <2>5, <2>6 DEF ForkCall
<1>2. CASE ForkReturns
  <2>0. busy.of \in Objs
    BY DEF Typed, Blocking
  <2>1. CASE FifoOpened
    BY <1>b, <2>1 DEF FifoOpened
  <2>2. CASE Fread
    <3>1. PICK h : h = fs[busy.of].handle
      OBVIOUS
    <3>2. procs' = procs \/ procs' = [procs EXCEPT ![h].pipe = Tail(procs[h].pipe)]
      BY <2>2, <3>1 DEF Fread
    <3>3. Onward(procs[p], [procs[p] EXCEPT !.pipe = Tail(procs[p].pipe)])
      BY <1>0 DEF Onward, Forking
    <3> QED BY <1>a, <1>b, <3>2, <3>3
  <2>3. CASE Fwrite
    <3>1. PICK n : n = fs[busy.of].pid
      OBVIOUS
    <3>2. procs' = [procs EXCEPT ![n].pipe = <<fs[busy.of].sent>>]
          \/ procs' = [procs EXCEPT ![n].state = "reaped"]
      BY <2>3, <3>1 DEF Fwrite
    <3>3. /\ Onward(procs[p], [procs[p] EXCEPT !.pipe = <<fs[busy.of].sent>>])
          /\ Onward(procs[p], [procs[p] EXCEPT !.state = "reaped"])
      BY <1>0 DEF Onward, Forking
    <3> QED BY <1>a, <3>2, <3>3
  <2>4. CASE Waited
    <3>1. PICK n : n = fs[busy.of].pid
      OBVIOUS
    <3>2. procs' = procs \/ procs' = [procs EXCEPT ![n].state = "reaped"]
      BY <2>4, <3>1 DEF Waited
    <3>3. Onward(procs[p], [procs[p] EXCEPT !.state = "reaped"])
      BY <1>0 DEF Onward, Forking
    <3> QED BY <1>a, <1>b, <3>2, <3>3
  <2> QED BY <1>2, <2>1, <2>2, <2>3, <2>4 DEF ForkReturns
<1>3. ASSUME NEW n \in 1..Len(procs), ProcessOf(n) \/ Crashes(n)
      PROVE  Onward(procs[p], procs'[p])
  <2>1. CASE Decode(n)
    <3>1. PICK q : q = [procs[n] EXCEPT !.pipe = <<procs[n].at>>, !.at = procs[n].at + 1]
      OBVIOUS
    <3>2. procs' = [procs EXCEPT ![n] = q]
      BY <1>0, <2>1, <3>1 DEF Decode
    <3>3. n = p => Onward(procs[p], q)
      BY <1>0, <3>1 DEF Onward, Forking
    <3> QED BY <1>a, <3>2, <3>3
  <2>2. CASE Encode(n)
    BY <1>0, <2>2, SMTT(30) DEF Encode, Onward, Forking, Alive
  <2>3. CASE Exits(n)
    BY <1>0, <2>3 DEF Exits, Onward, Forking, Alive
  <2>4. CASE Crashes(n)
    BY <1>0, <2>4 DEF Crashes, Onward, Forking, Alive
  <2> QED BY <1>3, <2>1, <2>2, <2>3, <2>4 DEF ProcessOf
<1>4. CASE UNCHANGED forkVars
  BY <1>b, <1>4 DEF forkVars
<1> QED BY <1>1, <1>2, <1>3, <1>4 DEF ForkNext

\* No step gives a process to another object, and a call that blocks has one.
LEMMA NextOwners ==
  ASSUME Typed, Owners, [ForkNext]_forkVars
  PROVE  Owners'
<1>0. /\ fs \in [Objs -> Stream] /\ procs \in Seq(Forking) /\ busy \in Blocking
      /\ Len(procs) \in Nat /\ busy.of \in Objs
      /\ \A i \in Objs : /\ fs[i].pid \in Nat /\ fs[i].handle \in Nat
                         /\ fs[i].pid <= Len(procs) /\ fs[i].handle <= Len(procs)
                         /\ fs[i].trig \in BOOLEAN /\ fs[i] \in Stream
  BY DEF Typed, Stream, Blocking
<1>1. /\ Typed' /\ \A i \in Objs : fs'[i].mode = fs[i].mode
      /\ NoFork \/ \E i \in Objs, fast \in BOOLEAN : Forks(i, fast)
  BY NextTyped
<1>2. \A p \in 1..Len(procs) : Onward(procs[p], procs'[p])
  BY Onwards
<1>3. \A p \in 1..Len(procs) : procs[p].of \in Objs
  <2>1. \A p \in 1..Len(procs) : procs[p] \in Forking
    BY <1>0
  <2> QED BY <2>1 DEF Forking
<1>a. ASSUME NEW i \in Objs, NEW fast \in BOOLEAN, Forks(i, fast) PROVE Owners'
  <2>1. PICK o \in Stream, q \in Forking : NewProcess(i, fast, o, q)
    BY <1>a DEF Forks
  <2>2. /\ fs' = [fs EXCEPT ![i] = o] /\ procs' = Append(procs, q)
        /\ o.pid = Len(procs) + 1 /\ o.handle \in {0, fs[i].handle, o.pid}
        /\ q.of = i /\ q.mode = o.mode
    BY <2>1 DEF NewProcess
  <2>3. /\ Len(procs') = Len(procs) + 1 /\ procs'[Len(procs) + 1] = q
        /\ \A p \in 1..Len(procs) : procs'[p] = procs[p]
        /\ fs'[i] = o /\ \A j \in Objs : j # i => fs'[j] = fs[j]
    BY <1>0, <2>2
  <2>4. \A j \in Objs : /\ fs'[j].pid # 0 => procs'[fs'[j].pid].of = j
                        /\ fs'[j].handle # 0 => procs'[fs'[j].handle].of = j
                        /\ fs'[j].trig => fs'[j].pid # 0
    BY <1>0, <2>2, <2>3 DEF Owners
  <2>5. \A p \in 1..Len(procs') : procs'[p].mode = fs'[procs'[p].of].mode
    <3>1. ASSUME NEW p \in 1..Len(procs)
          PROVE  procs'[p].mode = fs'[procs'[p].of].mode
      <4>1. procs[p].of \in Objs /\ procs[p].mode = fs[procs[p].of].mode
        BY <1>3 DEF Owners
      <4> QED BY <1>1, <2>3, <4>1
    <3> QED BY <1>0, <2>2, <2>3, <3>1
  <2>6. busy'.what # "wait" /\ fs'[busy'.of].pid # 0
    BY <1>0, <1>a, <2>2, <2>3 DEF Forks
  <2> QED BY <2>4, <2>5, <2>6 DEF Owners
<1>b. CASE NoFork
  <2>1. \A i \in Objs : /\ fs'[i].pid # 0 => procs'[fs'[i].pid].of = i
                        /\ fs'[i].handle # 0 => procs'[fs'[i].handle].of = i
    BY <1>0, <1>2, <1>b DEF NoFork, Owners, Onward
  <2>2. \A p \in 1..Len(procs') : procs'[p].mode = fs'[procs'[p].of].mode
    <3>1. SUFFICES ASSUME NEW p \in 1..Len(procs)
                   PROVE  procs'[p].mode = fs'[procs'[p].of].mode
      BY <1>b DEF NoFork
    <3>2. procs[p].of \in Objs /\ procs[p].mode = fs[procs[p].of].mode
      BY <1>3 DEF Owners
    <3> QED BY <1>1, <1>2, <3>2 DEF Onward
  <2>3. \A i \in Objs : fs'[i].trig => fs'[i].pid # 0
    BY <1>b DEF NoFork, WaitOver, Owners
  <2> DEFINE Blocked == /\ busy'.what \in {"io", "fifo"} => fs'[busy'.of].pid # 0
                        /\ busy'.what = "wait" =>
                             /\ ~fs'[busy'.of].trig
                             /\ fs'[busy'.of].pid # 0
                                  => ~procs'[fs'[busy'.of].pid].parent
  <2>a. busy.what # "wait" => \A i \in Objs : fs'[i].pid = fs[i].pid
    BY <1>b DEF NoFork, WaitOver
  <2>b. ASSUME NEW i \in Objs, NEW force \in BOOLEAN, procs' = Ended(i, force),
               busy.what # "wait", ~fs'[i].trig, busy'.what = "wait", busy'.of = i
        PROVE  Blocked
    <3>1. SUFFICES ASSUME fs[i].pid # 0
                   PROVE  ~procs'[fs[i].pid].parent
      BY <2>a, <2>b
    <3>2. PICK p \in 1..Len(procs) : p = fs[i].pid
      BY <1>0, <3>1
    <3> QED BY <2>b, <3>2, EndedIt
  <2>c. ASSUME UNCHANGED <<fs, busy>> PROVE Blocked
    <3>1. busy.what = "wait" /\ fs[busy.of].pid # 0 => ~procs'[fs[busy.of].pid].parent
      <4>1. SUFFICES ASSUME busy.what = "wait", fs[busy.of].pid # 0
                     PROVE  ~procs'[fs[busy.of].pid].parent
        OBVIOUS
      <4>2. PICK p \in 1..Len(procs) : p = fs[busy.of].pid
        BY <1>0, <4>1
      <4> QED BY <1>2, <4>1, <4>2 DEF Owners, Onward
    <3> QED BY <2>c, <3>1 DEF Owners
  <2>d. ASSUME NEW i \in Objs, NEW fast \in BOOLEAN, NEW starting \in BOOLEAN,
               Forked(i, fast, starting)
        PROVE  FALSE
    <3>1. PICK q : procs' = Append(procs, q)
      BY <2>d DEF Forked, Inherits
    <3> QED BY <1>0, <1>b, <3>1 DEF NoFork
  <2> HIDE DEF Blocked
  <2>4. ASSUME NEW i \in Objs, ForkCall(i) PROVE Blocked
    <3>0. busy'.what = "none" => Blocked
      BY DEF Blocked
    <3>1. CASE ForkOpen(i)
      BY <3>0, <3>1 DEF ForkOpen
    <3>2. CASE StartIo(i)
      BY <2>d, <3>2 DEF StartIo
    <3>3. CASE AskBlock(i)
      <4>1. CASE fs[i].trig
        <5>1. UNCHANGED <<fs, procs>> /\ busy'.what = "io" /\ busy'.of = i
          BY <3>3, <4>1 DEF AskBlock, Blocks
        <5> QED BY <4>1, <5>1 DEF Owners, Blocked
      <4>2. CASE ~fs[i].trig
        BY <2>d, <3>3, <4>2 DEF AskBlock
      <4> QED BY <4>1, <4>2
    <3>4. ASSUME NEW to \in 0..ForkFrames, SeekTo(i, to) PROVE Blocked
      <4>1. CASE fs[i].trig /\ fs[i].last # to
        <5>1. /\ procs' = Ended(i, TRUE) /\ busy'.what = "wait" /\ busy'.of = i
              /\ busy.what = "none"
          BY <3>4, <4>1 DEF SeekTo, Blocks, Ready
        <5>2. PICK o : o = [fs[i] EXCEPT !.pos = to, !.fin = FALSE, !.got = <<>>,
                                         !.trig = FALSE]
          OBVIOUS
        <5>3. fs' = [fs EXCEPT ![i] = o] /\ ~o.trig
          BY <1>0, <3>4, <4>1, <5>2 DEF SeekTo, Stream
        <5>4. ~fs'[i].trig
          BY <1>0, <5>3
        <5> QED BY <2>b, <5>1, <5>4
      <4>2. CASE ~(fs[i].trig /\ fs[i].last # to)
        BY <3>0, <3>4, <4>2 DEF SeekTo, Ready
      <4> QED BY <4>1, <4>2
    <3>5. CASE StopIo(i)
      <4>1. PICK force \in BOOLEAN : force = (fs[i].mode = "read")
        OBVIOUS
      <4>2. ~fs'[i].trig
        BY <1>0, <3>5 DEF StopIo, Stream
      <4> QED BY <2>b, <3>5, <4>1, <4>2 DEF StopIo, Blocks, Ready
    <3>6. CASE ForkClose(i)
      <4>1. ClassOf(fs[i]).kills \in BOOLEAN
        BY Classes DEF Typed
      <4>2. CASE fs[i].pid # 0
        <5>1. ~fs'[i].trig
          BY <1>0, <3>6, <4>2 DEF ForkClose, Stream
        <5> QED BY <2>b, <3>6, <4>1, <4>2, <5>1 DEF ForkClose, Blocks, Ready
      <4>3. CASE fs[i].pid = 0
        BY <3>0, <3>6, <4>3 DEF ForkClose, Ready
      <4> QED BY <4>2, <4>3
    <3> QED BY <2>4, <3>1, <3>2, <3>3, <3>4, <3>5, <3>6 DEF ForkCall
  <2>5. ASSUME ForkReturns PROVE Blocked
    <3>1. CASE FifoOpened
      <4>1. /\ UNCHANGED <<fs, procs>> /\ busy'.of = busy.of /\ busy.what = "fifo"
            /\ busy'.what = busy.next
        BY <3>1 DEF FifoOpened, Blocks
      <4>2. busy'.what # "wait"
        BY <1>0, <4>1 DEF Blocking
      <4> QED BY <4>1, <4>2 DEF Owners, Blocked
    <3>2. CASE Fread
      BY <3>2 DEF Fread, Idle, Blocks, Blocked
    <3>3. CASE Fwrite
      BY <3>3 DEF Fwrite, Idle, Blocks, Blocked
    <3>4. CASE Waited
      BY <3>4 DEF Waited, Idle, Blocks, Blocked
    <3> QED BY <2>5, <3>1, <3>2, <3>3, <3>4 DEF ForkReturns
  <2>6. ASSUME NEW p \in 1..Len(procs), ProcessOf(p) \/ Crashes(p)
        PROVE  Blocked
    BY <2>c, <2>6 DEF ProcessOf, Decode, Encode, Exits, Crashes
  <2>7. ASSUME UNCHANGED forkVars PROVE Blocked
    BY <2>c, <2>7 DEF forkVars
  <2>8. Blocked
    BY <2>4, <2>5, <2>6, <2>7 DEF ForkNext
  <2> QED BY <2>1, <2>2, <2>3, <2>8 DEF Owners, Blocked
<1> QED BY <1>1, <1>a, <1>b

-----------------------------------------------------------------------------
(* What a reader gets. *)

\* Something may still be read from the handle.
Readable(i) ==
  LET h == fs[i].handle IN
  h # 0 /\ procs[h].parent /\ (Alive(h) \/ procs[h].pipe # <<>>)

\* The sample that is read next.
Upcoming(p) == IF procs[p].pipe = <<>> THEN procs[p].at ELSE procs[p].at - 1

\* The pipe holds the sample decoded last, or none.
Decoded(p) == procs[p].pipe \in {<<>>, <<procs[p].at - 1>>}

\* A reader that can read was started at its position, and goes on where it was.
Reading(i) ==
  /\ fs[i].trig => fs[i].open /\ fs[i].pos = fs[i].last
  /\ fs[i].handle # 0 => Decoded(fs[i].handle)
  /\ Readable(i) =>
       /\ fs[i].trig /\ fs[i].handle = fs[i].pid
       /\ fs[i].pos - Upcoming(fs[i].handle) \in 0..(ForkPcm - 1)
       /\ fs[i].got # <<>> => Upcoming(fs[i].handle) = fs[i].got[1] + Len(fs[i].got)

Delivers(i) ==
  LET g == fs[i].got IN
  \A k \in 1..Len(g) : /\ g[k] = g[1] + k - 1
                       /\ fs[i].pos - Len(g) - g[1] \in 0..(ForkPcm - 1)

Reads(i) == fs[i].mode = "read" => Reading(i) /\ Delivers(i)

ReadInv == Typed /\ Owners /\ \A i \in Objs : Reads(i)

\* A step that leaves the object and what it reads alone.
LEMMA ReadsOn ==
  ASSUME Typed, Owners, NEW i \in Objs, Reads(i),
         fs'[i] = fs[i],
         fs[i].handle # 0 =>
           /\ Onward(procs[fs[i].handle], procs'[fs[i].handle])
           /\ procs'[fs[i].handle].pipe = procs[fs[i].handle].pipe
           /\ procs'[fs[i].handle].at = procs[fs[i].handle].at
  PROVE  Reads(i)'
<1>1. Readable(i)' => Readable(i)
  BY DEF Readable, Alive, Onward
<1>2. fs[i].handle # 0 => /\ Upcoming(fs[i].handle)' = Upcoming(fs[i].handle)
                          /\ Decoded(fs[i].handle)' = Decoded(fs[i].handle)
  BY DEF Upcoming, Decoded
<1>3. Readable(i) => fs[i].handle # 0
  BY DEF Readable
<1> QED BY <1>1, <1>2, <1>3 DEF Reads, Reading, Delivers

\* One that stops an object from reading.
LEMMA ReadsNoMore ==
  ASSUME Typed, Typed', NEW i \in Objs, Reads(i), ~Readable(i)', fs'[i].mode = fs[i].mode,
         fs'[i].handle \in {0, fs[i].handle},
         fs[i].handle # 0 =>
           /\ procs'[fs[i].handle].pipe = procs[fs[i].handle].pipe
           /\ procs'[fs[i].handle].at = procs[fs[i].handle].at,
         fs'[i].trig => fs'[i].open /\ fs'[i].pos = fs'[i].last,
         fs'[i].got = <<>> \/ (fs'[i].got = fs[i].got /\ fs'[i].pos = fs[i].pos)
  PROVE  Reads(i)'
<1>1. CASE fs[i].mode # "read"
  BY <1>1 DEF Reads
<1>2. CASE fs[i].mode = "read"
  <2>1. Reading(i) /\ Delivers(i)
    BY <1>2 DEF Reads
  <2>2. (fs[i].handle # 0 => Decoded(fs[i].handle))'
    BY <2>1 DEF Decoded, Reading
  <2>3. Reading(i)'
    BY <2>2 DEF Reading
  <2>4. Delivers(i)'
    BY <2>1 DEF Delivers
  <2> QED BY <2>3, <2>4 DEF Reads
<1> QED BY <1>1, <1>2

\* The distance of a position from a sample that follows len others.
LEMMA Distance ==
  ASSUME NEW pos \in Nat, NEW at \in Int, NEW first \in Int, NEW len \in Nat, at - 1 = first + len
  PROVE  /\ pos + 1 - at = pos - (at - 1) /\ pos + 1 - (len + 1) - first = pos - (at - 1)
         /\ at = first + (len + 1)
OBVIOUS

\* A reader stays exact in every step: its own calls, those of the other object, the
\* work and the end of any process.
LEMMA NextReads ==
  ASSUME Typed, Owners, [ForkNext]_forkVars, NEW j \in Objs, Reads(j), fs[j].mode = "read"
  PROVE  Reads(j)'
<1>0. /\ fs \in [Objs -> Stream] /\ procs \in Seq(Forking) /\ busy \in Blocking
      /\ Len(procs) \in Nat /\ busy.of \in Objs
      /\ \A i \in Objs : /\ fs[i].pid \in Nat /\ fs[i].handle \in Nat
                         /\ fs[i].pid <= Len(procs) /\ fs[i].handle <= Len(procs)
                         /\ fs[i].trig \in BOOLEAN /\ fs[i] \in Stream
  <2>1. \A i \in Objs : fs[i] \in Stream
    BY DEF Typed
  <2>2. \A i \in Objs : /\ fs[i].pid \in Nat /\ fs[i].handle \in Nat
                        /\ fs[i].trig \in BOOLEAN
    BY <2>1 DEF Stream
  <2> QED BY <2>1, <2>2 DEF Typed, Blocking
<1>1. Typed' /\ fs'[j].mode = "read"
  BY NextTyped
<1>2. \A p \in 1..Len(procs) : procs[p] \in Forking /\ Onward(procs[p], procs'[p])
  BY <1>0, Onwards
<1>3. PICK h : h = fs[j].handle
  OBVIOUS
<1>4. h # 0 => /\ h \in 1..Len(procs) /\ procs[h].of = j /\ procs[h].mode = "read"
               /\ procs[h] \in Forking /\ Onward(procs[h], procs'[h])
  BY <1>0, <1>2, <1>3 DEF Owners
<1>5. fs[j].pid # 0 => /\ fs[j].pid \in 1..Len(procs) /\ procs[fs[j].pid].of = j
  BY <1>0 DEF Owners
<1>6. Readable(j) => /\ h # 0 /\ procs[h].parent /\ (Alive(h) \/ procs[h].pipe # <<>>)
                     /\ fs[j].trig /\ h = fs[j].pid
  BY <1>3 DEF Readable, Reads, Reading
\* The object and its process stay as they are.
<1>a. ASSUME fs'[j] = fs[j],
             h # 0 => procs'[h].pipe = procs[h].pipe /\ procs'[h].at = procs[h].at
      PROVE  Reads(j)'
  BY <1>3, <1>4, <1>a, ReadsOn
\* An object that could not read cannot read on.
<1>b. ASSUME ~Readable(j), fs'[j].handle \in {0, h},
             h # 0 => procs'[h].pipe = procs[h].pipe /\ procs'[h].at = procs[h].at,
             fs'[j].trig => fs'[j].open /\ fs'[j].pos = fs'[j].last,
             fs'[j].got = <<>> \/ (fs'[j].got = fs[j].got /\ fs'[j].pos = fs[j].pos)
      PROVE  Reads(j)'
  <2>1. ~Readable(j)'
    BY <1>3, <1>4, <1>b DEF Readable, Alive, Onward
  <2> QED BY <1>1, <1>3, <1>b, <2>1, ReadsNoMore
\* The process of the object is ended.
<1>c. ASSUME NEW force \in BOOLEAN, procs' = Ended(j, force), fs'[j].handle = h, ~fs'[j].trig,
             fs'[j].got = <<>> \/ (fs'[j].got = fs[j].got /\ fs'[j].pos = fs[j].pos)
      PROVE  Reads(j)'
  <2>1. h # 0 => /\ procs'[h].pipe = procs[h].pipe /\ procs'[h].at = procs[h].at
                 /\ h = fs[j].pid => ~procs'[h].parent
    <3>1. CASE h # 0 /\ h = fs[j].pid
      BY <1>4, <1>c, <3>1, EndedIt
    <3>2. CASE h # 0 /\ h # fs[j].pid
      <4>1. procs'[h] = procs[h]
        BY <1>4, <1>c, <3>2, EndedOthers
      <4> QED BY <3>2, <4>1
    <3> QED BY <3>1, <3>2
  <2>2. ~Readable(j)'
    BY <1>3, <1>4, <1>6, <1>c, <2>1 DEF Readable, Alive, Onward
  <2> QED BY <1>1, <1>3, <1>c, <2>1, <2>2, ReadsNoMore
\* A call of another object.
<1>d. ASSUME NEW i \in Objs, i # j, NEW force \in BOOLEAN, procs' = Ended(i, force), fs'[j] = fs[j]
      PROVE  Reads(j)'
  <2>1. h # 0 => h # fs[i].pid
    BY <1>0, <1>4, <1>d DEF Owners
  <2>2. h # 0 => procs'[h] = procs[h]
    BY <1>4, <1>d, <2>1, EndedOthers
  <2> QED BY <1>a, <1>d, <2>2
<1>e. ASSUME NEW i \in Objs, NEW fast \in BOOLEAN, NEW starting \in BOOLEAN,
             Forked(i, fast, starting), Ready(i), ~fs[i].trig
      PROVE  Reads(j)'
  <2>1. PICK o \in Stream, q \in Forking : NewProcess(i, fast, o, q)
    BY <1>e, ForkedNew
  <2>2. /\ fs' = [fs EXCEPT ![i] = o] /\ procs' = Append(procs, q)
        /\ o.pid = Len(procs) + 1 /\ o.pos = o.last /\ o.got = <<>> /\ o.open
        /\ fast => o.handle \in {0, fs[i].handle}
        /\ ~fast => o.trig /\ o.handle = o.pid /\ q.pipe = <<>>
                    /\ o.pos - q.at \in 0..(ForkPcm - 1)
    BY <1>e, <2>1 DEF NewProcess, Ready
  <2>3. /\ procs'[Len(procs) + 1] = q
        /\ \A p \in 1..Len(procs) : procs'[p] = procs[p]
        /\ fs'[i] = o /\ (j # i => fs'[j] = fs[j])
    BY <1>0, <2>2
  <2>4. CASE j # i
    BY <1>4, <1>a, <2>3, <2>4
  <2>5. CASE j = i /\ fast
    <3>1. ~Readable(j) /\ fs'[j] = o
      BY <1>6, <1>e, <2>3, <2>5
    <3>2. h # 0 => procs'[h] = procs[h]
      BY <1>4, <2>3
    <3> QED BY <1>3, <1>b, <2>2, <2>5, <3>1, <3>2
  <2>6. CASE j = i /\ ~fast
    <3>1. fs'[j] = o /\ o.trig /\ o.handle = Len(procs) + 1 /\ procs'[o.handle] = q
      BY <2>2, <2>3, <2>6
    <3>2. Delivers(j)'
      BY <2>2, <3>1 DEF Delivers
    <3>3. Decoded(fs[j].handle)' /\ Upcoming(fs[j].handle)' = q.at
      BY <2>2, <2>6, <3>1 DEF Decoded, Upcoming
    <3>4. Reading(j)'
      BY <2>2, <2>6, <3>1, <3>3 DEF Reading
    <3> QED BY <3>2, <3>4 DEF Reads
  <2> QED BY <2>4, <2>5, <2>6
<1>7. ASSUME NEW i \in Objs, ForkCall(i) PROVE Reads(j)'
  <2>1. CASE ForkOpen(i)
    <3>1. CASE i # j
      <4>1. fs'[j] = fs[j] /\ procs' = procs
        BY <1>0, <2>1, <3>1 DEF ForkOpen
      <4> QED BY <1>a, <4>1
    <3>2. CASE i = j
      <4>1. ~Readable(j)
        BY <1>6, <2>1, <3>2 DEF ForkOpen, Reads, Reading
      <4>2. fs'[j].handle = h /\ ~fs'[j].trig /\ fs'[j].got = <<>> /\ procs' = procs
        BY <1>0, <1>3, <2>1, <3>2 DEF ForkOpen, Stream
      <4> QED BY <1>b, <4>1, <4>2
    <3> QED BY <3>1, <3>2
  <2>2. CASE StartIo(i)
    BY <1>e, <2>2 DEF StartIo
  <2>3. CASE AskBlock(i)
    <3>1. CASE fs[i].trig
      BY <1>a, <2>3, <3>1 DEF AskBlock
    <3>2. CASE ~fs[i].trig
      BY <1>e, <2>3, <3>2 DEF AskBlock
    <3> QED BY <3>1, <3>2
  <2>4. ASSUME NEW to \in 0..ForkFrames, SeekTo(i, to) PROVE Reads(j)'
    <3>1. PICK stop \in BOOLEAN : stop = (fs[i].trig /\ fs[i].last # to)
      BY <1>0
    <3>2. PICK on \in BOOLEAN : on = (fs[i].trig /\ ~stop)
      BY <1>0
    <3>3. PICK o : o = [fs[i] EXCEPT !.pos = to, !.fin = FALSE, !.got = <<>>, !.trig = on]
      OBVIOUS
    <3>4. /\ fs' = [fs EXCEPT ![i] = o]
          /\ procs' = IF stop THEN Ended(i, TRUE) ELSE procs
          /\ fs[i].open
      BY <2>4, <3>1, <3>2, <3>3 DEF SeekTo, Ready
    <3>5. /\ o.handle = fs[i].handle /\ o.trig = on /\ o.got = <<>> /\ o.pos = to
          /\ o.last = fs[i].last /\ o.open = fs[i].open /\ o.mode = fs[i].mode
          /\ o.pid = fs[i].pid
      BY <1>0, <3>3 DEF Stream
    <3>6. fs'[i] = o /\ (i # j => fs'[j] = fs[j])
      BY <1>0, <3>4
    <3>7. CASE i # j
      BY <1>a, <1>d, <3>4, <3>6, <3>7
    <3>8. CASE i = j /\ stop
      BY <1>3, <1>c, <3>2, <3>4, <3>5, <3>6, <3>8
    <3>9. CASE i = j /\ ~stop /\ ~fs[j].trig
      BY <1>3, <1>6, <1>b, <3>2, <3>4, <3>5, <3>6, <3>9
    <3>10. CASE i = j /\ ~stop /\ fs[j].trig
      <4>1. to = fs[j].last /\ on /\ procs' = procs /\ fs[j].pos = fs[j].last
        BY <3>1, <3>2, <3>4, <3>10 DEF Reads, Reading
      <4>2. /\ Delivers(j)'
            /\ Readable(j)' => Readable(j)
            /\ fs[j].handle # 0 =>
                 /\ Upcoming(fs[j].handle)' = Upcoming(fs[j].handle)
                 /\ Decoded(fs[j].handle)' = Decoded(fs[j].handle)
        BY <3>5, <3>6, <3>10, <4>1 DEF Delivers, Readable, Alive, Upcoming, Decoded
      <4>3. Readable(j) => fs[j].handle # 0
        BY DEF Readable
      <4>4. Reading(j)'
        BY <3>4, <3>5, <3>6, <3>10, <4>1, <4>2, <4>3 DEF Reads, Reading
      <4> QED BY <4>2, <4>4 DEF Reads
    <3> QED BY <1>0, <3>7, <3>8, <3>9, <3>10
  <2>5. CASE StopIo(i)
    <3>1. PICK force \in BOOLEAN : force = (fs[i].mode = "read")
      OBVIOUS
    <3>2. fs' = [fs EXCEPT ![i].trig = FALSE] /\ procs' = Ended(i, force)
      BY <2>5, <3>1 DEF StopIo
    <3>3. CASE i # j
      BY <1>0, <1>d, <3>2, <3>3
    <3>4. CASE i = j
      <4>1. /\ fs'[j].handle = h /\ ~fs'[j].trig /\ fs'[j].got = fs[j].got
            /\ fs'[j].pos = fs[j].pos
        BY <1>0, <1>3, <3>2, <3>4 DEF Stream
      <4> QED BY <1>c, <3>2, <3>4, <4>1
    <3> QED BY <3>3, <3>4
  <2>6. CASE ForkClose(i)
    <3>1. ClassOf(fs[i]).kills \in BOOLEAN
      BY <1>0, Classes
    <3>2. CASE fs[i].pid # 0
      <4>1. /\ fs' = [fs EXCEPT ![i].trig = FALSE]
            /\ procs' = Ended(i, ClassOf(fs[i]).kills)
        BY <2>6, <3>2 DEF ForkClose
      <4>2. CASE i # j
        BY <1>0, <1>d, <3>1, <4>1, <4>2
      <4>3. CASE i = j
        <5>1. /\ fs'[j].handle = h /\ ~fs'[j].trig /\ fs'[j].got = fs[j].got
              /\ fs'[j].pos = fs[j].pos
          BY <1>0, <1>3, <4>1, <4>3 DEF Stream
        <5> QED BY <1>c, <3>1, <4>1, <4>3, <5>1
      <4> QED BY <4>2, <4>3
    <3>3. CASE fs[i].pid = 0
      <4>1. fs' = [fs EXCEPT ![i].open = FALSE] /\ procs' = procs /\ ~fs[i].trig
        BY <1>0, <2>6, <3>3 DEF ForkClose, Owners
      <4>2. CASE i # j
        BY <1>0, <1>a, <4>1, <4>2
      <4>3. CASE i = j
        <5>1. /\ fs'[j].handle = h /\ ~fs'[j].trig /\ fs'[j].got = fs[j].got
              /\ fs'[j].pos = fs[j].pos /\ ~Readable(j)
          BY <1>0, <1>3, <1>6, <4>1, <4>3 DEF Stream
        <5> QED BY <1>b, <4>1, <5>1
      <4> QED BY <4>2, <4>3
    <3> QED BY <3>2, <3>3
  <2> QED BY <1>7, <2>1, <2>2, <2>3, <2>4, <2>5, <2>6 DEF ForkCall
<1>8. ASSUME Fread PROVE Reads(j)'
  <2>1. PICK i \in Objs : i = busy.of
    BY <1>0
  <2>2. PICK n : n = fs[i].handle
    OBVIOUS
  <2>3. CASE n # 0 /\ procs[n].parent /\ procs[n].pipe # <<>>
    <3>1. PICK q : q = [procs[n] EXCEPT !.pipe = Tail(procs[n].pipe)]
      OBVIOUS
    <3>2. PICK o : o = [fs[i] EXCEPT !.got = Append(fs[i].got, Head(procs[n].pipe)),
                                     !.fin = FALSE, !.pos = fs[i].pos + 1,
                                     !.last = fs[i].last + 1]
      OBVIOUS
    <3>3. fs' = [fs EXCEPT ![i] = o] /\ procs' = [procs EXCEPT ![n] = q]
      BY <1>8, <2>1, <2>2, <2>3, <3>1, <3>2 DEF Fread
    <3>4. n \in 1..Len(procs) /\ procs[n].of = i
      BY <1>0, <2>2, <2>3 DEF Owners
    <3>5. procs'[n] = q /\ (h # n => procs'[h] = procs[h])
      BY <1>0, <3>3, <3>4
    <3>6. CASE i # j
      <4>1. fs'[j] = fs[j] /\ (h # 0 => procs'[h] = procs[h])
        BY <1>0, <1>4, <3>3, <3>4, <3>5, <3>6
      <4> QED BY <1>a, <4>1
    <3>7. CASE i = j
      <4>1. PICK at \in Int : at = procs[n].at
        BY <1>4, <1>3, <2>2, <2>3, <3>7 DEF Forking
      <4>2. n = h /\ Readable(j) /\ Decoded(h) /\ Reading(j) /\ Delivers(j)
        BY <1>3, <2>2, <2>3, <3>7 DEF Readable, Reads, Reading
      <4>3. procs[n].pipe = <<at - 1>>
        BY <2>3, <4>1, <4>2 DEF Decoded
      <4>4. Upcoming(h) = at - 1
        BY <2>3, <4>1, <4>2 DEF Upcoming
      <4>5. q.pipe = <<>> /\ q.at = at /\ q.parent = procs[n].parent
        BY <1>4, <3>1, <4>1, <4>2, <4>3 DEF Forking
      <4>6. PICK got \in Seq(Int) : got = fs[j].got
        BY <1>0 DEF Stream
      <4>7. PICK pos \in Nat : pos = fs[j].pos
        BY <1>0 DEF Stream
      <4>8. /\ fs[j].trig /\ fs[j].open /\ h = fs[j].pid /\ pos = fs[j].last
            /\ pos - (at - 1) \in 0..(ForkPcm - 1)
            /\ got # <<>> => at - 1 = got[1] + Len(got)
        BY <1>3, <4>2, <4>4, <4>6, <4>7 DEF Reading
      <4>9. /\ o.got = Append(got, at - 1) /\ o.pos = pos + 1 /\ o.last = pos + 1
            /\ o.trig = fs[j].trig /\ o.open = fs[j].open /\ o.handle = h
            /\ o.pid = fs[j].pid /\ o.mode = "read"
        <5>1. Head(procs[n].pipe) = at - 1
          BY <4>3
        <5>2. fs[j] \in Stream
          BY <1>0
        <5> QED BY <1>3, <3>2, <3>7, <4>6, <4>7, <4>8, <5>1, <5>2 DEF Stream
      <4>10. fs'[j] = o
        BY <1>0, <3>3, <3>7
      <4>11. /\ o.got \in Seq(Int) /\ Len(o.got) = Len(got) + 1 /\ o.got # <<>>
             /\ o.got[Len(got) + 1] = at - 1
             /\ \A k \in 1..Len(got) : o.got[k] = got[k]
        <5>1. at - 1 \in Int
          BY <4>1
        <5> QED BY <4>6, <4>9, <5>1
      <4>12. at - 1 = o.got[1] + Len(got)
        <5>1. CASE got = <<>>
          BY <4>1, <4>11, <5>1
        <5>2. CASE got # <<>>
          <6>1. Len(got) \in Nat /\ 1 \in 1..Len(got)
            BY <4>6, <5>2
          <6> QED BY <4>8, <4>11, <5>2, <6>1
        <5> QED BY <5>1, <5>2
      <4>13. Decoded(h)' /\ Upcoming(h)' = at
        BY <3>5, <4>2, <4>5 DEF Decoded, Upcoming
      <4>14. ForkPcm \in Nat /\ Len(got) \in Nat /\ o.got[1] \in Int
        <5>1. PICK k : k = o.got
          OBVIOUS
        <5>2. k \in Seq(Int) /\ k # <<>>
          BY <4>11, <5>1
        <5>3. k[1] \in Int
          BY ONLY <5>2
        <5>4. ForkPcm \in Nat
          BY Constants
        <5>5. Len(got) \in Nat
          BY <4>6
        <5> QED BY <5>1, <5>3, <5>4, <5>5
      <4>20. PICK first \in Int, len \in Nat : first = o.got[1] /\ len = Len(got)
        BY <4>14
      <4>21. at - 1 = first + len /\ Len(o.got) = len + 1
        BY <4>11, <4>12, <4>20
      <4>22. PICK d \in 0..(ForkPcm - 1) : d = pos - (at - 1)
        BY <4>8
      <4>23. pos + 1 - at = d /\ pos + 1 - (len + 1) - first = d /\ at = first + (len + 1)
        BY <4>21, <4>22, Distance
      <4>15. pos + 1 - at \in 0..(ForkPcm - 1)
        BY <4>22, <4>23
      <4>16. Reading(j)'
        <5>1. fs'[j].handle = h /\ fs'[j].trig /\ fs'[j].open /\ fs'[j].pid = h
          BY <4>8, <4>9, <4>10
        <5>2. at = o.got[1] + Len(o.got)
          BY <4>20, <4>21, <4>23
        <5>3. /\ fs'[j].pos - Upcoming(h)' \in 0..(ForkPcm - 1)
              /\ Upcoming(h)' = fs'[j].got[1] + Len(fs'[j].got)
              /\ fs'[j].pos = fs'[j].last
          <6>1. /\ fs'[j].pos = pos + 1 /\ fs'[j].last = pos + 1 /\ fs'[j].got = o.got
            BY <4>9, <4>10
          <6>2. Upcoming(h)' = at
            BY <4>13
          <6>3. fs'[j].pos - Upcoming(h)' \in 0..(ForkPcm - 1)
            BY <4>15, <6>1, <6>2
          <6> QED BY <5>2, <6>1, <6>2, <6>3
        <5> QED BY <4>13, <5>1, <5>3 DEF Reading
      <4>17. \A k \in 1..Len(o.got) : o.got[k] = o.got[1] + k - 1
        <5>1. \A k \in 1..Len(got) : got[k] = got[1] + k - 1
          BY <4>2, <4>6 DEF Delivers
        <5>2. TAKE k \in 1..Len(o.got)
        <5>3. CASE k = Len(got) + 1
          BY <4>11, <4>12, <4>14, <5>3
        <5>4. CASE k # Len(got) + 1
          <6>1. k \in 1..Len(got) /\ 1 \in 1..Len(got)
            BY <4>11, <4>14, <5>4
          <6> QED BY <4>11, <5>1, <6>1
        <5> QED BY <5>3, <5>4
      <4>18. o.pos - Len(o.got) - o.got[1] \in 0..(ForkPcm - 1)
        <5>1. o.pos - Len(o.got) - o.got[1] = pos + 1 - (len + 1) - first
          BY <4>9, <4>20, <4>21
        <5> QED BY <4>22, <4>23, <5>1
      <4>19. Delivers(j)'
        BY <4>10, <4>17, <4>18 DEF Delivers
      <4> QED BY <4>16, <4>19 DEF Reads
    <3> QED BY <3>6, <3>7
  <2>4. CASE ~(n # 0 /\ procs[n].parent /\ procs[n].pipe # <<>>)
    <3>1. CASE i # j
      <4>1. fs'[j] = fs[j] /\ procs' = procs
        BY <1>0, <1>8, <2>1, <2>2, <2>4, <3>1 DEF Fread
      <4> QED BY <1>a, <4>1
    <3>2. CASE i = j
      <4>1. ~Readable(j)
        BY <1>3, <1>6, <1>8, <2>1, <2>2, <2>4, <3>2 DEF Fread
      <4>2. PICK f : fs' = [fs EXCEPT ![i].fin = TRUE, ![i].trig = FALSE, ![i].fault = f]
        BY <1>8, <2>1, <2>2, <2>4 DEF Fread
      <4>3. /\ fs'[j].handle = h /\ ~fs'[j].trig /\ fs'[j].got = fs[j].got
            /\ fs'[j].pos = fs[j].pos
        BY <1>0, <1>3, <3>2, <4>2 DEF Stream
      <4>4. procs' = procs
        BY <1>8, <2>1, <2>2, <2>4 DEF Fread
      <4> QED BY <1>b, <4>1, <4>3, <4>4
    <3> QED BY <3>1, <3>2
  <2> QED BY <2>3, <2>4
<1>9. ASSUME Fwrite PROVE Reads(j)'
  <2>1. PICK i \in Objs : i = busy.of
    BY <1>0
  <2>2. PICK n : n = fs[i].pid
    OBVIOUS
  <2>3. i # j /\ n # 0
    BY <1>9, <2>1, <2>2 DEF Fwrite, Owners
  <2>4. fs'[j] = fs[j]
    BY <1>0, <1>9, <2>1, <2>3 DEF Fwrite
  <2>5. \E q : procs' = [procs EXCEPT ![n] = q]
    BY <1>9, <2>1, <2>2 DEF Fwrite
  <2>6. h # 0 => h # n
    BY <1>4, <2>2, <2>3 DEF Owners
  <2>7. h # 0 => procs'[h] = procs[h]
    BY <1>0, <1>4, <2>5, <2>6
  <2> QED BY <1>a, <2>4, <2>7
<1>10. ASSUME Waited PROVE Reads(j)'
  <2>1. PICK i \in Objs : i = busy.of
    BY <1>0
  <2>2. PICK n : n = fs[i].pid
    OBVIOUS
  <2>3. procs' = procs \/ procs' = [procs EXCEPT ![n].state = "reaped"]
    BY <1>10, <2>1, <2>2 DEF Waited
  <2>4. h # 0 => procs'[h].pipe = procs[h].pipe /\ procs'[h].at = procs[h].at
    <3>1. ASSUME h # 0, procs' = [procs EXCEPT ![n].state = "reaped"]
          PROVE  procs'[h].pipe = procs[h].pipe /\ procs'[h].at = procs[h].at
      <4>1. CASE h = n
        <5>1. procs'[h] = [procs[h] EXCEPT !.state = "reaped"]
          BY <1>0, <1>4, <3>1, <4>1
        <5> QED BY <1>4, <3>1, <5>1 DEF Forking
      <4>2. CASE h # n
        <5>1. procs'[h] = procs[h]
          BY <1>0, <1>4, <3>1, <4>2
        <5> QED BY <5>1
      <4> QED BY <4>1, <4>2
    <3> QED BY <2>3, <3>1
  <2>5. CASE i # j
    <3>1. fs'[j] = fs[j]
      BY <1>0, <1>10, <2>1, <2>5 DEF Waited
    <3> QED BY <1>a, <2>4, <3>1
  <2>6. CASE i = j
    <3>1. ~fs[j].trig
      BY <1>10, <2>1, <2>6 DEF Waited, Owners
    <3>2. PICK open, f : fs' = [fs EXCEPT ![i].pid = 0, ![i].open = open, ![i].fault = f]
      BY <1>10, <2>1 DEF Waited
    <3>3. /\ fs'[j].handle = h /\ fs'[j].trig = fs[j].trig /\ fs'[j].got = fs[j].got
          /\ fs'[j].pos = fs[j].pos
      BY <1>0, <1>3, <2>6, <3>2 DEF Stream
    <3> QED BY <1>6, <1>b, <2>4, <3>1, <3>3
  <2> QED BY <2>5, <2>6
<1>11. ASSUME NEW p \in 1..Len(procs), ProcessOf(p) \/ Crashes(p) PROVE Reads(j)'
  <2>0. fs' = fs
    BY <1>11 DEF ProcessOf, Decode, Encode, Exits, Crashes
  <2>1. CASE Decode(p)
    <3>1. PICK q : q = [procs[p] EXCEPT !.pipe = <<procs[p].at>>, !.at = procs[p].at + 1]
      OBVIOUS
    <3>2. procs' = [procs EXCEPT ![p] = q]
      BY <1>0, <2>1, <3>1 DEF Decode
    <3>3. procs'[p] = q /\ (h # p /\ h # 0 => procs'[h] = procs[h])
      BY <1>0, <1>4, <3>2
    <3>4. CASE h # p
      BY <1>a, <2>0, <3>3, <3>4
    <3>5. CASE h = p
      <4>1. PICK at \in Int : at = procs[h].at
        BY <1>4, <3>5 DEF Forking
      <4>2. /\ h # 0 /\ Alive(h) /\ procs[h].pipe = <<>> /\ Reading(j) /\ Delivers(j)
        BY <2>1, <3>5 DEF Decode, Reads
      <4>3. q.pipe = <<at>> /\ q.at = at + 1 /\ q.parent = procs[h].parent
        BY <1>4, <3>1, <3>5, <4>1 DEF Forking
      <4>4. Upcoming(h) = at
        BY <4>1, <4>2 DEF Upcoming
      <4>5. Decoded(h)' /\ Upcoming(h)' = at
        <5>1. procs'[h].pipe = <<at>> /\ procs'[h].at = at + 1 /\ at + 1 - 1 = at
          BY <3>3, <3>5, <4>1, <4>3
        <5> QED BY <5>1 DEF Decoded, Upcoming
      <4>6. Readable(j)' => Readable(j)
        BY <1>3, <2>0, <3>3, <3>5, <4>2, <4>3 DEF Readable
      <4>7. Reading(j)'
        BY <1>3, <2>0, <4>2, <4>4, <4>5, <4>6 DEF Reading
      <4>8. Delivers(j)'
        BY <2>0, <4>2 DEF Delivers
      <4> QED BY <4>7, <4>8 DEF Reads
    <3> QED BY <3>4, <3>5
  <2>2. CASE Encode(p)
    <3>1. h # 0 => h # p
      BY <1>4, <2>2 DEF Encode
    <3>2. PICK q : procs' = [procs EXCEPT ![p] = q]
      BY <1>0, <2>2 DEF Encode
    <3>3. h # 0 => procs'[h] = procs[h]
      BY <1>0, <1>4, <3>1, <3>2
    <3> QED BY <1>a, <2>0, <3>3
  <2>3. CASE Exits(p)
    <3>1. h # 0 => procs'[h].pipe = procs[h].pipe /\ procs'[h].at = procs[h].at
      <4>1. procs' = [procs EXCEPT ![p].state = "zombie"]
        BY <2>3 DEF Exits
      <4> QED BY <1>0, <1>4, <4>1 DEF Forking
    <3> QED BY <1>a, <2>0, <3>1
  <2>4. CASE Crashes(p)
    <3>1. h # 0 => procs'[h].pipe = procs[h].pipe /\ procs'[h].at = procs[h].at
      BY <1>0, <1>4, <2>4 DEF Crashes, Forking
    <3> QED BY <1>a, <2>0, <3>1
  <2> QED BY <1>11, <2>1, <2>2, <2>3, <2>4 DEF ProcessOf
<1>12. ASSUME FifoOpened \/ UNCHANGED forkVars PROVE Reads(j)'
  BY <1>a, <1>12 DEF FifoOpened, forkVars
<1> QED BY <1>7, <1>8, <1>9, <1>10, <1>11, <1>12 DEF ForkNext, ForkReturns

-----------------------------------------------------------------------------
(* Stopping and closing. *)

\* An object that is started holds the pipe of its process, unless that has ended.
Attached ==
  \A i \in Objs :
    fs[i].trig /\ Alive(fs[i].pid)
      => fs[i].handle = fs[i].pid /\ procs[fs[i].pid].parent

\* The pipe of an object that stays started is not closed.
LEMMA NextHolds ==
  ASSUME Typed, Owners, [ForkNext]_forkVars, NEW i \in Objs, NEW p \in 1..Len(procs),
         p = fs[i].pid, fs[i].trig, fs'[i].trig
  PROVE  procs'[p].parent = procs[p].parent
<1> DEFINE Holds == procs'[p].parent = procs[p].parent
<1>0. /\ procs \in Seq(Forking) /\ procs[p] \in Forking /\ Len(procs) \in Nat
      /\ fs \in [Objs -> Stream] /\ fs[i] \in Stream /\ busy.of \in Objs
      /\ \A j \in Objs : fs[j].pid \in Nat /\ fs[j].pid <= Len(procs)
  BY DEF Typed, Stream, Blocking
<1>a. ASSUME NEW n, NEW q, procs' = [procs EXCEPT ![n] = q],
             n = p => q.parent = procs[p].parent
      PROVE  Holds
  BY <1>0, <1>a
<1>b. ASSUME procs' = procs PROVE Holds
  BY <1>b
\* Who closes a pipe is stopped, or another object.
<1>c. ASSUME NEW j \in Objs, NEW force \in BOOLEAN, procs' = Ended(j, force), j # i
      PROVE  Holds
  <2>1. p # fs[j].pid
    BY <1>0, <1>c DEF Owners
  <2>2. procs'[p] = procs[p]
    BY <1>c, <2>1, EndedOthers
  <2> QED BY <2>2
<1>d. ASSUME NEW j \in Objs, NEW fast \in BOOLEAN, NEW starting \in BOOLEAN,
             Forked(j, fast, starting)
      PROVE  Holds
  <2>1. PICK q : procs' = Append(procs, q)
    BY <1>d DEF Forked, Inherits
  <2> QED BY <1>0, <2>1
<1> HIDE DEF Holds
<1>1. ASSUME NEW j \in Objs, ForkCall(j) PROVE Holds
  <2>1. CASE ForkOpen(j)
    BY <1>b, <2>1 DEF ForkOpen
  <2>2. CASE StartIo(j)
    BY <1>d, <2>2 DEF StartIo
  <2>3. CASE AskBlock(j)
    BY <1>b, <1>d, <2>3 DEF AskBlock
  <2>4. ASSUME NEW to \in 0..ForkFrames, SeekTo(j, to) PROVE Holds
    <3>1. CASE fs[j].trig /\ fs[j].last # to
      <4>1. PICK o : o = [fs[j] EXCEPT !.pos = to, !.fin = FALSE, !.got = <<>>, !.trig = FALSE]
        OBVIOUS
      <4>2. fs' = [fs EXCEPT ![j] = o] /\ procs' = Ended(j, TRUE)
        <5>1. (fs[j].trig /\ ~(fs[j].trig /\ fs[j].last # to)) = FALSE
          BY <3>1
        <5> QED BY <2>4, <3>1, <4>1, <5>1 DEF SeekTo
      <4>3. fs[j] \in Stream
        BY <1>0
      <4>4. ~o.trig
        BY <4>1, <4>3 DEF Stream
      <4>5. j # i
        BY <1>0, <4>2, <4>4
      <4> QED BY <1>c, <4>2, <4>5
    <3>2. CASE ~(fs[j].trig /\ fs[j].last # to)
      BY <1>b, <2>4, <3>2 DEF SeekTo
    <3> QED BY <3>1, <3>2
  <2>5. CASE StopIo(j)
    <3>1. PICK force \in BOOLEAN : force = (fs[j].mode = "read")
      OBVIOUS
    <3>2. procs' = Ended(j, force) /\ fs' = [fs EXCEPT ![j].trig = FALSE]
      BY <2>5, <3>1 DEF StopIo
    <3>3. j # i
      BY <1>0, <3>2 DEF Stream
    <3> QED BY <1>c, <3>2, <3>3
  <2>6. CASE ForkClose(j)
    <3>1. ClassOf(fs[j]).kills \in BOOLEAN
      BY <1>0, Classes
    <3>2. CASE fs[j].pid # 0
      <4>1. procs' = Ended(j, ClassOf(fs[j]).kills) /\ fs' = [fs EXCEPT ![j].trig = FALSE]
        BY <2>6, <3>2 DEF ForkClose
      <4>2. j # i
        BY <1>0, <4>1 DEF Stream
      <4> QED BY <1>c, <3>1, <4>1, <4>2
    <3>3. CASE fs[j].pid = 0
      BY <1>b, <2>6, <3>3 DEF ForkClose
    <3> QED BY <3>2, <3>3
  <2> QED BY <1>1, <2>1, <2>2, <2>3, <2>4, <2>5, <2>6 DEF ForkCall
<1>2. ASSUME ForkReturns PROVE Holds
  <2>1. CASE FifoOpened
    BY <1>b, <2>1 DEF FifoOpened
  <2>2. CASE Fread
    <3>1. PICK h : h = fs[busy.of].handle
      OBVIOUS
    <3>2. procs' = procs \/ procs' = [procs EXCEPT ![h].pipe = Tail(procs[h].pipe)]
      BY <2>2, <3>1 DEF Fread
    <3>3. [procs[p] EXCEPT !.pipe = Tail(procs[p].pipe)].parent = procs[p].parent
      BY <1>0 DEF Forking
    <3> QED BY <1>a, <1>b, <3>2, <3>3
  <2>3. CASE Fwrite
    <3>1. PICK n : n = fs[busy.of].pid
      OBVIOUS
    <3>2. procs' = [procs EXCEPT ![n].pipe = <<fs[busy.of].sent>>]
          \/ procs' = [procs EXCEPT ![n].state = "reaped"]
      BY <2>3, <3>1 DEF Fwrite
    <3>3. /\ [procs[p] EXCEPT !.pipe = <<fs[busy.of].sent>>].parent = procs[p].parent
          /\ [procs[p] EXCEPT !.state = "reaped"].parent = procs[p].parent
      BY <1>0 DEF Forking
    <3> QED BY <1>a, <3>2, <3>3
  <2>4. CASE Waited
    <3>1. PICK n : n = fs[busy.of].pid
      OBVIOUS
    <3>2. procs' = procs \/ procs' = [procs EXCEPT ![n].state = "reaped"]
      BY <2>4, <3>1 DEF Waited
    <3>3. [procs[p] EXCEPT !.state = "reaped"].parent = procs[p].parent
      BY <1>0 DEF Forking
    <3> QED BY <1>a, <1>b, <3>2, <3>3
  <2> QED BY <1>2, <2>1, <2>2, <2>3, <2>4 DEF ForkReturns
<1>3. ASSUME NEW n \in 1..Len(procs), ProcessOf(n) \/ Crashes(n) PROVE Holds
  <2>1. CASE Decode(n)
    <3>1. PICK q : q = [procs[n] EXCEPT !.pipe = <<procs[n].at>>, !.at = procs[n].at + 1]
      OBVIOUS
    <3>2. procs' = [procs EXCEPT ![n] = q]
      BY <1>0, <2>1, <3>1 DEF Decode
    <3>3. n = p => q.parent = procs[p].parent
      BY <1>0, <3>1 DEF Forking
    <3> QED BY <1>a, <3>2, <3>3
  <2>2. CASE Encode(n)
    <3>1. PICK q : q = [procs[n] EXCEPT !.pipe = Tail(procs[n].pipe), !.at = procs[n].at + 1]
      OBVIOUS
    <3>2. procs' = [procs EXCEPT ![n] = q]
      BY <1>0, <2>2, <3>1 DEF Encode
    <3>3. n = p => q.parent = procs[p].parent
      BY <1>0, <3>1 DEF Forking
    <3> QED BY <1>a, <3>2, <3>3
  <2>3. CASE Exits(n)
    <3>1. PICK q : q = [procs[n] EXCEPT !.state = "zombie"]
      OBVIOUS
    <3>2. procs' = [procs EXCEPT ![n] = q] /\ (n = p => q.parent = procs[p].parent)
      BY <1>0, <2>3, <3>1 DEF Exits, Forking
    <3> QED BY <1>a, <3>2
  <2>4. CASE Crashes(n)
    <3>1. PICK q : q = [procs[n] EXCEPT !.state = "zombie", !.failed = TRUE]
      OBVIOUS
    <3>2. procs' = [procs EXCEPT ![n] = q] /\ (n = p => q.parent = procs[p].parent)
      BY <1>0, <2>4, <3>1 DEF Crashes, Forking
    <3> QED BY <1>a, <3>2
  <2> QED BY <1>3, <2>1, <2>2, <2>3, <2>4 DEF ProcessOf
<1>4. ASSUME UNCHANGED forkVars PROVE Holds
  BY <1>b, <1>4 DEF forkVars
<1> QED BY <1>1, <1>2, <1>3, <1>4 DEF ForkNext, Holds

\* A fork attaches the new process, and no step detaches one from an object that
\* stays started.
LEMMA NextAttached ==
  ASSUME Typed, Owners, Attached, [ForkNext]_forkVars
  PROVE  Attached'
<1>0. /\ Typed' /\ Owners' /\ fs \in [Objs -> Stream] /\ procs \in Seq(Forking)
      /\ Len(procs) \in Nat /\ \A i \in Objs : fs[i].pid \in Nat /\ fs[i].pid <= Len(procs)
  BY NextTyped, NextOwners DEF Typed, Stream
<1>1. SUFFICES ASSUME NEW i \in Objs, fs'[i].trig, Alive(fs[i].pid)'
               PROVE  fs'[i].handle = fs'[i].pid /\ procs'[fs'[i].pid].parent
  BY DEF Attached
<1>2. CASE NoFork
  <2>1. fs'[i].pid # 0
    BY <1>0, <1>1 DEF Owners
  <2>2. PICK p \in 1..Len(procs) : p = fs[i].pid /\ fs'[i].pid = p
    BY <1>0, <1>2, <2>1 DEF NoFork
  <2>3. fs[i].trig /\ fs'[i].handle = fs[i].handle
    BY <1>1, <1>2 DEF NoFork
  <2>4. Onward(procs[p], procs'[p]) /\ procs'[p].parent = procs[p].parent
    BY <1>1, <2>2, <2>3, Onwards, NextHolds
  <2>5. Alive(p)
    BY <1>1, <2>2, <2>4 DEF Alive, Onward
  <2> QED BY <2>2, <2>3, <2>4, <2>5 DEF Attached
<1>3. ASSUME NEW j \in Objs, NEW fast \in BOOLEAN, Forks(j, fast)
      PROVE  fs'[i].handle = fs'[i].pid /\ procs'[fs'[i].pid].parent
  <2>1. PICK o \in Stream, q \in Forking : NewProcess(j, fast, o, q)
    BY <1>3 DEF Forks
  <2>2. /\ fs' = [fs EXCEPT ![j] = o] /\ procs' = Append(procs, q)
        /\ o.pid = Len(procs) + 1 /\ q.parent
        /\ fast => q.state = "reaped"
        /\ ~fast => o.handle = o.pid
    BY <2>1 DEF NewProcess
  <2>3. /\ procs'[Len(procs) + 1] = q /\ \A p \in 1..Len(procs) : procs'[p] = procs[p]
        /\ fs'[j] = o /\ (i # j => fs'[i] = fs[i])
    BY <1>0, <2>2
  <2>4. CASE i = j
    BY <1>1, <2>2, <2>3, <2>4 DEF Alive
  <2>5. CASE i # j
    <3>1. PICK p \in 1..Len(procs) : p = fs[i].pid
      BY <1>0, <1>1, <2>3, <2>5 DEF Owners
    <3> QED BY <1>1, <2>3, <2>5, <3>1 DEF Attached, Alive
  <2> QED BY <2>4, <2>5
<1> QED BY <1>2, <1>3, NextTyped

\* An object loses its process only when that was waited for, is closed only
\* when it has none, and waits for its process when it is stopped unless that has
\* ended.
Stops(i) ==
  /\ fs[i].open /\ ~fs'[i].open => fs'[i].pid = 0
  /\ fs[i].pid # 0 /\ fs'[i].pid = 0 => procs'[fs[i].pid].state = "reaped"
  /\ fs[i].pid # 0 /\ fs'[i].pid = 0 => busy.what = "wait" /\ busy.of = i
  /\ fs[i].trig /\ ~fs'[i].trig
       => ~fs[i].open \/ ~Alive(fs[i].pid) \/ (busy'.what = "wait" /\ busy'.of = i)
  /\ busy.what = "wait" /\ busy.of = i => busy' = busy \/ fs'[i].pid = 0

\* Every step stops and closes in that way only.
LEMMA NextStops ==
  ASSUME Typed, Owners, Attached, [ForkNext]_forkVars, NEW i \in Objs
  PROVE  Stops(i)
<1>0. /\ fs \in [Objs -> Stream] /\ procs \in Seq(Forking) /\ busy \in Blocking
      /\ Len(procs) \in Nat /\ busy.of \in Objs /\ fs[i] \in Stream
      /\ fs[i].pid \in Nat /\ fs[i].pid <= Len(procs)
  <2>1. fs[i] \in Stream
    BY DEF Typed
  <2> QED BY <2>1 DEF Typed, Stream, Blocking
\* The object stays as it is.
<1>a. ASSUME fs'[i] = fs[i], busy.what # "wait" \/ busy.of # i \/ busy' = busy
      PROVE  Stops(i)
  BY <1>a DEF Stops
<1>1. ASSUME NEW j \in Objs, NEW fast \in BOOLEAN, NEW o, NEW q, NewProcess(j, fast, o, q),
             Ready(j), ~fs[j].trig
      PROVE  Stops(i)
  <2>1. fs' = [fs EXCEPT ![j] = o] /\ o.pid = Len(procs) + 1 /\ o.open = fs[j].open
    BY <1>1 DEF NewProcess
  <2>2. busy.what = "none"
    BY <1>1 DEF Ready
  <2>3. CASE i # j
    BY <1>0, <1>a, <2>1, <2>2, <2>3
  <2>4. CASE i = j
    <3>1. fs'[i] = o
      BY <1>0, <2>1, <2>4
    <3> QED BY <1>0, <1>1, <2>1, <2>2, <2>4, <3>1 DEF Stops
  <2> QED BY <2>3, <2>4
<1>b. ASSUME NEW j \in Objs, NEW fast \in BOOLEAN, NEW starting \in BOOLEAN,
             Forked(j, fast, starting), Ready(j), ~fs[j].trig
      PROVE  Stops(i)
  BY <1>1, <1>b, ForkedNew
<1>2. ASSUME NEW j \in Objs, ForkCall(j) PROVE Stops(i)
  <2>0. busy.what = "none"
    BY <1>2 DEF ForkCall, ForkOpen, StartIo, AskBlock, SeekTo, StopIo, ForkClose, Ready
  <2>1. CASE ForkOpen(j)
    <3>1. CASE i # j
      BY <1>0, <1>a, <2>0, <2>1, <3>1 DEF ForkOpen
    <3>2. CASE i = j
      <4>1. fs'[i].open /\ fs'[i].pid = fs[i].pid /\ ~fs[i].open
        BY <1>0, <2>1, <3>2 DEF ForkOpen, Stream
      <4> QED BY <2>0, <4>1 DEF Stops
    <3> QED BY <3>1, <3>2
  <2>2. CASE StartIo(j)
    BY <1>b, <2>2 DEF StartIo
  <2>3. CASE AskBlock(j)
    <3>1. CASE fs[j].trig
      BY <1>a, <2>0, <2>3, <3>1 DEF AskBlock
    <3>2. CASE ~fs[j].trig
      BY <1>b, <2>3, <3>2 DEF AskBlock
    <3> QED BY <3>1, <3>2
  <2>4. ASSUME NEW to \in 0..ForkFrames, SeekTo(j, to) PROVE Stops(i)
    <3>1. CASE i # j
      BY <1>0, <1>a, <2>0, <2>4, <3>1 DEF SeekTo
    <3>2. CASE i = j
      <4>1. PICK stop \in BOOLEAN : stop = (fs[i].trig /\ fs[i].last # to)
        BY <1>0 DEF Stream
      <4>2. PICK on \in BOOLEAN : on = (fs[i].trig /\ ~stop)
        BY <1>0 DEF Stream
      <4>3. /\ fs' = [fs EXCEPT ![i].pos = to, ![i].fin = FALSE, ![i].got = <<>>,
                                ![i].trig = on]
            /\ stop => busy' = Blocks("wait", i, "none")
        BY <2>4, <3>2, <4>1, <4>2 DEF SeekTo
      <4>4. fs'[i].open = fs[i].open /\ fs'[i].pid = fs[i].pid /\ fs'[i].trig = on
        BY <1>0, <4>3 DEF Stream
      <4>5. fs[i].trig /\ ~on => stop
        BY <4>2
      <4>6. stop => busy'.what = "wait" /\ busy'.of = i
        BY <4>3 DEF Blocks
      <4> QED BY <2>0, <4>4, <4>5, <4>6 DEF Stops
    <3> QED BY <3>1, <3>2
  <2>5. CASE StopIo(j)
    <3>1. CASE i # j
      BY <1>0, <1>a, <2>0, <2>5, <3>1 DEF StopIo
    <3>2. CASE i = j
      <4>1. fs'[i].open = fs[i].open /\ fs'[i].pid = fs[i].pid
        BY <1>0, <2>5, <3>2 DEF StopIo, Stream
      <4>2. busy'.what = "wait" /\ busy'.of = i
        BY <2>5, <3>2 DEF StopIo, Blocks
      <4> QED BY <2>0, <4>1, <4>2 DEF Stops
    <3> QED BY <3>1, <3>2
  <2>6. CASE ForkClose(j)
    <3>1. CASE i # j
      <4>1. \E o : fs' = [fs EXCEPT ![j] = o]
        BY <2>6 DEF ForkClose
      <4> QED BY <1>0, <1>a, <2>0, <3>1, <4>1
    <3>2. CASE i = j /\ fs[i].pid # 0
      <4>1. fs'[i].open = fs[i].open /\ fs'[i].pid = fs[i].pid
        BY <1>0, <2>6, <3>2 DEF ForkClose, Stream
      <4>2. busy'.what = "wait" /\ busy'.of = i
        BY <2>6, <3>2 DEF ForkClose, Blocks
      <4> QED BY <2>0, <4>1, <4>2 DEF Stops
    <3>3. CASE i = j /\ fs[i].pid = 0
      <4>1. fs'[i].pid = 0 /\ fs'[i].trig = fs[i].trig
        BY <1>0, <2>6, <3>3 DEF ForkClose, Stream
      <4> QED BY <2>0, <3>3, <4>1 DEF Stops
    <3> QED BY <3>1, <3>2, <3>3
  <2> QED BY <1>2, <2>1, <2>2, <2>3, <2>4, <2>5, <2>6 DEF ForkCall
<1>c. ASSUME NEW j \in Objs, NEW o, fs' = [fs EXCEPT ![j] = o], busy.what = "io",
             o.open = fs[j].open, o.pid = fs[j].pid,
             fs[j].trig => o.trig \/ ~Alive(fs[j].pid)
      PROVE  Stops(i)
  <2>1. CASE i # j
    BY <1>0, <1>a, <1>c, <2>1
  <2>2. CASE i = j
    <3>1. fs'[i] = o
      BY <1>0, <1>c, <2>2
    <3> QED BY <1>c, <2>2, <3>1 DEF Stops
  <2> QED BY <2>1, <2>2
<1>3. CASE Fread
  <2>1. PICK j \in Objs : j = busy.of
    BY <1>0
  <2>2. busy.what = "io" /\ fs[j].mode = "read" /\ fs[j] \in Stream
    BY <1>0, <1>3, <2>1 DEF Fread
  <2>3. PICK h : h = fs[j].handle
    OBVIOUS
  <2>4. CASE h # 0 /\ procs[h].parent /\ procs[h].pipe # <<>>
    <3>1. PICK o : o = [fs[j] EXCEPT !.got = Append(fs[j].got, Head(procs[h].pipe)),
                                     !.fin = FALSE, !.pos = fs[j].pos + 1,
                                     !.last = fs[j].last + 1]
      OBVIOUS
    <3>2. fs' = [fs EXCEPT ![j] = o]
      BY <1>3, <2>1, <2>3, <2>4, <3>1 DEF Fread
    <3>3. o.open = fs[j].open /\ o.pid = fs[j].pid /\ o.trig = fs[j].trig
      BY <2>2, <3>1 DEF Stream
    <3> QED BY <1>c, <2>2, <3>2, <3>3
  <2>5. CASE ~(h # 0 /\ procs[h].parent /\ procs[h].pipe # <<>>)
    <3>1. PICK f : f = IF h = 0 /\ ClassOf(fs[j]).keeps THEN "null" ELSE fs[j].fault
      OBVIOUS
    <3>2. PICK o : o = [fs[j] EXCEPT !.fin = TRUE, !.trig = FALSE, !.fault = f]
      OBVIOUS
    <3>3. fs' = [fs EXCEPT ![j] = o]
      BY <1>3, <2>1, <2>3, <2>5, <3>1, <3>2 DEF Fread
    <3>4. o.open = fs[j].open /\ o.pid = fs[j].pid
      BY <2>2, <3>2 DEF Stream
    <3>5. h # 0 /\ procs[h].parent => ~Alive(h)
      BY <1>3, <2>1, <2>3, <2>5 DEF Fread
    <3>6. fs[j].trig => ~Alive(fs[j].pid)
      BY <2>3, <3>5 DEF Attached, Owners
    <3> QED BY <1>c, <2>2, <3>3, <3>4, <3>6
  <2> QED BY <2>4, <2>5
<1>4. CASE Fwrite
  <2>1. PICK j \in Objs : j = busy.of
    BY <1>0
  <2>2. busy.what = "io" /\ fs[j] \in Stream
    BY <1>0, <1>4, <2>1 DEF Fwrite
  <2>3. CASE Alive(fs[j].pid)
    <3>1. PICK o : o = [fs[j] EXCEPT !.sent = fs[j].sent + 1, !.fin = FALSE,
                                     !.pos = fs[j].pos + 1]
      OBVIOUS
    <3>2. fs' = [fs EXCEPT ![j] = o]
      BY <1>4, <2>1, <2>3, <3>1 DEF Fwrite
    <3>3. o.open = fs[j].open /\ o.pid = fs[j].pid /\ o.trig = fs[j].trig
      BY <2>2, <3>1 DEF Stream
    <3> QED BY <1>c, <2>2, <3>2, <3>3
  <2>4. CASE ~Alive(fs[j].pid)
    <3>1. PICK o : o = [fs[j] EXCEPT !.fin = TRUE, !.trig = FALSE, !.pos = fs[j].pos + 1]
      OBVIOUS
    <3>2. fs' = [fs EXCEPT ![j] = o]
      BY <1>4, <2>1, <2>4, <3>1 DEF Fwrite
    <3>3. o.open = fs[j].open /\ o.pid = fs[j].pid
      BY <2>2, <3>1 DEF Stream
    <3> QED BY <1>c, <2>2, <2>4, <3>2, <3>3
  <2> QED BY <2>3, <2>4
<1>5. CASE Waited
  <2>1. busy.what = "wait" /\ ~fs[busy.of].trig
    BY <1>5 DEF Waited, Owners
  <2>2. CASE i # busy.of
    <3>1. \E o : fs' = [fs EXCEPT ![busy.of] = o]
      BY <1>5 DEF Waited
    <3> QED BY <1>0, <1>a, <2>1, <2>2, <3>1
  <2>3. CASE i = busy.of
    <3>1. fs'[i].pid = 0
      BY <1>0, <1>5, <2>3 DEF Waited, Stream
    <3>2. fs[i].pid # 0 => procs'[fs[i].pid].state = "reaped"
      <4>1. SUFFICES ASSUME fs[i].pid # 0
                     PROVE  procs'[fs[i].pid].state = "reaped"
        OBVIOUS
      <4>2. PICK p \in 1..Len(procs) : p = fs[i].pid
        BY <1>0, <4>1
      <4>3. procs' = [procs EXCEPT ![p].state = "reaped"]
        BY <1>5, <2>3, <4>1, <4>2 DEF Waited
      <4>4. procs[p] \in Forking
        BY <1>0
      <4> QED BY <1>0, <4>2, <4>3, <4>4 DEF Forking
    <3> QED BY <2>1, <2>3, <3>1, <3>2 DEF Stops
  <2> QED BY <2>2, <2>3
<1>6. ASSUME NEW p \in 1..Len(procs), ProcessOf(p) \/ Crashes(p) PROVE Stops(i)
  BY <1>a, <1>6 DEF ProcessOf, Decode, Encode, Exits, Crashes
<1>7. CASE FifoOpened
  BY <1>a, <1>7 DEF FifoOpened
<1>8. CASE UNCHANGED forkVars
  BY <1>a, <1>8 DEF forkVars
<1> QED BY <1>2, <1>3, <1>4, <1>5, <1>6, <1>7, <1>8 DEF ForkNext, ForkReturns

\* An object that is started is open.
StartedOpen == \A i \in Objs : fs[i].trig => fs[i].open

\* Closing an object stops it.
LEMMA NextOpened ==
  ASSUME Typed, Owners, Attached, StartedOpen, [ForkNext]_forkVars
  PROVE  StartedOpen'
<1>0. SUFFICES ASSUME NEW i \in Objs, fs'[i].trig PROVE fs'[i].open
  BY DEF StartedOpen
<1>1. Typed' /\ Owners' /\ Stops(i)
  BY NextTyped, NextOwners, NextStops
<1>2. fs'[i].pid # 0
  BY <1>0, <1>1 DEF Owners
<1>3. CASE NoFork
  BY <1>0, <1>1, <1>2, <1>3 DEF NoFork, StartedOpen, Stops
<1>4. ASSUME NEW j \in Objs, NEW fast \in BOOLEAN, Forks(j, fast) PROVE fs'[i].open
  <2>1. PICK o, q : NewProcess(j, fast, o, q)
    BY <1>4 DEF Forks
  <2>2. fs' = [fs EXCEPT ![j] = o] /\ o.open = fs[j].open /\ fs[j].open
    BY <1>4, <2>1 DEF NewProcess, Forks
  <2> QED BY <1>0, <2>2 DEF StartedOpen, Typed
<1> QED BY <1>3, <1>4, NextTyped

\* Every process but the last of an object has been waited for, or was dead when it
\* was forgotten; an object that is not started waits for its process, or that is dead.
NoneLeft ==
  /\ \A i \in Objs :
       /\ fs[i].pid # 0 => fs[i].open
       /\ fs[i].lost \subseteq 1..Len(procs)
       /\ fs[i].pid # 0 /\ ~fs[i].trig
            => ~Alive(fs[i].pid) \/ (busy.what = "wait" /\ busy.of = i)
  /\ \A p \in 1..Len(procs) :
       IF p \in fs[procs[p].of].lost THEN ~Alive(p)
       ELSE p # fs[procs[p].of].pid => procs[p].state = "reaped" /\ ~procs[p].parent

\* A fork forgets a process that is dead.
LEMMA NextLeft ==
  ASSUME Typed, Owners, Attached, NoneLeft, [ForkNext]_forkVars
  PROVE  NoneLeft'
<1>0. /\ Typed' /\ Owners' /\ \A i \in Objs : Stops(i)
      /\ fs \in [Objs -> Stream] /\ procs \in Seq(Forking) /\ Len(procs) \in Nat
      /\ \A i \in Objs : fs[i].pid \in Nat /\ fs[i].pid <= Len(procs)
  BY NextTyped, NextOwners, NextStops DEF Typed, Stream
<1>1. \A p \in 1..Len(procs) : procs[p].of \in Objs /\ Onward(procs[p], procs'[p])
  <2>1. \A p \in 1..Len(procs) : procs[p] \in Forking
    BY <1>0
  <2>2. \A p \in 1..Len(procs) : Onward(procs[p], procs'[p])
    BY Onwards
  <2> QED BY <2>1, <2>2 DEF Forking
<1>2. CASE NoFork
  <2>1. ASSUME NEW i \in Objs
        PROVE  /\ fs'[i].pid # 0 => fs'[i].open
               /\ fs'[i].lost \subseteq 1..Len(procs')
    BY <1>0, <1>2, <2>1 DEF NoFork, NoneLeft, Stops
  <2>2. ASSUME NEW i \in Objs, fs'[i].pid # 0, ~fs'[i].trig
        PROVE  ~Alive(fs[i].pid)' \/ (busy'.what = "wait" /\ busy'.of = i)
    <3>1. PICK p \in 1..Len(procs) : p = fs[i].pid /\ fs'[i].pid = p
      BY <1>0, <1>2, <2>2 DEF NoFork
    <3>2. Alive(p)' => Alive(p)
      BY <1>1, <3>1 DEF Alive, Onward
    <3>3. CASE fs[i].trig
      <4>1. fs[i].open
        BY <3>1 DEF NoneLeft
      <4> QED BY <1>0, <2>2, <3>1, <3>2, <3>3, <4>1 DEF Stops
    <3>4. CASE ~fs[i].trig
      <4>1. ~Alive(p) \/ (busy.what = "wait" /\ busy.of = i)
        BY <3>1, <3>4 DEF NoneLeft
      <4>2. busy.what = "wait" /\ busy.of = i => busy' = busy
        BY <1>0, <2>2 DEF Stops
      <4> QED BY <3>1, <3>2, <4>1, <4>2
    <3> QED BY <3>3, <3>4
  <2>3. ASSUME NEW p \in 1..Len(procs)
        PROVE  IF p \in fs'[procs'[p].of].lost THEN ~Alive(p)'
               ELSE p # fs'[procs'[p].of].pid => procs'[p].state = "reaped" /\ ~procs'[p].parent
    <3>1. PICK i \in Objs : i = procs[p].of
      BY <1>1
    <3>2. procs'[p].of = i /\ Onward(procs[p], procs'[p]) /\ fs'[i].lost = fs[i].lost
      BY <1>1, <1>2, <3>1 DEF Onward, NoFork
    <3>3. CASE p \in fs[i].lost
      <4>1. ~Alive(p)
        BY <3>1, <3>3 DEF NoneLeft
      <4> QED BY <3>2, <3>3, <4>1 DEF Onward, Alive
    <3>4. CASE p \notin fs[i].lost /\ p # fs[i].pid
      BY <3>1, <3>2, <3>4 DEF NoneLeft, Onward
    <3>5. CASE p \notin fs[i].lost /\ p = fs[i].pid /\ p # fs'[i].pid
      <4>1. fs'[i].pid = 0 /\ fs[i].pid # 0
        BY <1>2, <3>5 DEF NoFork
      <4>2. procs'[p].state = "reaped" /\ busy.what = "wait" /\ busy.of = i
        BY <1>0, <3>5, <4>1 DEF Stops
      <4>3. ~procs[p].parent
        BY <3>5, <4>1, <4>2 DEF Owners
      <4> QED BY <3>2, <3>5, <4>2, <4>3, <1>0 DEF Onward, Typed, Forking
    <3> QED BY <3>2, <3>3, <3>4, <3>5
  <2> QED BY <1>2, <2>1, <2>2, <2>3 DEF NoFork, NoneLeft
<1>3. ASSUME NEW j \in Objs, NEW fast \in BOOLEAN, Forks(j, fast) PROVE NoneLeft'
  <2>1. PICK o \in Stream, q \in Forking : NewProcess(j, fast, o, q)
    BY <1>3 DEF Forks
  <2>2. /\ fs' = [fs EXCEPT ![j] = o] /\ procs' = Append(procs, q)
        /\ o.open /\ o.pid = Len(procs) + 1 /\ q.of = j
        /\ o.lost = (fs[j].lost \cup {fs[j].pid}) \ {0}
        /\ fast => q.state = "reaped"
        /\ ~fast => o.trig
        /\ busy.what = "none" /\ ~fs[j].trig
    BY <1>3, <2>1 DEF NewProcess, Forks
  <2>3. /\ Len(procs') = Len(procs) + 1 /\ procs'[Len(procs) + 1] = q
        /\ \A p \in 1..Len(procs) : procs'[p] = procs[p]
        /\ fs'[j] = o /\ \A i \in Objs : i # j => fs'[i] = fs[i]
    BY <1>0, <2>2
  <2>4. fs[j].pid # 0 => ~Alive(fs[j].pid)
    BY <2>2 DEF NoneLeft
  <2>5. \A i \in Objs : fs[i].lost \subseteq 1..Len(procs)
    BY DEF NoneLeft
  <2>6. ASSUME NEW i \in Objs
        PROVE  /\ fs'[i].pid # 0 => fs'[i].open
               /\ fs'[i].lost \subseteq 1..Len(procs')
               /\ fs'[i].pid # 0 /\ ~fs'[i].trig => ~Alive(fs[i].pid)'
    <3>1. CASE i = j
      <4>1. fs[j].lost \subseteq 1..Len(procs) /\ fs[j].pid \in 0..Len(procs)
        BY <1>0, <2>5
      <4>2. o.lost \subseteq 1..Len(procs)
        BY <2>2, <4>1
      <4>3. 1..Len(procs) \subseteq 1..Len(procs')
        BY <1>0, <2>3
      <4>4. ~o.trig => ~Alive(o.pid)'
        BY <2>2, <2>3 DEF Alive
      <4> QED BY <2>2, <2>3, <3>1, <4>2, <4>3, <4>4
    <3>2. CASE i # j
      <4>1. fs'[i] = fs[i] /\ fs[i].lost \subseteq 1..Len(procs) /\ (fs[i].pid # 0 => fs[i].open)
        BY <2>3, <2>5, <3>2 DEF NoneLeft
      <4>2. 1..Len(procs) \subseteq 1..Len(procs')
        BY <1>0, <2>3
      <4>3. fs[i].pid # 0 /\ ~fs[i].trig => ~Alive(fs[i].pid)
        BY <2>2 DEF NoneLeft
      <4>4. fs[i].pid # 0 => fs[i].pid \in 1..Len(procs)
        BY <1>0
      <4>5. fs[i].pid # 0 => procs'[fs[i].pid] = procs[fs[i].pid]
        BY <2>3, <4>4
      <4> QED BY <4>1, <4>2, <4>3, <4>5 DEF Alive
    <3> QED BY <3>1, <3>2
  <2>7. ASSUME NEW p \in 1..Len(procs')
        PROVE  IF p \in fs'[procs'[p].of].lost THEN ~Alive(p)'
               ELSE p # fs'[procs'[p].of].pid => procs'[p].state = "reaped" /\ ~procs'[p].parent
    <3>1. CASE p = Len(procs) + 1
      <4>1. procs'[p] = q /\ fs'[q.of] = o /\ o.pid = p
        BY <2>2, <2>3, <3>1
      <4>2. p \notin o.lost
        <5>1. fs[j].lost \subseteq 1..Len(procs) /\ fs[j].pid \in 0..Len(procs)
          BY <1>0, <2>5
        <5> QED BY <1>0, <2>2, <3>1, <5>1
      <4> QED BY <4>1, <4>2
    <3>2. CASE p # Len(procs) + 1
      <4>1. p \in 1..Len(procs)
        BY <1>0, <2>3, <3>2
      <4>2. PICK i \in Objs : i = procs[p].of
        BY <1>1, <4>1
      <4>3. procs'[p] = procs[p] /\ p # 0
        BY <1>0, <2>3, <4>1
      <4>4. IF p \in fs[i].lost THEN ~Alive(p)
            ELSE p # fs[i].pid => procs[p].state = "reaped" /\ ~procs[p].parent
        BY <4>1, <4>2 DEF NoneLeft
      <4>5. CASE i # j
        BY <2>3, <4>2, <4>3, <4>4, <4>5 DEF Alive
      <4>6. CASE i = j
        <5>1. fs'[i] = o
          BY <2>3, <4>6
        <5>2. p \in o.lost <=> p \in fs[i].lost \/ p = fs[i].pid
          BY <2>2, <4>3, <4>6
        <5>3. p \in o.lost => ~Alive(p)
          BY <2>4, <4>3, <4>4, <4>6, <5>2
        <5> QED BY <4>2, <4>3, <4>4, <5>1, <5>2, <5>3 DEF Alive
      <4> QED BY <4>5, <4>6
    <3> QED BY <3>1, <3>2
  <2> QED BY <2>2, <2>6, <2>7 DEF NoneLeft
<1> QED BY <1>2, <1>3, NextTyped

\* A writer that was stopped has no encoder that still runs, unless it waits for it;
\* no encoder is killed, and one that ended by itself has encoded all.
Encoded(r) ==
  r.mode = "write" => ~r.cut /\ (r.state # "run" /\ ~r.failed => r.pipe = <<>>)

Writing ==
  /\ \A i \in Objs :
       fs[i].mode = "write" /\ fs[i].pid # 0 /\ ~fs[i].trig
         => ~Alive(fs[i].pid) \/ (busy.what = "wait" /\ busy.of = i)
  /\ \A p \in 1..Len(procs) : Encoded(procs[p])

\* No step cuts an encoder off: a writer is stopped, which waits, before it is closed.
LEMMA NextEncoded ==
  ASSUME ~ForkKills, Typed, Owners, StartedOpen, Writing, [ForkNext]_forkVars,
         NEW p \in 1..Len(procs)
  PROVE  Encoded(procs'[p])
<1>0. /\ procs \in Seq(Forking) /\ procs[p] \in Forking /\ Len(procs) \in Nat
      /\ busy.of \in Objs /\ Encoded(procs[p])
      /\ \A i \in Objs : /\ fs[i] \in Stream /\ fs[i].pid \in Nat /\ fs[i].handle \in Nat
                         /\ fs[i].pid <= Len(procs) /\ fs[i].handle <= Len(procs)
  <2>1. \A i \in Objs : fs[i] \in Stream
    BY DEF Typed
  <2>2. \A i \in Objs : fs[i].pid \in Nat /\ fs[i].handle \in Nat
    BY <2>1 DEF Stream
  <2> QED BY <2>1, <2>2 DEF Typed, Blocking, Writing
<1>a. CASE procs' = procs
  BY <1>0, <1>a
\* One process changes.
<1>b. ASSUME NEW n, NEW q, procs' = [procs EXCEPT ![n] = q], n = p => Encoded(q)
      PROVE  Encoded(procs'[p])
  BY <1>0, <1>b
<1>c. ASSUME NEW j \in Objs, NEW fast \in BOOLEAN, NEW starting \in BOOLEAN,
             Forked(j, fast, starting)
      PROVE  Encoded(procs'[p])
  <2>1. PICK q : procs' = Append(procs, q)
    BY <1>c DEF Forked, Inherits
  <2>2. procs'[p] = procs[p]
    BY <1>0, <2>1
  <2> QED BY <1>0, <2>2
\* A process is ended; an encoder is not killed.
<1>d. ASSUME NEW j \in Objs, NEW force \in BOOLEAN, procs' = Ended(j, force),
             fs[j].mode = "read" \/ ~force \/ (fs[j].pid # 0 => ~Alive(fs[j].pid))
      PROVE  Encoded(procs'[p])
  <2>1. CASE p # fs[j].pid
    <3>1. procs'[p] = procs[p]
      BY <1>d, <2>1, EndedOthers
    <3> QED BY <1>0, <3>1
  <2>2. CASE p = fs[j].pid
    <3>1. PICK q : q = procs'[p]
      OBVIOUS
    <3>2. /\ q.mode = procs[p].mode /\ q.pipe = procs[p].pipe /\ q.failed = procs[p].failed
          /\ q.cut <=> procs[p].cut \/ (force /\ Alive(p))
          /\ q.state = IF force /\ procs[p].state = "run" THEN "zombie" ELSE procs[p].state
      BY <1>d, <2>2, <3>1, EndedIt
    <3>3. procs[p].mode = fs[j].mode
      BY <2>2 DEF Owners
    <3>4. procs[p].mode = "write" => ~force \/ ~Alive(p)
      BY <1>d, <2>2, <3>3
    <3>5. Encoded(q)
      BY <1>0, <3>2, <3>4 DEF Encoded, Alive
    <3> QED BY <3>1, <3>5
  <2> QED BY <2>1, <2>2
<1>1. ASSUME NEW j \in Objs, ForkCall(j) PROVE Encoded(procs'[p])
  <2>1. CASE ForkOpen(j)
    BY <1>a, <2>1 DEF ForkOpen
  <2>2. CASE StartIo(j)
    BY <1>c, <2>2 DEF StartIo
  <2>3. CASE AskBlock(j)
    BY <1>a, <1>c, <2>3 DEF AskBlock
  <2>4. ASSUME NEW to \in 0..ForkFrames, SeekTo(j, to) PROVE Encoded(procs'[p])
    BY <1>a, <1>d, <2>4 DEF SeekTo
  <2>5. CASE StopIo(j)
    <3>1. PICK force \in BOOLEAN : force = (fs[j].mode = "read")
      OBVIOUS
    <3> QED BY <1>d, <2>5, <3>1 DEF StopIo
  <2>6. CASE ForkClose(j)
    <3>1. ClassOf(fs[j]).kills \in BOOLEAN
      BY <1>0, Classes
    <3>2. CASE fs[j].pid = 0
      BY <1>a, <2>6, <3>2 DEF ForkClose
    <3>3. CASE fs[j].pid # 0
      <4>1. procs' = Ended(j, ClassOf(fs[j]).kills) /\ ~fs[j].trig /\ busy.what = "none"
        BY <2>6, <3>3 DEF ForkClose, Ready
      <4>2. fs[j].mode = "read" \/ ~Alive(fs[j].pid)
        BY <1>0, <3>3, <4>1 DEF Writing, Stream
      <4> QED BY <1>d, <3>1, <4>1, <4>2
    <3> QED BY <3>2, <3>3
  <2> QED BY <1>1, <2>1, <2>2, <2>3, <2>4, <2>5, <2>6 DEF ForkCall
<1>2. CASE Fread
  <2>1. PICK j \in Objs : j = busy.of
    BY <1>0
  <2>2. PICK h : h = fs[j].handle
    OBVIOUS
  <2>3. CASE h # 0 /\ procs[h].parent /\ procs[h].pipe # <<>>
    <3>1. PICK q : q = [procs[h] EXCEPT !.pipe = Tail(procs[h].pipe)]
      OBVIOUS
    <3>2. procs' = [procs EXCEPT ![h] = q] /\ fs[j].mode = "read"
      BY <1>2, <2>1, <2>2, <2>3, <3>1 DEF Fread
    <3>3. h \in 1..Len(procs) /\ procs[h].mode = "read"
      BY <1>0, <2>2, <2>3, <3>2 DEF Owners
    <3>4. q.mode = "read"
      BY <1>0, <3>1, <3>3 DEF Forking
    <3> QED BY <1>b, <3>2, <3>4 DEF Encoded
  <2>4. CASE ~(h # 0 /\ procs[h].parent /\ procs[h].pipe # <<>>)
    BY <1>2, <1>a, <2>1, <2>2, <2>4 DEF Fread
  <2> QED BY <2>3, <2>4
<1>3. CASE Fwrite
  <2>1. PICK j \in Objs : j = busy.of
    BY <1>0
  <2>2. PICK n : n = fs[j].pid
    OBVIOUS
  <2>3. CASE Alive(n)
    <3>1. PICK q : q = [procs[n] EXCEPT !.pipe = <<fs[j].sent>>]
      OBVIOUS
    <3>2. procs' = [procs EXCEPT ![n] = q]
      BY <1>3, <2>1, <2>2, <2>3, <3>1 DEF Fwrite
    <3>3. n = p => Encoded(q)
      BY <1>0, <2>3, <3>1 DEF Encoded, Forking, Alive
    <3> QED BY <1>b, <3>2, <3>3
  <2>4. CASE ~Alive(n)
    <3>1. PICK q : q = [procs[n] EXCEPT !.state = "reaped"]
      OBVIOUS
    <3>2. procs' = [procs EXCEPT ![n] = q]
      BY <1>3, <2>1, <2>2, <2>4, <3>1 DEF Fwrite
    <3>3. n = p => Encoded(q)
      BY <1>0, <2>4, <3>1 DEF Encoded, Forking, Alive
    <3> QED BY <1>b, <3>2, <3>3
  <2> QED BY <2>3, <2>4
<1>4. CASE Waited
  <2>1. PICK n : n = fs[busy.of].pid
    OBVIOUS
  <2>2. CASE n = 0
    BY <1>4, <1>a, <2>1, <2>2 DEF Waited
  <2>3. CASE n # 0
    <3>1. PICK q : q = [procs[n] EXCEPT !.state = "reaped"]
      OBVIOUS
    <3>2. procs' = [procs EXCEPT ![n] = q] /\ ~Alive(n)
      BY <1>4, <2>1, <2>3, <3>1 DEF Waited
    <3>3. n = p => Encoded(q)
      BY <1>0, <3>1, <3>2 DEF Encoded, Forking, Alive
    <3> QED BY <1>b, <3>2, <3>3
  <2> QED BY <2>2, <2>3
<1>5. ASSUME NEW n \in 1..Len(procs), ProcessOf(n) \/ Crashes(n) PROVE Encoded(procs'[p])
  <2>1. CASE Decode(n)
    <3>1. PICK q : q = [procs[n] EXCEPT !.pipe = <<procs[n].at>>, !.at = procs[n].at + 1]
      OBVIOUS
    <3>2. procs' = [procs EXCEPT ![n] = q] /\ procs[n].mode = "read"
      BY <2>1, <3>1 DEF Decode
    <3>3. n = p => Encoded(q)
      BY <1>0, <3>1, <3>2 DEF Encoded, Forking
    <3> QED BY <1>b, <3>2, <3>3
  <2>2. CASE Encode(n)
    <3>1. PICK q : q = [procs[n] EXCEPT !.pipe = Tail(procs[n].pipe), !.at = procs[n].at + 1]
      OBVIOUS
    <3>2. procs' = [procs EXCEPT ![n] = q] /\ Alive(n)
      BY <2>2, <3>1 DEF Encode
    <3>3. n = p => Encoded(q)
      BY <1>0, <3>1, <3>2 DEF Encoded, Forking, Alive
    <3> QED BY <1>b, <3>2, <3>3
  <2>3. CASE Exits(n)
    <3>1. PICK q : q = [procs[n] EXCEPT !.state = "zombie"]
      OBVIOUS
    <3>2. procs' = [procs EXCEPT ![n] = q] /\ (procs[n].mode = "write" => procs[n].pipe = <<>>)
      BY <2>3, <3>1 DEF Exits
    <3>3. n = p => Encoded(q)
      BY <1>0, <3>1, <3>2 DEF Encoded, Forking
    <3> QED BY <1>b, <3>2, <3>3
  <2>4. CASE Crashes(n)
    <3>1. PICK q : q = [procs[n] EXCEPT !.state = "zombie", !.failed = TRUE]
      OBVIOUS
    <3>2. procs' = [procs EXCEPT ![n] = q]
      BY <2>4, <3>1 DEF Crashes
    <3>3. n = p => Encoded(q)
      BY <1>0, <3>1 DEF Encoded, Forking
    <3> QED BY <1>b, <3>2, <3>3
  <2> QED BY <1>5, <2>1, <2>2, <2>3, <2>4 DEF ProcessOf
<1>6. CASE FifoOpened
  BY <1>a, <1>6 DEF FifoOpened
<1>7. CASE UNCHANGED forkVars
  BY <1>a, <1>7 DEF forkVars
<1> QED BY <1>1, <1>2, <1>3, <1>4, <1>5, <1>6, <1>7 DEF ForkNext, ForkReturns

\* A writer that was stopped waits for its encoder, or that has ended.
LEMMA NextWriting ==
  ASSUME ~ForkKills, Typed, Owners, Attached, StartedOpen, Writing, [ForkNext]_forkVars
  PROVE  Writing'
<1>0. /\ Typed' /\ (\A i \in Objs : Stops(i) /\ fs'[i].mode = fs[i].mode)
      /\ fs \in [Objs -> Stream] /\ procs \in Seq(Forking) /\ Len(procs) \in Nat
      /\ \A i \in Objs : fs[i].pid \in Nat /\ fs[i].pid <= Len(procs)
  BY NextTyped, NextStops DEF Typed, Stream
<1>1. \A p \in 1..Len(procs) : Encoded(procs'[p]) /\ Onward(procs[p], procs'[p])
  BY NextEncoded, Onwards
<1>2. CASE NoFork
  <2>1. ASSUME NEW i \in Objs, fs'[i].mode = "write", fs'[i].pid # 0, ~fs'[i].trig
        PROVE  ~Alive(fs[i].pid)' \/ (busy'.what = "wait" /\ busy'.of = i)
    <3>1. PICK p \in 1..Len(procs) : p = fs[i].pid /\ fs'[i].pid = p
      BY <1>0, <1>2, <2>1 DEF NoFork
    <3>2. Alive(p)' => Alive(p)
      BY <1>1, <3>1 DEF Alive, Onward
    <3>3. CASE fs[i].trig
      BY <1>0, <2>1, <3>1, <3>2, <3>3 DEF Stops, StartedOpen
    <3>4. CASE ~fs[i].trig
      <4>1. ~Alive(p) \/ (busy.what = "wait" /\ busy.of = i)
        BY <1>0, <2>1, <3>1, <3>4 DEF Writing
      <4>2. busy.what = "wait" /\ busy.of = i => busy' = busy
        BY <1>0, <2>1 DEF Stops
      <4> QED BY <3>1, <3>2, <4>1, <4>2
    <3> QED BY <3>3, <3>4
  <2>2. \A p \in 1..Len(procs') : Encoded(procs'[p])
    BY <1>1, <1>2 DEF NoFork
  <2> QED BY <2>1, <2>2 DEF Writing, Encoded
<1>3. ASSUME NEW j \in Objs, NEW fast \in BOOLEAN, Forks(j, fast) PROVE Writing'
  <2>1. PICK o \in Stream, q \in Forking : NewProcess(j, fast, o, q)
    BY <1>3 DEF Forks
  <2>2. /\ fs' = [fs EXCEPT ![j] = o] /\ procs' = Append(procs, q)
        /\ o.pid = Len(procs) + 1 /\ ~q.cut
        /\ fast => q.state = "reaped" /\ (q.mode = "write" => q.failed)
        /\ ~fast => o.trig /\ q.state = "run"
    BY <2>1 DEF NewProcess
  <2>3. /\ Len(procs') = Len(procs) + 1 /\ procs'[Len(procs) + 1] = q
        /\ \A p \in 1..Len(procs) : procs'[p] = procs[p]
        /\ fs'[j] = o /\ \A i \in Objs : i # j => fs'[i] = fs[i]
    BY <1>0, <2>2
  <2>4. Encoded(q)
    BY <2>2 DEF Encoded
  <2>5. \A p \in 1..Len(procs') : Encoded(procs'[p])
    BY <1>0, <1>1, <2>3, <2>4
  <2>6. ASSUME NEW i \in Objs, fs'[i].mode = "write", fs'[i].pid # 0, ~fs'[i].trig
        PROVE  ~Alive(fs[i].pid)'
    <3>1. CASE i = j
      BY <2>2, <2>3, <2>6, <3>1 DEF Alive
    <3>2. CASE i # j
      <4>1. PICK p \in 1..Len(procs) : p = fs[i].pid /\ fs'[i] = fs[i]
        BY <1>0, <2>3, <2>6, <3>2
      <4>2. ~Alive(p)
        BY <1>3, <2>6, <4>1 DEF Writing, Forks
      <4> QED BY <2>3, <4>1, <4>2 DEF Alive
    <3> QED BY <3>1, <3>2
  <2> QED BY <2>5, <2>6 DEF Writing, Encoded
<1> QED BY <1>2, <1>3, NextTyped

-----------------------------------------------------------------------------
(* The theorems. *)

\* Nothing runs before the first call.
LEMMA InitFork ==
  ASSUME ForkInit
  PROVE  /\ Typed /\ Owners /\ StartedOpen /\ Attached /\ NoneLeft /\ Writing
         /\ \A i \in Objs : Reads(i)
<1>1. PICK k \in ForkKinds, m \in {"read", "write"} :
        fs = [i \in Objs |-> IF i = 1 THEN StreamOf(k, m) ELSE StreamOf("flac", "write")]
  BY DEF ForkInit
<1>2. procs = <<>> /\ busy = Idle
  BY DEF ForkInit
<1>3. k \in Kinds /\ "flac" \in Kinds
  BY Constants DEF Kinds
<1>4. StreamOf(k, m) \in Stream /\ StreamOf("flac", "write") \in Stream
  <2>1. <<>> \in Seq(Int)
    OBVIOUS
  <2> QED BY <1>3, <2>1 DEF StreamOf, Stream
<1>5. fs \in [Objs -> Stream]
  BY <1>1, <1>4
<1>6. \A i \in Objs : /\ fs[i].pid = 0 /\ fs[i].handle = 0 /\ ~fs[i].trig /\ fs[i].got = <<>>
                      /\ fs[i].lost = {}
  BY <1>1 DEF StreamOf
<1>7. busy \in Blocking /\ busy.what = "none"
  BY <1>2 DEF Idle, Blocks, Blocking, Objs
<1>8. procs \in Seq(Forking) /\ Len(procs) = 0
  BY <1>2
<1>9. Typed
  BY <1>5, <1>6, <1>7, <1>8 DEF Typed
<1>10. Owners /\ StartedOpen /\ Attached /\ NoneLeft /\ Writing
  BY <1>6, <1>7, <1>8 DEF Owners, StartedOpen, Attached, NoneLeft, Writing
<1>11. \A i \in Objs : Reads(i)
  BY <1>6 DEF Reads, Reading, Readable, Delivers
<1> QED BY <1>9, <1>10, <1>11

\* What a reader gets since it was started or moved are the samples of the file, in
\* order, without a gap, from less than one coded frame before its position: with
\* any order of calls, processes that die at any moment, and restarts.
THEOREM EachDelivers ==
  ForkSpec => []DeliversFile
<1>1. ForkInit => ReadInv
  BY InitFork DEF ReadInv
<1>2. ReadInv /\ [ForkNext]_forkVars => ReadInv'
  <2>1. SUFFICES ASSUME Typed, Owners, \A i \in Objs : Reads(i), [ForkNext]_forkVars
                 PROVE  ReadInv'
    BY DEF ReadInv
  <2>2. Typed' /\ Owners' /\ \A i \in Objs : fs'[i].mode = fs[i].mode
    BY <2>1, NextTyped, NextOwners
  <2>3. ASSUME NEW i \in Objs PROVE Reads(i)'
    <3>1. CASE fs[i].mode = "read"
      BY <2>1, <3>1, NextReads
    <3>2. CASE fs[i].mode # "read"
      BY <2>2, <3>2 DEF Reads
    <3> QED BY <3>1, <3>2
  <2> QED BY <2>2, <2>3 DEF ReadInv
<1>3. ReadInv => DeliversFile
  BY DEF ReadInv, Reads, Delivers, DeliversFile
<1> QED BY <1>1, <1>2, <1>3, PTL DEF ForkSpec

\* A closed object has left no process, dead or alive, and no open pipe, but those
\* of processes that had ended by themselves when it was started again.
THEOREM NothingIsLeft ==
  ForkSpec => []NothingLeft
<1> DEFINE LeftInv == Typed /\ Owners /\ Attached /\ NoneLeft
<1>1. ForkInit => LeftInv
  BY InitFork
<1>2. LeftInv /\ [ForkNext]_forkVars => LeftInv'
  BY NextTyped, NextOwners, NextAttached, NextLeft
<1>3. LeftInv => NothingLeft
  <2>1. SUFFICES ASSUME LeftInv, NEW p \in 1..Len(procs)
                 PROVE  IF p \in fs[procs[p].of].lost THEN ~Alive(p)
                        ELSE ~fs[procs[p].of].open
                               => procs[p].state = "reaped" /\ ~procs[p].parent
    BY DEF NothingLeft
  <2>2. procs[p].of \in Objs
    <3>1. procs[p] \in Forking
      BY <2>1 DEF Typed
    <3> QED BY <3>1 DEF Forking
  <2>3. ~fs[procs[p].of].open => fs[procs[p].of].pid = 0
    BY <2>1, <2>2 DEF NoneLeft
  <2> QED BY <2>1, <2>3 DEF NoneLeft
<1> HIDE DEF LeftInv
<1> QED BY <1>1, <1>2, <1>3, PTL DEF ForkSpec

\* Everything that was given to an encoder is encoded when it has been waited for,
\* unless it failed by itself or its object is closed without having been stopped.
THEOREM AllIsEncoded ==
  ASSUME ~ForkKills
  PROVE  ForkSpec => []EncodesAll
<1> DEFINE WriteInv == Typed /\ Owners /\ Attached /\ StartedOpen /\ Writing
<1>1. ForkInit => WriteInv
  BY InitFork
<1>2. WriteInv /\ [ForkNext]_forkVars => WriteInv'
  BY NextTyped, NextOwners, NextAttached, NextOpened, NextWriting
<1>3. WriteInv => EncodesAll
  BY DEF EncodesAll, Writing, Encoded
<1> HIDE DEF WriteInv
<1> QED BY <1>1, <1>2, <1>3, PTL DEF ForkSpec

\* The three together, for the objects that are stopped before they are closed, which
\* the run checks.
THEOREM ForksAlwaysSound ==
  ASSUME ~ForkKills
  PROVE  ForkSpec => []ForksSound
BY EachDelivers, NothingIsLeft, AllIsEncoded, PTL DEF ForksSound

-----------------------------------------------------------------------------
(* The files of other libraries.                                           *)

Formats == {"s16", "f32", "u8", "s8"}
FileData == Seq(Int)
LibraryKinds == {"wav", "flac", "pipe", "raw", "aiff"}
LibraryDisks == [there : BOOLEAN, fmt : Formats, data : FileData]
Libraries ==
  [kind : LibraryKinds, mode : {"read", "write", "readwrite"}, fmt : Formats, disk : LibraryDisks,
   open : BOOLEAN, seeks : BOOLEAN, pos : Nat, at : Nat, len : Nat, known : BOOLEAN,
   fin : BOOLEAN, size : 1..LfBlock, buf : FileData, from : Nat, want : FileData,
   used : BOOLEAN, t : 0..LfSteps]

(* What holds of an object whenever it may be moved: it has its kind's     *)
(* modes, what it holds is what was written, it has the format of the file *)
(* and an output is not finished.                                          *)
InFormat(o) ==
  \/ o.fmt = o.disk.fmt \/ o.kind = "raw"
  \/ o.mode = "write" /\ o.fmt = "u8" /\ o.disk.fmt = "s8"
Whole(o) ==
  /\ o \in Libraries /\ o.mode \in LibraryModes(o.kind)
  /\ o.disk.data = o.want
  /\ o.mode # "read" => ~o.fin
  /\ o.open => InFormat(o)
  /\ o.open /\ o.mode = "read" => o.at <= Len(o.disk.data)

(* Between two calls the library is where the object is, what was read is  *)
(* what is there, and who is finished is at the end.                       *)
Steady(o) ==
  /\ Whole(o)
  /\ o.open => o.pos = o.at
  /\ o.open /\ o.fin => o.at = Len(o.disk.data)
  /\ Len(o.buf) <= LfBlock
  /\ \A k \in 1..Len(o.buf) :
       o.from + k <= Len(o.want) /\ o.buf[k] = o.want[o.from + k]
  /\ ~o.used => o.pos = 0 /\ ~o.open
LfInv == Steady(lf)

(* It is so until a call makes the object and its file go apart.           *)
LfKept == lfLost = "none" => LfInv

\* The fields a move leaves.
Fixed(q, o) ==
  /\ q.kind = o.kind /\ q.mode = o.mode /\ q.fmt = o.fmt /\ q.disk = o.disk
  /\ q.open = o.open /\ q.seeks = o.seeks /\ q.len = o.len /\ q.known = o.known
  /\ q.size = o.size /\ q.buf = o.buf /\ q.from = o.from /\ q.want = o.want
  /\ q.used = o.used /\ q.t = o.t

-----------------------------------------------------------------------------
\* What is put into frames are frames.
LEMMA PutTyped ==
  ASSUME NEW data \in FileData, NEW from \in Nat, NEW block \in FileData
  PROVE  PutAt(data, from, block) \in FileData
<1>1. PICK m : m = IF from + Len(block) > Len(data) THEN from + Len(block) ELSE Len(data)
  OBVIOUS
<1>2. m \in Nat /\ Len(data) \in Nat /\ Len(block) \in Nat
  BY <1>1 DEF FileData
<1>3. \A n \in 1..m : n > from /\ n <= from + Len(block) => block[n - from] \in Int
  BY <1>2 DEF FileData
<1>4. \A n \in 1..m : n <= Len(data) => data[n] \in Int
  BY <1>2 DEF FileData
<1>5. PutAt(data, from, block)
        = [n \in 1..m |-> IF n > from /\ n <= from + Len(block) THEN block[n - from]
                          ELSE IF n <= Len(data) THEN data[n] ELSE 0]
  BY <1>1 DEF PutAt
<1>6. PutAt(data, from, block) \in [1..m -> Int]
  BY <1>3, <1>4, <1>5
<1> QED BY <1>2, <1>6, SeqDef DEF FileData

\* A piece of frames.
LEMMA Cut ==
  ASSUME NEW d \in FileData, NEW from \in Nat, NEW n \in Nat, from + n <= Len(d),
         NEW a, a = from + 1, NEW b, b = from + n, NEW got, got = SubSeq(d, a, b)
  PROVE  got \in FileData /\ Len(got) = n /\ \A k \in 1..n : got[k] = d[from + k]
<1>3. a \in Int /\ b \in Int /\ Len(d) \in Nat /\ b - a + 1 = n /\ (a <= b <=> n # 0)
  BY DEF FileData
<1>4. \A k \in a..b : d[k] \in Int
  BY <1>3 DEF FileData
<1>5. /\ got \in Seq(Int) /\ Len(got) = IF a <= b THEN b - a + 1 ELSE 0
      /\ \A k \in 1..b - a + 1 : got[k] = d[a + k - 1]
  BY <1>3, <1>4, SubSeqProperties
<1>6. \A k \in 1..n : a + k - 1 = from + k
  OBVIOUS
<1>7. Len(got) = n
  BY <1>3, <1>5
<1>8. \A k \in 1..n : got[k] = d[from + k]
  BY <1>3, <1>5, <1>6
<1> QED BY <1>5, <1>7, <1>8 DEF FileData

\* An object that is moved keeps everything but where it is, and is not finished.
LEMMA MoveKeeps ==
  ASSUME LfAssumption, NEW o, Whole(o), o.open, NEW to \in Nat,
         NEW q \in Moved(o, to), o.kind = "aiff" => o.mode = "read"
  PROVE  /\ Whole(q) /\ Fixed(q, o) /\ ~q.fin
         /\ IF o.kind = "aiff" \/ LibSeekable(o) THEN q.pos = q.at \/ LastInstead(q)
            ELSE q.pos = o.pos /\ q.at = o.at
<1>1. o \in Libraries /\ o.at \in Nat /\ o.pos \in Nat /\ Len(o.disk.data) \in Nat
  BY DEF Whole, Libraries, LibraryDisks, FileData
<1>2. PICK f : f = [o EXCEPT !.fin = FALSE]
  OBVIOUS
<1>3. f \in Libraries /\ f.fin = FALSE /\ Fixed(f, o) /\ f.at = o.at /\ f.pos = o.pos
  BY <1>1, <1>2 DEF Libraries, Fixed
<1>4. /\ LibSeekable(f) = LibSeekable(o) /\ \A n : LibSeeks(f, n) = LibSeeks(o, n)
  BY <1>3 DEF LibSeekable, LibSeeks, Fixed
<1>5. \/ ~(o.kind = "aiff" \/ LibSeekable(o)) /\ q = f
      \/ /\ o.kind = "aiff" \/ LibSeekable(o)
         /\ \E a, b \in Nat : /\ o.mode = "read" => a <= Len(o.disk.data)
                              /\ a = b \/ (o.kind = "aiff" /\ o.mode = "read")
                              /\ q = [f EXCEPT !.at = a, !.pos = b]
  <2>1. CASE o.kind = "aiff"
    <3>1. q \in AudiofileSeek(o, to) /\ o.mode = "read"
      BY <2>1 DEF Moved
    <3>2. \/ LibSeeks(o, to) /\ q = [f EXCEPT !.at = to, !.pos = to]
          \/ q = [f EXCEPT !.pos = f.at]
          \/ f.disk.data # <<>> /\ q = [f EXCEPT !.at = Len(f.disk.data) - 1, !.pos = to]
      BY <1>2, <3>1 DEF AudiofileSeek
    <3>3. [f EXCEPT !.pos = f.at] = [f EXCEPT !.at = f.at, !.pos = f.at]
      BY <1>3 DEF Libraries
    <3>4. LibSeeks(o, to) => to <= Len(o.disk.data)
      BY <3>1 DEF LibSeeks
    <3>5. CASE LibSeeks(o, to) /\ q = [f EXCEPT !.at = to, !.pos = to]
      BY <2>1, <3>4, <3>5
    <3>6. CASE q = [f EXCEPT !.pos = f.at]
      BY <1>1, <1>3, <2>1, <3>1, <3>3, <3>6 DEF Whole
    <3>7. CASE f.disk.data # <<>> /\ q = [f EXCEPT !.at = Len(f.disk.data) - 1, !.pos = to]
      <4>1. f.disk.data \in FileData /\ f.disk = o.disk
        BY <1>1, <1>3 DEF Whole, Libraries, LibraryDisks, Fixed
      <4>2. PICK n : n = Len(f.disk.data) - 1
        OBVIOUS
      <4>3. n \in Nat /\ n <= Len(o.disk.data)
        BY <3>7, <4>1, <4>2, EmptySeq DEF FileData
      <4> QED BY <2>1, <3>1, <3>7, <4>2, <4>3
    <3> QED BY <3>2, <3>5, <3>6, <3>7
  <2>2. CASE o.kind # "aiff"
    <3>1. q = SndfileSeek(o, to)
      BY <2>2 DEF Moved
    <3>2. [f EXCEPT !.pos = f.at] = [f EXCEPT !.at = f.at, !.pos = f.at]
      BY <1>3 DEF Libraries
    <3>3. CASE LibSeeks(o, to)
      <4>1. q = [f EXCEPT !.at = to, !.pos = to]
        BY <1>2, <1>4, <3>1, <3>3 DEF SndfileSeek
      <4> QED BY <3>3, <4>1 DEF LibSeeks
    <3>4. CASE ~LibSeeks(o, to) /\ LibSeekable(o)
      <4>1. \/ q = [f EXCEPT !.at = Len(f.disk.data), !.pos = Len(f.disk.data)]
            \/ q = [f EXCEPT !.pos = f.at]
        BY <1>2, <1>4, <3>1, <3>4 DEF SndfileSeek
      <4>2. f.at = o.at /\ f.disk = o.disk /\ o.at \in Nat /\ Len(o.disk.data) \in Nat
        BY <1>1, <1>3 DEF Fixed
      <4>3. o.mode = "read" => o.at <= Len(o.disk.data)
        BY DEF Whole
      <4>4. PICK n : n = Len(f.disk.data)
        OBVIOUS
      <4>5. PICK a : a = f.at
        OBVIOUS
      <4>6. n \in Nat /\ a \in Nat /\ n <= Len(o.disk.data)
            /\ (o.mode = "read" => a <= Len(o.disk.data))
        BY <4>2, <4>3, <4>4, <4>5
      <4>7. q = [f EXCEPT !.at = n, !.pos = n] \/ q = [f EXCEPT !.at = a, !.pos = a]
        BY <3>2, <4>1, <4>4, <4>5
      <4> QED BY <3>4, <4>6, <4>7
    <3>5. CASE ~LibSeeks(o, to) /\ ~LibSeekable(o)
      <4>1. q = f
        BY <1>2, <1>4, <3>1, <3>5 DEF SndfileSeek
      <4> QED BY <2>2, <3>5, <4>1
    <3> QED BY <3>3, <3>4, <3>5
  <2> QED BY <2>1, <2>2
<1>6. CASE ~(o.kind = "aiff" \/ LibSeekable(o)) /\ q = f
  BY <1>1, <1>3, <1>6 DEF Whole, Fixed, InFormat
<1>7. ASSUME o.kind = "aiff" \/ LibSeekable(o), NEW a \in Nat, NEW b \in Nat,
             o.mode = "read" => a <= Len(o.disk.data),
             a = b \/ (o.kind = "aiff" /\ o.mode = "read"), q = [f EXCEPT !.at = a, !.pos = b]
      PROVE  Whole(q) /\ Fixed(q, o) /\ ~q.fin /\ (q.pos = q.at \/ LastInstead(q))
  <2>1. /\ q \in Libraries /\ q.fin = FALSE /\ q.at = a /\ q.pos = b /\ Fixed(q, f)
    BY <1>3, <1>7 DEF Libraries, Fixed
  <2>2. Fixed(q, o)
    BY <1>3, <2>1 DEF Fixed
  <2>3. q.pos = q.at \/ LastInstead(q)
    BY <1>7, <2>1, <2>2 DEF Fixed, LastInstead
  <2> QED BY <1>7, <2>1, <2>2, <2>3 DEF Whole, Fixed, InFormat
<1> QED BY <1>5, <1>6, <1>7

\* Opening makes an object that may be moved, and where the library cannot be
\* moved the object is at its start.
Opens(o) ==
  /\ Whole(o) /\ o.open /\ o.at = 0 /\ o.buf = <<>>
  /\ o.kind = "aiff" /\ o.mode # "read" => ~o.seeks
  /\ ~LibSeekable(o) /\ o.seeks => o.pos = 0

\* A file that is created is empty, and nothing has been written to it.
LEMMA CreatedWhole ==
  ASSUME LfAssumption, NEW o \in Libraries, NEW fmt \in Formats, NEW p, p = LibCreated(o, fmt)
  PROVE  /\ p \in Libraries /\ p.disk.data = <<>> /\ p.want = <<>> /\ p.disk.fmt = fmt
         /\ p.disk.there
         /\ p.kind = o.kind /\ p.mode = o.mode /\ p.fmt = o.fmt /\ p.seeks = o.seeks
         /\ p.pos = o.pos /\ p.fin = o.fin /\ p.t = o.t /\ p.used = o.used
<1>1. PICK d : d = [there |-> TRUE, fmt |-> fmt, data |-> <<>>]
  OBVIOUS
<1>2. <<>> \in FileData
  BY DEF FileData
<1>3. d \in LibraryDisks /\ d.data = <<>> /\ d.fmt = fmt /\ d.there
  BY <1>1, <1>2 DEF LibraryDisks
<1>4. p = [o EXCEPT !.disk = d, !.want = <<>>]
  BY <1>1 DEF LibCreated
<1> QED BY <1>2, <1>3, <1>4, ZenonT(60) DEF Libraries

\* What an open that finds a file learns about it.
LEMMA InfoWhole ==
  ASSUME LfAssumption, NEW o \in Libraries, NEW p, p = OpenParseInfo(o),
         o.kind # "raw" => o.disk.fmt \in Formats
  PROVE  /\ p \in Libraries /\ p.disk = o.disk /\ p.want = o.want
         /\ p.seeks = LibSeekable(o) /\ p.fmt = LibFormat(o)
         /\ p.kind = o.kind /\ p.mode = o.mode /\ p.pos = o.pos /\ p.fin = o.fin
         /\ p.t = o.t /\ p.used = o.used
<1>1. PICK n : n = LibFrames(o)
  OBVIOUS
<1>2. n \in Nat
  BY <1>1 DEF LibFrames, Libraries, LibraryDisks, FileData
<1>3. PICK b : b = LibSeekable(o)
  OBVIOUS
<1>4. b \in BOOLEAN
  BY <1>3 DEF LibSeekable
<1>5. PICK g : g = LibFormat(o)
  OBVIOUS
<1>6. g \in Formats
  BY <1>5 DEF LibFormat, Libraries, LibraryDisks
<1>7. PICK l : l = IF n > 0 THEN n ELSE o.len
  OBVIOUS
<1>8. PICK k : k = (o.known \/ n > 0)
  OBVIOUS
<1>9. l \in Nat /\ k \in BOOLEAN
  BY <1>2, <1>7, <1>8 DEF Libraries
<1>10. p = [o EXCEPT !.seeks = b, !.fmt = g, !.len = l, !.known = k]
  BY <1>1, <1>3, <1>5, <1>7, <1>8 DEF OpenParseInfo
<1>11. PICK c : c = [o EXCEPT !.seeks = b, !.fmt = g]
  OBVIOUS
<1>12. c \in Libraries
  BY <1>4, <1>6, <1>11 DEF Libraries
<1>13. /\ c.disk = o.disk /\ c.want = o.want /\ c.seeks = b /\ c.fmt = g
       /\ c.kind = o.kind /\ c.mode = o.mode /\ c.pos = o.pos /\ c.fin = o.fin
       /\ c.t = o.t /\ c.used = o.used
  BY <1>11 DEF Libraries
<1>14. p = [c EXCEPT !.len = l, !.known = k]
  BY <1>10, <1>11 DEF Libraries
<1>15. p \in Libraries
  <2>1. PICK e : e = [c EXCEPT !.len = l]
    OBVIOUS
  <2>2. e \in Libraries
    BY <1>9, <1>12, <2>1 DEF Libraries
  <2>3. p = [e EXCEPT !.known = k]
    BY <1>14, <2>1 DEF Libraries
  <2> QED BY <1>9, <2>2, <2>3 DEF Libraries
<1>16. /\ p.disk = c.disk /\ p.want = c.want /\ p.seeks = c.seeks /\ p.fmt = c.fmt
       /\ p.kind = c.kind /\ p.mode = c.mode /\ p.pos = c.pos /\ p.fin = c.fin
       /\ p.t = c.t /\ p.used = c.used
  BY <1>12, <1>14 DEF Libraries
<1> QED BY <1>3, <1>5, <1>13, <1>15, <1>16

\* What open() makes of a closed object.
LEMMA MadeWhole ==
  ASSUME LfAssumption, NEW o \in Libraries, o.mode \in LibraryModes(o.kind),
         o.disk.data = o.want, o.mode # "read" => ~o.fin, o.fmt \in Formats,
         o.kind = "flac" /\ o.mode # "read" => o.pos = 0,
         o.kind = "flac" /\ o.mode = "readwrite" => o.disk.data = <<>>,
         NEW p, p = IF o.kind = "aiff" THEN AudiofileOpen(o) ELSE SndfileOpen(o)
  PROVE  /\ p \in Libraries /\ p.mode \in LibraryModes(p.kind) /\ p.disk.data = p.want
         /\ p.mode # "read" => ~p.fin
         /\ InFormat(p)
         /\ p.kind = "aiff" /\ p.mode # "read" => ~p.seeks
         /\ ~LibSeekable(p) /\ p.seeks => p.pos = 0
         /\ p.t = o.t /\ p.used = o.used
<1>1. /\ o.disk \in LibraryDisks /\ o.disk.fmt \in Formats /\ o.kind \in LibraryKinds
      /\ o.kind \in {"wav", "flac", "pipe", "raw", "aiff"}
      /\ o.mode \in {"read", "write", "readwrite"} /\ FileFormat(o) \in Formats
      /\ FileFormat(o) = o.fmt \/ (o.fmt = "u8" /\ FileFormat(o) = "s8")
  BY DEF Libraries, LibraryDisks, LibraryKinds, Formats, FileFormat, LfAssumption
<1>2. /\ o.kind = "aiff" => o.mode # "readwrite"
      /\ o.kind = "pipe" => o.mode = "read"
  BY <1>1 DEF LibraryModes
<1>3. CASE o.kind = "aiff" /\ o.mode = "read"
  <2>1. PICK g : g = LibFormat(o)
    OBVIOUS
  <2>2. PICK n : n = LibFrames(o)
    OBVIOUS
  <2>3. g = o.disk.fmt /\ n \in Nat
    BY <1>3, <2>1, <2>2 DEF LibFormat, LibFrames, Libraries, LibraryDisks, FileData
  <2>4. p = [o EXCEPT !.fmt = g, !.len = n, !.known = TRUE, !.seeks = TRUE]
    BY <1>3, <2>1, <2>2 DEF AudiofileOpen
  <2>5. PICK c : c = [o EXCEPT !.fmt = g, !.len = n]
    OBVIOUS
  <2>6. g \in Formats
    BY <1>1, <2>3
  <2>7. /\ c.kind = o.kind /\ c.mode = o.mode /\ c.disk = o.disk
        /\ c.want = o.want /\ c.fmt = g /\ c.t = o.t /\ c.used = o.used
    BY <2>5 DEF Libraries
  <2>8. c \in Libraries
    BY <2>3, <2>5, <2>6 DEF Libraries
  <2>9. p = [c EXCEPT !.known = TRUE, !.seeks = TRUE]
    BY <2>4, <2>5 DEF Libraries
  <2>10. p \in Libraries
    BY <2>8, <2>9 DEF Libraries
  <2>11. /\ p.kind = o.kind /\ p.mode = o.mode /\ p.disk = o.disk
         /\ p.want = o.want /\ p.fmt = g /\ p.t = o.t /\ p.used = o.used
    BY <2>7, <2>8, <2>9 DEF Libraries
  <2>12. LibSeekable(p)
    BY <1>3, <2>11 DEF LibSeekable
  <2> QED BY <1>3, <2>3, <2>10, <2>11, <2>12 DEF InFormat
<1>4. CASE o.kind = "aiff" /\ o.mode = "write"
  <2>1. PICK c : c = LibCreated(o, o.fmt)
    OBVIOUS
  <2>2. /\ c \in Libraries /\ c.disk.data = <<>> /\ c.want = <<>> /\ c.disk.fmt = o.fmt
        /\ c.kind = o.kind /\ c.mode = o.mode /\ c.fmt = o.fmt /\ c.fin = o.fin /\ c.t = o.t
        /\ c.used = o.used
    BY <2>1, CreatedWhole
  <2>3. p = [c EXCEPT !.pos = 0, !.seeks = FALSE]
    BY <1>4, <2>1 DEF AudiofileOpen
  <2>4. /\ p.kind = c.kind /\ p.mode = c.mode /\ p.disk = c.disk
        /\ p.want = c.want /\ p.fmt = c.fmt /\ p.fin = c.fin /\ p.t = c.t /\ p.used = c.used
        /\ p.pos = 0 /\ p.seeks = FALSE
    BY <2>2, <2>3 DEF Libraries
  <2>5. 0 \in Nat /\ FALSE \in BOOLEAN
    OBVIOUS
  <2>6. p \in Libraries
    BY <2>2, <2>3, <2>5, ZenonT(60) DEF Libraries
  <2> QED BY <1>4, <2>2, <2>4, <2>6 DEF InFormat
<1>5. CASE o.kind # "aiff" /\ o.mode = "read"
  <2>1. p = OpenParseInfo(o)
    BY <1>5 DEF SndfileOpen
  <2>2. /\ p \in Libraries /\ p.disk = o.disk /\ p.want = o.want
        /\ p.seeks = LibSeekable(o) /\ p.fmt = LibFormat(o)
        /\ p.kind = o.kind /\ p.mode = o.mode /\ p.pos = o.pos /\ p.fin = o.fin
        /\ p.t = o.t /\ p.used = o.used
    BY <1>1, <2>1, InfoWhole
  <2>3. LibSeekable(p) = LibSeekable(o)
    BY <2>2 DEF LibSeekable
  <2> QED BY <1>5, <2>2, <2>3 DEF LibFormat, InFormat
<1>6. CASE o.kind # "aiff" /\ o.mode = "write"
  <2>0. PICK g : g = FileFormat(o)
    OBVIOUS
  <2>1. p = LibCreated(o, g) /\ g \in Formats
    BY <1>1, <1>6, <2>0 DEF SndfileOpen
  <2>2. /\ p \in Libraries /\ p.disk.data = <<>> /\ p.want = <<>> /\ p.disk.fmt = g
        /\ p.kind = o.kind /\ p.mode = o.mode /\ p.fmt = o.fmt /\ p.fin = o.fin /\ p.t = o.t
        /\ p.used = o.used /\ p.pos = o.pos
    BY <2>1, CreatedWhole
  <2>3. o.kind # "pipe"
    BY <1>2, <1>6
  <2>4. ~LibSeekable(p) => o.kind = "flac"
    BY <2>2, <2>3 DEF LibSeekable
  <2>5. InFormat(p)
    BY <1>1, <1>6, <2>0, <2>2 DEF InFormat
  <2> QED BY <1>6, <2>2, <2>4, <2>5
<1>7. CASE o.mode = "readwrite" /\ LibUpdates(o)
  <2>0. PICK g : g = FileFormat(o)
    OBVIOUS
  <2>1. PICK c : c = IF o.disk.there THEN o ELSE LibCreated(o, g)
    OBVIOUS
  <2>2. /\ c \in Libraries /\ c.disk.data = c.want /\ c.disk.fmt \in Formats
        /\ c.kind = o.kind /\ c.mode = o.mode /\ c.fin = o.fin /\ c.t = o.t
        /\ c.used = o.used
    BY <1>1, <2>0, <2>1, CreatedWhole
  <2>3. p = OpenParseInfo(c)
    BY <1>1, <1>2, <1>7, <2>0, <2>1 DEF SndfileOpen
  <2>4. /\ p \in Libraries /\ p.disk = c.disk /\ p.want = c.want
        /\ p.seeks = LibSeekable(c) /\ p.fmt = LibFormat(c)
        /\ p.kind = c.kind /\ p.mode = c.mode /\ p.fin = c.fin
        /\ p.t = c.t /\ p.used = c.used
    BY <2>2, <2>3, InfoWhole
  <2>5. LibSeekable(p) = LibSeekable(c)
    BY <2>4 DEF LibSeekable
  <2> QED BY <1>2, <1>7, <2>2, <2>4, <2>5 DEF LibFormat, InFormat
<1>8. CASE o.mode = "readwrite" /\ ~LibUpdates(o)
  <2>0. o.kind = "flac"
    BY <1>1, <1>2, <1>8 DEF LibUpdates
  <2>10. PICK g : g = FileFormat(o)
    OBVIOUS
  <2>1. PICK c : c = LibCreated(o, g)
    OBVIOUS
  <2>2. /\ c \in Libraries /\ c.disk.data = <<>> /\ c.disk.fmt = g /\ g \in Formats
        /\ c.kind = o.kind /\ c.fin = o.fin /\ c.t = o.t /\ c.used = o.used
    BY <1>1, <2>1, <2>10, CreatedWhole
  <2>3. PICK d : d = [c EXCEPT !.mode = "write", !.want = o.want]
    OBVIOUS
  <2>4. /\ d \in Libraries /\ d.disk = c.disk /\ d.want = o.want /\ d.kind = o.kind
        /\ d.mode = "write" /\ d.fin = o.fin /\ d.t = o.t /\ d.used = o.used
    BY <2>2, <2>3 DEF Libraries
  <2>5. p = OpenParseInfo(d)
    BY <1>1, <1>8, <2>0, <2>1, <2>3, <2>10 DEF SndfileOpen
  <2>6. d.disk.fmt \in Formats
    BY <2>2, <2>4
  <2>7. /\ p \in Libraries /\ p.disk = d.disk /\ p.want = d.want
        /\ p.seeks = LibSeekable(d) /\ p.fmt = LibFormat(d)
        /\ p.kind = d.kind /\ p.mode = d.mode /\ p.fin = d.fin
        /\ p.t = d.t /\ p.used = d.used
    BY <2>4, <2>5, <2>6, InfoWhole
  <2>8. LibSeekable(p) = LibSeekable(d)
    BY <2>7 DEF LibSeekable
  <2>9. p.mode \in LibraryModes(p.kind)
    BY <2>0, <2>4, <2>7 DEF LibraryModes
  <2> QED BY <1>8, <2>0, <2>2, <2>4, <2>7, <2>8, <2>9 DEF LibFormat, InFormat
<1> QED BY <1>1, <1>2, <1>3, <1>4, <1>5, <1>6, <1>7, <1>8

\* Where an object is put when it is opened.
LEMMA PlacedSteady ==
  ASSUME LfAssumption, NEW o, Opens(o), NEW q \in Placed(o)
  PROVE  Whole(q) /\ Fixed(q, o) /\ ~q.fin /\ (q.pos = q.at \/ LastInstead(q))
<1>1. /\ o \in Libraries /\ o.pos \in Nat /\ o.open /\ o.at = 0 /\ Whole(o)
      /\ o.kind = "aiff" => o.mode \in {"read", "write"}
  BY DEF Opens, Whole, Libraries, LibraryModes
<1>2. CASE o.seeks
  <2>1. PICK f \in Moved(o, o.pos) : q \in Moved([f EXCEPT !.pos = o.pos], o.pos)
    BY <1>2 DEF Placed
  <2>2. o.kind = "aiff" => o.mode = "read"
    BY <1>1, <1>2 DEF Opens
  <2>3. Whole(f) /\ Fixed(f, o) /\ (~(o.kind = "aiff" \/ LibSeekable(o)) => f.at = o.at)
    BY <1>1, <2>1, <2>2, MoveKeeps
  <2>4. PICK p : p = o.pos
    OBVIOUS
  <2>5. PICK g : g = [f EXCEPT !.pos = p]
    OBVIOUS
  <2>6. f \in Libraries /\ p \in Nat
    BY <1>1, <2>3, <2>4 DEF Whole
  <2>7. g \in Libraries /\ g.pos = p /\ g.at = f.at /\ g.fin = f.fin /\ Fixed(g, f)
    BY <2>5, <2>6 DEF Libraries, Fixed
  <2>8. Whole(g) /\ Fixed(g, o)
    BY <2>3, <2>7 DEF Whole, Fixed, InFormat
  <2>9. q \in Moved(g, p) /\ g.open
    BY <1>1, <2>1, <2>4, <2>5, <2>8 DEF Fixed
  <2>10. g.kind = "aiff" => g.mode = "read"
    BY <2>2, <2>8 DEF Fixed
  <2>11. /\ Whole(q) /\ Fixed(q, g) /\ ~q.fin
         /\ IF g.kind = "aiff" \/ LibSeekable(g) THEN q.pos = q.at \/ LastInstead(q)
            ELSE q.pos = g.pos /\ q.at = g.at
    BY <2>6, <2>8, <2>9, <2>10, MoveKeeps
  <2>12. LibSeekable(g) = LibSeekable(o) /\ g.kind = o.kind
    BY <2>8 DEF LibSeekable, Fixed
  <2>13. ~LibSeekable(o) => p = 0
    BY <1>2, <2>4 DEF Opens
  <2>14. Fixed(q, o)
    BY <2>8, <2>11 DEF Fixed
  <2> QED BY <1>1, <2>3, <2>7, <2>11, <2>12, <2>13, <2>14
<1>3. CASE ~o.seeks
  <2>1. PICK g : g = [o EXCEPT !.pos = 0]
    OBVIOUS
  <2>2. g \in Libraries /\ g.pos = 0 /\ g.at = o.at /\ g.fin = o.fin /\ Fixed(g, o)
    BY <1>1, <2>1 DEF Libraries, Fixed
  <2>3. Whole(g) /\ g.open
    BY <1>1, <2>2 DEF Whole, Fixed, InFormat
  <2>4. q \in Moved(g, 0)
    BY <1>3, <2>1 DEF Placed
  <2>5. CASE g.kind = "aiff" => g.mode = "read"
    <3>1. /\ Whole(q) /\ Fixed(q, g) /\ ~q.fin
          /\ IF g.kind = "aiff" \/ LibSeekable(g) THEN q.pos = q.at \/ LastInstead(q)
             ELSE q.pos = g.pos /\ q.at = g.at
      BY <2>3, <2>4, <2>5, MoveKeeps
    <3>2. Fixed(q, o)
      BY <2>2, <3>1 DEF Fixed
    <3> QED BY <1>1, <2>2, <3>1, <3>2
  <2>6. CASE g.kind = "aiff" /\ g.mode # "read"
    <3>1. q = g
      BY <2>2, <2>4, <2>6 DEF Moved, AudiofileSeek
    <3> QED BY <1>1, <2>2, <2>3, <2>6, <3>1 DEF Whole
  <2> QED BY <2>5, <2>6
<1> QED BY <1>2, <1>3

\* An opened object may be placed.
LEMMA OpenedSteady ==
  ASSUME LfAssumption, NEW o \in Libraries, o.mode \in LibraryModes(o.kind),
         o.disk.data = o.want, o.mode # "read" => ~o.fin, o.used,
         o.kind = "flac" /\ o.mode # "read" => o.pos = 0,
         o.kind = "flac" /\ o.mode = "readwrite" => o.disk.data = <<>>,
         NEW q \in LibraryOpened(o)
  PROVE  (Steady(q) \/ LastInstead(q)) /\ q.t = o.t
<1>1. PICK p : p = IF o.kind = "aiff" THEN AudiofileOpen(o) ELSE SndfileOpen(o)
  OBVIOUS
<1>2. /\ p \in Libraries /\ p.mode \in LibraryModes(p.kind) /\ p.disk.data = p.want
      /\ p.mode # "read" => ~p.fin
      /\ InFormat(p)
      /\ p.kind = "aiff" /\ p.mode # "read" => ~p.seeks
      /\ ~LibSeekable(p) /\ p.seeks => p.pos = 0
      /\ p.t = o.t /\ p.used = o.used
  <2>1. o.fmt \in Formats
    BY DEF Libraries
  <2>2. /\ o \in Libraries /\ o.mode \in LibraryModes(o.kind)
        /\ o.disk.data = o.want /\ (o.mode # "read" => ~o.fin)
        /\ (o.kind = "flac" /\ o.mode # "read" => o.pos = 0)
        /\ (o.kind = "flac" /\ o.mode = "readwrite" => o.disk.data = <<>>)
    OBVIOUS
  <2> QED BY ONLY LfAssumption, <1>1, <2>1, <2>2, MadeWhole
<1>3. PICK r : r = [p EXCEPT !.open = TRUE, !.at = 0, !.size = LfBlock, !.buf = <<>>, !.from = 0]
  OBVIOUS
<1>4. q \in Placed(r)
  BY <1>1, <1>3 DEF LibraryOpened
<1>5. LfBlock \in 1..LfBlock /\ <<>> \in FileData /\ LfBlock \in Nat
  BY DEF LfAssumption, FileData
<1>6. PICK u : u = [p EXCEPT !.open = TRUE, !.at = 0]
  OBVIOUS
<1>7. u \in Libraries
  BY <1>2, <1>6 DEF Libraries
<1>8. r = [u EXCEPT !.size = LfBlock, !.buf = <<>>, !.from = 0]
  BY <1>2, <1>3, <1>6 DEF Libraries
<1>9. r \in Libraries
  BY <1>5, <1>7, <1>8 DEF Libraries
<1>10. /\ r.kind = p.kind /\ r.mode = p.mode /\ r.disk = p.disk /\ r.want = p.want
       /\ r.fmt = p.fmt /\ r.fin = p.fin /\ r.t = p.t /\ r.used = p.used /\ r.pos = p.pos
       /\ r.seeks = p.seeks /\ r.open /\ r.at = 0 /\ r.buf = <<>>
  BY <1>2, <1>3 DEF Libraries
<1>11. LibSeekable(r) = LibSeekable(p)
  BY <1>10 DEF LibSeekable
<1>12. Len(r.disk.data) \in Nat
  BY <1>9 DEF Libraries, LibraryDisks, FileData
<1>13. Whole(r)
  BY <1>2, <1>9, <1>10, <1>12 DEF Whole, InFormat
<1>14. Opens(r)
  BY <1>2, <1>10, <1>11, <1>13 DEF Opens
<1>15. Whole(q) /\ Fixed(q, r) /\ ~q.fin /\ (q.pos = q.at \/ LastInstead(q))
  BY <1>4, <1>14, PlacedSteady
<1>16. q.buf = <<>> /\ q.used /\ q.t = o.t
  BY <1>2, <1>10, <1>15 DEF Fixed
<1>17. Len(q.buf) = 0
  BY <1>16
<1> QED BY <1>5, <1>15, <1>16, <1>17 DEF Steady

-----------------------------------------------------------------------------
(* The calls.                                                              *)

\* A call is counted.
LEMMA CallKeeps ==
  ASSUME NEW o, NEW why, Steady(o), o.t = lf.t, LfCalls(o, why), LfAssumption
  PROVE  LfInv'
<1>1. o \in Libraries /\ o.t \in 0..LfSteps /\ o.t < LfSteps /\ LfSteps \in Nat
  BY DEF Steady, Whole, Libraries, LfCalls, LfAssumption
<1>2. PICK n : n = o.t + 1
  OBVIOUS
<1>3. n \in 0..LfSteps
  BY <1>1, <1>2
<1>4. PICK q : q = [o EXCEPT !.t = n]
  OBVIOUS
<1>5. lf' = q
  BY <1>2, <1>4 DEF LfCalls
<1>6. q \in Libraries
  BY <1>1, <1>3, <1>4 DEF Libraries
<1>7. /\ q.kind = o.kind /\ q.mode = o.mode /\ q.fmt = o.fmt /\ q.disk = o.disk
      /\ q.open = o.open /\ q.pos = o.pos /\ q.at = o.at
      /\ q.fin = o.fin /\ q.buf = o.buf /\ q.from = o.from /\ q.want = o.want
      /\ q.used = o.used
  BY <1>1, <1>4 DEF Libraries
<1>8. Steady(q)
  BY <1>6, <1>7 DEF Steady, Whole, InFormat
<1> QED BY <1>5, <1>8 DEF LfInv

\* An open finds a file or makes one, and starts where the object is.
LEMMA OpenKeeps ==
  ASSUME LfAssumption, LfInv, lfLost = "none", LfOpen, lfLost' = "none"
  PROVE  LfInv'
<1>1. PICK b : b = [lf EXCEPT !.used = TRUE]
  OBVIOUS
<1>2. PICK o \in LibraryOpened(b) :
        LfCalls(o, CASE lf.kind = "flac" /\ lf.mode # "read" /\ lf.used -> "again"
                     [] lf.kind = "flac" /\ lf.mode = "readwrite" /\ lf.disk.data # <<>> -> "update"
                     [] LastInstead(o) -> "clamp"
                     [] OTHER -> "none")
  BY <1>1 DEF LfOpen
<1>3. lf \in Libraries /\ Steady(lf)
  BY DEF LfInv, Steady, Whole
<1>4. /\ b \in Libraries /\ b.used /\ b.kind = lf.kind /\ b.mode = lf.mode /\ b.disk = lf.disk
      /\ b.want = lf.want /\ b.fin = lf.fin /\ b.pos = lf.pos /\ b.t = lf.t
  BY <1>1, <1>3 DEF Libraries
<1>5. /\ ~(lf.kind = "flac" /\ lf.mode # "read" /\ lf.used)
      /\ ~(lf.kind = "flac" /\ lf.mode = "readwrite" /\ lf.disk.data # <<>>)
      /\ ~LastInstead(o)
  BY <1>2 DEF LfCalls
<1>6. /\ lf.kind = "flac" /\ lf.mode # "read" => lf.pos = 0
      /\ lf.kind = "flac" /\ lf.mode = "readwrite" => lf.disk.data = <<>>
  BY <1>3, <1>5 DEF Steady
<1>7. Steady(o) /\ o.t = b.t
  BY <1>2, <1>3, <1>4, <1>5, <1>6, OpenedSteady DEF Steady, Whole
<1> QED BY <1>2, <1>4, <1>7, CallKeeps

\* A seek moves the library and the object to one place, or neither.
LEMMA SeekKeeps ==
  ASSUME LfAssumption, LfInv, lfLost = "none", LfSeek, lfLost' = "none"
  PROVE  LfInv'
<1>0. PICK to \in LfSeeks : \E o \in Moved(lf, to) :
        LfCalls([o EXCEPT !.buf = <<>>],
                CASE lf.kind = "aiff" /\ lf.mode = "write" /\ to # lf.pos -> "rewind"
                  [] LastInstead(o) -> "clamp"
                  [] OTHER -> "none")
  BY DEF LfSeek
<1>1. PICK o \in Moved(lf, to) :
        LfCalls([o EXCEPT !.buf = <<>>],
                CASE lf.kind = "aiff" /\ lf.mode = "write" /\ to # lf.pos -> "rewind"
                  [] LastInstead(o) -> "clamp"
                  [] OTHER -> "none")
  BY <1>0
<1>2. ~(lf.kind = "aiff" /\ lf.mode = "write" /\ to # lf.pos) /\ ~LastInstead(o)
  BY <1>1 DEF LfCalls
<1>3. PICK q : q = [o EXCEPT !.buf = <<>>]
  OBVIOUS
<1>4. to \in Nat /\ LfBlock \in Nat
  BY DEF LfAssumption
<1>5. /\ lf.open /\ Whole(lf) /\ lf.pos = lf.at /\ lf.used
      /\ lf.kind = "aiff" => lf.mode \in {"read", "write"}
  <2>1. lf.kind = "aiff" => lf.mode # "readwrite"
    BY DEF LfInv, Steady, Whole, LibraryModes
  <2>2. lf.mode \in {"read", "write", "readwrite"}
    BY DEF LfInv, Steady, Whole, Libraries
  <2> QED BY <2>1, <2>2 DEF LfSeek, LfInv, Steady
<1>6. Whole(o) /\ Fixed(o, lf) /\ ~o.fin /\ o.pos = o.at
  <2>1. CASE lf.kind = "aiff" => lf.mode = "read"
    BY <1>1, <1>2, <1>4, <1>5, <2>1, MoveKeeps
  <2>2. CASE lf.kind = "aiff" /\ lf.mode = "write"
    <3>1. o = lf
      BY <1>1, <1>2, <2>2 DEF Moved, AudiofileSeek
    <3> QED BY <1>5, <2>2, <3>1 DEF Whole, Fixed
  <2> QED BY <1>5, <2>1, <2>2
<1>7. <<>> \in FileData /\ Len(<<>>) = 0
  BY DEF FileData
<1>8. o \in Libraries /\ o.pos = o.at /\ o.used /\ o.t = lf.t
  BY <1>5, <1>6 DEF Whole, Fixed
<1>9. q \in Libraries
  BY <1>3, <1>7, <1>8 DEF Libraries
<1>10. /\ q.kind = o.kind /\ q.mode = o.mode /\ q.fmt = o.fmt /\ q.disk = o.disk
       /\ q.open = o.open /\ q.pos = o.pos /\ q.at = o.at
       /\ q.fin = o.fin /\ q.buf = <<>> /\ q.want = o.want
       /\ q.used = o.used /\ q.t = o.t
  BY <1>3, <1>8 DEF Libraries
<1>11. Whole(q)
  BY <1>6, <1>9, <1>10 DEF Whole, InFormat
<1>12. Steady(q)
  BY <1>4, <1>6, <1>7, <1>8, <1>10, <1>11 DEF Steady
<1> QED BY <1>1, <1>3, <1>8, <1>10, <1>12, CallKeeps

\* An object of another mode for the same file.
LEMMA ReplaceKeeps ==
  ASSUME LfAssumption, LfInv, LfReplace
  PROVE  LfInv'
<1>1. PICK mode \in LibraryModes(lf.kind) :
        LfCalls([NewLibraryFile(lf.kind, mode, lf.fmt, lf.disk) EXCEPT !.t = lf.t], "none")
  BY DEF LfReplace
<1>2. PICK q : q = [NewLibraryFile(lf.kind, mode, lf.fmt, lf.disk) EXCEPT !.t = lf.t]
  OBVIOUS
<1>3. /\ lf \in Libraries /\ lf.kind \in LibraryKinds /\ lf.fmt \in Formats
      /\ lf.disk \in LibraryDisks /\ lf.t \in 0..LfSteps /\ lf.disk.data \in FileData
  BY DEF LfInv, Steady, Whole, Libraries, LibraryDisks
<1>4. LfBlock \in 1..LfBlock /\ <<>> \in FileData /\ Len(<<>>) = 0 /\ LfBlock \in Nat
  BY DEF LfAssumption, FileData
<1>5. mode \in {"read", "write", "readwrite"}
  BY DEF LibraryModes
<1>6. q = [kind |-> lf.kind, mode |-> mode, fmt |-> lf.fmt, disk |-> lf.disk, open |-> FALSE,
           seeks |-> TRUE, pos |-> 0, at |-> 0, len |-> 0, known |-> FALSE, fin |-> FALSE,
           size |-> LfBlock, buf |-> <<>>, from |-> 0, want |-> lf.disk.data,
           used |-> FALSE, t |-> lf.t]
  BY <1>2 DEF NewLibraryFile
<1>7. /\ q \in Libraries /\ q.kind = lf.kind /\ q.mode = mode /\ q.disk = lf.disk
      /\ q.open = FALSE /\ q.pos = 0 /\ q.fin = FALSE /\ q.buf = <<>> /\ q.want = lf.disk.data
      /\ q.used = FALSE /\ q.t = lf.t
  BY <1>3, <1>4, <1>5, <1>6 DEF Libraries
<1>8. Steady(q)
  BY <1>4, <1>7 DEF Steady, Whole
<1> QED BY <1>1, <1>2, <1>7, <1>8, CallKeeps

\* What is read is what follows; less than a block only at the end.
LEMMA ReadLibraryKeeps ==
  ASSUME LfAssumption, LfInv, LfRead
  PROVE  LfInv'
<1>1. /\ lf \in Libraries /\ lf.open /\ lf.mode = "read" /\ lf.pos = lf.at
      /\ lf.at \in Nat /\ lf.disk.data \in FileData /\ Len(lf.disk.data) \in Nat
      /\ lf.size \in 1..LfBlock /\ LfBlock \in Nat /\ lf.at <= Len(lf.disk.data)
      /\ lf.want = lf.disk.data
  BY DEF LfRead, LfInv, Steady, Whole, Libraries, LibraryDisks, FileData, LfAssumption
<1>2. PICK rest : rest = Len(lf.disk.data) - lf.at
  OBVIOUS
<1>3. PICK n : n = IF rest < lf.size THEN rest ELSE lf.size
  OBVIOUS
<1>4. /\ n \in Nat /\ n <= LfBlock /\ lf.at + n <= Len(lf.disk.data)
      /\ n < lf.size => lf.at + n = Len(lf.disk.data)
  <2>1. PICK a \in Nat, d \in Nat, s \in Nat, b \in Nat :
          a = lf.at /\ d = Len(lf.disk.data) /\ s = lf.size /\ b = LfBlock
    BY <1>1
  <2>2. /\ a \in Nat /\ d \in Nat /\ s \in Nat /\ b \in Nat
        /\ a <= d /\ s <= b /\ rest = d - a /\ n = IF rest < s THEN rest ELSE s
    BY <1>1, <1>2, <1>3, <2>1
  <2>3. n \in Nat /\ n <= b /\ a + n <= d /\ (n < s => a + n = d)
    BY ONLY <2>2
  <2> QED BY <2>1, <2>3
<1>5. PICK got : got = SubSeq(lf.disk.data, lf.at + 1, lf.at + n)
  OBVIOUS
<1>6. /\ got \in FileData /\ Len(got) = n
      /\ \A k \in 1..n : got[k] = lf.disk.data[lf.at + k]
  <2>1. PICK d : d = lf.disk.data
    OBVIOUS
  <2>2. PICK a : a = lf.at
    OBVIOUS
  <2>5. PICK u : u = a + 1
    OBVIOUS
  <2>6. PICK v : v = a + n
    OBVIOUS
  <2>3. d \in FileData /\ a \in Nat /\ n \in Nat /\ a + n <= Len(d)
        /\ u = a + 1 /\ v = a + n /\ got = SubSeq(d, u, v)
    BY <1>1, <1>4, <1>5, <2>1, <2>2, <2>5, <2>6
  <2>4. got \in FileData /\ Len(got) = n /\ \A k \in 1..n : got[k] = d[a + k]
    <3>1. got \in FileData
      BY ONLY <2>3, Cut
    <3>2. Len(got) = n
      BY ONLY <2>3, Cut
    <3>3. \A k \in 1..n : got[k] = d[a + k]
      BY ONLY <2>3, Cut
    <3> QED BY <3>1, <3>2, <3>3
  <2> QED BY <2>1, <2>2, <2>4
<1>7. PICK p : p = lf.pos + n
  OBVIOUS
<1>8. PICK b : b = (n < lf.size)
  OBVIOUS
<1>9. p \in Nat /\ p = lf.at + n /\ b \in BOOLEAN
  BY <1>1, <1>4, <1>7, <1>8
<1>10. PICK q : q = LibraryRead(lf)
  OBVIOUS
<1>11. q = [lf EXCEPT !.buf = got, !.from = lf.pos, !.fin = b, !.pos = p, !.at = p]
  BY <1>1, <1>2, <1>3, <1>5, <1>6, <1>7, <1>8, <1>9, <1>10 DEF LibraryRead
<1>12. PICK r : r = [lf EXCEPT !.buf = got, !.from = lf.pos]
  OBVIOUS
<1>13. r \in Libraries
  BY <1>1, <1>6, <1>12 DEF Libraries
<1>14. PICK u : u = [r EXCEPT !.fin = b]
  OBVIOUS
<1>15. u \in Libraries
  BY <1>9, <1>13, <1>14 DEF Libraries
<1>16. q = [u EXCEPT !.pos = p, !.at = p]
  BY <1>1, <1>11, <1>12, <1>14 DEF Libraries
<1>17. q \in Libraries
  BY <1>9, <1>15, <1>16 DEF Libraries
<1>18. /\ q.kind = lf.kind /\ q.mode = lf.mode /\ q.fmt = lf.fmt /\ q.disk = lf.disk
       /\ q.open = lf.open /\ q.pos = p /\ q.at = p /\ q.fin = b /\ q.buf = got
       /\ q.from = lf.pos /\ q.want = lf.want /\ q.used = lf.used /\ q.t = lf.t
  BY <1>1, <1>11 DEF Libraries
<1>19. Whole(q)
  BY <1>1, <1>4, <1>9, <1>17, <1>18 DEF Whole, LfInv, Steady, InFormat
<1>20. \A k \in 1..Len(q.buf) :
         q.from + k <= Len(q.want) /\ q.buf[k] = q.want[q.from + k]
  BY <1>1, <1>4, <1>6, <1>18
<1>21. q.fin => q.at = Len(q.disk.data)
  BY <1>4, <1>8, <1>9, <1>18
<1>22. q.used
  BY <1>18, <1>1 DEF LfInv, Steady
<1>23. Steady(q)
  BY <1>4, <1>6, <1>18, <1>19, <1>20, <1>21, <1>22 DEF Steady
<1> QED BY <1>10, <1>18, <1>23, CallKeeps DEF LfRead

\* What is written is put where the object is, and the library is there.
LEMMA WriteLibraryKeeps ==
  ASSUME LfAssumption, LfInv, LfWrite
  PROVE  LfInv'
<1>1. PICK n \in 1..LfBlock : LfCalls(LibraryWritten(lf, [k \in 1..n |-> 10 * lf.t + k]), "none")
  BY DEF LfWrite
<1>2. PICK block : block = [k \in 1..n |-> 10 * lf.t + k]
  OBVIOUS
<1>3. /\ lf \in Libraries /\ lf.open /\ lf.mode # "read" /\ ~lf.fin /\ lf.pos = lf.at
      /\ lf.at \in Nat /\ lf.disk \in LibraryDisks /\ lf.disk.data \in FileData
      /\ lf.t \in Nat /\ LfBlock \in Nat /\ lf.want = lf.disk.data /\ lf.used
      /\ lf.len \in Nat
  BY DEF LfWrite, LfInv, Steady, Whole, Libraries, LibraryDisks, LfAssumption
<1>4. n \in Nat
  BY <1>3
<1>5. block \in FileData /\ Len(block) = n
  BY <1>2, <1>3, <1>4, SeqDef DEF FileData
<1>6. PICK d : d = PutAt(lf.disk.data, lf.at, block)
  OBVIOUS
<1>7. d \in FileData
  BY <1>3, <1>5, <1>6, PutTyped
<1>8. PICK p : p = lf.at + n
  OBVIOUS
<1>9. PICK l : l = IF p > lf.len THEN p ELSE lf.len
  OBVIOUS
<1>10. p \in Nat /\ l \in Nat
  BY <1>3, <1>4, <1>8, <1>9
<1>11. PICK e : e = [lf.disk EXCEPT !.data = d]
  OBVIOUS
<1>12. e \in LibraryDisks /\ e.data = d /\ e.fmt = lf.disk.fmt
  BY <1>3, <1>7, <1>11 DEF LibraryDisks
<1>13. PICK q : q = LibraryWritten(lf, block)
  OBVIOUS
<1>14. q = [lf EXCEPT !.disk = e, !.want = d, !.size = n, !.pos = p, !.at = p, !.buf = <<>>,
                      !.len = l]
  BY <1>3, <1>5, <1>6, <1>8, <1>9, <1>11, <1>13 DEF LibraryWritten, Libraries, LibraryDisks
<1>15. <<>> \in FileData /\ Len(<<>>) = 0
  BY DEF FileData
<1>16. PICK r : r = [lf EXCEPT !.disk = e, !.want = d]
  OBVIOUS
<1>17. r \in Libraries
  BY <1>3, <1>7, <1>12, <1>16 DEF Libraries
<1>18. PICK u : u = [r EXCEPT !.size = n, !.pos = p]
  OBVIOUS
<1>19. u \in Libraries
  BY <1>10, <1>17, <1>18 DEF Libraries
<1>20. q = [u EXCEPT !.at = p, !.buf = <<>>, !.len = l]
  BY <1>3, <1>14, <1>16, <1>18 DEF Libraries
<1>21. q \in Libraries
  BY <1>10, <1>15, <1>19, <1>20 DEF Libraries
<1>22. /\ q.kind = lf.kind /\ q.mode = lf.mode /\ q.fmt = lf.fmt /\ q.disk = e
       /\ q.open = lf.open /\ q.pos = p /\ q.at = p /\ q.fin = lf.fin /\ q.buf = <<>>
       /\ q.want = d /\ q.used = lf.used /\ q.t = lf.t
  BY <1>3, <1>14 DEF Libraries
<1>23. Whole(q)
  BY <1>3, <1>12, <1>21, <1>22 DEF Whole, LfInv, Steady, InFormat
<1>24. Steady(q)
  BY <1>3, <1>15, <1>22, <1>23 DEF Steady
<1> QED BY <1>1, <1>2, <1>13, <1>22, <1>24, CallKeeps

\* A close leaves what was written.
LEMMA CloseKeeps ==
  ASSUME LfAssumption, LfInv, LfClose
  PROVE  LfInv'
<1>1. lf \in Libraries /\ LfBlock \in Nat /\ lf.used /\ Whole(lf)
  BY DEF LfClose, LfInv, Steady, Whole, LfAssumption
<1>2. PICK q : q = [lf EXCEPT !.open = FALSE, !.buf = <<>>]
  OBVIOUS
<1>3. <<>> \in FileData /\ Len(<<>>) = 0
  BY DEF FileData
<1>4. q \in Libraries
  BY <1>1, <1>2, <1>3 DEF Libraries
<1>5. /\ q.kind = lf.kind /\ q.mode = lf.mode /\ q.fmt = lf.fmt /\ q.disk = lf.disk
      /\ q.open = FALSE /\ q.fin = lf.fin /\ q.buf = <<>>
      /\ q.want = lf.want /\ q.used = lf.used /\ q.t = lf.t
  BY <1>1, <1>2 DEF Libraries
<1>6. Steady(q)
  BY <1>1, <1>3, <1>4, <1>5 DEF Steady, Whole
<1> QED BY <1>2, <1>5, <1>6, CallKeeps DEF LfClose

\* Every call keeps the object whole.
LEMMA LibraryNextInv ==
  ASSUME LfAssumption
  PROVE  LfKept /\ [LfNext]_<<lf, lfLost>> => LfKept'
<1> SUFFICES ASSUME LfKept, [LfNext]_<<lf, lfLost>>, lfLost' = "none" PROVE LfInv'
  BY DEF LfKept
<1>1. CASE UNCHANGED <<lf, lfLost>>
  BY <1>1 DEF LfKept, LfInv
<1>2. CASE LfNext
  <2>1. lfLost = "none"
    BY <1>2 DEF LfNext, LfOpen, LfReplace, LfSeek, LfRead, LfWrite, LfClose, LfCalls
  <2>2. LfInv
    BY <2>1 DEF LfKept
  <2>3. CASE LfOpen
    BY <2>1, <2>2, <2>3, OpenKeeps
  <2>4. CASE LfReplace
    BY <2>2, <2>4, ReplaceKeeps
  <2>5. CASE LfSeek
    BY <2>1, <2>2, <2>5, SeekKeeps
  <2>6. CASE LfRead
    BY <2>2, <2>6, ReadLibraryKeeps
  <2>7. CASE LfWrite
    BY <2>2, <2>7, WriteLibraryKeeps
  <2>8. CASE LfClose
    BY <2>2, <2>8, CloseKeeps
  <2> QED BY <1>2, <2>3, <2>4, <2>5, <2>6, <2>7, <2>8 DEF LfNext
<1> QED BY <1>1, <1>2

\* A new object is whole.
LEMMA NewSteady ==
  ASSUME LfAssumption, NEW k \in LibraryKinds, NEW mode \in LibraryModes(k), NEW g \in Formats,
         NEW disk \in LibraryDisks, NEW o, o = NewLibraryFile(k, mode, g, disk)
  PROVE  Steady(o)
<1>1. LfBlock \in 1..LfBlock /\ <<>> \in FileData /\ Len(<<>>) = 0 /\ LfBlock \in Nat
  BY DEF LfAssumption, FileData
<1>2. disk.data \in FileData
  BY DEF LibraryDisks
<1>3. mode \in {"read", "write", "readwrite"}
  BY DEF LibraryModes
<1>4. /\ o \in Libraries /\ o.kind = k /\ o.mode = mode /\ o.disk = disk
      /\ o.open = FALSE /\ o.pos = 0 /\ o.fin = FALSE /\ o.buf = <<>> /\ o.want = disk.data
      /\ o.used = FALSE
  <2>1. 0 \in 0..LfSteps
    BY DEF LfAssumption
  <2> QED BY <1>1, <1>2, <1>3, <2>1 DEF Libraries, NewLibraryFile
<1> QED BY <1>1, <1>4 DEF Steady, Whole

\* A file that another program has written, or none, and a new object.
LEMMA LibraryInitInv ==
  ASSUME LfAssumption, LfInit
  PROVE  LfKept
<1>1. PICK k \in LfKinds, f \in LfFormats, g \in LfFormats :
        \E mode \in LibraryModes(k) :
          \E disk \in {NoDisk} \cup {[there |-> TRUE, fmt |-> f, data |-> d] : d \in LfFiles} :
            lf = NewLibraryFile(k, mode, g, disk)
  BY DEF LfInit
<1>2. PICK mode \in LibraryModes(k) :
        \E disk \in {NoDisk} \cup {[there |-> TRUE, fmt |-> f, data |-> d] : d \in LfFiles} :
          lf = NewLibraryFile(k, mode, g, disk)
  BY <1>1
<1>3. PICK disk \in {NoDisk} \cup {[there |-> TRUE, fmt |-> f, data |-> d] : d \in LfFiles} :
        lf = NewLibraryFile(k, mode, g, disk)
  BY <1>2
<1>4. f \in Formats /\ g \in Formats /\ k \in LibraryKinds
  BY DEF Formats, LfAssumption, LibraryKinds
<1>5. disk \in LibraryDisks
  <2>1. CASE disk = NoDisk
    BY <2>1 DEF NoDisk, LibraryDisks, Formats, FileData
  <2>2. ASSUME NEW d \in LfFiles, disk = [there |-> TRUE, fmt |-> f, data |-> d]
        PROVE  disk \in LibraryDisks
    <3>1. d \in Seq(Nat)
      BY <2>2 DEF LfAssumption
    <3>2. d \in FileData
      BY <3>1 DEF FileData
    <3> QED BY <1>4, <2>2, <3>2 DEF LibraryDisks
  <2> QED BY <2>1, <2>2
<1>6. Steady(lf)
  BY <1>3, <1>4, <1>5, NewSteady
<1> QED BY <1>6 DEF LfKept, LfInv

\* What is read and written is what the file holds, and the end is its end.
LEMMA LibraryHolds == LfKept => LibraryExact
<1> SUFFICES ASSUME LfInv PROVE BlocksTrue /\ WrittenKept /\ EndTrue /\ FormatTrue
  BY DEF LfKept, LibraryExact
<1>1. Steady(lf) /\ lf.at \in Nat /\ Len(lf.disk.data) \in Nat
  BY DEF LfInv, Steady, Whole, Libraries, LibraryDisks, FileData
<1>2. BlocksTrue /\ WrittenKept
  BY <1>1 DEF Steady, Whole, BlocksTrue, WrittenKept
<1>3. EndTrue
  BY <1>1 DEF Steady, Whole, EndTrue
<1>4. FormatTrue
  BY <1>1 DEF Steady, Whole, InFormat, FormatTrue
<1> QED BY <1>2, <1>3, <1>4

-----------------------------------------------------------------------------
(* Sound files.                                                            *)

FileDisks == [there : BOOLEAN, dsize : Nat, data : FileData, tail : FileData]
Files ==
  [kind : {"wave", "raw", "cdr"}, mode : {"read", "write", "readwrite"}, mmap : BOOLEAN, lfs : BOOLEAN,
   scale : {1, 2}, disk : FileDisks, open : BOOLEAN, pos : Nat, len : Nat, known : BOOLEAN, fpos : Nat,
   eof : BOOLEAN, pend : Seq(FileData), buf : FileData, at : Nat, want : FileData,
   used : BOOLEAN, t : 0..AfSteps]

(* What is kept, and where a CDR file was padded silence behind it.        *)
Padded(p, w) ==
  /\ Len(w) <= Len(p)
  /\ \A i \in 1..Len(w) : p[i] = w[i]
  /\ \A i \in 1..Len(p) : i > Len(w) => p[i] = 0
Content(o) ==
  /\ Padded(Pending(o), o.want)
  /\ o.kind # "cdr" => Pending(o) = o.want

(* Only an open output has writes that wait, and each adds to the file.    *)
Waiting(o) ==
  /\ ~o.open \/ o.mode = "read" => o.pend = <<>>
  /\ \A k \in 1..Len(o.pend) : Len(o.disk.data) <= Len(o.pend[k])

(* The header of a wave file: between sessions it tells the size of the    *)
(* data, or nothing, and then there is nothing behind them.                *)
Header(o) ==
  /\ o.kind # "wave" => o.disk.tail = <<>>
  /\ o.kind = "wave" /\ (~o.open \/ o.mode = "read") =>
       IF o.disk.dsize \in {0, AfMax} THEN o.disk.tail = <<>>
       ELSE o.disk.dsize = Len(o.disk.data)
  /\ o.open /\ o.mode # "read" =>
       /\ o.disk.tail = <<>>
       /\ o.kind = "wave" => o.disk.dsize \in {0, AfMax} \/ o.disk.dsize <= Len(o.disk.data)

(* Where the file is, and the object that uses it.                         *)
Total(o) == Len(o.disk.data) + Len(o.disk.tail)
There(o) ==
  o.open =>
    IF o.mmap THEN /\ o.mode = "read" /\ o.kind # "cdr"
                   /\ o.fpos = Lower(o.pos, Total(o)) /\ (o.eof <=> o.pos >= Total(o))
    ELSE o.fpos = o.pos

(* What an open object knows of the length.                                *)
Lengths(o) ==
  /\ o.open /\ o.mode = "read" =>
       /\ o.kind # "cdr" => o.len = Len(o.want)
       /\ o.kind = "wave" => o.known
       /\ o.eof => o.pos >= Total(o)
  /\ o.open /\ o.mode # "read" => Len(Pending(o)) <= o.len
  /\ ~o.used => ~o.open /\ o.pos = 0 /\ o.len = 0 /\ ~o.known

(* What was read.                                                          *)
Given(o) ==
  /\ Len(o.buf) <= AfBlock
  /\ \A k \in 1..Len(o.buf) :
       IF o.at + k <= Len(o.want) THEN o.buf[k] = o.want[o.at + k]
       ELSE o.kind = "cdr" /\ o.buf[k] = 0

Sectors(o) ==
  o.kind = "cdr" /\ ~o.open /\ o.used /\ o.mode # "read" => Len(o.disk.data) % AfSector = 0

FileKept(o) ==
  /\ o \in Files /\ Content(o) /\ Waiting(o) /\ Header(o) /\ There(o) /\ Lengths(o)
  /\ Given(o) /\ Sectors(o)
AfInv == FileKept(af)

(* It is so until a call makes the object and its file go apart.           *)
AfKept == afLost = "none" => AfInv

-----------------------------------------------------------------------------
(* What a file holds.                                                      *)

\* What the file holds are frames, with any number of the writes that wait.
LEMMA AfterTyped ==
  ASSUME NEW o \in Files, NEW k \in 0..Len(o.pend)
  PROVE  After(o, k) \in FileData /\ Len(After(o, k)) \in Nat
<1>1. o.pend \in Seq(FileData) /\ o.disk.data \in FileData
  BY DEF Files, FileDisks
<1>2. After(o, k) \in FileData
  <2>1. CASE k = 0
    BY <1>1, <2>1 DEF After
  <2>2. CASE k # 0
    <3>1. k \in 1..Len(o.pend)
      BY <1>1, <2>2
    <3>2. o.pend[k] \in FileData
      BY <1>1, <3>1
    <3> QED BY <2>2, <3>2 DEF After
  <2> QED BY <2>1, <2>2
<1> QED BY <1>2 DEF FileData

LEMMA PendingTyped ==
  ASSUME NEW o \in Files
  PROVE  Pending(o) \in FileData /\ Len(Pending(o)) \in Nat
<1>1. o.pend \in Seq(FileData)
  BY DEF Files
<1>2. Len(o.pend) \in 0..Len(o.pend)
  BY <1>1
<1> QED BY <1>2, AfterTyped DEF Pending

\* A block that is written lies where it was put, and what was there before
\* and is not under it stays.
LEMMA OverIs ==
  ASSUME NEW d \in FileData, NEW from \in Nat, NEW block \in FileData, block # <<>>,
         NEW q, q = Over(d, from, block)
  PROVE  /\ q \in FileData /\ Len(q) = Upper(Len(d), from + Len(block))
         /\ \A i \in 1..Len(q) :
              q[i] = IF i > from /\ i <= from + Len(block) THEN block[i - from]
                     ELSE IF i <= Len(d) THEN d[i] ELSE 0
<1>1. PICK m : m = Upper(Len(d), from + Len(block))
  OBVIOUS
<1>2. m \in Nat /\ Len(d) \in Nat /\ Len(block) \in Nat
  BY <1>1 DEF FileData, Upper
<1>3. \A n \in 1..m : n > from /\ n <= from + Len(block) => block[n - from] \in Int
  BY <1>2 DEF FileData
<1>4. \A n \in 1..m : n <= Len(d) => d[n] \in Int
  BY <1>2 DEF FileData
<1>5. q = [i \in 1..m |-> IF i > from /\ i <= from + Len(block) THEN block[i - from]
                          ELSE IF i <= Len(d) THEN d[i] ELSE 0]
  BY <1>1 DEF Over
<1>6. q \in [1..m -> Int]
  BY <1>3, <1>4, <1>5
<1>7. q \in FileData /\ Len(q) = m
  BY <1>2, <1>6, SeqDef DEF FileData
<1> QED BY <1>1, <1>5, <1>7

\* The same block over what is kept and over what was wanted.
LEMMA PaddedOver ==
  ASSUME NEW p \in FileData, NEW w \in FileData, Padded(p, w), NEW from \in Nat,
         NEW block \in FileData, block # <<>>,
         NEW p1, p1 = Over(p, from, block), NEW w1, w1 = Over(w, from, block)
  PROVE  Padded(p1, w1)
<1>1. /\ p1 \in FileData /\ Len(p1) = Upper(Len(p), from + Len(block))
      /\ \A i \in 1..Len(p1) :
           p1[i] = IF i > from /\ i <= from + Len(block) THEN block[i - from]
                   ELSE IF i <= Len(p) THEN p[i] ELSE 0
  BY OverIs
<1>2. /\ w1 \in FileData /\ Len(w1) = Upper(Len(w), from + Len(block))
      /\ \A i \in 1..Len(w1) :
           w1[i] = IF i > from /\ i <= from + Len(block) THEN block[i - from]
                   ELSE IF i <= Len(w) THEN w[i] ELSE 0
  BY OverIs
<1>3. Len(p) \in Nat /\ Len(w) \in Nat /\ Len(block) \in Nat /\ Len(w) <= Len(p)
  BY DEF FileData, Padded
<1>4. Len(w1) <= Len(p1) /\ Len(w1) >= Len(w) /\ Len(w1) >= from + Len(block)
  BY <1>1, <1>2, <1>3 DEF Upper
<1>5. ASSUME NEW i \in 1..Len(w1) PROVE p1[i] = w1[i]
  <2>1. i \in 1..Len(p1)
    BY <1>1, <1>2, <1>4 DEF FileData
  <2>2. CASE i > from /\ i <= from + Len(block)
    BY <1>1, <1>2, <2>1, <2>2
  <2>3. CASE ~(i > from /\ i <= from + Len(block)) /\ i <= Len(w)
    <3>1. i \in 1..Len(w) /\ i <= Len(p)
      BY <1>3, <2>3
    <3>2. p[i] = w[i]
      BY <3>1 DEF Padded
    <3> QED BY <1>1, <1>2, <2>1, <2>3, <3>1, <3>2
  <2>4. CASE ~(i > from /\ i <= from + Len(block)) /\ ~(i <= Len(w))
    <3>1. i <= Len(p) => i \in 1..Len(p) /\ i > Len(w)
      BY <1>3, <2>4
    <3>2. i <= Len(p) => p[i] = 0
      BY <3>1 DEF Padded
    <3> QED BY <1>1, <1>2, <2>1, <2>4, <3>2
  <2> QED BY <2>2, <2>3, <2>4
<1>6. ASSUME NEW i \in 1..Len(p1), i > Len(w1) PROVE p1[i] = 0
  <2>1. ~(i > from /\ i <= from + Len(block)) /\ i > Len(w)
    BY <1>3, <1>4, <1>6
  <2>2. i <= Len(p) => i \in 1..Len(p)
    BY <1>3
  <2>3. i <= Len(p) => p[i] = 0
    BY <2>1, <2>2 DEF Padded
  <2> QED BY <1>1, <2>1, <2>3
<1> QED BY <1>4, <1>5, <1>6 DEF Padded

\* Silence behind what is kept.
LEMMA PaddedMore ==
  ASSUME NEW p \in FileData, NEW w \in FileData, Padded(p, w), NEW n \in Nat \ {0},
         NEW block, block = [i \in 1..n |-> 0], NEW q, q = Over(p, Len(p), block)
  PROVE  q \in FileData /\ Padded(q, w) /\ Len(q) = Len(p) + n
<1>1. block \in FileData /\ Len(block) = n
  BY SeqDef DEF FileData
<1>2. block # <<>>
  BY <1>1
<1>3. Len(p) \in Nat /\ Len(w) \in Nat /\ Len(w) <= Len(p)
  BY DEF FileData, Padded
<1>4. PICK from : from = Len(p)
  OBVIOUS
<1>5. /\ q \in FileData /\ Len(q) = Upper(Len(p), from + Len(block))
      /\ \A i \in 1..Len(q) :
           q[i] = IF i > from /\ i <= from + Len(block) THEN block[i - from]
                  ELSE IF i <= Len(p) THEN p[i] ELSE 0
  <2>1. from \in Nat /\ q = Over(p, from, block)
    BY <1>3, <1>4
  <2>2. block \in FileData /\ block # <<>>
    BY <1>1, <1>2
  <2>3. q \in FileData
    BY <2>1, <2>2, OverIs
  <2>4. Len(q) = Upper(Len(p), from + Len(block))
    BY <2>1, <2>2, OverIs
  <2>5. \A i \in 1..Len(q) :
          q[i] = IF i > from /\ i <= from + Len(block) THEN block[i - from]
                 ELSE IF i <= Len(p) THEN p[i] ELSE 0
    BY <2>1, <2>2, OverIs
  <2> QED BY <2>3, <2>4, <2>5
<1>6. Len(q) = from + n
  BY <1>1, <1>3, <1>4, <1>5 DEF Upper
<1>7. ASSUME NEW i \in 1..Len(w) PROVE q[i] = w[i]
  <2>1. i \in 1..Len(q) /\ i \in 1..Len(p) /\ ~(i > from) /\ i <= Len(p)
    BY <1>3, <1>4, <1>6
  <2>2. p[i] = w[i]
    BY DEF Padded
  <2> QED BY <1>5, <2>1, <2>2
<1>8. ASSUME NEW i \in 1..Len(q), i > Len(w) PROVE q[i] = 0
  <2>1. CASE i > from
    <3>1. i <= from + Len(block) /\ i - from \in 1..n
      BY <1>1, <1>3, <1>4, <1>6, <2>1
    <3>2. block[i - from] = 0
      BY <3>1
    <3> QED BY <1>5, <2>1, <3>1, <3>2
  <2>2. CASE ~(i > from)
    <3>1. i \in 1..Len(p) /\ i <= Len(p)
      BY <1>3, <1>4, <2>2
    <3>2. p[i] = 0
      BY <1>8, <3>1 DEF Padded
    <3> QED BY <1>5, <2>2, <3>1, <3>2
  <2> QED BY <2>1, <2>2
<1> QED BY <1>3, <1>4, <1>5, <1>6, <1>7, <1>8 DEF Padded

\* The padding ends a sector.
LEMMA WholeSectors ==
  ASSUME NEW S \in Nat \ {0}, NEW n \in Nat, NEW pad, pad = S - (n % S)
  PROVE  /\ (n + pad) % S = 0 /\ pad \in 1..S
         /\ pad = S => n % S = 0
<1>1. n % S \in 0..S-1
  OBVIOUS
<1>2. n = (n \div S) * S + (n % S)
  OBVIOUS
<1>3. PICK q : q = n \div S
  OBVIOUS
<1>4. PICK r : r = n % S
  OBVIOUS
<1>5. q \in Int
  BY <1>3
<1>6. n + (S - r) = (q + 1) * S
  BY <1>1, <1>2, <1>3, <1>4, <1>5
<1>7. \A k \in Int : (k * S) % S = 0
  OBVIOUS
<1>8. PICK z : z = q + 1
  OBVIOUS
<1>9. z \in Int /\ n + pad = z * S
  BY <1>4, <1>5, <1>6, <1>8
<1>10. (z * S) % S = 0
  BY <1>7, <1>9
<1>11. (n + pad) % S = 0
  BY <1>9, <1>10
<1>12. r \in 0..S-1 /\ pad = S - r
  BY <1>1, <1>4
<1>13. pad \in 1..S /\ (pad = S => r = 0)
  BY <1>12
<1> QED BY <1>4, <1>11, <1>13

-----------------------------------------------------------------------------
(* Moving in a file.                                                       *)

LEMMA NoneWaits ==
  ASSUME NEW o, o.pend = <<>>
  PROVE  Pending(o) = o.disk.data
BY DEF Pending, After

LEMMA SamePending ==
  ASSUME NEW o, NEW q, q.pend = o.pend, q.disk.data = o.disk.data
  PROVE  Pending(q) = Pending(o)
BY DEF Pending, After

\* All but the data, the writes that wait, and where the file and the object are.
Alike(q, o) ==
  /\ q.kind = o.kind /\ q.mode = o.mode /\ q.mmap = o.mmap /\ q.scale = o.scale
  /\ q.open = o.open /\ q.len = o.len /\ q.known = o.known /\ q.want = o.want
  /\ q.used = o.used /\ q.t = o.t /\ q.buf = o.buf /\ q.at = o.at
  /\ q.disk.tail = o.disk.tail /\ q.disk.dsize = o.disk.dsize /\ q.disk.there = o.disk.there

\* What waited is in the file.
LEMMA FlushedIs ==
  ASSUME NEW o \in Files, NEW q, q = Flushed(o)
  PROVE  /\ q \in Files /\ Alike(q, o) /\ q.pend = <<>> /\ q.disk.data = Pending(o)
         /\ q.pos = o.pos /\ q.fpos = o.fpos /\ q.eof = o.eof
<1>1. PICK p : p = Pending(o)
  OBVIOUS
<1>2. p \in FileData
  BY <1>1, PendingTyped
<1>3. PICK d : d = [o.disk EXCEPT !.data = p]
  OBVIOUS
<1>4. o.disk \in FileDisks
  BY DEF Files
<1>5. /\ d \in FileDisks /\ d.data = p /\ d.tail = o.disk.tail /\ d.dsize = o.disk.dsize
      /\ d.there = o.disk.there
  BY <1>2, <1>3, <1>4 DEF FileDisks
<1>6. q = [o EXCEPT !.disk = d, !.pend = <<>>]
  BY <1>1, <1>3 DEF Flushed, Files
<1>7. <<>> \in Seq(FileData)
  OBVIOUS
<1>8. q \in Files
  BY <1>5, <1>6, <1>7 DEF Files
<1>9. /\ q.pend = <<>> /\ q.disk = d /\ q.pos = o.pos /\ q.fpos = o.fpos /\ q.eof = o.eof
      /\ q.kind = o.kind /\ q.mode = o.mode /\ q.mmap = o.mmap /\ q.scale = o.scale
      /\ q.open = o.open /\ q.len = o.len /\ q.known = o.known /\ q.want = o.want
      /\ q.used = o.used /\ q.t = o.t /\ q.buf = o.buf /\ q.at = o.at
  BY <1>6 DEF Files
<1> QED BY <1>1, <1>5, <1>8, <1>9 DEF Alike

\* Where a seek that moves leaves the file.
LEMMA SeekIs ==
  ASSUME NEW o \in Files, o.mmap => o.pend = <<>>, NEW to \in Nat, ~StaysBehind(o, to),
         NEW q, q = SeekPosition(o, to)
  PROVE  /\ q \in Files /\ Alike(q, o) /\ q.pend = <<>> /\ q.disk.data = Pending(o)
         /\ q.pos = to
         /\ IF o.mmap THEN q.fpos = Lower(to, Total(o)) /\ (q.eof <=> to >= Total(o))
            ELSE q.fpos = to /\ ~q.eof
<1>0. PICK n : n = Total(o)
  OBVIOUS
<1>1. n \in Nat
  <2>1. o.disk \in FileDisks
    BY DEF Files
  <2>2. o.disk.data \in Seq(Int) /\ o.disk.tail \in Seq(Int)
    BY <2>1 DEF FileDisks, FileData
  <2>3. PICK a : a = Len(o.disk.data)
    OBVIOUS
  <2>4. PICK b : b = Len(o.disk.tail)
    OBVIOUS
  <2>5. a \in Nat /\ b \in Nat /\ n = a + b
    BY <1>0, <2>2, <2>3, <2>4 DEF Total
  <2> QED BY <2>5
<1>2. CASE o.mmap
  <2>1. PICK f : f = Lower(to, n)
    OBVIOUS
  <2>2. PICK e : e = (to >= n)
    OBVIOUS
  <2>3. f \in Nat /\ e \in BOOLEAN
    <3>1. f \in Nat
      BY <1>1, <2>1 DEF Lower
    <3>2. e \in BOOLEAN
      BY <2>2
    <3> QED BY <3>1, <3>2
  <2>4. PICK p : p = [o EXCEPT !.fpos = f]
    OBVIOUS
  <2>5. p \in Files
    BY <2>3, <2>4 DEF Files
  <2>6. PICK r : r = [p EXCEPT !.eof = e]
    OBVIOUS
  <2>7. r \in Files
    BY <2>3, <2>5, <2>6 DEF Files
  <2>8. r = MmapMoved(o, to)
    BY <1>0, <2>1, <2>2, <2>4, <2>6 DEF MmapMoved, Files, Total
  <2>9. q = [r EXCEPT !.pos = to]
    BY <1>2, <2>8 DEF SeekPosition, SetFilePosition
  <2>10. q \in Files /\ q.pos = to /\ q.eof = e /\ q.fpos = f /\ q.pend = o.pend /\ q.disk = o.disk
    <3>1. q \in Files
      BY <2>7, <2>9 DEF Files
    <3>2. q.pos = to /\ q.eof = r.eof /\ q.fpos = r.fpos /\ q.pend = r.pend /\ q.disk = r.disk
      BY <2>7, <2>9 DEF Files
    <3>3. r.eof = e /\ r.fpos = p.fpos /\ r.pend = p.pend /\ r.disk = p.disk
      BY <2>5, <2>6 DEF Files
    <3>4. p.fpos = f /\ p.pend = o.pend /\ p.disk = o.disk
      BY <2>4 DEF Files
    <3> QED BY <3>1, <3>2, <3>3, <3>4
  <2>11. Alike(q, o)
    BY <2>4, <2>5, <2>6, <2>7, <2>9 DEF Files, Alike
  <2>12. q.disk.data = Pending(o)
    BY <1>2, <2>10, NoneWaits
  <2> QED BY <1>0, <1>2, <2>1, <2>2, <2>10, <2>11, <2>12
<1>3. CASE ~o.mmap
  <2>1. PICK p : p = Flushed(o)
    OBVIOUS
  <2>2. /\ p \in Files /\ Alike(p, o) /\ p.pend = <<>> /\ p.disk.data = Pending(o)
    BY <2>1, FlushedIs
  <2>3. PICK r : r = [p EXCEPT !.fpos = to, !.eof = FALSE]
    OBVIOUS
  <2>4. r \in Files
    BY <2>2, <2>3 DEF Files
  <2>5. q = [r EXCEPT !.pos = to]
    BY <1>3, <2>1, <2>3 DEF SeekPosition, SetFilePosition, MoveIn
  <2>6. q \in Files /\ q.pos = to /\ q.eof = FALSE /\ q.fpos = to /\ q.pend = p.pend /\ q.disk = p.disk
    BY <2>2, <2>3, <2>4, <2>5, ZenonT(60) DEF Files
  <2>7. Alike(q, p)
    BY <2>2, <2>3, <2>4, <2>5 DEF Files, Alike
  <2>8. Alike(q, o)
    BY <2>2, <2>7 DEF Alike
  <2> QED BY <1>3, <2>2, <2>6, <2>8
<1> QED BY <1>2, <1>3

\* A call is counted.
LEMMA FileCallKeeps ==
  ASSUME AfAssumption, NEW o, FileKept(o), o.t = af.t, NEW why, Calls(o, why)
  PROVE  AfInv'
<1>1. o \in Files /\ o.t \in 0..AfSteps /\ o.t < AfSteps /\ AfSteps \in Nat
  BY DEF FileKept, Files, Calls, AfAssumption
<1>2. PICK n : n = o.t + 1
  OBVIOUS
<1>3. n \in 0..AfSteps
  BY <1>1, <1>2
<1>4. PICK q : q = [o EXCEPT !.t = n]
  OBVIOUS
<1>5. af' = q
  BY <1>2, <1>4 DEF Calls
<1>6. q \in Files
  BY <1>1, <1>3, <1>4 DEF Files
<1>7. /\ q.kind = o.kind /\ q.mode = o.mode /\ q.mmap = o.mmap
      /\ q.open = o.open /\ q.len = o.len /\ q.known = o.known /\ q.want = o.want
      /\ q.used = o.used /\ q.buf = o.buf /\ q.at = o.at
      /\ q.disk = o.disk /\ q.pend = o.pend /\ q.pos = o.pos /\ q.fpos = o.fpos /\ q.eof = o.eof
  BY <1>1, <1>4 DEF Files
<1>8. Pending(q) = Pending(o) /\ Total(q) = Total(o)
  BY <1>7, SamePending DEF Total
<1>9. Content(q) /\ Waiting(q) /\ Header(q) /\ There(q)
  BY <1>7, <1>8 DEF FileKept, Content, Waiting, Header, There
<1>10. Lengths(q) /\ Given(q) /\ Sectors(q)
  <2>1. Lengths(q)
    BY <1>7, <1>8 DEF FileKept, Lengths
  <2>2. Given(q)
    BY <1>7 DEF FileKept, Given
  <2>3. Sectors(q)
    BY <1>7 DEF FileKept, Sectors
  <2> QED BY <2>1, <2>2, <2>3
<1>11. FileKept(q)
  BY <1>6, <1>9, <1>10 DEF FileKept
<1> QED BY <1>5, <1>11 DEF AfInv

\* A seek to the start that does not move a file finds it there already.
LEMMA FileStayKeeps ==
  ASSUME AfAssumption, AfInv, af.open, NEW to \in Nat, StaysBehind(af, to), af.fpos = 0,
         NEW why, Calls([SeekPosition(af, to) EXCEPT !.buf = <<>>, !.at = to], why)
  PROVE  AfInv'
<1>1. /\ af \in Files /\ AfBlock \in Nat
      /\ Content(af) /\ Waiting(af) /\ Header(af) /\ There(af) /\ Lengths(af)
  BY DEF AfInv, FileKept, AfAssumption
<1>2. af.kind = "cdr" /\ to = 0 /\ ~af.mmap
  BY <1>1 DEF StaysBehind, There
<1>3. af.pos = 0
  BY <1>1, <1>2 DEF There
<1>4. SeekPosition(af, to) = [af EXCEPT !.pos = to]
  BY DEF SeekPosition
<1>5. SeekPosition(af, to) = af
  BY <1>1, <1>2, <1>3, <1>4 DEF Files
<1>6. PICK q : q = [af EXCEPT !.buf = <<>>, !.at = to]
  OBVIOUS
<1>7. <<>> \in FileData /\ Len(<<>>) = 0
  BY DEF FileData
<1>8. q \in Files
  BY <1>1, <1>6, <1>7 DEF Files
<1>9. /\ q.kind = af.kind /\ q.mode = af.mode /\ q.mmap = af.mmap
      /\ q.open = af.open /\ q.len = af.len /\ q.known = af.known /\ q.want = af.want
      /\ q.used = af.used /\ q.buf = <<>> /\ q.t = af.t
      /\ q.disk = af.disk /\ q.pend = af.pend /\ q.pos = af.pos /\ q.fpos = af.fpos /\ q.eof = af.eof
  BY <1>1, <1>6 DEF Files
<1>10. Pending(q) = Pending(af) /\ Total(q) = Total(af)
  BY <1>9, SamePending DEF Total
<1>11. Content(q) /\ Waiting(q) /\ Header(q) /\ There(q)
  BY <1>1, <1>9, <1>10 DEF Content, Waiting, Header, There
<1>12. Lengths(q)
  BY <1>1, <1>9, <1>10 DEF Lengths
<1>13. Given(q) /\ Sectors(q)
  BY <1>1, <1>7, <1>9 DEF Given, Sectors
<1>14. FileKept(q)
  BY <1>8, <1>11, <1>12, <1>13 DEF FileKept
<1> QED BY <1>5, <1>6, <1>9, <1>14, FileCallKeeps

\* A seek that moves loses nothing: what waits is written first.
LEMMA FileMoveKeeps ==
  ASSUME AfAssumption, AfInv, af.open, NEW to \in Nat, ~StaysBehind(af, to),
         NEW why, Calls([SeekPosition(af, to) EXCEPT !.buf = <<>>, !.at = to], why)
  PROVE  AfInv'
<1>2. /\ af \in Files /\ AfBlock \in Nat /\ af.used
      /\ Content(af) /\ Waiting(af) /\ Header(af) /\ There(af) /\ Lengths(af)
  BY DEF AfInv, FileKept, AfAssumption, Lengths
<1>3. PICK n : n = Total(af)
  OBVIOUS
<1>4. PICK p : p = SeekPosition(af, to)
  OBVIOUS
<1>5. af.mmap => af.mode = "read" /\ af.pend = <<>>
  BY <1>2 DEF There, Waiting
<1>6. /\ p \in Files /\ Alike(p, af) /\ p.pend = <<>> /\ p.disk.data = Pending(af)
      /\ p.pos = to
      /\ IF af.mmap THEN p.fpos = Lower(to, n) /\ (p.eof <=> to >= n)
         ELSE p.fpos = to /\ ~p.eof
  <2>1. af \in Files /\ to \in Nat /\ (af.mmap => af.pend = <<>>)
    BY <1>2, <1>5
  <2>2. /\ p \in Files /\ Alike(p, af) /\ p.pend = <<>> /\ p.disk.data = Pending(af)
        /\ p.pos = to
    BY <1>4, <2>1, SeekIs
  <2>3. IF af.mmap THEN p.fpos = Lower(to, n) /\ (p.eof <=> to >= n)
        ELSE p.fpos = to /\ ~p.eof
    BY <1>3, <1>4, <2>1, SeekIs
  <2> QED BY <2>2, <2>3
<1>7. PICK q : q = [p EXCEPT !.buf = <<>>, !.at = to]
  OBVIOUS
<1>8. <<>> \in FileData /\ Len(<<>>) = 0
  BY DEF FileData
<1>9. q \in Files
  BY <1>2, <1>6, <1>7, <1>8 DEF Files
<1>10. /\ q.kind = p.kind /\ q.mode = p.mode /\ q.mmap = p.mmap
       /\ q.open = p.open /\ q.len = p.len /\ q.known = p.known /\ q.want = p.want
       /\ q.used = p.used /\ q.buf = <<>> /\ q.t = p.t
       /\ q.disk = p.disk /\ q.pend = p.pend /\ q.pos = p.pos /\ q.fpos = p.fpos /\ q.eof = p.eof
  BY <1>6, <1>7 DEF Files
<1>11. /\ q.kind = af.kind /\ q.mode = af.mode /\ q.mmap = af.mmap
       /\ q.open /\ q.len = af.len /\ q.known = af.known /\ q.want = af.want
       /\ q.used /\ q.disk.tail = af.disk.tail /\ q.disk.dsize = af.disk.dsize
       /\ q.pos = to /\ q.pend = <<>> /\ q.t = af.t
  BY <1>2, <1>6, <1>10 DEF Alike
<1>12. q.disk.data = Pending(af) /\ Pending(q) = Pending(af)
  BY <1>6, <1>10, <1>11, NoneWaits
<1>13. af.mode = "read" => Pending(af) = af.disk.data
  BY <1>2, NoneWaits DEF Waiting
<1>14. Len(af.disk.data) <= Len(Pending(af)) /\ Len(af.disk.data) \in Nat /\ Len(Pending(af)) \in Nat
  <2>1. Len(af.disk.data) \in Nat /\ Len(Pending(af)) \in Nat
    <3>1. Len(Pending(af)) \in Nat
      BY <1>2, PendingTyped
    <3>2. Len(af.disk.data) \in Nat
      BY <1>2 DEF Files, FileDisks, FileData
    <3> QED BY <3>1, <3>2
  <2>2. af.pend = <<>> => Pending(af) = af.disk.data
    BY NoneWaits
  <2>3. af.pend # <<>> => Len(af.pend) \in 1..Len(af.pend) /\ Len(af.pend) # 0
    BY <1>2 DEF Files
  <2>4. af.pend # <<>> => Len(af.disk.data) <= Len(Pending(af))
    BY <1>2, <2>3 DEF Waiting, Pending, After
  <2> QED BY <2>1, <2>2, <2>4
<1>15. Content(q) /\ Waiting(q)
  BY <1>2, <1>11, <1>12 DEF Content, Waiting
<1>16. Header(q)
  <2>1. af.disk.dsize \in Nat
    BY <1>2 DEF Files, FileDisks
  <2> QED BY <1>2, <1>11, <1>12, <1>13, <1>14, <2>1 DEF Header
<1>17. There(q)
  <2>1. af.mmap => Total(q) = n
    BY <1>3, <1>5, <1>11, <1>12, <1>13 DEF Total
  <2>2. af.mmap => af.kind # "cdr"
    BY <1>2 DEF There
  <2> QED BY <1>5, <1>6, <1>10, <1>11, <2>1, <2>2 DEF There
<1>18. Lengths(q)
  <2>1. af.mode = "read" => Total(q) = n
    BY <1>3, <1>11, <1>12, <1>13 DEF Total
  <2>2. q.eof => to >= n
    BY <1>6, <1>10
  <2> QED BY <1>2, <1>10, <1>11, <1>12, <2>1, <2>2 DEF Lengths
<1>19. Given(q) /\ Sectors(q)
  BY <1>2, <1>8, <1>10, <1>11 DEF Given, Sectors
<1>20. FileKept(q)
  BY <1>9, <1>15, <1>16, <1>17, <1>18, <1>19 DEF FileKept
<1> QED BY <1>4, <1>7, <1>11, <1>20, FileCallKeeps

\* A seek leaves file and object together, unless it is to the start of a CDR file
\* that was moved in and offsets have 64 bits.
LEMMA FileSeekKeeps ==
  ASSUME AfAssumption, AfInv, AfSeek, afLost = "none", afLost' = "none"
  PROVE  AfInv'
<1>1. PICK to \in AfSeeks : Calls([SeekPosition(af, to) EXCEPT !.buf = <<>>, !.at = to],
                                 Loses("rewind", StaysBehind(af, to) /\ af.fpos # 0))
  BY DEF AfSeek
<1>2. PICK why : why = Loses("rewind", StaysBehind(af, to) /\ af.fpos # 0)
  OBVIOUS
<1>3. Calls([SeekPosition(af, to) EXCEPT !.buf = <<>>, !.at = to], why)
  BY <1>1, <1>2
<1>4. why = "none"
  BY <1>3 DEF Calls
<1>5. ~(StaysBehind(af, to) /\ af.fpos # 0)
  BY <1>2, <1>4 DEF Loses
<1>6. to \in Nat /\ af.open
  BY DEF AfAssumption, AfSeek
<1>7. CASE StaysBehind(af, to)
  BY <1>3, <1>5, <1>6, <1>7, FileStayKeeps
<1>8. CASE ~StaysBehind(af, to)
  BY <1>3, <1>6, <1>8, FileMoveKeeps
<1> QED BY <1>7, <1>8

-----------------------------------------------------------------------------
(* Reading.                                                                *)

\* What follows a position, at most n frames of it.
LEMMA FollowingIs ==
  ASSUME NEW all \in FileData, NEW from \in Nat, NEW n \in Nat,
         NEW g, g = SubSeq(all, from + 1, Lower(from + n, Len(all)))
  PROVE  /\ g \in FileData /\ Len(g) <= n
         /\ Len(g) < n => from + Len(g) >= Len(all)
         /\ Len(g) = 0 \/ from + Len(g) <= Len(all)
         /\ \A k \in 1..Len(g) : from + k \in 1..Len(all) /\ g[k] = all[from + k]
<1>1. PICK m : m = Len(all)
  OBVIOUS
<1>2. PICK hi : hi = Lower(from + n, m)
  OBVIOUS
<1>3. m \in Nat /\ hi \in Nat /\ hi <= m /\ hi <= from + n /\ (hi = m \/ hi = from + n)
  <2>1. m \in Nat
    BY <1>1 DEF FileData
  <2> QED BY <1>2, <2>1 DEF Lower
<1>4. PICK lo : lo = from + 1
  OBVIOUS
<1>5. lo \in Int /\ hi \in Int /\ g = SubSeq(all, lo, hi)
  BY <1>1, <1>2, <1>3, <1>4
<1>6. \A i \in lo..hi : all[i] \in Int
  <2>1. \A i \in lo..hi : i \in 1..Len(all)
    BY <1>1, <1>3, <1>4
  <2> QED BY <2>1 DEF FileData
<1>7. /\ g \in Seq(Int) /\ Len(g) = IF lo <= hi THEN hi - lo + 1 ELSE 0
      /\ \A i \in 1..hi - lo + 1 : g[i] = all[lo + i - 1]
  <2>1. lo \in Int /\ hi \in Int
    BY <1>5
  <2>2. /\ SubSeq(all, lo, hi) \in Seq(Int)
        /\ Len(SubSeq(all, lo, hi)) = IF lo <= hi THEN hi - lo + 1 ELSE 0
        /\ \A i \in 1..hi - lo + 1 : SubSeq(all, lo, hi)[i] = all[lo + i - 1]
    BY ONLY <1>6, <2>1, SubSeqProperties
  <2> QED BY <1>5, <2>2
<1>8. \A i \in 1..hi - lo + 1 : g[i] = all[lo + i - 1]
  BY <1>7
<1>9. /\ Len(g) <= n
      /\ Len(g) < n => from + Len(g) >= Len(all)
      /\ Len(g) = 0 \/ from + Len(g) <= Len(all)
  BY <1>1, <1>3, <1>4, <1>7
<1>10. ASSUME NEW k \in 1..Len(g) PROVE from + k \in 1..Len(all) /\ g[k] = all[from + k]
  <2>1. k \in 1..hi - lo + 1 /\ lo + k - 1 = from + k
    BY <1>4, <1>7
  <2>2. g[k] = all[from + k]
    BY <1>8, <2>1
  <2>3. from + k \in 1..Len(all)
    BY <1>1, <1>3, <1>4, <2>1
  <2> QED BY <2>2, <2>3
<1> QED BY <1>7, <1>9, <1>10 DEF FileData

\* What reading leaves.
Unread(q, o) ==
  /\ q.disk = o.disk /\ q.pos = o.pos
  /\ q.kind = o.kind /\ q.mode = o.mode /\ q.mmap = o.mmap /\ q.open = o.open
  /\ q.len = o.len /\ q.known = o.known /\ q.want = o.want
  /\ q.used = o.used /\ q.t = o.t

\* An object that reads has come to where the file is.
LEMMA FetchedIs ==
  ASSUME NEW o \in Files, o.open, There(o), ~o.eof, o.pend = <<>>, NEW n \in Nat,
         NEW r, r = Fetched(o, n)
  PROVE  /\ r \in Files /\ r.pend = <<>> /\ Len(r.buf) <= n /\ Unread(r, o)
         /\ \A k \in 1..Len(r.buf) :
              /\ o.pos + k <= Total(o)
              /\ o.pos + k <= Len(o.disk.data) => r.buf[k] = o.disk.data[o.pos + k]
         /\ IF o.mmap THEN /\ r.fpos = Lower(o.pos + Len(r.buf), Total(o))
                           /\ (r.eof <=> o.pos + Len(r.buf) >= Total(o))
            ELSE r.fpos = o.pos + Len(r.buf) /\ (r.eof => o.pos + Len(r.buf) >= Total(o))
<1>1. PICK d : d = o.disk.data
  OBVIOUS
<1>2. PICK e : e = o.disk.tail
  OBVIOUS
<1>3. d \in Seq(Int) /\ e \in Seq(Int)
  BY <1>1, <1>2 DEF Files, FileDisks, FileData
<1>4. PICK all : all = d \o e
  OBVIOUS
<1>5. all \in FileData /\ Len(all) = Total(o) /\ Len(all) \in Nat
  <2>1. all \in Seq(Int) /\ Len(all) = Len(d) + Len(e)
    BY <1>3, <1>4, ConcatProperties
  <2>2. Len(all) \in Nat
    BY <2>1
  <2> QED BY <1>1, <1>2, <2>1, <2>2 DEF FileData, Total
<1>6. \A i \in 1..Len(d) : all[i] = d[i]
  <2>1. \A i \in 1..Len(d) + Len(e) : all[i] = IF i <= Len(d) THEN d[i] ELSE e[i - Len(d)]
    BY <1>3, <1>4, ConcatProperties
  <2>2. \A i \in 1..Len(d) : i \in 1..Len(d) + Len(e) /\ i <= Len(d)
    BY <1>3
  <2> QED BY <2>1, <2>2
<1>7. PICK m : m = Total(o)
  OBVIOUS
<1>8. o.pos \in Nat /\ m \in Nat /\ o.fpos = o.pos
  BY <1>5, <1>7 DEF Files, There, Lower
<1>9. PICK g : g = Following(o, n)
  OBVIOUS
<1>10. g = SubSeq(all, o.pos + 1, Lower(o.pos + n, Len(all)))
  BY <1>1, <1>2, <1>4, <1>8, <1>9, NoneWaits DEF Following
<1>11. /\ g \in FileData /\ Len(g) <= n
       /\ Len(g) < n => o.pos + Len(g) >= Len(all)
       /\ Len(g) = 0 \/ o.pos + Len(g) <= Len(all)
  <2>1. o.pos \in Nat
    BY <1>8
  <2>2. g \in FileData
    BY <1>5, <1>10, <2>1, FollowingIs
  <2>3. Len(g) <= n
    BY <1>5, <1>10, <2>1, FollowingIs
  <2>4. /\ Len(g) < n => o.pos + Len(g) >= Len(all)
        /\ Len(g) = 0 \/ o.pos + Len(g) <= Len(all)
    BY <1>5, <1>10, <2>1, FollowingIs
  <2> QED BY <2>2, <2>3, <2>4
<1>12. \A k \in 1..Len(g) : o.pos + k \in 1..Len(all) /\ g[k] = all[o.pos + k]
  <2>1. PICK from \in Nat : from = o.pos
    BY <1>8
  <2>2. g = SubSeq(all, from + 1, Lower(from + n, Len(all)))
    BY <1>10, <2>1
  <2>3. \A k \in 1..Len(g) : from + k \in 1..Len(all) /\ g[k] = all[from + k]
    BY <1>5, <2>2, FollowingIs, ZenonT(60)
  <2> QED BY <2>1, <2>3
<1>13. PICK c : c = o.pos + Len(g)
  OBVIOUS
<1>14. c \in Nat /\ Len(g) \in Nat
  BY <1>8, <1>11, <1>13 DEF FileData
<1>15. \A k \in 1..Len(g) : o.pos + k <= m /\ (o.pos + k <= Len(d) => g[k] = d[o.pos + k])
  <2> TAKE k \in 1..Len(g)
  <2>1. o.pos + k \in 1..m /\ g[k] = all[o.pos + k]
    BY <1>5, <1>7, <1>12
  <2>2. o.pos + k <= Len(d) => o.pos + k \in 1..Len(d)
    BY <1>3, <1>8, <2>1
  <2> QED BY <1>6, <1>8, <2>1, <2>2
<1>16. CASE o.mmap
  <2>1. PICK f : f = Lower(c, m)
    OBVIOUS
  <2>2. PICK b : b = (c >= m)
    OBVIOUS
  <2>3. f \in Nat
    BY <1>8, <1>14, <2>1 DEF Lower
  <2>4. b \in BOOLEAN
    BY <2>2
  <2>5. PICK p : p = [o EXCEPT !.fpos = f]
    OBVIOUS
  <2>6. p \in Files
    BY <2>3, <2>5 DEF Files
  <2>7. PICK s : s = [p EXCEPT !.eof = b]
    OBVIOUS
  <2>8. s \in Files
    BY <2>4, <2>6, <2>7 DEF Files
  <2>9. s = MmapMoved(o, c)
    BY <1>7, <2>1, <2>2, <2>5, <2>7 DEF MmapMoved, Files, Total
  <2>10. r = [s EXCEPT !.buf = g]
    BY <1>8, <1>9, <1>13, <1>16, <2>9 DEF Fetched
  <2>11. r \in Files
    BY ONLY <1>11, <2>8, <2>10 DEF Files
  <2>12. /\ r.disk = s.disk /\ r.pend = s.pend /\ r.pos = s.pos /\ r.buf = g
         /\ r.fpos = s.fpos /\ r.eof = s.eof
         /\ r.kind = s.kind /\ r.mode = s.mode /\ r.mmap = s.mmap /\ r.open = s.open
         /\ r.len = s.len /\ r.known = s.known /\ r.want = s.want
         /\ r.used = s.used /\ r.t = s.t
    BY <2>8, <2>10 DEF Files
  <2>13. /\ s.disk = p.disk /\ s.pend = p.pend /\ s.pos = p.pos /\ s.fpos = p.fpos /\ s.eof = b
         /\ s.kind = p.kind /\ s.mode = p.mode /\ s.mmap = p.mmap /\ s.open = p.open
         /\ s.len = p.len /\ s.known = p.known /\ s.want = p.want
         /\ s.used = p.used /\ s.t = p.t
    BY <2>6, <2>7 DEF Files
  <2>14. /\ p.disk = o.disk /\ p.pend = <<>> /\ p.pos = o.pos /\ p.fpos = f
         /\ p.kind = o.kind /\ p.mode = o.mode /\ p.mmap = o.mmap /\ p.open = o.open
         /\ p.len = o.len /\ p.known = o.known /\ p.want = o.want
         /\ p.used = o.used /\ p.t = o.t
    BY <2>5 DEF Files
  <2>15. /\ r.disk = o.disk /\ r.pend = <<>> /\ r.pos = o.pos /\ r.buf = g
         /\ r.fpos = f /\ r.eof = b
         /\ r.kind = o.kind /\ r.mode = o.mode /\ r.mmap = o.mmap /\ r.open = o.open
         /\ r.len = o.len /\ r.known = o.known /\ r.want = o.want
         /\ r.used = o.used /\ r.t = o.t
    BY <2>12, <2>13, <2>14
  <2> QED BY <1>1, <1>7, <1>11, <1>13, <1>15, <1>16, <2>1, <2>2, <2>11, <2>15 DEF Unread
<1>17. CASE ~o.mmap
  <2>1. PICK b : b = (Len(g) < n)
    OBVIOUS
  <2>2. b \in BOOLEAN
    BY <2>1
  <2>3. PICK p : p = [o EXCEPT !.buf = g, !.fpos = c]
    OBVIOUS
  <2>4. p \in Files
    BY <1>11, <1>14, <2>3 DEF Files
  <2>5. r = [p EXCEPT !.eof = b]
    BY <1>8, <1>9, <1>13, <1>17, <2>1, <2>3 DEF Fetched, Files
  <2>6. r \in Files
    BY <2>2, <2>4, <2>5 DEF Files
  <2>7. /\ r.disk = o.disk /\ r.pend = <<>> /\ r.pos = o.pos /\ r.buf = g
        /\ r.fpos = c /\ r.eof = b
        /\ r.kind = o.kind /\ r.mode = o.mode /\ r.mmap = o.mmap /\ r.open = o.open
        /\ r.len = o.len /\ r.known = o.known /\ r.want = o.want
        /\ r.used = o.used /\ r.t = o.t
    BY <2>3, <2>4, <2>5, ZenonT(60) DEF Files
  <2>8. b => c >= m
    BY <1>5, <1>7, <1>11, <1>13, <2>1
  <2> QED BY <1>1, <1>7, <1>11, <1>13, <1>15, <1>17, <2>6, <2>7, <2>8 DEF Unread
<1> QED BY <1>16, <1>17

\* A read gives what was written last, and never what is behind the data.
LEMMA FileReadKeeps ==
  ASSUME AfAssumption, AfInv, AfRead
  PROVE  AfInv'
<1>1. Calls(ReadSamples(af), "none")
  BY DEF AfRead
<1>2. /\ af \in Files /\ af.open /\ AfBlock \in Nat \ {0} /\ af.used /\ af.pend = <<>>
      /\ Content(af) /\ Waiting(af) /\ Header(af) /\ There(af) /\ Lengths(af)
      /\ ~FileFinished(af) /\ af.mode # "write"
      /\ (af.mode = "readwrite" => af.pos < af.len)
  BY DEF AfInv, FileKept, AfRead, AfAssumption, Lengths
<1>3. af.pos \in Nat /\ af.len \in Nat /\ af.mode \in {"read", "readwrite"}
  BY <1>2 DEF Files
<1>4. PICK n : n = IF af.kind = "wave" THEN WaveCount(af) ELSE AfBlock
  OBVIOUS
<1>5. ~af.eof
  BY <1>2 DEF FileFinished, WaveFinished
<1>6. af.kind = "wave" /\ af.known => af.pos < af.len
  BY <1>2, <1>3 DEF FileFinished, WaveFinished
<1>7. n \in Nat /\ n <= AfBlock
  BY <1>2, <1>3, <1>4, <1>6 DEF WaveCount
<1>8. af.kind = "wave" /\ af.known => af.pos + n <= af.len
  BY <1>2, <1>3, <1>4, <1>6 DEF WaveCount
<1>9. PICK m : m = Total(af)
  OBVIOUS
<1>10. PICK r : r = Fetched(af, n)
  OBVIOUS
<1>11. /\ r \in Files /\ r.disk = af.disk /\ r.pend = <<>> /\ r.pos = af.pos /\ Len(r.buf) <= n
       /\ r.kind = af.kind /\ r.mode = af.mode /\ r.mmap = af.mmap /\ r.open = af.open
       /\ r.len = af.len /\ r.known = af.known /\ r.want = af.want
       /\ r.used = af.used /\ r.t = af.t
  <2>1. r \in Files /\ r.pend = <<>> /\ Len(r.buf) <= n
    BY <1>2, <1>5, <1>7, <1>10, FetchedIs
  <2>2. Unread(r, af)
    BY <1>2, <1>5, <1>7, <1>10, FetchedIs
  <2> QED BY <2>1, <2>2 DEF Unread
<1>12. \A k \in 1..Len(r.buf) :
         /\ af.pos + k <= m
         /\ af.pos + k <= Len(af.disk.data) => r.buf[k] = af.disk.data[af.pos + k]
  BY <1>2, <1>5, <1>7, <1>9, <1>10, FetchedIs
<1>13. IF af.mmap THEN /\ r.fpos = Lower(af.pos + Len(r.buf), m)
                       /\ (r.eof <=> af.pos + Len(r.buf) >= m)
       ELSE r.fpos = af.pos + Len(r.buf) /\ (r.eof => af.pos + Len(r.buf) >= m)
  BY <1>2, <1>5, <1>7, <1>9, <1>10, FetchedIs
<1>14. PICK c : c = af.pos + Len(r.buf)
  OBVIOUS
<1>15. c \in Nat /\ Len(r.buf) \in Nat
  BY <1>3, <1>11, <1>14 DEF Files, FileData
<1>16. PICK s : s = [r EXCEPT !.at = af.pos, !.pos = c]
  OBVIOUS
<1>17. s = ReadSamples(af)
  BY <1>4, <1>10, <1>11, <1>14, <1>16 DEF ReadSamples
<1>18. s \in Files
  BY <1>3, <1>11, <1>15, <1>16 DEF Files
<1>19. PICK q : q = s
  OBVIOUS
<1>20. q \in Files
  BY <1>18, <1>19 DEF Files
<1>21. /\ q.kind = af.kind /\ q.mode = af.mode /\ q.mmap = af.mmap
       /\ q.open /\ q.len = af.len /\ q.known = af.known /\ q.want = af.want
       /\ q.used /\ q.buf = r.buf /\ q.t = af.t /\ q.at = af.pos
       /\ q.disk = af.disk /\ q.pend = <<>> /\ q.pos = c /\ q.fpos = r.fpos /\ q.eof = r.eof
  BY <1>2, <1>11, <1>16, <1>18, <1>19, ZenonT(60) DEF Files
<1>22. Pending(q) = Pending(af) /\ Pending(af) = af.disk.data /\ Total(q) = m
  BY <1>2, <1>9, <1>21, NoneWaits DEF Total
<1>23. Content(q) /\ Waiting(q) /\ Header(q)
  BY <1>2, <1>21, <1>22 DEF Content, Waiting, Header
<1>24. There(q)
  BY <1>2, <1>13, <1>14, <1>21, <1>22 DEF There
<1>25. Lengths(q)
  <2>1. q.eof => c >= m
    BY <1>13, <1>14, <1>21
  <2> QED BY <1>2, <1>21, <1>22, <2>1 DEF Lengths
<1>26. Given(q)
  <2>1. Len(q.buf) <= AfBlock
    BY <1>2, <1>7, <1>11, <1>15, <1>21
  <2>2. PICK w : w = af.want
    OBVIOUS
  <2>3. PICK d : d = af.disk.data
    OBVIOUS
  <2>4. w \in FileData /\ d \in FileData /\ Len(w) \in Nat /\ Len(d) \in Nat /\ Len(af.disk.tail) \in Nat
    BY <1>2, <2>2, <2>3 DEF Files, FileDisks, FileData
  <2>5. Padded(d, w) /\ (af.kind # "cdr" => d = w)
    BY <1>2, <1>22, <2>2, <2>3 DEF Content
  <2>6. af.disk.tail = <<>> => m = Len(d)
    <3>1. Len(<<>>) = 0
      OBVIOUS
    <3> QED BY <1>9, <2>3, <2>4, <3>1 DEF Total
  <2>7. ASSUME NEW k \in 1..Len(r.buf)
        PROVE  IF af.pos + k <= Len(w) THEN r.buf[k] = w[af.pos + k]
               ELSE af.kind = "cdr" /\ r.buf[k] = 0
    <3>1. /\ af.pos + k <= m
          /\ af.pos + k <= Len(d) => r.buf[k] = d[af.pos + k]
      BY <1>12, <2>3
    <3>2. PICK i : i = af.pos + k
      OBVIOUS
    <3>3. i \in Nat /\ i >= 1 /\ i <= af.pos + n /\ k \in Nat
      BY <1>3, <1>7, <1>11, <1>15, <3>2
    <3>4. CASE i <= Len(w)
      <4>1. i \in 1..Len(w) /\ i <= Len(d)
        BY <2>4, <2>5, <3>3, <3>4 DEF Padded
      <4>2. d[i] = w[i]
        BY <2>5, <4>1 DEF Padded
      <4> QED BY <3>1, <3>2, <3>4, <4>1, <4>2
    <3>5. CASE ~(i <= Len(w))
      <4>1. af.kind = "cdr"
        <5>1. SUFFICES ASSUME af.kind # "cdr" PROVE FALSE
          OBVIOUS
        <5>2. d = w
          BY <2>5, <5>1
        <5>3. af.disk.tail # <<>>
          BY <2>4, <2>6, <3>1, <3>2, <3>3, <3>5, <5>2
        <5>4. af.kind = "wave" /\ af.mode = "read"
          BY <1>2, <1>3, <5>3 DEF Header
        <5>5. af.known /\ af.len = Len(w)
          BY <1>2, <2>2, <5>1, <5>4 DEF Lengths
        <5> QED BY <1>3, <1>7, <1>8, <2>4, <3>3, <3>5, <5>4, <5>5
      <4>2. af.disk.tail = <<>>
        BY <1>2, <4>1 DEF Header
      <4>3. i \in 1..Len(d) /\ i > Len(w)
        BY <2>4, <2>6, <3>1, <3>2, <3>3, <3>5, <4>2
      <4>4. d[i] = 0
        BY <2>5, <4>3 DEF Padded
      <4>5. r.buf[k] = 0
        BY <3>1, <3>2, <4>3, <4>4
      <4> QED BY <3>2, <3>5, <4>1, <4>5
    <3> QED BY <3>2, <3>4, <3>5
  <2> QED BY <1>21, <2>1, <2>2, <2>7 DEF Given
<1>27. Sectors(q)
  BY <1>21 DEF Sectors
<1>28. FileKept(q)
  BY <1>20, <1>23, <1>24, <1>25, <1>26, <1>27 DEF FileKept
<1> QED BY <1>1, <1>17, <1>19, <1>21, <1>28, FileCallKeeps

-----------------------------------------------------------------------------
(* Writing, closing, and the end of the program.                           *)

\* No write that waits makes the file shorter.
LEMMA LessWaits ==
  ASSUME NEW o \in Files, Waiting(o), NEW k \in 0..Len(o.pend)
  PROVE  Len(o.disk.data) <= Len(After(o, k)) /\ Len(o.disk.data) \in Nat
<1>1. o.pend \in Seq(FileData) /\ Len(o.disk.data) \in Nat
  BY DEF Files, FileDisks, FileData
<1>2. CASE k = 0
  BY <1>1, <1>2 DEF After
<1>3. CASE k # 0
  <2>1. k \in 1..Len(o.pend)
    BY <1>1, <1>3
  <2>2. After(o, k) = o.pend[k]
    BY <1>3 DEF After
  <2> QED BY <1>1, <2>1, <2>2 DEF Waiting
<1> QED BY <1>2, <1>3

\* A write waits after the others.
LEMMA WrittenIs ==
  ASSUME NEW o \in Files, Waiting(o), NEW block \in FileData, block # <<>>,
         NEW q, q = Written(o, block)
  PROVE  /\ q \in Files /\ Pending(q) = Over(Pending(o), o.fpos, block)
         /\ q.fpos = o.fpos + Len(block) /\ q.disk = o.disk /\ Alike(q, o)
         /\ q.pos = o.pos /\ q.eof = o.eof
         /\ \A k \in 1..Len(q.pend) : Len(q.disk.data) <= Len(q.pend[k])
<1>1. PICK p : p = Over(Pending(o), o.fpos, block)
  OBVIOUS
<1>2. Pending(o) \in FileData /\ Len(Pending(o)) \in Nat
  BY PendingTyped
<1>3. o.fpos \in Nat /\ o.pend \in Seq(FileData) /\ Len(block) \in Nat
  BY DEF Files, FileData
<1>4. p \in FileData /\ Len(p) = Upper(Len(Pending(o)), o.fpos + Len(block))
  <2>1. p \in FileData
    BY <1>1, <1>2, <1>3, OverIs
  <2>2. Len(p) = Upper(Len(Pending(o)), o.fpos + Len(block))
    BY <1>1, <1>2, <1>3, OverIs
  <2> QED BY <2>1, <2>2
<1>5. PICK l : l = Append(o.pend, p)
  OBVIOUS
<1>6. /\ l \in Seq(FileData) /\ Len(l) = Len(o.pend) + 1
      /\ \A i \in 1..Len(o.pend) : l[i] = o.pend[i]
      /\ l[Len(o.pend) + 1] = p
  BY <1>3, <1>4, <1>5
<1>7. PICK f : f = o.fpos + Len(block)
  OBVIOUS
<1>8. f \in Nat
  BY <1>3, <1>7
<1>9. q = [o EXCEPT !.pend = l, !.fpos = f]
  BY <1>1, <1>5, <1>7 DEF Written, Files
<1>10. q \in Files
  BY <1>6, <1>8, <1>9 DEF Files
<1>11. /\ q.pend = l /\ q.disk = o.disk /\ q.fpos = f /\ q.pos = o.pos /\ q.eof = o.eof
       /\ q.kind = o.kind /\ q.mode = o.mode /\ q.mmap = o.mmap /\ q.scale = o.scale
       /\ q.open = o.open /\ q.len = o.len /\ q.known = o.known /\ q.want = o.want
       /\ q.used = o.used /\ q.t = o.t /\ q.buf = o.buf /\ q.at = o.at
  BY <1>9 DEF Files
<1>12. Pending(q) = p
  <2>1. Len(l) # 0 /\ l[Len(l)] = p
    BY <1>3, <1>6
  <2> QED BY <1>11, <2>1 DEF Pending, After
<1>13. PICK n : n = Len(o.disk.data)
  OBVIOUS
<1>14. n \in Nat /\ n <= Len(Pending(o))
  <2>1. Len(o.pend) \in 0..Len(o.pend)
    BY <1>3
  <2> QED BY <1>13, <2>1, LessWaits DEF Pending
<1>15. n <= Len(p)
  BY <1>2, <1>3, <1>4, <1>14 DEF Upper
<1>16. \A k \in 1..Len(l) : n <= Len(l[k])
  <2> TAKE k \in 1..Len(l)
  <2>1. CASE k = Len(o.pend) + 1
    BY <1>6, <1>15, <2>1
  <2>2. CASE k # Len(o.pend) + 1
    <3>1. k \in 1..Len(o.pend)
      BY <1>3, <1>6, <2>2
    <3>2. n <= Len(o.pend[k])
      BY <1>13, <3>1 DEF Waiting
    <3> QED BY <1>6, <3>1, <3>2
  <2> QED BY <2>1, <2>2
<1> QED BY <1>1, <1>7, <1>10, <1>11, <1>12, <1>13, <1>16 DEF Alike

\* A write changes what is kept as it changes what is wanted.
LEMMA FileWriteKeeps ==
  ASSUME AfAssumption, AfInv, AfWrite
  PROVE  AfInv'
<1>1. PICK block : block = [n \in 1..AfBlock |-> 10 * af.t + n]
  OBVIOUS
<1>2. Calls([WriteSamples(af, block) EXCEPT !.buf = <<>>], "none")
  BY <1>1 DEF AfWrite
<1>3. /\ af \in Files /\ af.open /\ AfBlock \in Nat \ {0} /\ af.used /\ af.mode # "read"
      /\ Content(af) /\ Waiting(af) /\ Header(af) /\ There(af) /\ Lengths(af)
  BY DEF AfInv, FileKept, AfWrite, AfAssumption, Lengths
<1>4. /\ af.pos \in Nat /\ af.len \in Nat /\ af.t \in Nat /\ af.known \in BOOLEAN
      /\ af.want \in FileData /\ ~af.mmap /\ af.fpos = af.pos
  <2>1. af.t \in Nat
    BY <1>3 DEF Files, AfAssumption
  <2> QED BY <1>3, <2>1 DEF Files, There
<1>5. block \in FileData /\ Len(block) = AfBlock /\ block # <<>>
  <2>1. block \in [1..AfBlock -> Int]
    BY <1>1, <1>3, <1>4
  <2>2. block \in FileData /\ Len(block) = AfBlock
    BY <1>3, <2>1, SeqDef DEF FileData
  <2> QED BY <1>3, <2>2
<1>6. PICK w : w = Written(af, block)
  OBVIOUS
<1>7. PICK p : p = Pending(af)
  OBVIOUS
<1>8. p \in FileData /\ Len(p) \in Nat
  BY <1>3, <1>7, PendingTyped
<1>9. PICK p1 : p1 = Over(p, af.pos, block)
  OBVIOUS
<1>10. PICK w1 : w1 = Over(af.want, af.pos, block)
  OBVIOUS
<1>11. /\ w \in Files /\ Pending(w) = p1
       /\ w.fpos = af.pos + AfBlock /\ w.disk = af.disk /\ Alike(w, af) /\ w.pos = af.pos
       /\ \A k \in 1..Len(w.pend) : Len(w.disk.data) <= Len(w.pend[k])
  <2>1. w \in Files /\ Pending(w) = Over(Pending(af), af.fpos, block)
    BY <1>3, <1>5, <1>6, WrittenIs
  <2>2. w.fpos = af.fpos + Len(block)
    BY <1>3, <1>5, <1>6, WrittenIs
  <2>3. w.disk = af.disk /\ Alike(w, af) /\ w.pos = af.pos
    BY <1>3, <1>5, <1>6, WrittenIs
  <2>4. \A k \in 1..Len(w.pend) : Len(w.disk.data) <= Len(w.pend[k])
    BY <1>3, <1>5, <1>6, WrittenIs
  <2> QED BY <1>4, <1>5, <1>7, <1>9, <2>1, <2>2, <2>3, <2>4
<1>12. p1 \in FileData /\ Len(p1) = Upper(Len(p), af.pos + AfBlock)
  <2>1. p1 \in FileData
    BY <1>4, <1>5, <1>8, <1>9, OverIs
  <2>2. Len(p1) = Upper(Len(p), af.pos + Len(block))
    <3>1. PICK from \in Nat : from = af.pos
      BY <1>4
    <3>2. p1 = Over(p, from, block)
      BY <1>9, <3>1
    <3>3. Len(p1) = Upper(Len(p), from + Len(block))
      BY ONLY <1>5, <1>8, <3>2, OverIs
    <3> QED BY <3>1, <3>3
  <2> QED BY <1>5, <2>1, <2>2
<1>13. w1 \in FileData
  BY <1>4, <1>5, <1>10, OverIs
<1>14. Padded(p1, w1) /\ (af.kind # "cdr" => p1 = w1)
  <2>1. Padded(p, af.want) /\ (af.kind # "cdr" => p = af.want)
    BY <1>3, <1>7 DEF Content
  <2>2. Padded(p1, w1)
    BY <1>4, <1>5, <1>8, <1>9, <1>10, <2>1, PaddedOver
  <2> QED BY <1>9, <1>10, <2>1, <2>2
<1>15. PICK c : c = af.pos + AfBlock
  OBVIOUS
<1>16. PICK l : l = Upper(af.len, c)
  OBVIOUS
<1>17. PICK b : b = (af.known \/ c > af.len)
  OBVIOUS
<1>18. c \in Nat /\ l \in Nat /\ l >= c /\ l >= af.len
  BY <1>3, <1>4, <1>15, <1>16 DEF Upper
<1>19. b \in BOOLEAN
  BY <1>4, <1>17
<1>20. w.len = af.len /\ w.known = af.known /\ w.want = af.want
  BY <1>11 DEF Alike
<1>21. PICK x : x = [w EXCEPT !.pos = c, !.len = l]
  OBVIOUS
<1>22. x \in Files
  BY <1>11, <1>18, <1>21 DEF Files
<1>23. PICK y : y = [x EXCEPT !.known = b]
  OBVIOUS
<1>24. y \in Files
  BY <1>19, <1>22, <1>23 DEF Files
<1>25. PICK z : z = [y EXCEPT !.want = w1]
  OBVIOUS
<1>26. z \in Files
  BY <1>13, <1>24, <1>25 DEF Files
<1>27. z = WriteSamples(af, block)
  <2>1. WriteSamples(af, block) =
          [w EXCEPT !.pos = af.pos + Len(block), !.len = Upper(@, af.pos + Len(block)),
                    !.known = @ \/ af.pos + Len(block) > af.len,
                    !.want = Over(@, af.pos, block)]
    BY <1>6 DEF WriteSamples
  <2>2. WriteSamples(af, block) =
          [w EXCEPT !.pos = c, !.len = l, !.known = b, !.want = w1]
    BY <1>5, <1>10, <1>11, <1>15, <1>16, <1>17, <1>20, <2>1 DEF Files
  <2> QED BY <1>11, <1>21, <1>23, <1>25, <2>2 DEF Files
<1>28. PICK q : q = [z EXCEPT !.buf = <<>>]
  OBVIOUS
<1>29. <<>> \in FileData /\ Len(<<>>) = 0
  BY DEF FileData
<1>30. q \in Files
  BY <1>26, <1>28, <1>29 DEF Files
<1>31. /\ q.kind = w.kind /\ q.mode = w.mode /\ q.mmap = w.mmap
       /\ q.open = w.open /\ q.len = l /\ q.known = b /\ q.want = w1
       /\ q.used = w.used /\ q.t = w.t /\ q.buf = <<>>
       /\ q.disk = w.disk /\ q.pend = w.pend /\ q.pos = c /\ q.fpos = w.fpos
  BY <1>21, <1>22, <1>23, <1>24, <1>25, <1>26, <1>28, <1>11 DEF Files
<1>32. /\ q.kind = af.kind /\ q.mode = af.mode /\ ~q.mmap /\ q.open /\ q.used
       /\ q.disk = af.disk /\ q.t = af.t /\ q.fpos = c /\ q.mode # "read"
  BY <1>3, <1>4, <1>11, <1>15, <1>31 DEF Alike
<1>33. Pending(q) = p1
  <2>1. Pending(q) = Pending(w)
    BY <1>31, SamePending
  <2> QED BY <1>11, <2>1
<1>34. Content(q)
  BY <1>14, <1>31, <1>32, <1>33 DEF Content
<1>35. Waiting(q) /\ Header(q)
  BY <1>3, <1>11, <1>31, <1>32 DEF Waiting, Header
<1>36. There(q)
  BY <1>31, <1>32 DEF There
<1>37. Lengths(q)
  <2>1. Len(p) <= af.len
    BY <1>3, <1>7 DEF Lengths
  <2>2. Len(p1) <= l /\ c <= Len(p1)
    BY <1>4, <1>8, <1>12, <1>15, <1>18, <2>1 DEF Upper
  <2> QED BY <1>31, <1>32, <1>33, <2>2 DEF Lengths
<1>38. Given(q) /\ Sectors(q)
  BY <1>3, <1>29, <1>31, <1>32 DEF Given, Sectors
<1>39. FileKept(q)
  BY <1>30, <1>34, <1>35, <1>36, <1>37, <1>38 DEF FileKept
<1> QED BY <1>2, <1>27, <1>28, <1>32, <1>39, FileCallKeeps

\* A file whose writes are done, however it got so, is kept when its object closes.
LEMMA ClosedKept ==
  ASSUME AfAssumption, NEW o, o \in Files, o.pend = <<>>, Content(o), o.used,
         o.kind # "wave" => o.disk.tail = <<>>,
         o.kind = "wave" => IF o.disk.dsize \in {0, AfMax} THEN o.disk.tail = <<>>
                            ELSE o.disk.dsize = Len(o.disk.data),
         o.kind = "cdr" /\ o.mode # "read" => Len(o.disk.data) % AfSector = 0,
         NEW q, q = [o EXCEPT !.open = FALSE, !.buf = <<>>]
  PROVE  FileKept(q) /\ q.t = o.t
<1>1. <<>> \in FileData /\ Len(<<>>) = 0
  BY DEF FileData
<1>2. q \in Files
  BY <1>1 DEF Files
<1>3. /\ q.kind = o.kind /\ q.mode = o.mode /\ ~q.open /\ q.want = o.want /\ q.used
      /\ q.buf = <<>> /\ q.disk = o.disk /\ q.pend = <<>> /\ q.t = o.t
  BY DEF Files
<1>4. Pending(q) = Pending(o)
  BY <1>3, SamePending
<1>5. Content(q)
  BY <1>3, <1>4 DEF Content
<1>6. Waiting(q) /\ There(q) /\ Lengths(q)
  BY <1>3 DEF Waiting, There, Lengths
<1>7. Header(q)
  BY <1>3 DEF Header
<1>8. Given(q)
  BY <1>1, <1>3 DEF Given, AfAssumption
<1>9. Sectors(q)
  BY <1>3 DEF Sectors
<1> QED BY <1>2, <1>3, <1>5, <1>6, <1>7, <1>8, <1>9 DEF FileKept

\* The header of a wave file, written when it is closed, tells its size.
LEMMA RiffIs ==
  ASSUME AfAssumption, NEW o, FileKept(o), o.open, o.mode # "read", o.kind = "wave",
         NEW q, q = UpdateRiff(o)
  PROVE  /\ q \in Files /\ q.pend = <<>> /\ Pending(q) = Pending(o) /\ q.disk.tail = <<>>
         /\ q.disk.dsize \in {0, AfMax} \/ q.disk.dsize = Len(q.disk.data)
         /\ q.kind = o.kind /\ q.mode = o.mode /\ q.want = o.want /\ q.used = o.used
         /\ q.t = o.t
<1>1. o \in Files /\ Header(o)
  BY DEF FileKept
<1>2. PICK f : f = Flushed(o)
  OBVIOUS
<1>3. /\ f \in Files /\ Alike(f, o) /\ f.pend = <<>> /\ f.disk.data = Pending(o)
  BY <1>1, <1>2, FlushedIs
<1>4. f.disk.tail = <<>> /\ f.open
  BY <1>1, <1>3 DEF Alike, Header
<1>5. PICK p : p = f.disk.data
  OBVIOUS
<1>6. p \in Seq(Int) /\ Len(p) \in Nat /\ f.disk \in FileDisks
  BY <1>3, <1>5 DEF Files, FileDisks, FileData
<1>7. p \o <<>> = p
  BY <1>6, ConcatEmptySeq
<1>8. PICK s : s = Lower(Len(p), AfMax)
  OBVIOUS
<1>9. s \in Nat /\ (s = AfMax \/ s = Len(p))
  BY <1>6, <1>8 DEF Lower, AfAssumption
<1>10. PICK d : d = [f.disk EXCEPT !.dsize = s, !.data = p, !.tail = <<>>]
  OBVIOUS
<1>11. /\ d \in FileDisks /\ d.dsize = s /\ d.data = p /\ d.tail = <<>>
  <2>1. p \in FileData /\ <<>> \in FileData
    BY <1>6 DEF FileData
  <2> QED BY <1>6, <1>9, <1>10, <2>1 DEF FileDisks
<1>12. PICK g : g = [f EXCEPT !.disk = d]
  OBVIOUS
<1>13. g \in Files /\ g.disk = d /\ g.pend = <<>> /\ g.open
  BY <1>3, <1>4, <1>11, <1>12 DEF Files
<1>14. q = WaveLength(g)
  <2>1. Len(f.disk.data) + Len(f.disk.tail) = Len(p)
    <3>1. Len(<<>>) = 0
      OBVIOUS
    <3> QED BY <1>4, <1>5, <1>6, <3>1
  <2>2. [f EXCEPT !.disk.dsize = s, !.disk.data = f.disk.data \o f.disk.tail, !.disk.tail = <<>>] = g
    BY <1>3, <1>4, <1>5, <1>7, <1>10, <1>12 DEF Files
  <2>3. q = WaveLength([f EXCEPT !.disk.dsize = Lower(Len(f.disk.data) + Len(f.disk.tail), AfMax),
                                 !.disk.data = f.disk.data \o f.disk.tail, !.disk.tail = <<>>])
    BY <1>2, <1>3 DEF UpdateRiff, Files
  <2>4. Lower(Len(f.disk.data) + Len(f.disk.tail), AfMax) = s
    BY <1>8, <2>1
  <2> QED BY <2>2, <2>3, <2>4
<1>15. PICK h : h = Flushed(g)
  OBVIOUS
<1>16. h \in Files /\ Alike(h, g) /\ h.pend = <<>> /\ h.disk.data = p
  <2>1. Pending(g) = p
    BY <1>11, <1>13, NoneWaits
  <2> QED BY <1>13, <1>15, <2>1, FlushedIs
<1>17. h.disk.tail = <<>> /\ h.disk.dsize = s /\ h.open
  BY <1>11, <1>13, <1>16 DEF Alike
<1>18. PICK n : n = IF s \notin {0, AfMax} THEN s ELSE Len(p)
  OBVIOUS
<1>19. n \in Nat
  BY <1>6, <1>9, <1>18
<1>20. q = [h EXCEPT !.len = n * 1, !.known = TRUE]
  <2>1. Len(h.disk.data) + Len(h.disk.tail) = Len(p)
    <3>1. Len(<<>>) = 0
      OBVIOUS
    <3> QED BY <1>6, <1>16, <1>17, <3>1
  <2> QED BY <1>13, <1>14, <1>15, <1>17, <1>18, <2>1 DEF WaveLength
<1>21. q = [h EXCEPT !.len = n, !.known = TRUE]
  <2>1. n * 1 = n
    BY <1>19
  <2> QED BY <1>20, <2>1
<1>22. q \in Files /\ q.disk = h.disk /\ q.pend = h.pend /\ q.kind = h.kind /\ q.mode = h.mode
       /\ q.want = h.want /\ q.used = h.used /\ q.t = h.t
  BY <1>16, <1>19, <1>21, ZenonT(60) DEF Files
<1>23. /\ h.kind = o.kind /\ h.mode = o.mode /\ h.want = o.want /\ h.used = o.used /\ h.t = o.t
  BY <1>3, <1>12, <1>16 DEF Alike, Files
<1>24. Pending(q) = Pending(o)
  <2>1. Pending(q) = q.disk.data
    BY <1>16, <1>22, NoneWaits
  <2> QED BY <1>3, <1>5, <1>16, <1>22, <2>1
<1> QED BY <1>9, <1>16, <1>17, <1>22, <1>23, <1>24

\* A CDR file is closed after whole sectors, and padding takes nothing away.
LEMMA CdrIs ==
  ASSUME AfAssumption, NEW o, FileKept(o), o.open, o.kind = "cdr",
         o.mode # "read" => AtEnd(o),
         NEW q, q = CdrClose(o)
  PROVE  /\ q \in Files /\ q.pend = <<>> /\ q.disk.tail = <<>> /\ Content(q)
         /\ q.mode # "read" => Len(q.disk.data) % AfSector = 0
         /\ q.kind = o.kind /\ q.mode = o.mode /\ q.used = o.used /\ q.t = o.t
<1>1. o \in Files /\ Header(o) /\ Content(o) /\ Waiting(o) /\ Lengths(o)
  BY DEF FileKept
<1>2. o.disk.tail = <<>>
  BY <1>1 DEF Header
<1>3. PICK p : p = Pending(o)
  OBVIOUS
<1>4. p \in FileData /\ Len(p) \in Nat /\ Padded(p, o.want) /\ o.want \in FileData
  BY <1>1, <1>3, PendingTyped DEF Content, Files
<1>5. ASSUME NEW x \in Files, x.kind = "cdr", x.want = o.want, Padded(Pending(x), o.want),
             x.mode = o.mode, x.used = o.used, x.t = o.t, x.disk.tail = <<>>,
             o.mode # "read" => Len(Pending(x)) % AfSector = 0, q = Flushed(x)
      PROVE  /\ q \in Files /\ q.pend = <<>> /\ q.disk.tail = <<>> /\ Content(q)
             /\ q.mode # "read" => Len(q.disk.data) % AfSector = 0
             /\ q.kind = o.kind /\ q.mode = o.mode /\ q.used = o.used /\ q.t = o.t
  <2>1. q \in Files /\ Alike(q, x) /\ q.pend = <<>> /\ q.disk.data = Pending(x)
    BY <1>5, FlushedIs
  <2>2. Pending(q) = Pending(x)
    BY <2>1, NoneWaits
  <2>3. q.disk.tail = <<>> /\ q.want = o.want /\ q.kind = "cdr" /\ q.mode = o.mode
        /\ q.used = o.used /\ q.t = o.t
    BY <1>5, <2>1 DEF Alike
  <2> QED BY <1>5, <2>1, <2>2, <2>3 DEF Content
<1>6. CASE o.mode = "read"
  <2>1. q = Flushed(o)
    BY <1>6 DEF CdrClose
  <2> QED BY <1>1, <1>2, <1>3, <1>4, <1>5, <1>6, <2>1
<1>7. CASE o.mode # "read"
  <2>1. Len(p) = o.len /\ o.fpos = Len(p)
    BY <1>3, <1>7 DEF AtEnd
  <2>2. PICK S : S = AfSector
    OBVIOUS
  <2>3. PICK pad : pad = S - (o.len % S)
    OBVIOUS
  <2>4. S \in Nat \ {0} /\ o.len \in Nat
    BY <1>1, <2>2 DEF AfAssumption, Files
  <2>5. (o.len + pad) % S = 0 /\ pad \in 1..S /\ (pad = S => o.len % S = 0)
    BY <2>3, <2>4, WholeSectors
  <2>6. CASE pad = S
    <3>1. q = Flushed(o)
      BY <1>7, <2>2, <2>3, <2>6 DEF CdrClose, PadToSectorsize
    <3>2. Len(p) % S = 0
      BY <2>1, <2>5, <2>6
    <3> QED BY <1>1, <1>2, <1>3, <1>4, <1>5, <2>2, <3>1, <3>2
  <2>7. CASE pad # S
    <3>1. PICK block : block = [n \in 1..pad |-> 0]
      OBVIOUS
    <3>2. PICK x : x = Written(o, block)
      OBVIOUS
    <3>3. q = Flushed(x)
      BY <1>7, <2>2, <2>3, <2>7, <3>1, <3>2 DEF CdrClose, PadToSectorsize
    <3>4. pad \in Nat \ {0}
      BY <2>4, <2>5
    <3>5. block \in FileData /\ block # <<>>
      <4>1. block \in [1..pad -> Int]
        BY <3>1
      <4>2. block \in FileData /\ Len(block) = pad
        BY <3>1, <3>4, <4>1, SeqDef DEF FileData
      <4> QED BY <3>4, <4>2
    <3>6. PICK y : y = Over(p, Len(p), block)
      OBVIOUS
    <3>7. x \in Files /\ Pending(x) = y /\ x.disk = o.disk /\ Alike(x, o)
      <4>1. Over(Pending(o), o.fpos, block) = y
        BY <1>3, <2>1, <3>6
      <4>2. x \in Files
        BY <1>1, <3>2, <3>5, WrittenIs
      <4>3. Pending(x) = Over(Pending(o), o.fpos, block) /\ x.disk = o.disk /\ Alike(x, o)
        BY <1>1, <3>2, <3>5, WrittenIs
      <4> QED BY <4>1, <4>2, <4>3
    <3>8. Padded(y, o.want) /\ Len(y) = Len(p) + pad
      BY <1>4, <3>1, <3>4, <3>6, PaddedMore
    <3>9. x.kind = "cdr" /\ x.want = o.want /\ x.mode = o.mode /\ x.used = o.used /\ x.t = o.t
      BY <3>7 DEF Alike
    <3>10. x.disk.tail = <<>>
      BY <1>2, <3>7
    <3>11. Len(Pending(x)) % AfSector = 0
      BY <2>1, <2>2, <2>5, <3>7, <3>8
    <3> QED BY <1>5, <3>3, <3>7, <3>8, <3>9, <3>10, <3>11
  <2> QED BY <2>6, <2>7
<1> QED BY <1>6, <1>7

\* A close leaves what was written, with a header that tells its size.
LEMMA FileCloseKeeps ==
  ASSUME AfAssumption, AfInv, AfClose, afLost = "none", afLost' = "none"
  PROVE  AfInv'
<1>0. PICK why : /\ why = Loses("padding", af.kind = "cdr" /\ af.mode # "read" /\ ~AtEnd(af))
                 /\ Calls(FileClosed(af), why)
  BY DEF AfClose
<1>1. /\ af \in Files /\ af.open /\ af.used /\ FileKept(af)
      /\ Content(af) /\ Waiting(af) /\ Header(af)
      /\ af.kind = "cdr" /\ af.mode # "read" => AtEnd(af)
  <2>1. why = "none"
    BY <1>0 DEF Calls
  <2>2. af.kind = "cdr" /\ af.mode # "read" => AtEnd(af)
    BY <1>0, <2>1 DEF Loses
  <2> QED BY <2>2 DEF AfInv, FileKept, AfClose, Lengths
<1>2. af.kind \in {"wave", "raw", "cdr"}
  BY <1>1 DEF Files
<1>3. PICK o : o = CASE af.kind = "wave" -> WaveClose(af)
                     [] af.kind = "raw" -> RawClose(af)
                     [] af.kind = "cdr" -> CdrClose(af)
  OBVIOUS
<1>4. PICK q : q = [o EXCEPT !.open = FALSE, !.buf = <<>>]
  OBVIOUS
<1>5. q = FileClosed(af)
  BY <1>3, <1>4 DEF FileClosed
<1>6. /\ o \in Files /\ o.pend = <<>> /\ Content(o) /\ o.used /\ o.t = af.t
      /\ o.kind # "wave" => o.disk.tail = <<>>
      /\ o.kind = "wave" => IF o.disk.dsize \in {0, AfMax} THEN o.disk.tail = <<>>
                            ELSE o.disk.dsize = Len(o.disk.data)
      /\ o.kind = "cdr" /\ o.mode # "read" => Len(o.disk.data) % AfSector = 0
  <2>1. CASE af.kind = "wave" /\ af.mode = "read"
    <3>1. o = af
      BY <1>3, <2>1 DEF WaveClose
    <3>2. af.pend = <<>>
      BY <1>1, <2>1 DEF Waiting
    <3>3. IF af.disk.dsize \in {0, AfMax} THEN af.disk.tail = <<>>
          ELSE af.disk.dsize = Len(af.disk.data)
      BY <1>1, <2>1 DEF Header
    <3> QED BY <1>1, <2>1, <3>1, <3>2, <3>3
  <2>2. CASE af.kind = "wave" /\ af.mode # "read"
    <3>1. o = UpdateRiff(af)
      BY <1>3, <2>2 DEF WaveClose
    <3>2. /\ o \in Files /\ o.pend = <<>> /\ Pending(o) = Pending(af) /\ o.disk.tail = <<>>
          /\ o.disk.dsize \in {0, AfMax} \/ o.disk.dsize = Len(o.disk.data)
          /\ o.kind = af.kind /\ o.mode = af.mode /\ o.want = af.want /\ o.used = af.used
          /\ o.t = af.t
      BY <1>1, <2>2, <3>1, RiffIs
    <3>3. Content(o)
      BY <1>1, <3>2 DEF Content
    <3> QED BY <1>1, <2>2, <3>2, <3>3
  <2>3. CASE af.kind = "raw"
    <3>1. o = Flushed(af)
      BY <1>3, <2>3 DEF RawClose
    <3>2. o \in Files /\ Alike(o, af) /\ o.pend = <<>> /\ o.disk.data = Pending(af)
      BY <1>1, <3>1, FlushedIs
    <3>3. Pending(o) = Pending(af)
      BY <3>2, NoneWaits
    <3>4. o.kind = "raw" /\ o.used /\ o.t = af.t /\ o.want = af.want /\ o.disk.tail = af.disk.tail
      BY <1>1, <2>3, <3>2 DEF Alike
    <3>5. Content(o)
      BY <1>1, <2>3, <3>3, <3>4 DEF Content
    <3>6. o.disk.tail = <<>>
      BY <1>1, <2>3, <3>4 DEF Header
    <3> QED BY <3>2, <3>4, <3>5, <3>6
  <2>4. CASE af.kind = "cdr"
    <3>1. o = CdrClose(af)
      BY <1>3, <2>4
    <3>2. /\ o \in Files /\ o.pend = <<>> /\ o.disk.tail = <<>> /\ Content(o)
          /\ o.mode # "read" => Len(o.disk.data) % AfSector = 0
          /\ o.kind = af.kind /\ o.mode = af.mode /\ o.used = af.used /\ o.t = af.t
      BY <1>1, <2>4, <3>1, CdrIs
    <3> QED BY <1>1, <2>4, <3>2
  <2> QED BY <1>2, <2>1, <2>2, <2>3, <2>4
<1>7. FileKept(q) /\ q.t = o.t
  BY <1>4, <1>6, ClosedKept
<1> QED BY <1>0, <1>5, <1>6, <1>7, FileCallKeeps

\* What the header of a wave file says of it.
LEMMA DataOnlyIs ==
  ASSUME NEW o \in Files, o.open, Waiting(o), Header(o), NEW c \in FileData,
         Len(o.disk.data) <= Len(c), NEW e, e = DataOnly(o, c)
  PROVE  /\ e \in FileData
         /\ IF o.kind = "wave" /\ o.disk.dsize \notin {0, AfMax} THEN Len(e) = o.disk.dsize
            ELSE e = c
<1>1. PICK n : n = o.disk.dsize
  OBVIOUS
<1>2. PICK m : m = Len(c)
  OBVIOUS
<1>4. n \in Nat /\ m \in Nat /\ c \in Seq(Int) /\ Len(o.disk.data) \in Nat
  BY <1>1, <1>2, SMTT(30) DEF Files, FileDisks, FileData
<1>5. o.mode \in {"read", "write", "readwrite"}
  BY DEF Files
<1>6. CASE o.kind = "wave" /\ n \notin {0, AfMax}
  <2>1. n <= Len(o.disk.data)
    BY <1>1, <1>4, <1>6 DEF Header
  <2>2. n <= m
    BY <1>2, <1>4, <2>1
  <2>3. e = SubSeq(c, 1, n)
    <3>1. Lower(n, m) = n
      BY <1>4, <2>2 DEF Lower
    <3>2. e = SubSeq(c, 1, Lower(n, m))
      BY <1>1, <1>2, <1>6 DEF DataOnly
    <3> QED BY <3>1, <3>2
  <2>4. \A i \in 1..n : c[i] \in Int
    BY <1>2, <1>4, <2>2
  <2>5. e \in Seq(Int) /\ Len(e) = n
    <3>1. 1 \in Int /\ n \in Int
      BY <1>4
    <3>2. e \in Seq(Int) /\ Len(e) = IF 1 <= n THEN n - 1 + 1 ELSE 0
      BY <2>3, <2>4, <3>1, SubSeqProperties
    <3> QED BY <1>4, <3>2
  <2> QED BY <1>1, <1>6, <2>5 DEF FileData
<1>7. CASE ~(o.kind = "wave" /\ n \notin {0, AfMax})
  BY <1>1, <1>7 DEF DataOnly
<1> QED BY <1>6, <1>7

\* What it does not count is behind the data then.
LEMMA RestIs ==
  ASSUME NEW c \in FileData, NEW e \in FileData, NEW a, a = Len(e) + 1, NEW b, b = Len(c),
         NEW h, h = SubSeq(c, a, b)
  PROVE  h \in FileData /\ (e = c => h = <<>>)
<1>1. PICK m : m = Len(c)
  OBVIOUS
<1>2. PICK lo : lo = Len(e) + 1
  OBVIOUS
<1>3. m \in Nat /\ lo \in Nat /\ lo >= 1 /\ h = SubSeq(c, lo, m)
  BY <1>1, <1>2 DEF FileData
<1>4. \A i \in lo..m : c[i] \in Int
  BY <1>1, <1>3 DEF FileData
<1>5. h \in Seq(Int)
  <2>1. lo \in Int /\ m \in Int
    BY <1>3
  <2>2. SubSeq(c, lo, m) \in Seq(Int)
    BY ONLY <1>4, <2>1, SubSeqProperties
  <2> QED BY <1>3, <2>2
<1>6. h \in FileData
  BY <1>5 DEF FileData
<1>7. ASSUME e = c PROVE h = <<>>
  <2>1. lo \in Int /\ m \in Int /\ m < lo
    BY <1>1, <1>2, <1>3, <1>7
  <2>2. SubSeq(c, lo, m) = <<>>
    BY ONLY <2>1, SubSeqEmpty
  <2> QED BY <1>3, <2>2
<1> QED BY <1>6, <1>7

\* The end of the program keeps what was written so far, and no header lies about it.
LEMMA FileCrashKeeps ==
  ASSUME AfAssumption, AfInv, AfCrash
  PROVE  AfInv'
<1>1. /\ af \in Files /\ af.open /\ Waiting(af) /\ Header(af)
  BY DEF AfInv, FileKept, AfCrash
<1>2. PICK k \in 0..Len(af.pend) :
        Calls([af EXCEPT !.open = FALSE, !.disk.data = DataOnly(af, After(af, k)),
                 !.disk.tail = SubSeq(After(af, k), Len(DataOnly(af, After(af, k))) + 1, Len(After(af, k))) \o @,
                 !.pend = <<>>, !.buf = <<>>, !.pos = 0, !.len = 0, !.known = FALSE,
                 !.want = DataOnly(af, After(af, k)), !.used = FALSE], "none")
  BY DEF AfCrash
<1>30. PICK w : w = After(af, k)
  OBVIOUS
<1>31. w \in FileData /\ Len(w) \in Nat
  BY <1>1, <1>30, AfterTyped
<1>32. Len(af.disk.data) <= Len(w)
  BY <1>1, <1>30, LessWaits
<1>3. PICK c : c = DataOnly(af, w)
  OBVIOUS
<1>36. PICK h : h = SubSeq(w, Len(c) + 1, Len(w))
  OBVIOUS
<1>33. PICK g : g = h \o af.disk.tail
  OBVIOUS
<1>37. /\ c \in FileData /\ g \in FileData
       /\ IF af.kind = "wave" /\ af.disk.dsize \notin {0, AfMax} THEN Len(c) = af.disk.dsize
          ELSE c = w /\ g = af.disk.tail
  <2>1. w \in FileData /\ Len(af.disk.data) <= Len(w)
    BY <1>31, <1>32
  <2>2. /\ c \in FileData
        /\ IF af.kind = "wave" /\ af.disk.dsize \notin {0, AfMax} THEN Len(c) = af.disk.dsize
           ELSE c = w
    BY <1>1, <2>1, <1>3, DataOnlyIs
  <2>3. PICK t : t = af.disk.tail
    OBVIOUS
  <2>4. t \in FileData /\ g = h \o t
    BY <1>1, <1>33, <2>3 DEF Files, FileDisks
  <2>5. PICK a : a = Len(c) + 1
    OBVIOUS
  <2>6. PICK b : b = Len(w)
    OBVIOUS
  <2>7. h = SubSeq(w, a, b)
    BY <1>36, <2>5, <2>6
  <2>9. h \in FileData
    BY ONLY <2>1, <2>2, <2>5, <2>6, <2>7, RestIs
  <2>10. c = w => h = <<>>
    BY ONLY <2>1, <2>2, <2>5, <2>6, <2>7, RestIs
  <2>11. h \in Seq(Int) /\ t \in Seq(Int)
    BY <2>4, <2>9 DEF FileData
  <2>8. g \in FileData /\ (w = c => g = t)
    <3>1. h \o t \in Seq(Int)
      BY <2>11
    <3>2. <<>> \o t = t
      BY <2>11, ConcatEmptySeq
    <3> QED BY <2>4, <2>10, <3>1, <3>2 DEF FileData
  <2> QED BY <2>2, <2>3, <2>8
<1>34. c \in FileData /\ g \in FileData
  BY <1>37
<1>35. IF af.kind = "wave" /\ af.disk.dsize \notin {0, AfMax} THEN Len(c) = af.disk.dsize
       ELSE g = af.disk.tail
  BY <1>37
<1>4. c \in FileData /\ Len(c) \in Nat
  BY <1>34 DEF FileData
<1>6. af.disk \in FileDisks /\ af.disk.dsize \in Nat
  BY <1>1 DEF Files, FileDisks
<1>7. PICK d : d = [af.disk EXCEPT !.data = c, !.tail = g]
  OBVIOUS
<1>8. d \in FileDisks /\ d.data = c /\ d.tail = g /\ d.dsize = af.disk.dsize
  BY <1>34, <1>6, <1>7 DEF FileDisks
<1>9. <<>> \in FileData /\ <<>> \in Seq(FileData) /\ Len(<<>>) = 0
  BY DEF FileData
<1>10. PICK x : x = [af EXCEPT !.open = FALSE, !.disk = d]
  OBVIOUS
<1>11. x \in Files
  BY <1>1, <1>8, <1>10 DEF Files
<1>12. PICK y : y = [x EXCEPT !.pend = <<>>, !.buf = <<>>]
  OBVIOUS
<1>13. y \in Files
  BY <1>9, <1>11, <1>12 DEF Files
<1>14. PICK z : z = [y EXCEPT !.pos = 0, !.len = 0]
  OBVIOUS
<1>15. z \in Files
  BY <1>13, <1>14 DEF Files
<1>16. PICK v : v = [z EXCEPT !.known = FALSE, !.want = c]
  OBVIOUS
<1>17. v \in Files
  BY <1>4, <1>15, <1>16 DEF Files
<1>18. PICK q : q = [v EXCEPT !.used = FALSE]
  OBVIOUS
<1>19. q \in Files
  BY <1>17, <1>18 DEF Files
<1>20. q = [af EXCEPT !.open = FALSE, !.disk.data = c, !.disk.tail = g, !.pend = <<>>, !.buf = <<>>,
                      !.pos = 0, !.len = 0, !.known = FALSE, !.want = c, !.used = FALSE]
  BY <1>1, <1>7, <1>10, <1>12, <1>14, <1>16, <1>18 DEF Files
<1>21. /\ q.kind = af.kind /\ q.disk = d /\ q.pend = <<>> /\ q.buf = <<>> /\ ~q.open
       /\ q.pos = 0 /\ q.len = 0 /\ ~q.known /\ q.want = c /\ ~q.used /\ q.t = af.t
  <2>1. /\ q.kind = v.kind /\ q.disk = v.disk /\ q.pend = v.pend /\ q.buf = v.buf /\ q.open = v.open
        /\ q.pos = v.pos /\ q.len = v.len /\ q.known = v.known /\ q.want = v.want /\ ~q.used /\ q.t = v.t
    BY <1>17, <1>18 DEF Files
  <2>2. /\ v.kind = z.kind /\ v.disk = z.disk /\ v.pend = z.pend /\ v.buf = z.buf /\ v.open = z.open
        /\ v.pos = z.pos /\ v.len = z.len /\ ~v.known /\ v.want = c /\ v.t = z.t
    BY <1>15, <1>16 DEF Files
  <2>3. /\ z.kind = y.kind /\ z.disk = y.disk /\ z.pend = y.pend /\ z.buf = y.buf /\ z.open = y.open
        /\ z.pos = 0 /\ z.len = 0 /\ z.t = y.t
    BY <1>13, <1>14 DEF Files
  <2>4. /\ y.kind = x.kind /\ y.disk = x.disk /\ y.pend = <<>> /\ y.buf = <<>> /\ y.open = x.open
        /\ y.t = x.t
    BY <1>11, <1>12 DEF Files
  <2>5. x.kind = af.kind /\ x.disk = d /\ ~x.open /\ x.t = af.t
    BY <1>1, <1>10 DEF Files
  <2> QED BY <2>1, <2>2, <2>3, <2>4, <2>5
<1>22. Pending(q) = c
  BY <1>8, <1>21, NoneWaits
<1>23. Content(q)
  BY <1>4, <1>21, <1>22 DEF Content, Padded
<1>24. Waiting(q)
  BY <1>21 DEF Waiting
<1>25. Header(q)
  <2>1. af.kind # "wave" => d.tail = <<>>
    BY <1>1, <1>8, <1>35 DEF Header
  <2>2. ASSUME af.kind = "wave"
        PROVE  IF d.dsize \in {0, AfMax} THEN d.tail = <<>> ELSE d.dsize = Len(d.data)
    <3>1. CASE d.dsize \in {0, AfMax}
      <4>1. af.disk.tail = <<>>
        BY <1>1, <1>8, <2>2, <3>1 DEF Header
      <4> QED BY <1>8, <1>35, <3>1, <4>1
    <3>2. CASE d.dsize \notin {0, AfMax}
      BY <1>8, <1>35, <2>2, <3>2
    <3> QED BY <3>1, <3>2
  <2> QED BY <1>8, <1>21, <2>1, <2>2 DEF Header
<1>26. There(q) /\ Lengths(q) /\ Sectors(q)
  BY <1>21 DEF There, Lengths, Sectors
<1>27. Given(q)
  BY <1>9, <1>21 DEF Given, AfAssumption
<1>28. FileKept(q)
  BY <1>19, <1>23, <1>24, <1>25, <1>26, <1>27 DEF FileKept
<1>29. Calls(q, "none")
  <2>1. q = [af EXCEPT !.open = FALSE, !.disk.data = c, !.disk.tail = SubSeq(w, Len(c) + 1, Len(w)) \o @,
                       !.pend = <<>>, !.buf = <<>>, !.pos = 0, !.len = 0, !.known = FALSE, !.want = c,
                       !.used = FALSE]
    BY <1>1, <1>20, <1>33, <1>36 DEF Files, FileDisks
  <2> QED BY <1>2, <1>3, <1>30, <2>1
<1> QED BY <1>21, <1>28, <1>29, FileCallKeeps

-----------------------------------------------------------------------------
(* Opening.                                                                *)

\* An object that has found, or made, the file it opens.
Made(o) ==
  /\ o \in Files /\ o.pend = <<>> /\ Content(o)
  /\ o.kind # "wave" => o.disk.tail = <<>>
  /\ o.mode = "read" =>
       /\ o.kind = "wave" =>
            /\ o.known
            /\ IF o.disk.dsize \in {0, AfMax} THEN o.disk.tail = <<>>
               ELSE o.disk.dsize = Len(o.disk.data)
       /\ o.kind # "cdr" => o.len = Len(o.want)
  /\ o.mode # "read" =>
       /\ o.disk.tail = <<>> /\ Len(o.disk.data) <= o.len
       /\ o.kind = "wave" => o.disk.dsize \in {0, AfMax} \/ o.disk.dsize <= Len(o.disk.data)

\* What opening a file of a kind makes of it.
MadeOf(o) ==
  CASE o.kind = "wave" -> WaveOpen(o) [] o.kind = "raw" -> RawOpen(o) [] o.kind = "cdr" -> CdrOpen(o)

\* A file that is opened is taken as it is, or emptied.
LEMMA OpenMakes ==
  ASSUME AfAssumption, NEW o, o \in Files, ~o.open, o.pend = <<>>, Content(o), Header(o),
         o.scale = 1, o.mode = "readwrite" => o.disk.tail = <<>>,
         NEW q, q = MadeOf(o)
  PROVE  /\ Made(q) /\ q.kind = o.kind /\ q.mode = o.mode /\ q.mmap = o.mmap /\ q.t = o.t
<1>1. PICK p : p = o.disk.data
  OBVIOUS
<1>2. p \in FileData /\ Len(p) \in Nat /\ o.disk.dsize \in Nat /\ o.disk \in FileDisks
  BY <1>1, SMTT(30) DEF Files, FileDisks, FileData
<1>3. o.kind \in {"wave", "raw", "cdr"} /\ o.mode \in {"read", "write", "readwrite"}
  BY DEF Files
<1>4. Pending(o) = p /\ Padded(p, o.want) /\ (o.kind # "cdr" => o.want = p)
  BY <1>1, NoneWaits DEF Content
<1>5. o.kind # "wave" => o.disk.tail = <<>>
  BY DEF Header
<1>6. o.kind = "wave" => IF o.disk.dsize \in {0, AfMax} THEN o.disk.tail = <<>>
                         ELSE o.disk.dsize = Len(p)
  BY <1>1 DEF Header
<1>7. PICK t : t = Truncated(o)
  OBVIOUS
<1>8. <<>> \in FileData /\ Len(<<>>) = 0
  BY DEF FileData
<1>9. PICK e : e = Empty
  OBVIOUS
<1>10. e \in FileDisks /\ e.data = <<>> /\ e.tail = <<>> /\ e.dsize = 0
  BY <1>8, <1>9 DEF FileDisks, Empty
<1>11. t = [o EXCEPT !.disk = e, !.want = <<>>]
  BY <1>7, <1>9 DEF Truncated
<1>12. t \in Files
  BY <1>8, <1>10, <1>11 DEF Files
<1>13. /\ t.disk = e /\ t.want = <<>> /\ t.pend = <<>> /\ t.kind = o.kind /\ t.mode = o.mode
       /\ t.mmap = o.mmap /\ t.t = o.t /\ t.len = o.len /\ ~t.open
  BY <1>11 DEF Files
<1>14. Pending(t) = <<>> /\ Content(t)
  <2>1. Pending(t) = <<>>
    BY <1>10, <1>13, NoneWaits
  <2> QED BY <1>8, <1>13, <2>1 DEF Content, Padded
<1>15. CASE o.kind = "wave" /\ (o.mode = "write" \/ (o.mode = "readwrite" /\ ~o.disk.there))
  <2>1. q = t
    BY <1>7, <1>15 DEF MadeOf, WaveOpen
  <2>2. t.len \in Nat
    BY <1>12 DEF Files
  <2> QED BY <1>8, <1>10, <1>12, <1>13, <1>14, <1>15, <2>1, <2>2 DEF Made
<1>16. CASE o.kind = "wave" /\ ~(o.mode = "write" \/ (o.mode = "readwrite" /\ ~o.disk.there))
  <2>1. q = WaveLength(o)
    BY <1>16 DEF MadeOf, WaveOpen
  <2>2. PICK f : f = Flushed(o)
    OBVIOUS
  <2>3. f \in Files /\ Alike(f, o) /\ f.pend = <<>> /\ f.disk.data = p
    BY <1>4, <2>2, FlushedIs
  <2>4. /\ f.kind = "wave" /\ f.mode = o.mode /\ f.mmap = o.mmap /\ f.t = o.t /\ f.want = p
        /\ f.disk.tail = o.disk.tail /\ f.disk.dsize = o.disk.dsize
    BY <1>4, <1>16, <2>3 DEF Alike
  <2>5. PICK n : n = IF f.disk.dsize \notin {0, AfMax} THEN f.disk.dsize
                     ELSE Len(f.disk.data) + Len(f.disk.tail)
    OBVIOUS
  <2>6. n = Len(p)
    BY <1>2, <1>6, <1>8, <1>16, <2>3, <2>4, <2>5
  <2>7. q = [f EXCEPT !.len = n * (IF o.mode = "readwrite" /\ ~o.open THEN o.scale ELSE 1),
                      !.known = TRUE]
    BY <2>1, <2>2, <2>5 DEF WaveLength
  <2>8. q = [f EXCEPT !.len = n, !.known = TRUE]
    <3>1. n * 1 = n
      BY <1>2, <2>6
    <3> QED BY <2>7, <3>1
  <2>9. n \in Nat
    BY <1>2, <2>6
  <2>10. /\ q \in Files /\ q.disk = f.disk /\ q.pend = <<>> /\ q.want = p /\ q.len = n /\ q.known
         /\ q.kind = "wave" /\ q.mode = o.mode /\ q.mmap = o.mmap /\ q.t = o.t
    BY <2>3, <2>4, <2>8, <2>9, ZenonT(60) DEF Files
  <2>11. Content(q)
    <3>1. Pending(q) = p
      BY <2>3, <2>10, NoneWaits
    <3> QED BY <1>4, <1>16, <2>10, <3>1 DEF Content
  <2>12. /\ q.disk.data = p /\ q.disk.tail = o.disk.tail /\ q.disk.dsize = o.disk.dsize
    BY <2>3, <2>4, <2>10
  <2>13. q.mode # "read" => o.disk.tail = <<>> /\ Len(p) <= q.len
    BY <1>2, <1>3, <1>16, <2>6, <2>10
  <2>14. o.disk.dsize \in {0, AfMax} \/ o.disk.dsize <= Len(p)
    BY <1>2, <1>6, <1>16
  <2> QED BY <1>6, <1>16, <2>6, <2>10, <2>11, <2>12, <2>13, <2>14 DEF Made
<1>17. CASE o.kind = "cdr" /\ o.mode = "write"
  <2>1. q = t
    BY <1>7, <1>17 DEF MadeOf, CdrOpen
  <2>2. t.len \in Nat
    BY <1>12 DEF Files
  <2> QED BY <1>8, <1>10, <1>12, <1>13, <1>14, <1>17, <2>1, <2>2 DEF Made
<1>18. CASE o.kind = "raw" \/ (o.kind = "cdr" /\ o.mode # "write")
  <2>1. PICK b : b = IF o.mode = "write" \/ (o.mode = "readwrite" /\ ~o.disk.there) THEN t ELSE o
    OBVIOUS
  <2>2. q = [b EXCEPT !.len = Len(b.disk.data), !.known = TRUE]
    BY <1>7, <1>18, <2>1 DEF MadeOf, RawOpen, CdrOpen, RawLength, CdrLength
  <2>3. /\ b \in Files /\ b.pend = <<>> /\ Content(b) /\ b.kind = o.kind /\ b.mode = o.mode
        /\ b.mmap = o.mmap /\ b.t = o.t /\ b.disk.tail = <<>>
    BY <1>5, <1>10, <1>12, <1>13, <1>14, <1>18, <2>1
  <2>4. PICK d : d = b.disk.data
    OBVIOUS
  <2>5. Len(d) \in Nat
    <3>1. b.disk \in FileDisks
      BY <2>3 DEF Files
    <3>2. d \in Seq(Int)
      BY <2>4, <3>1 DEF FileDisks, FileData
    <3> QED BY <3>2
  <2>6. Pending(b) = d /\ (b.kind # "cdr" => b.want = d)
    BY <2>3, <2>4, NoneWaits DEF Content
  <2>7. PICK n : n = Len(d)
    OBVIOUS
  <2>8. q = [b EXCEPT !.len = n, !.known = TRUE]
    BY <2>2, <2>4, <2>7
  <2>9. /\ q \in Files /\ q.disk = b.disk /\ q.pend = <<>> /\ q.want = b.want /\ q.len = n
        /\ q.kind = o.kind /\ q.mode = o.mode /\ q.mmap = o.mmap /\ q.t = o.t
    BY <2>3, <2>5, <2>7, <2>8, ZenonT(60) DEF Files
  <2>10. Content(q)
    <3>1. Pending(q) = Pending(b)
      BY <2>3, <2>9, SamePending
    <3> QED BY <2>3, <2>9, <3>1 DEF Content
  <2>11. q.disk.tail = <<>> /\ Len(q.disk.data) <= q.len /\ (q.kind # "cdr" => q.len = Len(q.want))
    BY <2>3, <2>4, <2>5, <2>6, <2>7, <2>9
  <2> QED BY <1>18, <2>9, <2>10, <2>11 DEF Made
<1> QED BY <1>3, <1>15, <1>16, <1>17, <1>18

\* An open leaves a file that was closed as it was, or empty, and an object at its place.
LEMMA FileOpenKeeps ==
  ASSUME AfAssumption, AfInv, AfOpen, afLost = "none", afLost' = "none"
  PROVE  AfInv'
<1>1. PICK mode \in {"read", "write", "readwrite"}, mmap \in BOOLEAN, scale \in {1, 2} :
        /\ mmap => mode = "read" /\ af.kind # "cdr"
        /\ Calls([FileOpened([af EXCEPT !.mode = mode, !.mmap = mmap, !.scale = scale]) EXCEPT
                   !.used = TRUE],
                 IF scale = 2 THEN "format"
                 ELSE Loses("chunks", mode = "readwrite" /\ af.disk.tail # <<>>))
  BY DEF AfOpen
<1>40. PICK why : why = IF scale = 2 THEN "format"
                        ELSE Loses("chunks", mode = "readwrite" /\ af.disk.tail # <<>>)
  OBVIOUS
<1>41. Calls([FileOpened([af EXCEPT !.mode = mode, !.mmap = mmap, !.scale = scale]) EXCEPT
                !.used = TRUE], why)
  BY <1>1, <1>40
<1>42. why = "none"
  BY <1>41 DEF Calls
<1>43. scale = 1 /\ ~(mode = "readwrite" /\ af.disk.tail # <<>>)
  BY <1>40, <1>42 DEF Loses
<1>2. /\ af \in Files /\ ~af.open /\ Content(af) /\ Waiting(af) /\ Header(af)
  BY DEF AfInv, FileKept, AfOpen
<1>3. PICK x : x = [af EXCEPT !.mode = mode, !.scale = scale]
  OBVIOUS
<1>4. x \in Files
  BY <1>1, <1>2, <1>3 DEF Files
<1>5. PICK o : o = [x EXCEPT !.mmap = mmap]
  OBVIOUS
<1>6. o \in Files
  BY <1>1, <1>4, <1>5 DEF Files
<1>7. o = [af EXCEPT !.mode = mode, !.mmap = mmap, !.scale = scale]
  BY <1>2, <1>3, <1>5 DEF Files
<1>8. /\ o.kind = af.kind /\ o.disk = af.disk /\ o.pend = af.pend /\ ~o.open
      /\ o.want = af.want /\ o.t = af.t /\ o.mode = mode /\ o.mmap = mmap /\ o.scale = scale
  BY <1>2, <1>3, <1>4, <1>5, <1>6 DEF Files
<1>9. o.pend = <<>> /\ Pending(o) = Pending(af) /\ o.scale = 1
  BY <1>43, <1>2, <1>8, SamePending DEF Waiting
<1>10. Content(o) /\ Header(o)
  BY <1>2, <1>8, <1>9 DEF Content, Header
<1>11. o.mode = "readwrite" => o.disk.tail = <<>>
  BY <1>43, <1>8
<1>12. PICK e : e = MadeOf(o)
  OBVIOUS
<1>44. PICK m : m = [e EXCEPT !.fpos = 0, !.eof = FALSE]
  OBVIOUS
<1>45. Made(e) /\ e.kind = af.kind /\ e.mode = mode /\ e.mmap = mmap /\ e.t = af.t
  <2>1. Made(e) /\ e.kind = o.kind /\ e.mode = o.mode /\ e.mmap = o.mmap /\ e.t = o.t
    BY <1>6, <1>8, <1>9, <1>10, <1>11, <1>12, OpenMakes
  <2> QED BY <1>8, <2>1
<1>46. e \in Files
  BY <1>45 DEF Made
<1>47. m \in Files
  BY <1>44, <1>46 DEF Files
<1>48. /\ m.kind = e.kind /\ m.mode = e.mode /\ m.mmap = e.mmap /\ m.len = e.len
       /\ m.known = e.known /\ m.want = e.want /\ m.t = e.t /\ m.disk = e.disk /\ m.pend = e.pend
       /\ m.pos = e.pos /\ m.fpos = 0 /\ m.eof = FALSE /\ m.lfs = e.lfs
  BY <1>44, <1>46 DEF Files
<1>13. Made(m) /\ m.kind = af.kind /\ m.mode = mode /\ m.mmap = mmap /\ m.t = af.t
  <2>1. Pending(m) = Pending(e)
    BY <1>48, SamePending
  <2>2. Content(m)
    BY <1>45, <1>48, <2>1 DEF Made, Content
  <2>3. Made(m)
    BY <1>45, <1>47, <1>48, <2>2 DEF Made
  <2> QED BY <1>45, <1>48, <2>3
<1>14. m \in Files /\ m.pos \in Nat /\ m.pend = <<>> /\ Content(m)
  BY <1>13 DEF Made, Files
<1>15. PICK d : d = m.disk.data
  OBVIOUS
<1>16. Pending(m) = d /\ d \in FileData /\ Len(d) \in Nat
  BY <1>14, <1>15, NoneWaits, PendingTyped
<1>17. PICK n : n = Total(m)
  OBVIOUS
<1>18. PICK s : s = SeekPosition(m, m.pos)
  OBVIOUS
<1>19. /\ s \in Files /\ Alike(s, m) /\ s.pend = <<>> /\ s.disk.data = d
       /\ s.pos = m.pos
       /\ IF m.mmap THEN s.fpos = Lower(m.pos, n) /\ (s.eof <=> m.pos >= n)
          ELSE s.fpos = m.pos /\ ~s.eof
  <2>1. CASE StaysBehind(m, m.pos)
    <3>1. s = [m EXCEPT !.pos = m.pos]
      BY <1>18, <2>1 DEF SeekPosition
    <3>2. s = m
      BY <1>47, <3>1 DEF Files
    <3>3. m.kind = "cdr" /\ m.pos = 0
      BY <2>1 DEF StaysBehind
    <3>4. ~m.mmap
      BY <1>1, <1>13, <3>3
    <3> QED BY <1>14, <1>15, <1>48, <3>2, <3>3, <3>4 DEF Alike
  <2>2. CASE ~StaysBehind(m, m.pos)
    <3>1. PICK to \in Nat : to = m.pos
      BY <1>14
    <3>2. m \in Files /\ (m.mmap => m.pend = <<>>) /\ s = SeekPosition(m, to) /\ ~StaysBehind(m, to)
      BY <1>14, <1>18, <2>2, <3>1
    <3>3. s \in Files /\ Alike(s, m) /\ s.pend = <<>> /\ s.disk.data = Pending(m) /\ s.pos = to
      BY <3>2, SeekIs
    <3>4. IF m.mmap THEN s.fpos = Lower(to, n) /\ (s.eof <=> to >= n)
          ELSE s.fpos = to /\ ~s.eof
      BY <1>17, <3>2, SeekIs
    <3> QED BY <1>16, <3>1, <3>3, <3>4
  <2> QED BY <2>1, <2>2
<1>20. IF m.mmap THEN s.fpos = Lower(m.pos, n) /\ (s.eof <=> m.pos >= n)
       ELSE s.fpos = m.pos /\ ~s.eof
  BY <1>19
<1>21. <<>> \in FileData /\ Len(<<>>) = 0
  BY DEF FileData
<1>22. PICK u : u = [s EXCEPT !.open = TRUE, !.buf = <<>>, !.at = m.pos]
  OBVIOUS
<1>23. u = FileOpened(o)
  <2>1. e = CASE o.kind = "wave" -> WaveOpen(o) [] o.kind = "raw" -> RawOpen(o)
              [] o.kind = "cdr" -> CdrOpen(o)
    BY <1>12 DEF MadeOf
  <2>2. e.pos = m.pos
    BY <1>48
  <2> QED BY <1>18, <1>22, <1>44, <2>1, <2>2 DEF FileOpened
<1>24. u \in Files
  BY <1>14, <1>19, <1>21, <1>22 DEF Files
<1>25. PICK q : q = [u EXCEPT !.used = TRUE]
  OBVIOUS
<1>26. q \in Files
  BY <1>24, <1>25 DEF Files
<1>27. /\ q.kind = s.kind /\ q.mode = s.mode /\ q.mmap = s.mmap /\ q.open /\ q.len = s.len
       /\ q.known = s.known /\ q.want = s.want /\ q.used /\ q.t = s.t /\ q.buf = <<>>
       /\ q.disk = s.disk /\ q.pend = s.pend /\ q.pos = s.pos /\ q.fpos = s.fpos /\ q.eof = s.eof
  BY <1>19, <1>22, <1>24, <1>25, <1>26 DEF Files
<1>28. /\ q.kind = m.kind /\ q.mode = m.mode /\ q.mmap = m.mmap /\ q.len = m.len
       /\ q.known = m.known /\ q.want = m.want /\ q.t = af.t
       /\ q.disk.tail = m.disk.tail /\ q.disk.dsize = m.disk.dsize /\ q.disk.data = d
       /\ q.pend = <<>> /\ q.pos = m.pos
  BY <1>13, <1>19, <1>27 DEF Alike
<1>29. Pending(q) = d /\ Total(q) = n
  BY <1>15, <1>17, <1>28, NoneWaits DEF Total
<1>30. Content(q)
  BY <1>14, <1>16, <1>28, <1>29 DEF Content
<1>31. Waiting(q)
  BY <1>28 DEF Waiting
<1>32. Header(q)
  BY <1>13, <1>15, <1>27, <1>28 DEF Header, Made
<1>33. There(q)
  <2>1. m.mmap => m.mode = "read" /\ m.kind # "cdr"
    BY <1>1, <1>13
  <2> QED BY <1>20, <1>27, <1>28, <1>29, <2>1 DEF There
<1>34. Lengths(q)
  <2>1. q.eof => q.pos >= n
    BY <1>20, <1>27, <1>28
  <2> QED BY <1>13, <1>15, <1>27, <1>28, <1>29, <2>1 DEF Lengths, Made
<1>35. Given(q) /\ Sectors(q)
  BY <1>21, <1>27 DEF Given, Sectors, AfAssumption
<1>36. FileKept(q)
  BY <1>26, <1>30, <1>31, <1>32, <1>33, <1>34, <1>35 DEF FileKept
<1> QED BY <1>41, <1>7, <1>23, <1>25, <1>28, <1>36, FileCallKeeps

-----------------------------------------------------------------------------
(* All steps, and what the properties say.                                 *)

\* An object that was not used yet, on a file whose header tells its size or nothing.
LEMMA NewKept ==
  ASSUME AfAssumption, NEW k \in {"wave", "raw", "cdr"}, NEW d \in FileDisks,
         k # "wave" => d.tail = <<>>,
         k = "wave" => IF d.dsize \in {0, AfMax} THEN d.tail = <<>> ELSE d.dsize = Len(d.data),
         NEW lfs \in BOOLEAN, NEW q, q = [NewFile(k, d) EXCEPT !.lfs = lfs]
  PROVE  FileKept(q)
<1>1. d.data \in FileData /\ Len(d.data) \in Nat
  BY DEF FileDisks, FileData
<1>2. <<>> \in FileData /\ <<>> \in Seq(FileData) /\ Len(<<>>) = 0
  BY DEF FileData
<1>3. 0 \in 0..AfSteps
  BY DEF AfAssumption
<1>4. q \in Files
  BY <1>1, <1>2, <1>3 DEF NewFile, Files
<1>5. /\ q.kind = k /\ q.disk = d /\ q.pend = <<>> /\ q.buf = <<>> /\ ~q.open
      /\ q.pos = 0 /\ q.len = 0 /\ ~q.known /\ q.want = d.data /\ ~q.used
  BY DEF NewFile
<1>6. Pending(q) = d.data
  BY <1>5, NoneWaits
<1>7. Content(q)
  BY <1>1, <1>5, <1>6 DEF Content, Padded
<1>8. Waiting(q) /\ Header(q)
  BY <1>5 DEF Waiting, Header
<1>9. There(q) /\ Lengths(q) /\ Sectors(q)
  BY <1>5 DEF There, Lengths, Sectors
<1>10. Given(q)
  BY <1>2, <1>5 DEF Given, AfAssumption
<1> QED BY <1>4, <1>7, <1>8, <1>9, <1>10 DEF FileKept

\* It holds of the files of other programs, of which a header can tell the sizes.
LEMMA FileInit ==
  ASSUME AfAssumption, AfInit
  PROVE  AfKept
<1>0. PICK k \in AfKinds : \E d \in Disks(k), lfs \in BOOLEAN : af = [NewFile(k, d) EXCEPT !.lfs = lfs]
  BY DEF AfInit
<1>1. PICK d \in Disks(k), lfs \in BOOLEAN : af = [NewFile(k, d) EXCEPT !.lfs = lfs]
  BY <1>0
<1>2. k \in {"wave", "raw", "cdr"} /\ AfMax \in Nat /\ 5 < AfMax
  BY DEF AfAssumption
<1>3. <<>> \in FileData /\ Len(<<>>) = 0
  BY DEF FileData
<1>4. /\ d \in FileDisks
      /\ k # "wave" => d.tail = <<>>
      /\ k = "wave" => IF d.dsize \in {0, AfMax} THEN d.tail = <<>> ELSE d.dsize = Len(d.data)
  <2>1. CASE d = [Empty EXCEPT !.there = FALSE]
    BY <1>3, <2>1 DEF Empty, FileDisks
  <2>2. CASE d # [Empty EXCEPT !.there = FALSE]
    <3>1. PICK b \in {<<1, 2, 3, 4>>, <<1, 2, 3, 4, 5>>},
               c \in (IF k = "wave" THEN {<<>>, <<Foreign>>} ELSE {<<>>}) :
            d = [there |-> TRUE, dsize |-> IF k = "wave" THEN Len(b) ELSE 0, data |-> b, tail |-> c]
      BY <2>2 DEF Disks
    <3>2. b \in FileData /\ Len(b) \in {4, 5}
      <4>1. 1 \in Int /\ 2 \in Int /\ 3 \in Int /\ 4 \in Int /\ 5 \in Int
        OBVIOUS
      <4>2. <<1, 2, 3, 4>> \in Seq(Int) /\ Len(<<1, 2, 3, 4>>) = 4
        BY <4>1
      <4>3. <<1, 2, 3, 4, 5>> \in Seq(Int) /\ Len(<<1, 2, 3, 4, 5>>) = 5
        BY <4>1
      <4> QED BY <3>1, <4>2, <4>3 DEF FileData
    <3>3. c \in FileData /\ (k # "wave" => c = <<>>)
      <4>1. PICK f : f = Foreign
        OBVIOUS
      <4>2. f \in Int
        BY <4>1 DEF Foreign
      <4>3. <<f>> \in Seq(Int)
        BY <4>2
      <4>4. c \in {<<>>, <<f>>} /\ (k # "wave" => c = <<>>)
        BY <3>1, <4>1
      <4> QED BY <1>3, <4>3, <4>4 DEF FileData
    <3>4. d \in FileDisks
      BY <3>1, <3>2, <3>3 DEF FileDisks
    <3>5. d.data = b /\ d.tail = c /\ (k = "wave" => d.dsize = Len(b))
      BY <3>1
    <3>6. 4 \notin {0, AfMax} /\ 5 \notin {0, AfMax}
      BY <1>2
    <3> QED BY <3>2, <3>3, <3>4, <3>5, <3>6
  <2> QED BY <2>1, <2>2
<1>5. FileKept(af)
  BY <1>1, <1>2, <1>4, NewKept
<1> QED BY <1>5 DEF AfInv, AfKept

\* Every call keeps it.
LEMMA FileNext ==
  ASSUME AfAssumption
  PROVE  AfKept /\ [AfNext]_<<af, afLost>> => AfKept'
<1> SUFFICES ASSUME AfKept, [AfNext]_<<af, afLost>>, afLost' = "none" PROVE AfInv'
  BY DEF AfKept
<1>1. CASE UNCHANGED <<af, afLost>>
  BY <1>1 DEF AfKept, AfInv
<1>2. CASE AfNext
  <2>1. afLost = "none"
    BY <1>2 DEF AfNext, AfOpen, AfSeek, AfRead, AfWrite, AfClose, AfCrash, Calls
  <2>2. AfInv
    BY <2>1 DEF AfKept
  <2>3. CASE AfOpen
    BY <2>1, <2>2, <2>3, FileOpenKeeps
  <2>4. CASE AfSeek
    BY <2>1, <2>2, <2>4, FileSeekKeeps
  <2>5. CASE AfRead
    BY <2>2, <2>5, FileReadKeeps
  <2>6. CASE AfWrite
    BY <2>2, <2>6, FileWriteKeeps
  <2>7. CASE AfClose
    BY <2>1, <2>2, <2>7, FileCloseKeeps
  <2>8. CASE AfCrash
    BY <2>2, <2>8, FileCrashKeeps
  <2> QED BY <1>2, <2>3, <2>4, <2>5, <2>6, <2>7, <2>8 DEF AfNext
<1> QED BY <1>1, <1>2

\* It is what the properties ask of files.
LEMMA FileHolds ==
  ASSUME AfAssumption, AfKept
  PROVE  FilesExact
<1> SUFFICES ASSUME AfInv PROVE ReadsWritten /\ LengthTrue /\ CdrPadded
  BY DEF AfKept, FilesExact
<1>1. /\ af \in Files /\ Content(af) /\ Waiting(af) /\ Lengths(af) /\ Given(af) /\ Sectors(af)
  BY DEF AfInv, FileKept
<1>2. PICK w : w = af.want
  OBVIOUS
<1>3. PICK p : p = Pending(af)
  OBVIOUS
<1>4. w \in FileData /\ p \in FileData /\ Len(w) \in Nat /\ Len(p) \in Nat
  BY <1>1, <1>2, <1>3, PendingTyped DEF Files, FileData
<1>5. Padded(p, w) /\ Len(w) <= Len(p)
  BY <1>1, <1>2, <1>3 DEF Content, Padded
<1>6. ReadsWritten
  BY <1>1 DEF ReadsWritten, Given
<1>7. ~af.open \/ af.mode = "read" => af.disk.data = p
  BY <1>1, <1>3, NoneWaits DEF Waiting
<1>8. af.len \in Nat /\ af.pos \in Nat /\ Len(af.disk.tail) \in Nat
  BY <1>1 DEF Files, FileDisks, FileData
<1>9. LengthTrue
  <2>1. ASSUME af.open, af.mode = "read"
        PROVE  /\ af.kind # "cdr" => af.len = Len(w)
               /\ FileFinished(af) => af.pos >= Len(w)
    <3>1. af.kind # "cdr" => af.len = Len(w)
      BY <1>1, <1>2, <2>1 DEF Lengths
    <3>2. af.eof => af.pos >= Len(w)
      <4>1. Total(af) = Len(p) + Len(af.disk.tail)
        BY <1>7, <2>1 DEF Total
      <4>2. af.eof => af.pos >= Total(af)
        BY <1>1, <2>1 DEF Lengths
      <4> QED BY <1>4, <1>5, <1>8, <4>1, <4>2
    <3>3. CASE af.kind = "wave"
      BY <3>1, <3>2, <3>3 DEF FileFinished, WaveFinished
    <3>4. CASE af.kind # "wave"
      BY <3>1, <3>2, <3>4 DEF FileFinished
    <3> QED BY <3>3, <3>4
  <2>2. ASSUME af.open, af.mode # "read"
        PROVE  af.len >= Len(w)
    <3>1. Len(p) <= af.len
      BY <1>1, <1>3, <2>2 DEF Lengths
    <3> QED BY <1>4, <1>5, <1>8, <3>1
  <2> QED BY <1>2, <2>1, <2>2 DEF LengthTrue
<1>10. CdrPadded
  <2>1. SUFFICES ASSUME af.kind = "cdr", ~af.open, af.used, af.mode # "read"
                 PROVE  Len(af.disk.data) % AfSector = 0 /\ IsPrefix(w, p)
    BY <1>2, <1>7 DEF CdrPadded
  <2>2. Len(af.disk.data) % AfSector = 0
    BY <1>1, <2>1 DEF Sectors
  <2>3. PICK n : n = Len(w)
    OBVIOUS
  <2>4. n \in Int /\ 1 \in Int /\ \A i \in 1..n : p[i] = w[i] /\ w[i] \in Int /\ p[i] \in Int
    <3>1. n \in Int
      BY <1>4, <2>3
    <3>2. \A i \in 1..n : p[i] = w[i]
      BY <1>5, <2>3 DEF Padded
    <3>3. \A i \in 1..n : w[i] \in Int
      BY <1>4, <2>3 DEF FileData
    <3> QED BY <3>1, <3>2, <3>3
  <2>5. PICK a : a = SubSeq(w, 1, n)
    OBVIOUS
  <2>6. PICK b : b = SubSeq(p, 1, n)
    OBVIOUS
  <2>7. a \in Seq(Int) /\ Len(a) = (IF 1 <= n THEN n - 1 + 1 ELSE 0) /\ \A i \in 1..n - 1 + 1 : a[i] = w[1 + i - 1]
    BY <2>4, <2>5, SubSeqProperties
  <2>8. b \in Seq(Int) /\ Len(b) = (IF 1 <= n THEN n - 1 + 1 ELSE 0) /\ \A i \in 1..n - 1 + 1 : b[i] = p[1 + i - 1]
    BY <2>4, <2>6, SubSeqProperties
  <2>9. Len(a) = n /\ Len(b) = n /\ \A i \in 1..n : a[i] = b[i]
    BY <1>4, <2>3, <2>4, <2>7, <2>8
  <2>10. a = b
    BY <2>7, <2>8, <2>9
  <2> QED BY <1>5, <2>2, <2>3, <2>5, <2>6, <2>10 DEF IsPrefix
<1> QED BY <1>6, <1>9, <1>10

-----------------------------------------------------------------------------
(* Both.                                                                   *)

\* Sound files, written by ecasound itself or by a library, give back what was last
\* written to each position, in whatever mode and order they were opened, moved, read,
\* written, closed, and left by a program that ended.  It is so up to the call by which
\* an object and its file go apart, which the histories name: a file updated in another
\* format, or with chunks behind its data; a CDR file closed elsewhere than at its end,
\* or not moved to its start; a library's file updated, opened again, or moved past its
\* end as an output.
THEOREM FilesAlwaysSound == FilesSpec => []FilesSound
<1>1. AfInit => AfKept
  BY AfAssumption, FileInit
<1>2. AfKept /\ [AfNext]_<<af, afLost>> => AfKept'
  BY AfAssumption, FileNext
<1>3. LfInit => LfKept
  BY LfAssumption, LibraryInitInv
<1>4. LfKept /\ [LfNext]_<<lf, lfLost>> => LfKept'
  BY LfAssumption, LibraryNextInv
<1>5. AfKept => FilesExact
  BY AfAssumption, FileHolds
<1>6. LfKept => LibraryExact
  BY LibraryHolds
<1> QED BY <1>1, <1>2, <1>3, <1>4, <1>5, <1>6, PTL DEF FilesSpec, AfSpec, LfSpec, FilesSound

-----------------------------------------------------------------------------
(* SAMPLE_BUFFER                                                           *)

Samples == SUBSET {"?", "x", "r"}
Memories == Seq(Seq(Samples))
Buffers ==
  [mem : Memories, channels : Nat, len : Nat, reserved : Nat, old : Nat, bad : BOOLEAN, steps : Nat]

(* Every channel, in use or not, has the memory that is reserved, and so   *)
(* has the block that the resampler copies from once it is there.          *)
Kept(m, n) == \A c \in 1..Len(m) : Len(m[c]) = n
Sound(o) ==
  /\ o \in Buffers /\ ~o.bad
  /\ o.channels <= Len(o.mem) /\ o.len <= o.reserved /\ Kept(o.mem, o.reserved)
  /\ o.old \in {0, o.reserved}
SbInv == Sound(sb) /\ sb.steps <= SbSteps

\* What a sound buffer is made of.
LEMMA BufferFields ==
  ASSUME NEW o, Sound(o)
  PROVE  /\ o.mem \in Memories /\ o.channels \in Nat /\ o.len \in Nat /\ o.reserved \in Nat
         /\ o.old \in Nat /\ o.steps \in Nat /\ o.bad = FALSE /\ Len(o.mem) \in Nat
         /\ DOMAIN o.mem = 1..Len(o.mem)
         /\ \A c \in 1..Len(o.mem) : /\ o.mem[c] \in Seq(Samples) /\ Len(o.mem[c]) = o.reserved
                                     /\ DOMAIN o.mem[c] = 1..o.reserved
                                     /\ o.mem[c] = [t \in 1..o.reserved |-> o.mem[c][t]]
                                     /\ \A t \in 1..o.reserved : o.mem[c][t] \in Samples
<1>1. /\ o.mem \in Memories /\ o.channels \in Nat /\ o.len \in Nat /\ o.reserved \in Nat
      /\ o.old \in Nat /\ o.steps \in Nat /\ o.bad = FALSE /\ Kept(o.mem, o.reserved)
  BY DEF Sound, Buffers
<1>2. Len(o.mem) \in Nat /\ DOMAIN o.mem = 1..Len(o.mem)
  BY <1>1 DEF Memories
<1>3. ASSUME NEW c \in 1..Len(o.mem)
      PROVE  /\ o.mem[c] \in Seq(Samples) /\ Len(o.mem[c]) = o.reserved
             /\ DOMAIN o.mem[c] = 1..o.reserved
             /\ o.mem[c] = [t \in 1..o.reserved |-> o.mem[c][t]]
             /\ \A t \in 1..o.reserved : o.mem[c][t] \in Samples
  <2>1. PICK r, n : r = o.mem[c] /\ n = o.reserved
    OBVIOUS
  <2>2. r \in Seq(Samples) /\ Len(r) = n /\ n \in Nat
    BY <1>1, <1>2, <2>1 DEF Kept, Memories
  <2>3. DOMAIN r = 1..n /\ r = [t \in 1..n |-> r[t]] /\ \A t \in 1..n : r[t] \in Samples
    BY ONLY <2>2
  <2> QED BY <2>1, <2>2, <2>3
<1> QED BY <1>1, <1>2, <1>3

\* Another memory of the same size.
LEMMA OtherMemory ==
  ASSUME NEW o, Sound(o), NEW M \in Memories, Kept(M, o.reserved), o.channels <= Len(M)
  PROVE  LET q == [o EXCEPT !.bad = FALSE, !.mem = M] IN
         /\ Sound(q) /\ q.mem = M /\ q.channels = o.channels /\ q.len = o.len
         /\ q.reserved = o.reserved /\ q.old = o.old /\ q.steps = o.steps
BY DEF Sound, Buffers

\* Channels that are each made of so many samples are a memory.
LEMMA MemoryMade ==
  ASSUME NEW k \in Nat, NEW n \in Nat, NEW M, M = [c \in 1..k |-> M[c]],
         \A c \in 1..k : M[c] = [t \in 1..n |-> M[c][t]] /\ \A t \in 1..n : M[c][t] \in Samples
  PROVE  M \in Memories /\ Len(M) = k /\ Kept(M, n)
<1>1. ASSUME NEW c \in 1..k PROVE M[c] \in Seq(Samples) /\ Len(M[c]) = n
  <2>1. PICK r : r = M[c]
    OBVIOUS
  <2>2. r = [t \in 1..n |-> r[t]] /\ \A t \in 1..n : r[t] \in Samples
    BY <2>1
  <2>3. r \in Seq(Samples) /\ Len(r) = n
    BY ONLY <2>2, n \in Nat
  <2> QED BY <2>1, <2>3
<1>2. M \in Seq(Seq(Samples)) /\ Len(M) = k
  <2>1. \A c \in 1..k : M[c] \in Seq(Samples)
    BY <1>1
  <2> QED BY ONLY <2>1, k \in Nat, M = [c \in 1..k |-> M[c]]
<1> QED BY <1>1, <1>2 DEF Memories, Kept

\* The same size and shape, but for the samples.
SameShape(o, q) ==
  /\ q.channels = o.channels /\ q.len = o.len /\ q.reserved = o.reserved
  /\ q.old = o.old /\ q.steps = o.steps /\ Len(q.mem) = Len(o.mem)

\* As before, but for some samples of some channels.
Painted(o, q, chans, from, to, f) ==
  /\ Sound(q) /\ SameShape(o, q)
  /\ \A c \in 1..Len(o.mem) : \A t \in 1..o.reserved :
       q.mem[c][t] = IF c \in chans /\ t \in from..to THEN f ELSE o.mem[c][t]

\* A part of some channels gets new samples.
LEMMA Writes ==
  ASSUME NEW o, Sound(o), NEW chans \in SUBSET (1..Len(o.mem)),
         NEW from \in Nat \ {0}, NEW to \in 0..o.reserved, NEW f \in Samples
  PROVE  Painted(o, Write(o, chans, from, to, f), chans, from, to, f)
<1>1. PICK k, n : k = Len(o.mem) /\ n = o.reserved
  OBVIOUS
<1>2. /\ o.mem \in Memories /\ k \in Nat /\ n \in Nat /\ DOMAIN o.mem = 1..k
      /\ \A c \in 1..k : DOMAIN o.mem[c] = 1..n /\ Len(o.mem[c]) = n
      /\ \A c \in 1..k : \A t \in 1..n : o.mem[c][t] \in Samples
  BY <1>1, BufferFields
<1>3. PICK M : M = [c \in 1..k |->
                      [t \in 1..n |-> IF c \in chans /\ t \in from..to THEN f ELSE o.mem[c][t]]]
  OBVIOUS
<1>4. M \in Memories /\ Len(M) = k /\ Kept(M, n)
  <2>1. M = [c \in 1..k |-> M[c]]
    BY <1>3
  <2>2. ASSUME NEW c \in 1..k
        PROVE  M[c] = [t \in 1..n |-> M[c][t]] /\ \A t \in 1..n : M[c][t] \in Samples
    BY <1>2, <1>3
  <2> QED BY ONLY <1>2, <2>1, <2>2, MemoryMade
<1>5. Write(o, chans, from, to, f) = [o EXCEPT !.bad = FALSE, !.mem = M]
  <2>1. o.bad = FALSE
    BY BufferFields
  <2>2. ~ \E c \in chans : from <= to /\ to > Len(o.mem[c])
    BY <1>1, <1>2
  <2>3. [c \in DOMAIN o.mem |->
          IF c \in chans THEN [t \in DOMAIN o.mem[c] |-> IF t \in from..to THEN f ELSE o.mem[c][t]]
          ELSE o.mem[c]] = M
    <3>1. ASSUME NEW c \in 1..k
          PROVE  (IF c \in chans
                  THEN [t \in DOMAIN o.mem[c] |-> IF t \in from..to THEN f ELSE o.mem[c][t]]
                  ELSE o.mem[c])
                 = [t \in 1..n |-> IF c \in chans /\ t \in from..to THEN f ELSE o.mem[c][t]]
      <4>1. CASE c \in chans
        BY <1>2, <4>1
      <4>2. CASE c \notin chans
        <5>1. o.mem[c] = [t \in 1..n |-> o.mem[c][t]]
          BY <1>1, BufferFields
        <5> QED BY <4>2, <5>1
      <4> QED BY <4>1, <4>2
    <3> QED BY <1>2, <1>3, <3>1
  <2>4. PICK b : b = (o.bad \/ \E c \in chans : from <= to /\ to > Len(o.mem[c]))
    OBVIOUS
  <2>5. b = FALSE
    BY <2>1, <2>2, <2>4
  <2> QED BY <2>3, <2>4, <2>5 DEF Write
<1>6. o.channels <= Len(M)
  BY <1>1, <1>4 DEF Sound
<1>7. PICK q : q = Write(o, chans, from, to, f)
  OBVIOUS
<1>8. Sound(q) /\ SameShape(o, q) /\ q.mem = M
  <2>1. Kept(M, o.reserved)
    BY <1>1, <1>4
  <2>2. PICK p : p = [o EXCEPT !.bad = FALSE, !.mem = M]
    OBVIOUS
  <2>3. /\ Sound(p) /\ p.mem = M /\ p.channels = o.channels /\ p.len = o.len
        /\ p.reserved = o.reserved /\ p.old = o.old /\ p.steps = o.steps
    BY ONLY Sound(o), <1>4, <1>6, <2>1, <2>2, OtherMemory
  <2>4. q = p
    BY <1>5, <1>7, <2>2
  <2> QED BY <1>1, <1>4, <2>3, <2>4 DEF SameShape
<1> QED BY <1>1, <1>3, <1>7, <1>8 DEF Painted

\* More memory, with what is in use kept.
LEMMA Reallocates ==
  ASSUME NEW o, Sound(o), NEW n \in Nat
  PROVE  LET q == Reallocate(o, n) IN
         /\ Sound(q) /\ q.channels = o.channels /\ q.len = o.len /\ q.steps = o.steps
         /\ Len(q.mem) = Len(o.mem) /\ n <= q.reserved /\ o.reserved <= q.reserved
         /\ o.old > 0 => q.old = q.reserved /\ q.old > 0
         /\ \A c \in 1..Len(o.mem) : \A t \in 1..o.len : q.mem[c][t] = o.mem[c][t]
<1>1. PICK k : k = Len(o.mem)
  OBVIOUS
<1>2. /\ o.mem \in Memories /\ k \in Nat /\ o.len \in Nat /\ o.reserved \in Nat /\ o.channels \in Nat
      /\ o.old \in {0, o.reserved} /\ o.steps \in Nat /\ o.bad = FALSE /\ o \in Buffers
      /\ o.len <= o.reserved /\ o.channels <= k /\ DOMAIN o.mem = 1..k
  BY <1>1, BufferFields DEF Sound
<1>3. /\ \A c \in 1..k : Len(o.mem[c]) = o.reserved
      /\ \A c \in 1..k : \A t \in 1..o.reserved : o.mem[c][t] \in Samples
  BY <1>1, BufferFields
<1>4. CASE n <= o.reserved
  <2>1. Reallocate(o, n) = o
    BY <1>4 DEF Reallocate
  <2> QED BY <1>2, <1>4, <2>1
<1>5. CASE ~(n <= o.reserved)
  <2>1. PICK w \in Nat : w = n * 2
    OBVIOUS
  <2>2. w > 0 /\ n <= w /\ o.len <= w /\ o.reserved <= w
    BY <1>2, <1>5, <2>1
  <2>3. PICK M : M = [c \in 1..k |-> [t \in 1..w |->
                       IF t <= o.len /\ t <= Len(o.mem[c]) THEN o.mem[c][t] ELSE Garbage]]
    OBVIOUS
  <2>4. M \in Memories /\ Len(M) = k /\ Kept(M, w)
    <3>1. M = [c \in 1..k |-> M[c]]
      BY <2>3
    <3>2. ASSUME NEW c \in 1..k
          PROVE  M[c] = [t \in 1..w |-> M[c][t]] /\ \A t \in 1..w : M[c][t] \in Samples
      <4>1. Garbage \in Samples
        BY DEF Garbage, Samples
      <4>2. M[c] = [t \in 1..w |-> IF t <= o.len /\ t <= Len(o.mem[c]) THEN o.mem[c][t] ELSE Garbage]
        BY <2>3
      <4>3. ASSUME NEW t \in 1..w PROVE M[c][t] \in Samples
        BY <1>2, <1>3, <4>1, <4>2
      <4> QED BY <4>2, <4>3
    <3> QED BY ONLY <1>2, <3>1, <3>2, MemoryMade, w \in Nat
  <2>5. PICK d : d = IF o.old = 0 THEN 0 ELSE w
    OBVIOUS
  <2>6. PICK q : q = [o EXCEPT !.reserved = w, !.old = d, !.bad = FALSE, !.mem = M]
    OBVIOUS
  <2>7. Reallocate(o, n) = q
    <3>1. ~ \E c \in DOMAIN o.mem : o.len > Len(o.mem[c])
      BY <1>2, <1>3
    <3>2. PICK b : b = (o.bad \/ \E c \in DOMAIN o.mem : o.len > Len(o.mem[c]))
      OBVIOUS
    <3>3. b = FALSE
      BY <1>2, <3>1, <3>2
    <3>4. Reallocate(o, n) =
            [o EXCEPT !.reserved = n * 2, !.old = IF o.old = 0 THEN 0 ELSE n * 2, !.bad = b, !.mem = M]
      BY <1>2, <1>5, <2>1, <2>3, <3>2 DEF Reallocate
    <3> QED BY <2>1, <2>5, <2>6, <3>3, <3>4
  <2>8. d \in {0, w} /\ d \in Nat
    BY <2>1, <2>5
  <2>9. /\ q \in Buffers /\ q.bad = FALSE /\ q.mem = M /\ q.reserved = w /\ q.old = d
        /\ q.channels = o.channels /\ q.len = o.len /\ q.steps = o.steps
    BY ONLY <1>2, <2>4, <2>6, <2>8, w \in Nat DEF Buffers
  <2>10. Sound(q)
    BY ONLY <1>2, <2>2, <2>4, <2>8, <2>9 DEF Sound
  <2>11. o.old > 0 => q.old = q.reserved /\ q.old > 0
    BY <2>2, <2>5, <2>9
  <2>12. \A c \in 1..k : \A t \in 1..o.len : q.mem[c][t] = o.mem[c][t]
    BY <1>2, <1>3, <2>2, <2>3, <2>9
  <2> QED BY <1>1, <2>2, <2>4, <2>7, <2>9, <2>10, <2>11, <2>12
<1> QED BY <1>4, <1>5

\* Of c channels and n samples, those that were there before and silence.
Shaped(o, q, c, n) ==
  /\ q.channels = c /\ q.len = n /\ q.steps = o.steps
  /\ \A k \in 1..c : \A t \in 1..n :
       q.mem[k][t] = IF k <= o.channels /\ t <= o.len THEN o.mem[k][t] ELSE {}

\* A new length.
LEMMA Lengthens ==
  ASSUME NEW o, Sound(o), NEW n \in Nat
  PROVE  /\ Sound(LengthInSamples(o, n)) /\ Shaped(o, LengthInSamples(o, n), o.channels, n)
         /\ Len(LengthInSamples(o, n).mem) = Len(o.mem)
         /\ o.reserved <= LengthInSamples(o, n).reserved
         /\ o.old > 0 => LengthInSamples(o, n).old = LengthInSamples(o, n).reserved
<1>1. PICK r : r = Reallocate(o, n)
  OBVIOUS
<1>2. /\ Sound(r) /\ r.channels = o.channels /\ r.len = o.len /\ r.steps = o.steps
      /\ Len(r.mem) = Len(o.mem) /\ n <= r.reserved /\ o.reserved <= r.reserved
      /\ o.old > 0 => r.old = r.reserved /\ r.old > 0
      /\ \A c \in 1..Len(o.mem) : \A t \in 1..o.len : r.mem[c][t] = o.mem[c][t]
  BY <1>1, Reallocates
<1>3. /\ Len(r.mem) \in Nat /\ DOMAIN r.mem = 1..Len(r.mem) /\ r.reserved \in Nat
      /\ r.len \in Nat /\ r.len <= r.reserved /\ r.channels \in Nat /\ r.channels <= Len(r.mem)
  BY <1>2, BufferFields DEF Sound
<1>4. PICK w : w = IF n > o.len THEN Write(r, DOMAIN r.mem, o.len + 1, r.reserved, {}) ELSE r
  OBVIOUS
<1>5. /\ Sound(w) /\ SameShape(r, w)
      /\ \A c \in 1..Len(o.mem) : \A t \in 1..n :
           w.mem[c][t] = IF t <= o.len THEN o.mem[c][t] ELSE {}
  <2>1. CASE n > o.len
    <3>1. {} \in Samples /\ DOMAIN r.mem \in SUBSET (1..Len(r.mem)) /\ o.len + 1 \in Nat \ {0}
          /\ r.reserved \in 0..r.reserved
      BY <1>2, <1>3 DEF Samples
    <3>2. PICK X : X = DOMAIN r.mem
      OBVIOUS
    <3>3. Painted(r, w, X, o.len + 1, r.reserved, {})
      <4>1. w = Write(r, X, o.len + 1, r.reserved, {}) /\ X \in SUBSET (1..Len(r.mem))
        BY <1>4, <2>1, <3>1, <3>2
      <4> QED BY ONLY <1>2, <3>1, <4>1, Writes
    <3>4. Sound(w) /\ SameShape(r, w)
      BY <3>3 DEF Painted
    <3>5. ASSUME NEW c \in 1..Len(o.mem), NEW t \in 1..n
          PROVE  w.mem[c][t] = IF t <= o.len THEN o.mem[c][t] ELSE {}
      <4>1. c \in 1..Len(r.mem) /\ t \in 1..r.reserved /\ c \in X
        BY <1>2, <1>3, <3>2
      <4>2. w.mem[c][t] = IF c \in X /\ t \in o.len + 1..r.reserved THEN {} ELSE r.mem[c][t]
        BY <3>3, <4>1 DEF Painted
      <4>3. CASE t <= o.len
        <5>1. t \in 1..o.len /\ t \notin o.len + 1..r.reserved
          BY <1>2, <1>3, <4>3
        <5> QED BY <1>2, <4>2, <4>3, <5>1
      <4>4. CASE ~(t <= o.len)
        <5>1. t \in o.len + 1..r.reserved
          BY <1>2, <1>3, <4>1, <4>4
        <5> QED BY <4>1, <4>2, <4>4, <5>1
      <4> QED BY <4>3, <4>4
    <3> QED BY <3>4, <3>5
  <2>2. CASE ~(n > o.len)
    BY <1>2, <1>3, <1>4, <2>2 DEF SameShape
  <2> QED BY <2>1, <2>2
<1>6. PICK q : q = [w EXCEPT !.len = n]
  OBVIOUS
<1>7. LengthInSamples(o, n) = q
  BY <1>1, <1>4, <1>6 DEF LengthInSamples
<1>8. /\ q.channels = w.channels /\ q.len = n /\ q.steps = w.steps /\ q.mem = w.mem
      /\ q.old = w.old /\ q.reserved = w.reserved /\ q.bad = w.bad /\ q \in Buffers
  BY <1>5, <1>6 DEF Sound, Buffers
<1>9. Sound(q)
  BY <1>2, <1>5, <1>8 DEF Sound, SameShape
<1>10. Shaped(o, q, o.channels, n)
  BY <1>2, <1>3, <1>5, <1>8 DEF Shaped, SameShape
<1> QED BY <1>2, <1>5, <1>7, <1>8, <1>9, <1>10 DEF SameShape

\* A new number of channels.
LEMMA Widens ==
  ASSUME NEW o, Sound(o), NEW n \in Nat
  PROVE  Sound(NumberOfChannels(o, n)) /\ Shaped(o, NumberOfChannels(o, n), n, o.len)
<1>1. PICK k, s : k = Len(o.mem) /\ s = o.reserved
  OBVIOUS
<1>2. /\ o.mem \in Memories /\ k \in Nat /\ o.len \in Nat /\ s \in Nat /\ o.channels \in Nat
      /\ o.old \in {0, s} /\ o.steps \in Nat /\ o.bad = FALSE /\ o \in Buffers
      /\ o.len <= s /\ o.channels <= k /\ Kept(o.mem, s)
  BY <1>1, BufferFields DEF Sound
<1>3. PICK e : e = IF n <= Len(o.mem) THEN o
                   ELSE [o EXCEPT !.mem = @ \o [i \in 1..(n - Len(@)) |-> Block(o.reserved)]]
  OBVIOUS
<1>4. /\ Sound(e) /\ e.channels = o.channels /\ e.len = o.len /\ e.steps = o.steps
      /\ e.reserved = s /\ n <= Len(e.mem) /\ k <= Len(e.mem)
      /\ \A c \in 1..k : e.mem[c] = o.mem[c]
  <2>1. CASE n <= k
    BY <1>1, <1>2, <1>3, <2>1
  <2>2. CASE ~(n <= k)
    <3>1. PICK B : B = [i \in 1..(n - k) |-> Block(s)]
      OBVIOUS
    <3>2. Block(s) \in Seq(Samples) /\ Len(Block(s)) = s
      BY <1>2 DEF Block, Garbage, Samples
    <3>3. n - k \in Nat
      BY <1>2, <2>2
    <3>4. B \in Memories /\ Len(B) = n - k /\ \A i \in 1..(n - k) : B[i] = Block(s)
      <4>1. PICK x : x = Block(s)
        OBVIOUS
      <4>2. PICK j \in Nat : j = n - k
        BY <3>3
      <4>3. B = [i \in 1..j |-> x]
        BY ONLY <3>1, <4>1, <4>2
      <4>4. PICK S : S = Seq(Samples)
        OBVIOUS
      <4>5. x \in S
        BY ONLY <3>2, <4>1, <4>4
      <4>6. B \in Seq(S) /\ Len(B) = j
        BY ONLY <4>3, <4>5, j \in Nat
      <4>7. \A i \in 1..j : B[i] = x
        BY ONLY <4>3
      <4> QED BY ONLY <4>1, <4>2, <4>4, <4>6, <4>7 DEF Memories
    <3>5. PICK m : m = o.mem \o B
      OBVIOUS
    <3>6. /\ m \in Memories /\ Len(m) = n /\ \A c \in 1..k : m[c] = o.mem[c]
          /\ \A c \in k + 1..n : m[c] = B[c - k]
      <4>1. PICK l, S : l = o.mem /\ S = Seq(Samples)
        OBVIOUS
      <4>2. l \in Seq(S) /\ B \in Seq(S) /\ Len(l) = k /\ Len(B) = n - k
        BY <1>1, <1>2, <3>4, <4>1 DEF Memories
      <4>3. m = l \o B
        BY <3>5, <4>1
      <4>4. m \in Seq(S)
        BY ONLY <4>2, <4>3
      <4>5. k \in Nat /\ k + (n - k) = n
        BY <1>2
      <4>6. Len(m) = n
        <5>1. Len(m) = Len(l) + Len(B)
          BY ONLY <4>2, <4>3, ConcatProperties
        <5> QED BY ONLY <4>2, <4>5, <5>1
      <4>7. \A c \in 1..k : m[c] = l[c]
        BY ONLY <4>2, <4>3, <4>5, <4>6
      <4>8. \A c \in k + 1..n : m[c] = B[c - k]
        BY ONLY <4>2, <4>3, <4>5, <4>6, n \in Nat
      <4> QED BY <4>1, <4>4, <4>6, <4>7, <4>8 DEF Memories
    <3>7. Kept(m, s)
      <4>1. ASSUME NEW c \in 1..n PROVE Len(m[c]) = s
        <5>1. CASE c <= k
          <6>1. c \in 1..k
            BY <1>2, <5>1
          <6>2. Len(o.mem[c]) = s
            BY ONLY <1>1, <1>2, <6>1 DEF Kept
          <6>3. m[c] = o.mem[c]
            BY ONLY <3>6, <6>1
          <6> QED BY ONLY <6>2, <6>3
        <5>2. CASE ~(c <= k)
          <6>1. c \in k + 1..n /\ c - k \in 1..(n - k)
            BY <1>2, <2>2, <5>2
          <6> QED BY <3>2, <3>4, <3>6, <6>1
        <5> QED BY <5>1, <5>2
      <4> QED BY <3>6, <4>1 DEF Kept
    <3>8. e = [o EXCEPT !.mem = m]
      BY <1>1, <1>3, <2>2, <3>1, <3>5
    <3>9. /\ e \in Buffers /\ e.mem = m /\ e.channels = o.channels /\ e.len = o.len
          /\ e.steps = o.steps /\ e.reserved = s /\ e.old = o.old /\ e.bad = FALSE
      BY ONLY <1>1, <1>2, <3>6, <3>8 DEF Buffers
    <3>10. Sound(e)
      BY ONLY <1>2, <2>2, <3>6, <3>7, <3>9, n \in Nat DEF Sound
    <3> QED BY <1>2, <2>2, <3>6, <3>9, <3>10
  <2> QED BY <2>1, <2>2
<1>5. PICK w : w = Write(e, (o.channels + 1)..n, 1, s, {})
  OBVIOUS
<1>6. /\ Sound(w) /\ SameShape(e, w)
      /\ \A c \in 1..Len(e.mem) : \A t \in 1..s :
           w.mem[c][t] = IF c \in (o.channels + 1)..n /\ t \in 1..s THEN {} ELSE e.mem[c][t]
  <2>1. /\ {} \in Samples /\ (o.channels + 1)..n \in SUBSET (1..Len(e.mem))
        /\ 1 \in Nat \ {0} /\ s \in 0..e.reserved
    <3>1. Len(e.mem) \in Nat
      BY <1>4, BufferFields
    <3> QED BY <1>2, <1>4, <3>1 DEF Samples
  <2>2. PICK X : X = (o.channels + 1)..n
    OBVIOUS
  <2>3. w = Write(e, X, 1, s, {}) /\ X \in SUBSET (1..Len(e.mem))
    BY <1>5, <2>1, <2>2
  <2>4. e.reserved = s
    BY <1>4
  <2>5. Painted(e, w, X, 1, s, {})
    BY ONLY <1>4, <2>1, <2>3, Writes
  <2> QED BY <2>2, <2>4, <2>5 DEF Painted
<1>7. PICK q : q = [w EXCEPT !.channels = n]
  OBVIOUS
<1>8. NumberOfChannels(o, n) = q
  BY <1>1, <1>3, <1>5, <1>7 DEF NumberOfChannels
<1>9. /\ q.channels = n /\ q.len = w.len /\ q.steps = w.steps /\ q.mem = w.mem
      /\ q.old = w.old /\ q.reserved = w.reserved /\ q.bad = w.bad /\ q \in Buffers
  BY <1>6, <1>7 DEF Sound, Buffers
<1>10. Sound(q)
  BY <1>4, <1>6, <1>9 DEF Sound, SameShape
<1>11. ASSUME NEW c \in 1..n, NEW t \in 1..o.len
       PROVE  q.mem[c][t] = IF c <= o.channels /\ t <= o.len THEN o.mem[c][t] ELSE {}
  <2>1. c \in 1..Len(e.mem) /\ t \in 1..s
    <3>1. Len(e.mem) \in Nat
      BY <1>4, BufferFields
    <3> QED BY <1>2, <1>4, <3>1
  <2>2. CASE c <= o.channels
    <3>1. c \in 1..k /\ c \notin (o.channels + 1)..n /\ t <= o.len
      BY <1>2, <2>2
    <3>2. w.mem[c][t] = e.mem[c][t]
      BY <1>6, <2>1, <3>1
    <3> QED BY <1>4, <1>9, <2>2, <3>1, <3>2
  <2>3. CASE ~(c <= o.channels)
    BY <1>2, <1>4, <1>6, <1>9, <2>1, <2>3
  <2> QED BY <2>2, <2>3
<1> QED BY <1>4, <1>6, <1>8, <1>9, <1>10, <1>11 DEF Shaped, SameShape

-----------------------------------------------------------------------------
(* What a buffer shows.                                                    *)

View(o) ==
  [rows |-> [c \in 1..o.channels |-> [t \in 1..o.len |-> o.mem[c][t]]], len |-> o.len]

\* What is in use has memory.
LEMMA InUse ==
  ASSUME NEW o, Sound(o), NEW c \in 1..o.channels, NEW t \in 1..o.len
  PROVE  c \in 1..Len(o.mem) /\ t \in 1..o.reserved /\ Len(o.mem[c]) = o.reserved
<1>1. /\ o.channels \in Nat /\ Len(o.mem) \in Nat /\ o.len \in Nat /\ o.reserved \in Nat
      /\ o.channels <= Len(o.mem) /\ o.len <= o.reserved
  BY BufferFields DEF Sound
<1>2. c \in 1..Len(o.mem) /\ t \in 1..o.reserved
  BY <1>1
<1> QED BY <1>2, BufferFields

\* So nothing but it is seen.
LEMMA Shown ==
  ASSUME Sound(sb)
  PROVE  Visible = View(sb)
<1>1. ASSUME NEW c \in Active(sb), NEW t \in 1..sb.len
      PROVE  (IF t <= Len(sb.mem[c]) THEN sb.mem[c][t] ELSE Garbage) = sb.mem[c][t]
  <2>1. c \in 1..sb.channels
    BY DEF Active
  <2>2. t \in 1..sb.reserved /\ Len(sb.mem[c]) = sb.reserved
    BY <2>1, InUse
  <2> QED BY <2>2
<1> QED BY <1>1 DEF Visible, View, Active

\* The same after a step.
LEMMA ShownNext ==
  ASSUME Sound(sb')
  PROVE  Visible' = View(sb')
<1>1. ASSUME NEW c \in Active(sb'), NEW t \in 1..sb'.len
      PROVE  (IF t <= Len(sb'.mem[c]) THEN sb'.mem[c][t] ELSE Garbage) = sb'.mem[c][t]
  <2>1. c \in 1..sb'.channels
    BY DEF Active
  <2>2. t \in 1..sb'.reserved /\ Len(sb'.mem[c]) = sb'.reserved
    BY <2>1, InUse
  <2> QED BY <2>2
<1> QED BY <1>1 DEF Visible, View, Active

\* A view by its size and its samples.
Grid(G, c, n) ==
  /\ G = [k \in 1..c |-> G[k]]
  /\ \A k \in 1..c : G[k] = [t \in 1..n |-> G[k][t]]
Holds(q, G, c, n) == \A k \in 1..c : \A t \in 1..n : q.mem[k][t] = G[k][t]
LEMMA ViewMade ==
  ASSUME NEW q, NEW c, NEW n, NEW G, q.channels = c, q.len = n,
         Grid(G, c, n), Holds(q, G, c, n)
  PROVE  View(q) = [rows |-> G, len |-> n]
<1>1. ASSUME NEW k \in 1..c PROVE [t \in 1..n |-> q.mem[k][t]] = G[k]
  <2>1. PICK g : g = G[k]
    OBVIOUS
  <2>2. g = [t \in 1..n |-> g[t]] /\ \A t \in 1..n : q.mem[k][t] = g[t]
    BY <2>1 DEF Grid, Holds
  <2>3. [t \in 1..n |-> q.mem[k][t]] = g
    BY ONLY <2>2
  <2> QED BY <2>1, <2>3
<1>2. [k \in 1..c |-> [t \in 1..n |-> q.mem[k][t]]] = G
  BY <1>1 DEF Grid
<1> QED BY <1>2 DEF View

\* The rows of a view.
LEMMA ViewRows ==
  ASSUME NEW o, Sound(o)
  PROVE  /\ View(o) = [rows |-> View(o).rows, len |-> o.len]
         /\ View(o).len = o.len /\ Matrix!Channels(View(o)) = o.channels
         /\ Grid(View(o).rows, o.channels, o.len) /\ Holds(o, View(o).rows, o.channels, o.len)
         /\ DOMAIN View(o).rows = 1..o.channels
         /\ \A k \in 1..o.channels : /\ DOMAIN View(o).rows[k] = 1..o.len
                                     /\ Len(View(o).rows[k]) = o.len
<1>1. o.channels \in Nat /\ o.len \in Nat
  BY BufferFields
<1>2. PICK G : G = [c \in 1..o.channels |-> [t \in 1..o.len |-> o.mem[c][t]]]
  OBVIOUS
<1>3. View(o) = [rows |-> G, len |-> o.len]
  BY <1>2 DEF View
<1>4. Len(G) = o.channels /\ DOMAIN G = 1..o.channels
  BY ONLY <1>1, <1>2
<1>5. ASSUME NEW k \in 1..o.channels
      PROVE  /\ DOMAIN G[k] = 1..o.len /\ Len(G[k]) = o.len
             /\ G[k] = [t \in 1..o.len |-> G[k][t]]
             /\ \A t \in 1..o.len : o.mem[k][t] = G[k][t]
  <2>1. PICK g : g = [t \in 1..o.len |-> o.mem[k][t]]
    OBVIOUS
  <2>2. /\ DOMAIN g = 1..o.len /\ Len(g) = o.len /\ g = [t \in 1..o.len |-> g[t]]
        /\ \A t \in 1..o.len : o.mem[k][t] = g[t]
    BY ONLY <1>1, <2>1
  <2>3. G[k] = g
    BY ONLY <1>2, <2>1, k \in 1..o.channels
  <2> QED BY <2>2, <2>3
<1>6. Grid(G, o.channels, o.len) /\ Holds(o, G, o.channels, o.len)
  <2>1. G = [k \in 1..o.channels |-> G[k]]
    BY <1>2
  <2> QED BY <1>5, <2>1 DEF Grid, Holds
<1>7. View(o).rows = G /\ View(o).len = o.len
  BY <1>3
<1> QED BY <1>3, <1>4, <1>5, <1>6, <1>7 DEF Matrix!Channels

\* A new shape.
LEMMA Reshapes ==
  ASSUME NEW o, Sound(o), NEW q, NEW c \in Nat, NEW n \in Nat, Shaped(o, q, c, n)
  PROVE  View(q) = Matrix!Reshape(View(o), c, n)
<1>1. PICK v : v = View(o)
  OBVIOUS
<1>2. PICK G : G = [k \in 1..c |-> IF k <= Matrix!Channels(v) THEN Matrix!Cut(v.rows[k], n)
                                   ELSE Matrix!Silent(n)]
  OBVIOUS
<1>3. Matrix!Reshape(v, c, n) = [rows |-> G, len |-> n]
  BY <1>2 DEF Matrix!Reshape
<1>4. o.channels \in Nat /\ o.len \in Nat /\ Matrix!Channels(v) = o.channels
  BY <1>1, BufferFields, ViewRows
<1>5. ASSUME NEW k \in 1..c
      PROVE  /\ G[k] = [t \in 1..n |-> G[k][t]]
             /\ \A t \in 1..n : q.mem[k][t] = G[k][t]
  <2>1. CASE k <= o.channels
    <3>1. PICK r : r = v.rows[k]
      OBVIOUS
    <3>2. Len(r) = o.len /\ \A t \in 1..o.len : r[t] = o.mem[k][t]
      <4>1. k \in 1..o.channels
        BY <1>4, <2>1
      <4> QED BY <1>1, <3>1, <4>1, ViewRows DEF Holds
    <3>3. G[k] = [t \in 1..n |-> IF t <= o.len THEN r[t] ELSE {}]
      BY <1>2, <1>4, <2>1, <3>1, <3>2 DEF Matrix!Cut, Matrix!Silence
    <3> QED BY <1>4, <2>1, <3>2, <3>3 DEF Shaped
  <2>2. CASE ~(k <= o.channels)
    <3>1. G[k] = [t \in 1..n |-> {}]
      BY <1>2, <1>4, <2>2 DEF Matrix!Silent, Matrix!Silence
    <3> QED BY <2>2, <3>1 DEF Shaped
  <2> QED BY <2>1, <2>2
<1>6. G = [k \in 1..c |-> G[k]]
  BY <1>2
<1>7. q.channels = c /\ q.len = n
  BY DEF Shaped
<1>8. View(q) = [rows |-> G, len |-> n]
  <2>1. Grid(G, c, n)
    BY <1>5, <1>6 DEF Grid
  <2>2. Holds(q, G, c, n)
    BY <1>5 DEF Holds
  <2> QED BY ONLY <1>7, <2>1, <2>2, ViewMade
<1> QED BY <1>1, <1>3, <1>8

\* Other samples in the same shape.
LEMMA Repaints ==
  ASSUME NEW o, Sound(o), NEW q, q.channels = o.channels, q.len = o.len, NEW G,
         Grid(G, o.channels, o.len), Holds(q, G, o.channels, o.len)
  PROVE  View(q) = [View(o) EXCEPT !.rows = G]
<1>1. PICK R, n : R = View(o).rows /\ n = o.len
  OBVIOUS
<1>2. View(o) = [rows |-> R, len |-> n]
  BY <1>1, ViewRows
<1>3. View(q) = [rows |-> G, len |-> n]
  BY <1>1, ViewMade
<1>4. [View(o) EXCEPT !.rows = G] = [rows |-> G, len |-> n]
  BY ONLY <1>2
<1> QED BY <1>3, <1>4

\* All samples of the channels in use alike.
LEMMA Fills ==
  ASSUME NEW w, Sound(w), NEW f \in Samples
  PROVE  LET q == Write(w, 1..w.channels, 1, w.len, f) IN
         Sound(q) /\ SameShape(w, q) /\ View(q) = Matrix!Uniform(w.channels, w.len, f)
<1>1. PICK q : q = Write(w, 1..w.channels, 1, w.len, f)
  OBVIOUS
<1>2. PICK c, n : c = w.channels /\ n = w.len
  OBVIOUS
<1>3. /\ c \in Nat /\ n \in Nat /\ Len(w.mem) \in Nat /\ w.reserved \in Nat
      /\ c <= Len(w.mem) /\ n <= w.reserved
  BY <1>2, BufferFields DEF Sound
<1>4. 1..c \in SUBSET (1..Len(w.mem)) /\ n \in 0..w.reserved /\ 1 \in Nat \ {0}
  BY <1>3
<1>5. Painted(w, q, 1..c, 1, n, f)
  <2>1. q = Write(w, 1..c, 1, n, f)
    BY <1>1, <1>2
  <2> QED BY ONLY Sound(w), f \in Samples, <1>4, <2>1, Writes
<1>6. PICK G : G = [k \in 1..c |-> [t \in 1..n |-> f]]
  OBVIOUS
<1>7. Grid(G, c, n) /\ Holds(q, G, c, n)
  <2>1. \A k \in 1..c : \A t \in 1..n : q.mem[k][t] = f
    BY <1>3, <1>5 DEF Painted
  <2>2. ASSUME NEW k \in 1..c
        PROVE  G[k] = [t \in 1..n |-> G[k][t]] /\ \A t \in 1..n : G[k][t] = f
    BY <1>6
  <2>3. G = [k \in 1..c |-> G[k]]
    BY <1>6
  <2> QED BY <2>1, <2>2, <2>3 DEF Grid, Holds
<1>8. q.channels = c /\ q.len = n
  BY <1>2, <1>5 DEF Painted, SameShape
<1>9. View(q) = [rows |-> G, len |-> n]
  BY ONLY <1>7, <1>8, ViewMade
<1>10. View(q) = Matrix!Uniform(c, n, f)
  BY <1>6, <1>9 DEF Matrix!Uniform
<1> QED BY <1>1, <1>2, <1>5, <1>10 DEF Painted

\* The samples of some channels after a and up to b are others.
Overlaid(o, q, chans, a, b, f) ==
  /\ q.channels = o.channels /\ q.len = o.len
  /\ \A k \in 1..o.channels : \A t \in 1..o.len :
       q.mem[k][t] = IF k \in chans /\ t > a /\ t <= b THEN f ELSE o.mem[k][t]
LEMMA Overs ==
  ASSUME NEW o, Sound(o), NEW q, NEW chans, NEW a, NEW b, NEW f, Overlaid(o, q, chans, a, b, f)
  PROVE  View(q) = Matrix!Over(View(o), chans, a, b, f)
<1>1. PICK v, R, c, n : v = View(o) /\ R = v.rows /\ c = o.channels /\ n = o.len
  OBVIOUS
<1>2. /\ DOMAIN R = 1..c /\ \A k \in 1..c : DOMAIN R[k] = 1..n
      /\ \A k \in 1..c : \A t \in 1..n : R[k][t] = o.mem[k][t]
  BY <1>1, ViewRows DEF Holds
<1>3. PICK G : G = [k \in DOMAIN R |->
                      [t \in DOMAIN R[k] |-> IF k \in chans /\ t > a /\ t <= b THEN f ELSE R[k][t]]]
  OBVIOUS
<1>4. ASSUME NEW k \in 1..c
      PROVE  /\ G[k] = [t \in 1..n |-> G[k][t]]
             /\ \A t \in 1..n : G[k][t] = IF k \in chans /\ t > a /\ t <= b THEN f ELSE R[k][t]
  BY <1>2, <1>3
<1>5. G = [k \in 1..c |-> G[k]]
  BY <1>2, <1>3
<1>6. Grid(G, c, n)
  BY <1>4, <1>5 DEF Grid
<1>7. Holds(q, G, c, n)
  <2>1. ASSUME NEW k \in 1..c, NEW t \in 1..n PROVE q.mem[k][t] = G[k][t]
    <3>1. q.mem[k][t] = IF k \in chans /\ t > a /\ t <= b THEN f ELSE o.mem[k][t]
      BY <1>1 DEF Overlaid
    <3>2. R[k][t] = o.mem[k][t]
      BY <1>2
    <3> QED BY <1>4, <3>1, <3>2
  <2> QED BY <2>1 DEF Holds
<1>8. q.channels = o.channels /\ q.len = o.len
  BY DEF Overlaid
<1>9. Grid(G, o.channels, o.len) /\ Holds(q, G, o.channels, o.len)
  BY <1>1, <1>6, <1>7
<1>10. View(q) = [v EXCEPT !.rows = G]
  <2>1. View(q) = [View(o) EXCEPT !.rows = G]
    BY ONLY Sound(o), <1>8, <1>9, Repaints
  <2> QED BY <1>1, <2>1
<1>11. Matrix!Over(v, chans, a, b, f) = [v EXCEPT !.rows = G]
  BY <1>1, <1>3 DEF Matrix!Over
<1> QED BY <1>1, <1>10, <1>11

\* A part of some channels in use is written.
LEMMA Covers ==
  ASSUME NEW o, Sound(o), NEW chans \in SUBSET (1..o.channels), NEW a \in Nat, NEW to \in 0..o.len,
         NEW f \in Samples
  PROVE  LET q == Write(o, chans, a + 1, to, f) IN
         Sound(q) /\ SameShape(o, q) /\ Overlaid(o, q, chans, a, to, f)
<1>1. PICK q : q = Write(o, chans, a + 1, to, f)
  OBVIOUS
<1>2. PICK s : s = a + 1
  OBVIOUS
<1>3. /\ o.channels \in Nat /\ Len(o.mem) \in Nat /\ o.len \in Nat /\ o.reserved \in Nat
      /\ o.channels <= Len(o.mem) /\ o.len <= o.reserved
  BY BufferFields DEF Sound
<1>4. chans \in SUBSET (1..Len(o.mem)) /\ s \in Nat \ {0} /\ to \in 0..o.reserved
  BY <1>2, <1>3
<1>5. Painted(o, q, chans, s, to, f)
  <2>1. q = Write(o, chans, s, to, f)
    BY <1>1, <1>2
  <2> QED BY ONLY Sound(o), f \in Samples, <1>4, <2>1, Writes
<1>6. Overlaid(o, q, chans, a, to, f)
  <2>1. ASSUME NEW k \in 1..o.channels, NEW t \in 1..o.len
        PROVE  q.mem[k][t] = IF k \in chans /\ t > a /\ t <= to THEN f ELSE o.mem[k][t]
    <3>1. k \in 1..Len(o.mem) /\ t \in 1..o.reserved
      BY <1>3
    <3>2. t \in s..to <=> t > a /\ t <= to
      BY <1>2, <1>3
    <3>3. q.mem[k][t] = IF k \in chans /\ t \in s..to THEN f ELSE o.mem[k][t]
      BY <1>5, <3>1 DEF Painted
    <3> QED BY <3>2, <3>3
  <2> QED BY <1>5, <2>1 DEF Painted, SameShape, Overlaid
<1> QED BY <1>1, <1>5, <1>6 DEF Painted

\* Another buffer in as many channels as it has.
LEMMA Puts ==
  ASSUME NEW o, Sound(o), NEW c \in Nat, NEW n \in Nat
  PROVE  LET q == CopyMatching(o, c, n) IN
         Sound(q) /\ q.steps = o.steps /\ View(q) = Matrix!Put(View(o), c, n)
<1>1. PICK q : q = CopyMatching(o, c, n)
  OBVIOUS
<1>2. PICK w, d, m : w = LengthInSamples(o, n) /\ d = o.channels /\ m = Smaller(c, d)
  OBVIOUS
<1>3. Sound(w) /\ Shaped(o, w, d, n)
  BY <1>2, Lengthens
<1>4. d \in Nat /\ w.channels = d /\ w.len = n /\ w.steps = o.steps
  BY <1>2, <1>3, BufferFields DEF Shaped
<1>5. m \in Nat /\ m <= d /\ \A k \in 1..d : k \in 1..m <=> k \in 1..c
  BY <1>2, <1>4 DEF Smaller
<1>6. Sound(q) /\ SameShape(w, q) /\ Overlaid(w, q, 1..m, 0, n, {"x"})
  <2>1. 1..m \in SUBSET (1..w.channels) /\ 0 \in Nat /\ n \in 0..w.len
    BY <1>4, <1>5
  <2>2. {"x"} \in Samples
    BY DEF Samples
  <2>3. q = Write(w, 1..m, 0 + 1, n, {"x"})
    BY <1>1, <1>2 DEF CopyMatching
  <2> QED BY ONLY <1>3, <2>1, <2>2, <2>3, Covers
<1>7. Overlaid(w, q, 1..c, 0, n, {"x"})
  BY <1>4, <1>5, <1>6 DEF Overlaid
<1>8. View(q) = Matrix!Over(View(w), 1..c, 0, n, {"x"})
  BY ONLY <1>3, <1>7, Overs
<1>9. View(w) = Matrix!Reshape(View(o), d, n)
  BY <1>3, <1>4, Reshapes
<1>10. Matrix!Channels(View(o)) = d
  BY <1>2, ViewRows
<1>11. View(q) = Matrix!Put(View(o), c, n)
  BY <1>8, <1>9, <1>10 DEF Matrix!Put
<1> QED BY <1>1, <1>4, <1>6, <1>11 DEF SameShape

\* Another buffer is added to as many channels as it has.
LEMMA Adds ==
  ASSUME NEW o, Sound(o), NEW c \in Nat, NEW n \in Nat
  PROVE  LET q == AddMatching(o, c, n) IN
         Sound(q) /\ q.steps = o.steps /\ View(q) = Matrix!Mixed(View(o), c, n)
<1>1. PICK q : q = AddMatching(o, c, n)
  OBVIOUS
<1>2. PICK w, d, m, e : /\ w = IF n > o.len THEN LengthInSamples(o, n) ELSE o
                        /\ d = o.channels /\ m = Smaller(c, d)
                        /\ e = IF n > o.len THEN n ELSE o.len
  OBVIOUS
<1>3. o.len \in Nat /\ d \in Nat /\ e \in Nat /\ n <= e
  <2>1. o.len \in Nat /\ d \in Nat
    BY <1>2, BufferFields
  <2> QED BY <1>2, <2>1
<1>4. Sound(w) /\ Shaped(o, w, d, e)
  <2>1. CASE n > o.len
    BY <1>2, <2>1, Lengthens
  <2>2. CASE ~(n > o.len)
    <3>1. w = o /\ e = o.len
      BY <1>2, <2>2
    <3>2. Shaped(o, o, d, e)
      BY <1>2, <1>3, <3>1 DEF Shaped
    <3> QED BY <3>1, <3>2
  <2> QED BY <2>1, <2>2
<1>5. w.channels = d /\ w.len = e /\ w.steps = o.steps
  BY <1>4 DEF Shaped
<1>6. m \in Nat /\ m <= d /\ \A k \in 1..d : k \in 1..m <=> k <= c
  BY <1>2, <1>3 DEF Smaller
<1>7. PICK l, s : l = Len(w.mem) /\ s = w.reserved
  OBVIOUS
<1>8. /\ l \in Nat /\ s \in Nat /\ DOMAIN w.mem = 1..l /\ d <= l /\ e <= s
      /\ w.mem \in Memories
      /\ \A k \in 1..l : DOMAIN w.mem[k] = 1..s /\ Len(w.mem[k]) = s
      /\ \A k \in 1..l : \A t \in 1..s : w.mem[k][t] \in Samples
  <2>1. d <= l /\ e <= s
    BY <1>4, <1>5, <1>7 DEF Sound
  <2> QED BY <1>4, <1>7, <2>1, BufferFields
<1>9. PICK M : M = [k \in 1..l |->
                      [t \in 1..s |-> IF k \in 1..m /\ t <= n THEN w.mem[k][t] \cup {"x"}
                                      ELSE w.mem[k][t]]]
  OBVIOUS
<1>10. M \in Memories /\ Len(M) = l /\ Kept(M, s)
  <2>1. M = [k \in 1..l |-> M[k]]
    BY <1>9
  <2>2. ASSUME NEW k \in 1..l
        PROVE  M[k] = [t \in 1..s |-> M[k][t]] /\ \A t \in 1..s : M[k][t] \in Samples
    <3>1. M[k] = [t \in 1..s |-> IF k \in 1..m /\ t <= n THEN w.mem[k][t] \cup {"x"}
                                 ELSE w.mem[k][t]]
      BY <1>9
    <3>2. ASSUME NEW t \in 1..s PROVE M[k][t] \in Samples
      <4>1. w.mem[k][t] \in Samples /\ w.mem[k][t] \cup {"x"} \in Samples
        BY <1>8 DEF Samples
      <4> QED BY <3>1, <4>1
    <3> QED BY <3>1, <3>2
  <2> QED BY ONLY <1>8, <2>1, <2>2, MemoryMade
<1>11. q = [w EXCEPT !.bad = FALSE, !.mem = M]
  <2>1. w.bad = FALSE
    BY <1>4, BufferFields
  <2>2. ~ \E k \in 1..m : n > Len(w.mem[k])
    <3>1. ASSUME NEW k \in 1..m PROVE ~(n > Len(w.mem[k]))
      <4>1. k \in 1..l
        BY <1>3, <1>6, <1>8
      <4>2. Len(w.mem[k]) = s
        BY <1>8, <4>1
      <4> QED BY <1>3, <1>8, <4>2
    <3> QED BY <3>1
  <2>3. [k \in DOMAIN w.mem |->
          IF k \in 1..m
          THEN [t \in DOMAIN w.mem[k] |-> IF t <= n THEN w.mem[k][t] \cup {"x"} ELSE w.mem[k][t]]
          ELSE w.mem[k]] = M
    <3>1. ASSUME NEW k \in 1..l
          PROVE  (IF k \in 1..m
                  THEN [t \in DOMAIN w.mem[k] |->
                          IF t <= n THEN w.mem[k][t] \cup {"x"} ELSE w.mem[k][t]]
                  ELSE w.mem[k])
                 = [t \in 1..s |-> IF k \in 1..m /\ t <= n THEN w.mem[k][t] \cup {"x"}
                                   ELSE w.mem[k][t]]
      <4>1. CASE k \in 1..m
        BY <1>8, <4>1
      <4>2. CASE k \notin 1..m
        <5>1. w.mem[k] = [t \in 1..s |-> w.mem[k][t]]
          BY <1>4, <1>7, BufferFields
        <5> QED BY <4>2, <5>1
      <4> QED BY <4>1, <4>2
    <3> QED BY <1>8, <1>9, <3>1
  <2>4. PICK b : b = (w.bad \/ \E k \in 1..m : n > Len(w.mem[k]))
    OBVIOUS
  <2>5. b = FALSE
    BY <2>1, <2>2, <2>4
  <2> QED BY <1>1, <1>2, <2>3, <2>4, <2>5 DEF AddMatching
<1>12. Sound(q) /\ q.mem = M /\ q.channels = d /\ q.len = e /\ q.steps = o.steps
  <2>1. Kept(M, w.reserved) /\ w.channels <= Len(M)
    BY <1>5, <1>7, <1>8, <1>10
  <2> QED BY <1>4, <1>5, <1>10, <1>11, <2>1, OtherMemory
<1>13. PICK v, R : v = Matrix!Reshape(View(o), d, e) /\ R = v.rows
  OBVIOUS
<1>14. /\ v = View(w) /\ DOMAIN R = 1..d /\ \A k \in 1..d : DOMAIN R[k] = 1..e
       /\ \A k \in 1..d : \A t \in 1..e : R[k][t] = w.mem[k][t]
  <2>1. v = View(w)
    BY <1>3, <1>4, <1>13, Reshapes
  <2> QED BY <1>4, <1>5, <1>13, <2>1, ViewRows DEF Holds
<1>15. PICK G : G = [k \in DOMAIN R |->
                       [t \in DOMAIN R[k] |-> IF k <= c /\ t <= n THEN R[k][t] \cup {"x"} ELSE R[k][t]]]
  OBVIOUS
<1>16. ASSUME NEW k \in 1..d
       PROVE  /\ G[k] = [t \in 1..e |-> G[k][t]]
              /\ \A t \in 1..e : G[k][t] = IF k <= c /\ t <= n THEN R[k][t] \cup {"x"} ELSE R[k][t]
  BY <1>14, <1>15
<1>17. Grid(G, d, e)
  <2>1. G = [k \in 1..d |-> G[k]]
    BY <1>14, <1>15
  <2> QED BY <1>16, <2>1 DEF Grid
<1>18. Holds(q, G, d, e)
  <2>1. ASSUME NEW k \in 1..d, NEW t \in 1..e PROVE q.mem[k][t] = G[k][t]
    <3>1. k \in 1..l /\ t \in 1..s
      BY <1>3, <1>8
    <3>2. q.mem[k][t] = IF k \in 1..m /\ t <= n THEN w.mem[k][t] \cup {"x"} ELSE w.mem[k][t]
      BY <1>9, <1>12, <3>1
    <3>3. G[k][t] = IF k <= c /\ t <= n THEN w.mem[k][t] \cup {"x"} ELSE w.mem[k][t]
      <4>1. G[k][t] = IF k <= c /\ t <= n THEN R[k][t] \cup {"x"} ELSE R[k][t]
        BY <1>16
      <4>2. R[k][t] = w.mem[k][t]
        BY <1>14
      <4> QED BY ONLY <4>1, <4>2
    <3> QED BY <1>6, <3>2, <3>3
  <2> QED BY <2>1 DEF Holds
<1>19. View(q) = [v EXCEPT !.rows = G]
  <2>1. q.channels = w.channels /\ q.len = w.len
    BY <1>5, <1>12
  <2>2. Grid(G, w.channels, w.len) /\ Holds(q, G, w.channels, w.len)
    BY <1>5, <1>17, <1>18
  <2>3. View(q) = [View(w) EXCEPT !.rows = G]
    BY ONLY <1>4, <2>1, <2>2, Repaints
  <2> QED BY <1>14, <2>3
<1>20. Matrix!Mixed(View(o), c, n) = [v EXCEPT !.rows = G]
  <2>1. Matrix!Channels(View(o)) = d /\ View(o).len = o.len
    BY <1>2, ViewRows
  <2>2. Matrix!Reshape(View(o), Matrix!Channels(View(o)), IF n > View(o).len THEN n ELSE View(o).len) = v
    BY <1>2, <1>13, <2>1
  <2> QED BY <1>13, <1>15, <2>2 DEF Matrix!Mixed
<1> QED BY <1>1, <1>12, <1>19, <1>20

\* A part of another buffer.
LEMMA Copies ==
  ASSUME NEW o, Sound(o), NEW from \in Nat, from <= o.len, NEW n \in Nat
  PROVE  LET q == CopyRange(o, from, n) IN
         /\ Sound(q) /\ q.steps = o.steps
         /\ View(q) = Matrix!Over(View(o), 1..o.channels, from, from + n, {"x"})
<1>1. PICK q : q = CopyRange(o, from, n)
  OBVIOUS
<1>2. PICK d, l, to : d = o.channels /\ l = o.len /\ to = Smaller(from + n, l)
  OBVIOUS
<1>3. d \in Nat /\ l \in Nat
  BY <1>2, BufferFields
<1>4. to \in 0..l /\ \A t \in 1..l : t <= to <=> t <= from + n
  BY <1>2, <1>3 DEF Smaller
<1>5. Sound(q) /\ SameShape(o, q) /\ Overlaid(o, q, 1..d, from, to, {"x"})
  <2>1. 1..d \in SUBSET (1..o.channels) /\ to \in 0..o.len
    BY <1>2, <1>4
  <2>2. {"x"} \in Samples
    BY DEF Samples
  <2>3. q = Write(o, 1..d, from + 1, to, {"x"})
    BY <1>1, <1>2 DEF CopyRange, Active
  <2> QED BY ONLY Sound(o), from \in Nat, <2>1, <2>2, <2>3, Covers
<1>6. Overlaid(o, q, 1..d, from, from + n, {"x"})
  BY <1>2, <1>4, <1>5 DEF Overlaid
<1>7. View(q) = Matrix!Over(View(o), 1..d, from, from + n, {"x"})
  BY ONLY Sound(o), <1>6, Overs
<1> QED BY <1>1, <1>2, <1>5, <1>7 DEF SameShape

\* Silence in some of the channels in use, from the start.
LEMMA Silences ==
  ASSUME NEW o, Sound(o), NEW chans \in SUBSET (1..o.channels), NEW to \in 0..o.len
  PROVE  LET q == Write(o, chans, 1, to, {}) IN
         /\ Sound(q) /\ q.steps = o.steps
         /\ View(q) = Matrix!Over(View(o), chans, 0, to, Matrix!Silence)
<1>1. PICK q : q = Write(o, chans, 1, to, {})
  OBVIOUS
<1>2. {} \in Samples /\ 0 \in Nat
  BY DEF Samples
<1>3. q = Write(o, chans, 0 + 1, to, {})
  BY <1>1
<1>4. Sound(q) /\ SameShape(o, q) /\ Overlaid(o, q, chans, 0, to, {})
  BY ONLY Sound(o), chans \in SUBSET (1..o.channels), to \in 0..o.len, <1>2, <1>3, Covers
<1>5. View(q) = Matrix!Over(View(o), chans, 0, to, {})
  BY ONLY Sound(o), <1>4, Overs
<1> QED BY <1>1, <1>4, <1>5 DEF SameShape, Matrix!Silence

\* Room for other channels: those that were out of it are silent.
LEMMA ReservesChannels ==
  ASSUME NEW o, Sound(o), NEW n \in Nat
  PROVE  LET q == ReserveChannels(o, n) IN
         /\ Sound(q) /\ q.steps = o.steps
         /\ View(q) = Matrix!Over(View(o), (n + 1)..o.channels, 0, o.len, Matrix!Silence)
<1>1. PICK p, q, d, l : /\ p = NumberOfChannels(o, n) /\ q = NumberOfChannels(p, d)
                        /\ d = o.channels /\ l = o.len
  OBVIOUS
<1>2. d \in Nat /\ l \in Nat
  BY <1>1, BufferFields
<1>3. Sound(p) /\ Shaped(o, p, n, l)
  BY <1>1, Widens
<1>4. p.channels = n /\ p.len = l /\ p.steps = o.steps
  BY <1>3 DEF Shaped
<1>5. Sound(q) /\ Shaped(p, q, d, l)
  BY <1>1, <1>2, <1>3, <1>4, Widens
<1>6. Overlaid(o, q, (n + 1)..d, 0, l, {})
  <2>1. ASSUME NEW k \in 1..d, NEW t \in 1..l
        PROVE  q.mem[k][t] = IF k \in (n + 1)..d /\ t > 0 /\ t <= l THEN {} ELSE o.mem[k][t]
    <3>1. q.mem[k][t] = IF k <= n /\ t <= l THEN p.mem[k][t] ELSE {}
      BY <1>4, <1>5 DEF Shaped
    <3>2. CASE k <= n
      <4>1. p.mem[k][t] = o.mem[k][t]
        <5>1. k \in 1..n
          BY <1>2, <3>2
        <5>2. p.mem[k][t] = IF k <= o.channels /\ t <= o.len THEN o.mem[k][t] ELSE {}
          BY <1>3, <5>1 DEF Shaped
        <5> QED BY <1>1, <1>2, <5>2
      <4> QED BY <1>2, <3>1, <3>2, <4>1
    <3>3. CASE ~(k <= n)
      BY <1>2, <3>1, <3>3
    <3> QED BY <3>2, <3>3
  <2>2. q.channels = d /\ q.len = l
    BY <1>5 DEF Shaped
  <2> QED BY <1>1, <2>1, <2>2 DEF Overlaid
<1>7. View(q) = Matrix!Over(View(o), (n + 1)..d, 0, l, {})
  BY ONLY Sound(o), <1>6, Overs
<1>8. q.steps = o.steps
  BY <1>4, <1>5 DEF Shaped
<1>9. q = ReserveChannels(o, n)
  BY <1>1 DEF ReserveChannels
<1> QED BY <1>1, <1>5, <1>7, <1>8, <1>9 DEF Matrix!Silence

\* Room for other lengths: what was out of it is silent.
LEMMA ReservesLength ==
  ASSUME NEW o, Sound(o), NEW n \in Nat
  PROVE  LET q == ReserveLength(o, n) IN
         /\ Sound(q) /\ q.steps = o.steps
         /\ View(q) = Matrix!Over(View(o), 1..o.channels, Smaller(n, o.len), o.len, Matrix!Silence)
<1>1. PICK p, q, d, l : /\ p = LengthInSamples(o, n) /\ q = LengthInSamples(p, l)
                        /\ d = o.channels /\ l = o.len
  OBVIOUS
<1>2. d \in Nat /\ l \in Nat
  BY <1>1, BufferFields
<1>3. Sound(p) /\ Shaped(o, p, d, n)
  BY <1>1, Lengthens
<1>4. p.channels = d /\ p.len = n /\ p.steps = o.steps
  BY <1>3 DEF Shaped
<1>5. Sound(q) /\ Shaped(p, q, d, l)
  BY <1>1, <1>2, <1>3, <1>4, Lengthens
<1>6. PICK a : a = Smaller(n, l)
  OBVIOUS
<1>7. \A t \in 1..l : t > a <=> t > n
  BY <1>2, <1>6 DEF Smaller
<1>8. Overlaid(o, q, 1..d, a, l, {})
  <2>1. ASSUME NEW k \in 1..d, NEW t \in 1..l
        PROVE  q.mem[k][t] = IF k \in 1..d /\ t > a /\ t <= l THEN {} ELSE o.mem[k][t]
    <3>1. q.mem[k][t] = IF k <= d /\ t <= n THEN p.mem[k][t] ELSE {}
      BY <1>4, <1>5 DEF Shaped
    <3>2. CASE t <= n
      <4>1. p.mem[k][t] = o.mem[k][t]
        <5>1. t \in 1..n
          BY <1>2, <3>2
        <5>2. p.mem[k][t] = IF k <= o.channels /\ t <= o.len THEN o.mem[k][t] ELSE {}
          BY <1>3, <5>1 DEF Shaped
        <5> QED BY <1>1, <1>2, <5>2
      <4> QED BY <1>2, <1>7, <3>1, <3>2, <4>1
    <3>3. CASE ~(t <= n)
      BY <1>2, <1>7, <3>1, <3>3
    <3> QED BY <3>2, <3>3
  <2>2. q.channels = d /\ q.len = l
    BY <1>5 DEF Shaped
  <2> QED BY <1>1, <2>1, <2>2 DEF Overlaid
<1>9. View(q) = Matrix!Over(View(o), 1..d, a, l, {})
  BY ONLY Sound(o), <1>8, Overs
<1>10. q.steps = o.steps
  BY <1>4, <1>5 DEF Shaped
<1>11. q = ReserveLength(o, n)
  BY <1>1 DEF ReserveLength
<1> QED BY <1>1, <1>5, <1>6, <1>9, <1>10, <1>11 DEF Matrix!Silence

\* A ratio gives a length.
LEMMA ScaledLength ==
  ASSUME NEW n \in Nat, NEW p \in SbPairs
  PROVE  Scaled(n, p) \in Nat
<1>1. PICK a, b : a = p[1] /\ b = p[2]
  OBVIOUS
<1>2. a \in Nat /\ b \in Nat /\ b > 0
  BY <1>1, SbAssumption
<1>3. PICK x : x = n * a
  OBVIOUS
<1>4. x \in Nat
  BY <1>2, <1>3
<1>5. x \div b \in Nat
  BY ONLY <1>2, <1>4
<1> QED BY <1>1, <1>3, <1>5 DEF Scaled

\* Memory for resampling, made once and for all channels.
LEMMA Readies ==
  ASSUME NEW o, Sound(o), NEW p \in SbPairs, o.channels = Len(o.mem), o.old = 0
  PROVE  LET q == ResampleInit(o, p) IN
         /\ Sound(q) /\ q.steps = o.steps
         /\ \/ View(q) = View(o)
            \/ View(q) = Matrix!Over(View(o), 1..o.channels, 0, o.len, {"?"})
<1>1. PICK q, k, r, need, size :
        /\ q = ResampleInit(o, p) /\ k = Len(o.mem) /\ r = o.reserved
        /\ need = Scaled(o.len, p) + SbMargin /\ size = IF need > r THEN need * 2 ELSE r
  OBVIOUS
<1>2. /\ o.mem \in Memories /\ k \in Nat /\ o.len \in Nat /\ r \in Nat /\ o.channels = k
      /\ o.steps \in Nat /\ o.bad = FALSE /\ o \in Buffers /\ o.len <= r /\ DOMAIN o.mem = 1..k
      /\ o.mem = [c \in 1..k |-> o.mem[c]] /\ Kept(o.mem, r)
  <2>1. o.mem = [c \in 1..k |-> o.mem[c]]
    <3>1. PICK m : m = o.mem
      OBVIOUS
    <3>2. m \in Seq(Seq(Samples)) /\ Len(m) = k
      BY <1>1, <3>1, BufferFields DEF Memories
    <3>3. m = [c \in 1..k |-> m[c]]
      BY ONLY <3>2
    <3> QED BY <3>1, <3>3
  <2> QED BY <1>1, <2>1, BufferFields DEF Sound
<1>3. need \in Nat /\ size \in Nat /\ r <= size
  <2>1. need \in Nat
    <3>1. PICK s : s = Scaled(o.len, p)
      OBVIOUS
    <3>2. s \in Nat /\ SbMargin \in Nat
      BY <1>2, <3>1, ScaledLength, SbAssumption
    <3> QED BY <1>1, <3>1, <3>2
  <2> QED BY <1>1, <1>2, <2>1
<1>4. PICK M : M = [c \in 1..k |-> IF need > r THEN Block(size) ELSE o.mem[c]]
  OBVIOUS
<1>5. M \in Memories /\ Len(M) = k /\ Kept(M, size)
  <2>1. CASE need > r
    <3>1. M = [c \in 1..k |-> M[c]]
      BY <1>4
    <3>2. ASSUME NEW c \in 1..k
          PROVE  M[c] = [t \in 1..size |-> M[c][t]] /\ \A t \in 1..size : M[c][t] \in Samples
      <4>1. M[c] = [t \in 1..size |-> Garbage] /\ Garbage \in Samples
        BY <1>4, <2>1 DEF Block, Garbage, Samples
      <4> QED BY <4>1
    <3> QED BY ONLY <1>2, <1>3, <3>1, <3>2, MemoryMade
  <2>2. CASE ~(need > r)
    <3>1. M = o.mem /\ size = r
      BY <1>1, <1>2, <1>4, <2>2
    <3> QED BY <1>1, <1>2, <3>1
  <2> QED BY <2>1, <2>2
<1>6. q = [o EXCEPT !.reserved = size, !.mem = M, !.old = size]
  <2>1. [c \in DOMAIN o.mem |-> IF c \in Active(o) /\ need > o.reserved THEN Block(size) ELSE o.mem[c]]
        = M
    BY <1>1, <1>2, <1>4 DEF Active
  <2> QED BY <1>1, <2>1 DEF ResampleInit
<1>7. /\ q \in Buffers /\ q.bad = FALSE /\ q.mem = M /\ q.reserved = size /\ q.old = size
      /\ q.channels = k /\ q.len = o.len /\ q.steps = o.steps
  BY ONLY <1>2, <1>3, <1>5, <1>6 DEF Buffers
<1>8. Sound(q)
  BY ONLY <1>2, <1>3, <1>5, <1>7 DEF Sound
<1>9. CASE need > r
  <2>1. Overlaid(o, q, 1..k, 0, o.len, {"?"})
    <3>1. ASSUME NEW c \in 1..k, NEW t \in 1..o.len
          PROVE  q.mem[c][t] = IF c \in 1..k /\ t > 0 /\ t <= o.len THEN {"?"} ELSE o.mem[c][t]
      <4>1. M[c] = [i \in 1..size |-> Garbage]
        BY <1>4, <1>9 DEF Block
      <4>2. t \in 1..size
        BY <1>2, <1>3
      <4>3. M[c][t] = {"?"}
        BY <4>1, <4>2 DEF Garbage
      <4> QED BY <1>2, <1>7, <4>3
    <3> QED BY <1>2, <1>7, <3>1 DEF Overlaid
  <2>2. View(q) = Matrix!Over(View(o), 1..k, 0, o.len, {"?"})
    BY ONLY Sound(o), <2>1, Overs
  <2> QED BY <1>1, <1>2, <1>7, <1>8, <2>2
<1>10. CASE ~(need > r)
  <2>1. M = o.mem
    BY <1>2, <1>4, <1>10
  <2>2. View(q) = View(o)
    BY <1>2, <1>7, <2>1 DEF View
  <2> QED BY <1>1, <1>7, <1>8, <2>2
<1> QED BY <1>9, <1>10

\* Resampling, with the memory for it.
LEMMA Resamples ==
  ASSUME NEW o, Sound(o), NEW p \in SbPairs, o.old > 0, o.len > 0
  PROVE  LET q == Resample(o, p) IN
         /\ Sound(q) /\ q.steps = o.steps /\ View(q).len \in Nat
         /\ View(q) = Matrix!Uniform(o.channels, View(q).len, {"r"})
<1>1. PICK q, w, x, n, d : /\ q = Resample(o, p) /\ n = Scaled(o.len, p) /\ w = LengthInSamples(o, n)
                           /\ x = Write(w, 1..d, 1, w.len, {"r"}) /\ d = o.channels
  OBVIOUS
<1>2. o.len \in Nat /\ o.reserved \in Nat /\ o.len <= o.reserved
  BY BufferFields DEF Sound
<1>3. n \in Nat
  BY <1>1, <1>2, ScaledLength
<1>4. Sound(w) /\ Shaped(o, w, d, n) /\ o.reserved <= w.reserved /\ w.old = w.reserved
  BY <1>1, <1>3, Lengthens
<1>5. w.channels = d /\ w.len = n /\ w.steps = o.steps /\ w.reserved \in Nat
  BY <1>4, BufferFields DEF Shaped
<1>6. Sound(x) /\ SameShape(w, x) /\ View(x) = Matrix!Uniform(d, n, {"r"})
  <2>1. {"r"} \in Samples
    BY DEF Samples
  <2>2. x = Write(w, 1..w.channels, 1, w.len, {"r"})
    BY <1>1, <1>5
  <2>3. Sound(x) /\ SameShape(w, x) /\ View(x) = Matrix!Uniform(w.channels, w.len, {"r"})
    BY ONLY <1>4, <2>1, <2>2, Fills
  <2> QED BY <1>5, <2>3
<1>7. x.bad = FALSE /\ ~(o.len > w.old \/ o.len = 0)
  <2>1. x.bad = FALSE
    BY <1>6, BufferFields
  <2>2. ~(o.len > w.old \/ o.len = 0)
    BY <1>2, <1>4, <1>5
  <2> QED BY <2>1, <2>2
<1>8. PICK b : b = (x.bad \/ o.len > w.old \/ o.len = 0)
  OBVIOUS
<1>9. b = x.bad
  BY <1>7, <1>8
<1>10. q = [x EXCEPT !.bad = b]
  BY <1>1, <1>5, <1>8 DEF Resample, Active
<1>11. q = x
  BY ONLY <1>6, <1>9, <1>10 DEF Sound, Buffers
<1>12. View(x).len = n
  BY <1>6 DEF Matrix!Uniform
<1> QED BY <1>1, <1>3, <1>5, <1>6, <1>11, <1>12 DEF SameShape

-----------------------------------------------------------------------------
(* Every call, and what the matrix does meanwhile.                         *)

\* A call of an operation that gives a sound buffer.
LEMMA BufferCalls ==
  ASSUME SbInv, NEW o, Sound(o), o.steps = sb.steps, SbCall(o)
  PROVE  SbInv' /\ Visible = View(sb) /\ Visible' = View(o)
<1>1. Sound(sb) /\ sb.steps \in Nat /\ sb.steps < SbSteps /\ SbSteps \in Nat
  BY BufferFields, SbAssumption DEF SbInv, SbCall
<1>2. PICK q : q = [o EXCEPT !.steps = o.steps + 1]
  OBVIOUS
<1>3. sb' = q
  BY <1>2 DEF SbCall
<1>4. /\ q \in Buffers /\ q.mem = o.mem /\ q.channels = o.channels /\ q.len = o.len
      /\ q.reserved = o.reserved /\ q.old = o.old /\ q.bad = o.bad /\ q.steps = o.steps + 1
  BY <1>2 DEF Sound, Buffers
<1>5. Sound(q) /\ q.steps <= SbSteps
  BY <1>1, <1>4 DEF Sound
<1>6. View(q) = View(o)
  BY <1>4 DEF View
<1>7. SbInv'
  BY <1>3, <1>5 DEF SbInv
<1>8. Visible' = View(o)
  <2>1. Sound(sb')
    BY <1>3, <1>5
  <2> QED BY <1>3, <1>6, <2>1, ShownNext
<1> QED BY <1>1, <1>7, <1>8, Shown

\* Another shape.
LEMMA ResizeCalls ==
  ASSUME SbInv, NEW o, Sound(o), NEW c \in SbChannels \cup {0, sb.channels},
         NEW n \in SbLengths \cup {0, sb.len}, Shaped(sb, o, c, n), SbCall(o)
  PROVE  SbInv' /\ Matrix!MatrixNext
<1>1. Sound(sb) /\ o.steps = sb.steps
  BY DEF SbInv, Shaped
<1>2. c \in Nat /\ n \in Nat
  <2>1. sb.channels \in Nat /\ sb.len \in Nat
    BY <1>1, BufferFields
  <2> QED BY <2>1, SbAssumption
<1>3. SbInv' /\ Visible = View(sb) /\ Visible' = View(o)
  BY <1>1, BufferCalls
<1>4. View(o) = Matrix!Reshape(View(sb), c, n)
  BY <1>1, <1>2, Reshapes
<1>5. Visible' = Matrix!Reshape(Visible, c, n)
  BY <1>3, <1>4
<1>6. Matrix!Channels(Visible) = sb.channels /\ Visible.len = sb.len
  BY <1>1, <1>3, ViewRows
<1>7. c \in Matrix!SomeChannels /\ n \in Matrix!SomeLengths
  BY <1>6 DEF Matrix!SomeChannels, Matrix!SomeLengths
<1>8. Matrix!Resize
  BY <1>5, <1>7 DEF Matrix!Resize
<1> QED BY <1>3, <1>8 DEF Matrix!MatrixNext

\* Silence.
LEMMA ClearCalls ==
  ASSUME SbInv, NEW o, Sound(o), NEW chans \in SUBSET (1..sb.channels), NEW a \in 0..sb.len,
         NEW b \in 0..sb.len, o.steps = sb.steps, SbCall(o),
         View(o) = Matrix!Over(View(sb), chans, a, b, Matrix!Silence)
  PROVE  SbInv' /\ Matrix!MatrixNext
<1>1. Sound(sb)
  BY DEF SbInv
<1>2. SbInv' /\ Visible = View(sb) /\ Visible' = View(o)
  BY BufferCalls
<1>3. Visible' = Matrix!Over(Visible, chans, a, b, Matrix!Silence)
  BY <1>2
<1>4. Matrix!Channels(Visible) = sb.channels /\ Visible.len = sb.len
  BY <1>1, <1>2, ViewRows
<1>5. chans \in SUBSET (1..Matrix!Channels(Visible)) /\ a \in 0..Visible.len /\ b \in 0..Visible.len
  BY <1>4
<1>6. Matrix!Clear
  BY <1>3, <1>5 DEF Matrix!Clear
<1> QED BY <1>2, <1>6 DEF Matrix!MatrixNext

\* All of another buffer.
LEMMA LoadCalls ==
  ASSUME SbInv, NEW o, Sound(o), NEW c \in SbChannels, NEW n \in SbLengths, o.steps = sb.steps,
         SbCall(o), View(o) = Matrix!Uniform(c, n, {"x"})
  PROVE  SbInv' /\ Matrix!MatrixNext
<1>1. SbInv' /\ Visible' = View(o)
  BY BufferCalls
<1>2. c \in Matrix!SomeChannels /\ n \in Matrix!SomeLengths
  BY DEF Matrix!SomeChannels, Matrix!SomeLengths
<1>3. Matrix!Load
  BY <1>1, <1>2 DEF Matrix!Load
<1> QED BY <1>1, <1>3 DEF Matrix!MatrixNext

\* Every change of the shape.
LEMMA SetShapeStep ==
  ASSUME SbInv, SetShape
  PROVE  SbInv' /\ [Matrix!MatrixNext]_Visible
<1>1. Sound(sb)
  BY DEF SbInv
<1>2. sb.channels \in Nat /\ sb.len \in Nat /\ SbChannels \subseteq Nat /\ SbLengths \subseteq Nat
  BY <1>1, BufferFields, SbAssumption
<1>3. ASSUME NEW n \in SbChannels, SbCall(NumberOfChannels(sb, n))
      PROVE  SbInv' /\ Matrix!MatrixNext
  <2>1. PICK o : o = NumberOfChannels(sb, n)
    OBVIOUS
  <2>2. Sound(o) /\ Shaped(sb, o, n, sb.len) /\ SbCall(o)
    BY <1>1, <1>2, <1>3, <2>1, Widens
  <2> QED BY <2>2, ResizeCalls
<1>4. ASSUME NEW n \in SbChannels, SbCall(ReserveChannels(sb, n))
      PROVE  SbInv' /\ Matrix!MatrixNext
  <2>1. PICK o : o = ReserveChannels(sb, n)
    OBVIOUS
  <2>2. PICK d, l, X : d = sb.channels /\ l = sb.len /\ X = (n + 1)..d
    OBVIOUS
  <2>3. /\ Sound(o) /\ o.steps = sb.steps /\ SbCall(o)
        /\ View(o) = Matrix!Over(View(sb), X, 0, l, Matrix!Silence)
    BY <1>1, <1>2, <1>4, <2>1, <2>2, ReservesChannels
  <2>4. X \in SUBSET (1..sb.channels) /\ 0 \in 0..sb.len /\ l \in 0..sb.len
    BY <1>2, <2>2
  <2> QED BY ONLY SbInv, <2>3, <2>4, ClearCalls
<1>5. ASSUME NEW n \in SbChannels, SbCall(Export(sb, n))
      PROVE  SbInv' /\ [Matrix!MatrixNext]_Visible
  <2>1. CASE n > sb.channels
    BY <1>3, <1>5, <2>1 DEF Export
  <2>2. CASE ~(n > sb.channels)
    <3>1. SbCall(sb)
      BY <1>5, <2>2 DEF Export
    <3>2. PICK o : o = sb
      OBVIOUS
    <3>3. Sound(o) /\ o.steps = sb.steps /\ SbCall(o)
      BY <1>1, <3>1, <3>2
    <3>4. SbInv' /\ Visible = View(sb) /\ Visible' = View(o)
      BY ONLY SbInv, <3>3, BufferCalls
    <3> QED BY <3>2, <3>4
  <2> QED BY <2>1, <2>2
<1>6. ASSUME NEW n \in SbLengths \cup {0}, SbCall(LengthInSamples(sb, n))
      PROVE  SbInv' /\ Matrix!MatrixNext
  <2>1. PICK o : o = LengthInSamples(sb, n)
    OBVIOUS
  <2>2. Sound(o) /\ Shaped(sb, o, sb.channels, n) /\ SbCall(o)
    BY <1>1, <1>2, <1>6, <2>1, Lengthens
  <2> QED BY <2>2, ResizeCalls
<1>7. ASSUME NEW n \in SbLengths, SbCall(ReserveLength(sb, n))
      PROVE  SbInv' /\ Matrix!MatrixNext
  <2>1. PICK o : o = ReserveLength(sb, n)
    OBVIOUS
  <2>2. PICK l, a, X : l = sb.len /\ a = Smaller(n, l) /\ X = 1..sb.channels
    OBVIOUS
  <2>3. /\ Sound(o) /\ o.steps = sb.steps /\ SbCall(o)
        /\ View(o) = Matrix!Over(View(sb), X, a, l, Matrix!Silence)
    BY <1>1, <1>2, <1>7, <2>1, <2>2, ReservesLength
  <2>4. X \in SUBSET (1..sb.channels) /\ a \in 0..sb.len /\ l \in 0..sb.len
    BY <1>2, <2>2 DEF Smaller
  <2> QED BY ONLY SbInv, <2>3, <2>4, ClearCalls
<1>8. SbCall(MakeEmpty(sb)) => SbCall(LengthInSamples(sb, 0))
  BY DEF MakeEmpty
<1> QED BY <1>3, <1>4, <1>5, <1>6, <1>7, <1>8 DEF SetShape

\* Everything that another buffer is copied or added to.
LEMMA CopyFromStep ==
  ASSUME SbInv, CopyFrom
  PROVE  SbInv' /\ Matrix!MatrixNext
<1>1. Sound(sb)
  BY DEF SbInv
<1>2. PICK c \in SbChannels, n \in SbLengths :
        \/ SbCall(CopyAll(sb, c, n)) \/ SbCall(CopyMatching(sb, c, n)) \/ SbCall(AddMatching(sb, c, n))
        \/ SbCall(AddWithWeight(sb, c, n)) \/ SbCall(Import(sb, c, n))
  BY DEF CopyFrom
<1>3. c \in Nat /\ n \in Nat /\ {"x"} \in Samples
  BY SbAssumption DEF Samples
<1>4. ASSUME NEW w, Sound(w), w.channels = c, w.len = n, w.steps = sb.steps,
             SbCall(Write(w, 1..c, 1, n, {"x"}))
      PROVE  SbInv' /\ Matrix!MatrixNext
  <2>1. PICK o : o = Write(w, 1..c, 1, n, {"x"})
    OBVIOUS
  <2>2. Sound(o) /\ SameShape(w, o) /\ View(o) = Matrix!Uniform(c, n, {"x"})
    <3>1. o = Write(w, 1..w.channels, 1, w.len, {"x"})
      BY <1>4, <2>1
    <3>2. Sound(o) /\ SameShape(w, o) /\ View(o) = Matrix!Uniform(w.channels, w.len, {"x"})
      BY <1>3, <1>4, <3>1, Fills
    <3> QED BY <1>4, <3>2
  <2>3. o.steps = sb.steps /\ SbCall(o)
    BY <1>4, <2>1, <2>2 DEF SameShape
  <2> QED BY ONLY SbInv, c \in SbChannels, n \in SbLengths, <2>2, <2>3, LoadCalls
<1>5. CASE SbCall(CopyAll(sb, c, n))
  <2>1. PICK v, w : v = LengthInSamples(sb, n) /\ w = NumberOfChannels(v, c)
    OBVIOUS
  <2>2. Sound(v) /\ v.len = n /\ v.steps = sb.steps
    BY <1>1, <1>3, <2>1, Lengthens DEF Shaped
  <2>3. Sound(w) /\ w.channels = c /\ w.len = n /\ w.steps = sb.steps
    BY <1>3, <2>1, <2>2, Widens DEF Shaped
  <2>4. SbCall(Write(w, 1..c, 1, n, {"x"}))
    BY <1>5, <2>1 DEF CopyAll
  <2> QED BY <1>4, <2>3, <2>4
<1>6. CASE SbCall(Import(sb, c, n))
  <2>1. PICK v, w : v = NumberOfChannels(sb, c) /\ w = LengthInSamples(v, n)
    OBVIOUS
  <2>2. Sound(v) /\ v.channels = c /\ v.steps = sb.steps
    BY <1>1, <1>3, <2>1, Widens DEF Shaped
  <2>3. Sound(w) /\ w.channels = c /\ w.len = n /\ w.steps = sb.steps
    BY <1>3, <2>1, <2>2, Lengthens DEF Shaped
  <2>4. SbCall(Write(w, 1..c, 1, n, {"x"}))
    BY <1>6, <2>1 DEF Import
  <2> QED BY <1>4, <2>3, <2>4
<1>7. CASE SbCall(CopyMatching(sb, c, n))
  <2>1. PICK o : o = CopyMatching(sb, c, n)
    OBVIOUS
  <2>2. Sound(o) /\ o.steps = sb.steps /\ View(o) = Matrix!Put(View(sb), c, n) /\ SbCall(o)
    BY <1>1, <1>3, <1>7, <2>1, Puts
  <2>3. SbInv' /\ Visible = View(sb) /\ Visible' = View(o)
    BY ONLY SbInv, <2>2, BufferCalls
  <2>4. Visible' = Matrix!Put(Visible, c, n)
    BY <2>2, <2>3
  <2>5. Matrix!Combine
    BY <2>4 DEF Matrix!Combine
  <2> QED BY <2>3, <2>5 DEF Matrix!MatrixNext
<1>8. CASE SbCall(AddMatching(sb, c, n)) \/ SbCall(AddWithWeight(sb, c, n))
  <2>1. PICK o : o = AddMatching(sb, c, n)
    OBVIOUS
  <2>2. SbCall(o)
    BY <1>8, <2>1 DEF AddWithWeight
  <2>3. Sound(o) /\ o.steps = sb.steps /\ View(o) = Matrix!Mixed(View(sb), c, n)
    BY <1>1, <1>3, <2>1, Adds
  <2>4. SbInv' /\ Visible = View(sb) /\ Visible' = View(o)
    BY ONLY SbInv, <2>2, <2>3, BufferCalls
  <2>5. Visible' = Matrix!Mixed(Visible, c, n)
    BY <2>3, <2>4
  <2>6. Matrix!Combine
    BY <2>5 DEF Matrix!Combine
  <2> QED BY <2>4, <2>6 DEF Matrix!MatrixNext
<1> QED BY <1>2, <1>5, <1>6, <1>7, <1>8

\* A part of another buffer.
LEMMA CopyPartStep ==
  ASSUME SbInv, CopyPart
  PROVE  SbInv' /\ Matrix!MatrixNext
<1>1. Sound(sb)
  BY DEF SbInv
<1>2. PICK from \in 0..(sb.len - 1), n \in SbLengths : SbCall(CopyRange(sb, from, n))
  BY DEF CopyPart
<1>3. from \in Nat /\ from <= sb.len /\ n \in Nat /\ sb.len \in Nat
  <2>1. sb.len \in Nat
    BY <1>1, BufferFields
  <2> QED BY <1>2, <2>1, SbAssumption
<1>4. PICK o : o = CopyRange(sb, from, n)
  OBVIOUS
<1>5. /\ Sound(o) /\ o.steps = sb.steps /\ SbCall(o)
      /\ View(o) = Matrix!Over(View(sb), 1..sb.channels, from, from + n, {"x"})
  BY <1>1, <1>2, <1>3, <1>4, Copies
<1>6. SbInv' /\ Visible = View(sb) /\ Visible' = View(o)
  BY ONLY SbInv, <1>5, BufferCalls
<1>7. Matrix!Channels(Visible) = sb.channels /\ Visible.len = sb.len
  BY <1>1, <1>6, ViewRows
<1>8. Visible' = Matrix!Over(Visible, 1..Matrix!Channels(Visible), from, from + n, {"x"})
  BY <1>5, <1>6, <1>7
<1>9. from \in 0..Visible.len
  BY <1>3, <1>7
<1>10. Matrix!CopyIn
  BY <1>8, <1>9 DEF Matrix!CopyIn
<1> QED BY <1>6, <1>10 DEF Matrix!MatrixNext

\* All that silences, when a range begins with the buffer.
LEMMA SilencingStep ==
  ASSUME SbInv, \A r \in SbRanges : r[1] = 0 /\ r[2] \in Nat, Silencing
  PROVE  SbInv' /\ Matrix!MatrixNext
<1>1. Sound(sb)
  BY DEF SbInv
<1>2. PICK d, l : d = sb.channels /\ l = sb.len
  OBVIOUS
<1>3. d \in Nat /\ l \in Nat
  BY <1>1, <1>2, BufferFields
<1>4. ASSUME NEW chans \in SUBSET (1..d), NEW to \in 0..l, SbCall(Write(sb, chans, 1, to, {}))
      PROVE  SbInv' /\ Matrix!MatrixNext
  <2>1. PICK o : o = Write(sb, chans, 1, to, {})
    OBVIOUS
  <2>2. chans \in SUBSET (1..sb.channels) /\ to \in 0..sb.len /\ 0 \in 0..sb.len
    BY <1>2, <1>3
  <2>3. /\ Sound(o) /\ o.steps = sb.steps
        /\ View(o) = Matrix!Over(View(sb), chans, 0, to, Matrix!Silence)
    BY ONLY <1>1, <2>1, <2>2, Silences
  <2>4. SbCall(o)
    BY <1>4, <2>1
  <2> QED BY ONLY SbInv, <2>2, <2>3, <2>4, ClearCalls
<1>5. ASSUME NEW c \in Active(sb), SbCall(MultiplyByZero(sb, c))
      PROVE  SbInv' /\ Matrix!MatrixNext
  <2>1. {c} \in SUBSET (1..d) /\ l \in 0..l
    BY <1>2, <1>3 DEF Active
  <2>2. SbCall(Write(sb, {c}, 1, l, {}))
    BY <1>2, <1>5 DEF MultiplyByZero
  <2> QED BY <1>4, <2>1, <2>2
<1>6. ASSUME SbCall(MakeSilent(sb))
      PROVE  SbInv' /\ Matrix!MatrixNext
  <2>1. 1..d \in SUBSET (1..d) /\ l \in 0..l
    BY <1>3
  <2>2. SbCall(Write(sb, 1..d, 1, l, {}))
    BY <1>2, <1>6 DEF MakeSilent, Active
  <2> QED BY <1>4, <2>1, <2>2
<1>7. ASSUME NEW r \in SbRanges, SbCall(MakeSilentRange(sb, r[1], r[2]))
      PROVE  SbInv' /\ Matrix!MatrixNext
  <2>1. PICK to : to = Smaller(r[2], l)
    OBVIOUS
  <2>2. 1..d \in SUBSET (1..d) /\ to \in 0..l /\ r[1] + 1 = 1 /\ r[1] + to = to
    BY <1>3, <2>1 DEF Smaller
  <2>3. SbCall(Write(sb, 1..d, 1, to, {}))
    BY <1>2, <1>7, <2>1, <2>2 DEF MakeSilentRange, Active
  <2> QED BY <1>4, <2>2, <2>3
<1> QED BY <1>5, <1>6, <1>7 DEF Silencing

\* Memory for resampling, made once, while all channels are in use.
LEMMA PrepareResamplingStep ==
  ASSUME SbInv, ~SbNarrowInit, ~SbInitAgain, PrepareResampling
  PROVE  SbInv' /\ [Matrix!MatrixNext]_Visible
<1>1. Sound(sb)
  BY DEF SbInv
<1>2. PICK p \in SbPairs : sb.channels = Len(sb.mem) /\ sb.old = 0 /\ SbCall(ResampleInit(sb, p))
  BY DEF PrepareResampling
<1>3. PICK o : o = ResampleInit(sb, p)
  OBVIOUS
<1>4. /\ Sound(o) /\ o.steps = sb.steps /\ SbCall(o)
      /\ \/ View(o) = View(sb)
         \/ View(o) = Matrix!Over(View(sb), 1..sb.channels, 0, sb.len, {"?"})
  BY <1>1, <1>2, <1>3, Readies
<1>5. SbInv' /\ Visible = View(sb) /\ Visible' = View(o)
  BY ONLY SbInv, <1>4, BufferCalls
<1>6. Matrix!Channels(Visible) = sb.channels /\ Visible.len = sb.len
  BY <1>1, <1>5, ViewRows
<1>7. CASE View(o) = View(sb)
  BY <1>5, <1>7
<1>8. CASE View(o) = Matrix!Over(View(sb), 1..sb.channels, 0, sb.len, {"?"})
  <2>1. Matrix!Lose
    BY <1>5, <1>6, <1>8 DEF Matrix!Lose
  <2> QED BY <1>5, <2>1 DEF Matrix!MatrixNext
<1> QED BY <1>4, <1>7, <1>8

\* Resampling of what there is.
LEMMA ResamplingStep ==
  ASSUME SbInv, ~SbEmptyResample, Resampling
  PROVE  SbInv' /\ Matrix!MatrixNext
<1>1. Sound(sb)
  BY DEF SbInv
<1>2. PICK p \in SbPairs : sb.old > 0 /\ sb.len > 0 /\ SbCall(Resample(sb, p))
  BY DEF Resampling
<1>3. PICK o : o = Resample(sb, p)
  OBVIOUS
<1>4. /\ Sound(o) /\ o.steps = sb.steps /\ SbCall(o) /\ View(o).len \in Nat
      /\ View(o) = Matrix!Uniform(sb.channels, View(o).len, {"r"})
  BY <1>1, <1>2, <1>3, Resamples
<1>5. SbInv' /\ Visible = View(sb) /\ Visible' = View(o)
  BY ONLY SbInv, <1>4, BufferCalls
<1>6. Matrix!Channels(Visible) = sb.channels
  BY <1>1, <1>5, ViewRows
<1>7. (Visible').len \in Nat
  BY <1>4, <1>5
<1>8. Visible' = Matrix!Uniform(Matrix!Channels(Visible), (Visible').len, {"r"})
  BY <1>4, <1>5, <1>6
<1>9. Matrix!Resampled
  BY <1>7, <1>8 DEF Matrix!Resampled
<1> QED BY <1>5, <1>9 DEF Matrix!MatrixNext

\* The empty buffer.
LEMMA StartsEmpty ==
  ASSUME SbInit
  PROVE  SbInv /\ Matrix!MatrixInit
<1>1. PICK o : o = New(0, 0)
  OBVIOUS
<1>2. /\ o.mem = <<>> /\ o.channels = 0 /\ o.len = 0 /\ o.reserved = 0 /\ o.old = 0
      /\ o.bad = FALSE /\ o.steps = 0 /\ o \in Buffers
  <2>1. PICK e, m : /\ m = [k \in 1..0 |-> Block(0)]
                    /\ e = [mem |-> m, channels |-> 0, len |-> 0, reserved |-> 0,
                            old |-> 0, bad |-> FALSE, steps |-> 0]
    OBVIOUS
  <2>2. m = <<>> /\ e.mem = <<>> /\ e.bad = FALSE /\ m \in Memories
    <3>1. m = <<>>
      BY <2>1
    <3> QED BY <2>1, <3>1 DEF Memories
  <2>3. PICK b : b = (e.bad \/ \E c \in 1..0 : 1 <= 0 /\ 0 > Len(e.mem[c]))
    OBVIOUS
  <2>4. b = FALSE
    <3>1. ~ \E c \in 1..0 : 1 <= 0 /\ 0 > Len(e.mem[c])
      OBVIOUS
    <3> QED BY <2>2, <2>3, <3>1
  <2>5. PICK w : w = [c \in DOMAIN e.mem |->
                       IF c \in 1..0
                       THEN [t \in DOMAIN e.mem[c] |-> IF t \in 1..0 THEN {} ELSE e.mem[c][t]]
                       ELSE e.mem[c]]
    OBVIOUS
  <2>6. w = m
    BY <2>2, <2>5
  <2>7. o = [e EXCEPT !.bad = b, !.mem = w]
    BY <1>1, <2>1, <2>3, <2>5 DEF New, Write
  <2>8. o = e
    BY <2>1, <2>2, <2>4, <2>6, <2>7
  <2> QED BY <2>1, <2>2, <2>8 DEF Buffers
<1>3. Sound(o)
  BY <1>2 DEF Sound, Kept
<1>4. sb = o
  BY <1>1 DEF SbInit
<1>5. SbInv
  BY <1>2, <1>3, <1>4, SbAssumption DEF SbInv
<1>6. Visible = [rows |-> <<>>, len |-> 0]
  BY <1>2, <1>4 DEF Visible, Active
<1> QED BY <1>5, <1>6 DEF Matrix!MatrixInit

(* SAMPLE_BUFFER is a matrix of samples: however it was made wider,        *)
(* narrower, longer or shorter before, nothing that was left in its        *)
(* memory comes back into view, what is copied, added or silenced is what  *)
(* a matrix would hold, and no operation leaves the memory.  Resampling    *)
(* needs memory made once, with all channels in use, and a buffer that is  *)
(* not empty; a range is silenced from the start, as the program does.     *)
THEOREM BufferIsMatrix ==
  ASSUME ~SbNarrowInit, ~SbInitAgain, ~SbEmptyResample, \A r \in SbRanges : r[1] = 0 /\ r[2] \in Nat
  PROVE  SbSpec => IsMatrix
<1>1. SbInit => SbInv /\ Matrix!MatrixInit
  BY StartsEmpty
<1>2. SbInv /\ [SbNext]_sb => SbInv' /\ [Matrix!MatrixNext]_Visible
  <2>1. CASE UNCHANGED sb
    <3>1. SbInv /\ UNCHANGED sb => SbInv'
      BY DEF SbInv
    <3>2. UNCHANGED sb => UNCHANGED Visible
      BY DEF Visible, Active
    <3> QED BY <2>1, <3>1, <3>2
  <2>2. SbInv /\ SbNext => SbInv' /\ [Matrix!MatrixNext]_Visible
    BY SetShapeStep, CopyFromStep, CopyPartStep, SilencingStep, PrepareResamplingStep, ResamplingStep
       DEF SbNext
  <2> QED BY <2>1, <2>2
<1>3. SbInv => WithinMemory
  BY DEF SbInv, Sound, WithinMemory
<1> QED BY <1>1, <1>2, <1>3, PTL DEF SbSpec, IsMatrix, Matrix!MatrixSpec
=============================================================================
