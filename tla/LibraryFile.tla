----------------------------- MODULE LibraryFile -----------------------------
(***************************************************************************)
(* Sound files opened with a library: SNDFILE_INTERFACE (libsndfile) and   *)
(* AUDIOFILE_INTERFACE (libaudiofile, for "aiff").  The library keeps a    *)
(* position of its own, and knows of a file what its format tells; the     *)
(* object must agree with both.  One object and its file, opened, moved,   *)
(* read, written and closed again and again.                               *)
(***************************************************************************)
EXTENDS Integers, Sequences

CONSTANTS
  LfKinds,   \* "wav", "flac" (written from first to last), "pipe" (a format that
             \* neither seeks nor tells its length), "raw" (no header), "aiff"
  LfFormats, \* sample formats, of "s16", "f32", "u8"
  LfFiles,   \* contents that files may have
  LfFrames,  \* bound on the frames of a file
  LfBlock,   \* frames read at once
  LfSeeks,   \* positions moved to
  LfSteps    \* bound on the calls

ASSUME LfAssumption ==
  /\ LfKinds \subseteq {"wav", "flac", "pipe", "raw", "aiff"}
  /\ LfFormats \subseteq {"s16", "f32", "u8"}
  /\ LfFrames \in Nat /\ LfSteps \in Nat /\ LfBlock \in Nat \ {0} /\ LfSeeks \subseteq Nat
  /\ LfFiles \subseteq Seq(Nat)

VARIABLES
  lf,
  lfLost  \* history: the first call by which the object and its file went apart, or "none"

----------------------------------------------------------------------------
(* The libraries: the format of a file, whether it can be updated, where   *)
(* the handle can be moved to, and what is written at it.                  *)
LibFormat(o) == IF o.kind = "raw" THEN o.fmt ELSE o.disk.fmt
LibUpdates(o) == o.kind \in {"wav", "raw"}
LibSeekable(o) == o.kind # "pipe" /\ (o.kind = "flac" => o.mode = "read")
LibSeeks(o, to) == LibSeekable(o) /\ (o.mode = "read" => to <= Len(o.disk.data))
LibFrames(o) == IF o.kind = "pipe" THEN 0 ELSE Len(o.disk.data)

PutAt(data, from, block) ==
  [n \in 1..(IF from + Len(block) > Len(data) THEN from + Len(block) ELSE Len(data)) |->
     IF n > from /\ n <= from + Len(block) THEN block[n - from]
     ELSE IF n <= Len(data) THEN data[n] ELSE 0]

NoDisk == [there |-> FALSE, fmt |-> "s16", data |-> <<>>]
LibCreated(o, fmt) == [o EXCEPT !.disk = [there |-> TRUE, fmt |-> fmt, data |-> <<>>], !.want = <<>>]

----------------------------------------------------------------------------
(* seek_position(), and the position that it gives.  out_position() is     *)
(* never true: positions are not below zero and beyond the end at once, so *)
(* only a short read finishes.                                             *)
SndfileSeekFinished(o, to) ==
  IF LibSeeks(o, to) THEN [o EXCEPT !.at = to, !.pos = to]
  ELSE IF LibSeekable(o) THEN [o EXCEPT !.pos = o.at] ELSE o
SndfileSeek(o, to) ==
  LET f == [o EXCEPT !.fin = FALSE] IN
  IF LibSeeks(f, to) THEN [f EXCEPT !.at = to, !.pos = to]
  ELSE IF f.mode = "read" /\ f.known /\ to >= f.len /\ LibSeekable(f)
  THEN [f EXCEPT !.at = Len(f.disk.data), !.pos = Len(f.disk.data)]
  ELSE IF LibSeekable(f) THEN [f EXCEPT !.pos = f.at] ELSE f

(* The library refuses, or moves to the last frame.                        *)
AudiofileSeek(o, to) ==
  LET f == [o EXCEPT !.fin = FALSE] IN
  IF o.mode # "read" THEN {IF to = o.pos THEN o ELSE [o EXCEPT !.fin = TRUE, !.pos = 0]}
  ELSE IF LibSeeks(o, to) THEN {[f EXCEPT !.at = to, !.pos = to]}
  ELSE {[f EXCEPT !.pos = f.at]}
       \cup (IF f.disk.data = <<>> THEN {} ELSE {[f EXCEPT !.at = Len(f.disk.data) - 1, !.pos = to]})

Moved(o, to) == IF o.kind = "aiff" THEN AudiofileSeek(o, to) ELSE {SndfileSeek(o, to)}

----------------------------------------------------------------------------
(* open().                                                                 *)

(* No frames may mean that the format does not tell.                       *)
OpenParseInfo(o) ==
  LET n == LibFrames(o) IN
  [o EXCEPT !.seeks = LibSeekable(o), !.fmt = LibFormat(o),
            !.len = IF n > 0 THEN n ELSE @, !.known = @ \/ n > 0]

(* There are no unsigned formats to write.                                 *)
FileFormat(o) == IF o.fmt = "u8" THEN "s8" ELSE o.fmt

(* SFM_RDWR keeps what is there.  A format that it does not support is     *)
(* opened for writing, and stays so.                                       *)
SndfileOpen(o) ==
  CASE o.mode = "read" -> OpenParseInfo(o)
    [] o.mode = "write" -> LibCreated(o, FileFormat(o))
    [] o.mode = "readwrite" /\ LibUpdates(o) ->
         OpenParseInfo(IF o.disk.there THEN o ELSE LibCreated(o, FileFormat(o)))
    [] o.mode = "readwrite" /\ ~LibUpdates(o) ->
         OpenParseInfo([LibCreated(o, FileFormat(o)) EXCEPT !.mode = "write", !.want = o.want])

AudiofileOpen(o) ==
  IF o.mode = "read"
  THEN [o EXCEPT !.fmt = LibFormat(o), !.len = LibFrames(o), !.known = TRUE, !.seeks = TRUE]
  ELSE [LibCreated(o, o.fmt) EXCEPT !.pos = 0, !.seeks = FALSE]

(* AUDIO_IO::open(): what seek_position() gives is not used, the seek that *)
(* follows in the chainsetup sets the position.                            *)
Placed(o) ==
  IF o.seeks THEN UNION {Moved([f EXCEPT !.pos = o.pos], o.pos) : f \in Moved(o, o.pos)}
  ELSE Moved([o EXCEPT !.pos = 0], 0)

LibraryOpened(o) ==
  LET made == IF o.kind = "aiff" THEN AudiofileOpen(o) ELSE SndfileOpen(o) IN
  Placed([made EXCEPT !.open = TRUE, !.at = 0, !.size = LfBlock, !.buf = <<>>, !.from = 0])

(* read_samples(), read_buffer().                                          *)
LibraryRead(o) ==
  LET rest == Len(o.disk.data) - o.at
      got  == SubSeq(o.disk.data, o.at + 1, o.at + (IF rest < o.size THEN rest ELSE o.size))
  IN [o EXCEPT !.buf = got, !.from = o.pos, !.fin = Len(got) < o.size,
               !.pos = @ + Len(got), !.at = @ + Len(got)]

(* write_samples(), write_buffer(): the buffer size is that of the block.  *)
LibraryWritten(o, block) ==
  LET p == o.pos + Len(block) IN
  [o EXCEPT !.disk.data = PutAt(@, o.at, block), !.want = PutAt(@, o.pos, block),
            !.size = Len(block), !.pos = p, !.at = @ + Len(block), !.buf = <<>>,
            !.len = IF p > @ THEN p ELSE @]

----------------------------------------------------------------------------
NewLibraryFile(kind, mode, fmt, disk) ==
  [kind |-> kind, mode |-> mode, fmt |-> fmt, disk |-> disk, open |-> FALSE, seeks |-> TRUE,
   pos |-> 0, at |-> 0, len |-> 0, known |-> FALSE, fin |-> FALSE, size |-> LfBlock,
   buf |-> <<>>, from |-> 0,
   want |-> disk.data,  \* history: what was there, and what was written to positions of the object
   used |-> FALSE, t |-> 0]

(* The modes that the objects support, and the formats.                    *)
LibraryModes(kind) ==
  CASE kind = "aiff" -> {"read", "write"} [] kind = "pipe" -> {"read"}
    [] OTHER -> {"read", "write", "readwrite"}

LfInit ==
  \E k \in LfKinds, f \in LfFormats, g \in LfFormats :
    \E mode \in LibraryModes(k) :
      \E disk \in {NoDisk} \cup {[there |-> TRUE, fmt |-> f, data |-> d] : d \in LfFiles} :
        lf = NewLibraryFile(k, mode, g, disk) /\ lfLost = "none"

LfCalls(o, why) ==
  /\ lf.t < LfSteps /\ lf' = [o EXCEPT !.t = @ + 1]
  /\ lfLost' = IF lfLost = "none" THEN why ELSE lfLost

(* A file that can only be written loses what is in it when it is opened   *)
(* in update mode ("update"), and its object starts where it was when it   *)
(* is opened again ("again"); libaudiofile may have moved to the last      *)
(* frame instead of a later one ("clamp").                                 *)
LastInstead(o) == o.kind = "aiff" /\ o.mode = "read" /\ o.at # o.pos
LfOpen ==
  /\ ~lf.open /\ (lf.mode = "read" => lf.disk.there)
  /\ \E o \in LibraryOpened([lf EXCEPT !.used = TRUE]) :
       LfCalls(o, CASE lf.kind = "flac" /\ lf.mode # "read" /\ lf.used -> "again"
                    [] lf.kind = "flac" /\ lf.mode = "readwrite" /\ lf.disk.data # <<>> -> "update"
                    [] LastInstead(o) -> "clamp"
                    [] OTHER -> "none")

(* Another object for the same file.                                       *)
LfReplace ==
  /\ ~lf.open /\ lf.used
  /\ \E mode \in LibraryModes(lf.kind) :
       LfCalls([NewLibraryFile(lf.kind, mode, lf.fmt, lf.disk) EXCEPT !.t = lf.t], "none")

(* Every output is moved with the others, and one of libaudiofile cannot   *)
(* ("rewind").                                                             *)
LfSeek ==
  /\ lf.open
  /\ \E to \in LfSeeks : \E o \in Moved(lf, to) :
       LfCalls([o EXCEPT !.buf = <<>>],
               CASE lf.kind = "aiff" /\ lf.mode = "write" /\ to # lf.pos -> "rewind"
                 [] LastInstead(o) -> "clamp"
                 [] OTHER -> "none")

LfRead ==
  /\ lf.open /\ lf.mode = "read" /\ ~lf.fin
  /\ LfCalls(LibraryRead(lf), "none")

LfWrite ==
  /\ lf.open /\ lf.mode # "read"
  /\ \E n \in 1..LfBlock :
       /\ lf.pos + n <= LfFrames
       /\ LfCalls(LibraryWritten(lf, [k \in 1..n |-> 10 * lf.t + k]), "none")

LfClose ==
  /\ lf.open
  /\ LfCalls([lf EXCEPT !.open = FALSE, !.buf = <<>>], "none")

LfNext == LfOpen \/ LfReplace \/ LfSeek \/ LfRead \/ LfWrite \/ LfClose
LfSpec == LfInit /\ [][LfNext]_<<lf, lfLost>>

----------------------------------------------------------------------------
(* Properties.                                                             *)

(* The fields keep their types.                                            *)
LfTypeOK ==
  /\ lf.kind \in LfKinds /\ lf.mode \in {"read", "write", "readwrite"}
  /\ {lf.pos, lf.at, lf.len, lf.from} \subseteq Nat /\ lf.size \in 1..LfBlock
  /\ lf.t \in 0..LfSteps /\ Len(lf.buf) <= LfBlock

(* What is read is what the file holds at the position of the object,      *)
(* wherever seeks that succeed or fail have left the library.              *)
BlocksTrue ==
  \A k \in 1..Len(lf.buf) : lf.from + k <= Len(lf.want) /\ lf.buf[k] = lf.want[lf.from + k]

(* Nothing written is lost or misplaced, in update mode what was in the    *)
(* file before included.                                                   *)
WrittenKept == lf.disk.data = lf.want

(* The end is announced at the end only, for formats that do not tell      *)
(* their length too, and taken back by a seek; an output has none.         *)
EndTrue ==
  lf.open /\ lf.fin =>
    lf.mode = "read" /\ lf.at = Len(lf.disk.data) /\ lf.pos >= Len(lf.disk.data)

(* The object has the format that the samples have in the file; an output  *)
(* without sign is written with one.                                       *)
FormatTrue ==
  lf.open => \/ lf.fmt = lf.disk.fmt \/ lf.kind = "raw"
             \/ lf.mode = "write" /\ lf.fmt = "u8" /\ lf.disk.fmt = "s8"

(* The four together, up to the call by which the object and its file went *)
(* apart, if there is one.                                                 *)
LibraryExact == lfLost = "none" => BlocksTrue /\ WrittenKept /\ EndTrue /\ FormatTrue
=============================================================================
