------------------------------ MODULE AudioFile ------------------------------
(***************************************************************************)
(* Sound files: WAVEFILE, RAWFILE and CDRFILE over ECA_FILE_IO_STREAM      *)
(* (stdio) or ECA_FILE_IO_MMAP.  One object and its file, opened, moved,   *)
(* read, written and closed again and again in each mode, and a program    *)
(* that may end without closing: what stdio had not written yet is lost,   *)
(* and the header of a wave file says that it holds nothing.               *)
(*                                                                         *)
(* The data of the file is a sequence of frames; 0 is a hole or padding.   *)
(***************************************************************************)
EXTENDS Integers, Sequences, SequencesExt

CONSTANTS
  AfKinds,    \* "wave", "raw", "cdr"
  AfFrames,   \* bound on the frames of a file
  AfBlock,    \* frames read or written at once
  AfSector,   \* frames in a sector of an audio CD
  AfMax,      \* the largest size a RIFF header can hold, in frames
  AfSeeks,    \* positions moved to
  AfSteps     \* bound on the calls

ASSUME AfAssumption ==
  /\ AfKinds \subseteq {"wave", "raw", "cdr"}
  /\ AfFrames \in Nat /\ AfSteps \in Nat /\ AfSeeks \subseteq Nat
  /\ AfBlock \in Nat \ {0} /\ AfSector \in Nat \ {0} /\ AfMax \in Nat /\ AfMax > 5

VARIABLES
  af,
  afLost  \* history: the first call by which the object and its file went apart, or "none"

Lower(a, b) == IF a < b THEN a ELSE b
Upper(a, b) == IF a > b THEN a ELSE b
Foreign == -1

(* fwrite() at a position; what is skipped is a hole.                      *)
Over(data, from, block) ==
  [n \in 1..Upper(Len(data), IF block = <<>> THEN 0 ELSE from + Len(block)) |->
     IF n > from /\ n <= from + Len(block) THEN block[n - from]
     ELSE IF n <= Len(data) THEN data[n] ELSE 0]

(* ECA_FILE_IO_STREAM: what was written waits in the buffer of stdio until *)
(* the file is moved in or closed; pend[k] is the file with the first k of *)
(* the writes that wait.                                                   *)
After(o, k) == IF k = 0 THEN o.disk.data ELSE o.pend[k]
Pending(o) == After(o, Len(o.pend))
Flushed(o) == [o EXCEPT !.disk.data = Pending(o), !.pend = <<>>]
MoveIn(o, to) == [Flushed(o) EXCEPT !.fpos = to, !.eof = FALSE]
Written(o, block) ==
  [o EXCEPT !.pend = Append(@, Over(Pending(o), o.fpos, block)), !.fpos = @ + Len(block)]

(* ECA_FILE_IO_MMAP: the end is reached with the last byte.                *)
MmapMoved(o, to) ==
  LET n == Len(o.disk.data) + Len(o.disk.tail) IN
  [o EXCEPT !.fpos = Lower(to, n), !.eof = to >= n]
SetFilePosition(o, to) == IF o.mmap THEN MmapMoved(o, to) ELSE MoveIn(o, to)

(* read_to_buffer(): all that follows, other chunks too.                   *)
Following(o, n) ==
  LET all == Pending(o) \o o.disk.tail IN SubSeq(all, o.fpos + 1, Lower(o.fpos + n, Len(all)))
Fetched(o, n) ==
  LET got == Following(o, n) IN
  IF o.mmap THEN [MmapMoved(o, o.fpos + Len(got)) EXCEPT !.buf = got]
  ELSE [o EXCEPT !.buf = got, !.fpos = @ + Len(got), !.eof = Len(got) < n]

----------------------------------------------------------------------------
(* set_length_in_bytes().  A data block without a size, or with the        *)
(* largest one, reaches to the end of the file.                            *)
WaveLength(o) ==
  LET f == Flushed(o)
      n == IF f.disk.dsize \notin {0, AfMax} THEN f.disk.dsize
           ELSE Len(f.disk.data) + Len(f.disk.tail)
  IN [f EXCEPT !.len = n * (IF o.mode = "readwrite" /\ ~o.open THEN o.scale ELSE 1), !.known = TRUE]
RawLength(o) == [o EXCEPT !.len = Len(o.disk.data), !.known = TRUE]
(* stat() of a file that may have been written to: what was flushed.       *)
CdrLength(o) == [o EXCEPT !.len = Len(o.disk.data), !.known = TRUE]

Empty == [there |-> TRUE, dsize |-> 0, data |-> <<>>, tail |-> <<>>]
Truncated(o) == [o EXCEPT !.disk = Empty, !.want = <<>>]

(* open().                                                                 *)
WaveOpen(o) ==
  IF o.mode = "write" \/ (o.mode = "readwrite" /\ ~o.disk.there) THEN Truncated(o) ELSE WaveLength(o)
RawOpen(o) ==
  RawLength(IF o.mode = "write" \/ (o.mode = "readwrite" /\ ~o.disk.there) THEN Truncated(o) ELSE o)
CdrOpen(o) ==
  IF o.mode = "write" THEN Truncated(o)
  ELSE CdrLength(IF o.mode = "readwrite" /\ ~o.disk.there THEN Truncated(o) ELSE o)

(* seek_position().  Built with 64-bit offsets, CDRFILE moves in steps     *)
(* until it is there, and takes none to the first sample.                  *)
StaysBehind(o, to) == o.kind = "cdr" /\ o.lfs /\ to = 0
SeekPosition(o, to) ==
  [(IF StaysBehind(o, to) THEN o ELSE SetFilePosition(o, to)) EXCEPT !.pos = to]

FileOpened(o) ==
  LET made == CASE o.kind = "wave" -> WaveOpen(o)
                [] o.kind = "raw" -> RawOpen(o)
                [] o.kind = "cdr" -> CdrOpen(o)
  IN [SeekPosition([made EXCEPT !.fpos = 0, !.eof = FALSE], made.pos) EXCEPT
        !.open = TRUE, !.buf = <<>>, !.at = made.pos]

(* update() and close().  The data block reaches to the end of the file.   *)
UpdateRiff(o) ==
  LET f == Flushed(o)  n == Len(f.disk.data) + Len(f.disk.tail) IN
  WaveLength([f EXCEPT !.disk.dsize = Lower(n, AfMax), !.disk.data = @ \o f.disk.tail, !.disk.tail = <<>>])
WaveCloseOnly(o) == Flushed(o)
WaveClose(o) == IF o.mode = "read" THEN o ELSE UpdateRiff(o)
RawClose(o) == Flushed(o)

(* pad_to_sectorsize(), after what was written last.                       *)
PadToSectorsizeAlways(o) ==
  Written(o, [n \in 1..(AfSector - ((o.len + 1) % AfSector)) |-> 0])
PadToSectorsize(o) ==
  LET pad == AfSector - (o.len % AfSector) IN
  IF pad = AfSector THEN o ELSE Written(o, [n \in 1..pad |-> 0])
CdrClose(o) == Flushed(IF o.mode = "read" THEN o ELSE PadToSectorsize(o))

FileClosed(o) ==
  [(CASE o.kind = "wave" -> WaveClose(o)
      [] o.kind = "raw" -> RawClose(o)
      [] o.kind = "cdr" -> CdrClose(o)) EXCEPT !.open = FALSE, !.buf = <<>>]

(* read_samples(): a wave file is read to its length.                      *)
WaveCountAll(o) == AfBlock
WaveCount(o) ==
  IF o.known /\ o.pos + AfBlock >= o.len THEN o.len - o.pos ELSE AfBlock
ReadSamples(o) ==
  LET r == Fetched(o, IF o.kind = "wave" THEN WaveCount(o) ELSE AfBlock) IN
  [r EXCEPT !.at = o.pos, !.pos = @ + Len(r.buf)]

(* finished().                                                             *)
WaveFinished(o) == (o.mode = "read" /\ o.known /\ o.pos >= o.len) \/ o.eof
FileFinished(o) == IF o.kind = "wave" THEN WaveFinished(o) ELSE o.eof

(* write_samples(), extend_position().                                     *)
WriteSamples(o, block) ==
  LET w == Written(o, block)  p == o.pos + Len(block) IN
  [w EXCEPT !.pos = p, !.len = Upper(@, p), !.known = @ \/ p > o.len,
            !.want = Over(@, o.pos, block)]

----------------------------------------------------------------------------
NewFile(kind, disk) ==
  [kind |-> kind, mode |-> "read", mmap |-> FALSE, lfs |-> FALSE, scale |-> 1, disk |-> disk,
   open |-> FALSE, pos |-> 0, len |-> 0, known |-> FALSE, fpos |-> 0, eof |-> FALSE, pend |-> <<>>,
   buf |-> <<>>, at |-> 0, want |-> disk.data, used |-> FALSE, t |-> 0]

(* No file, or one of another program, which may have put a chunk after    *)
(* the data.                                                               *)
Disks(kind) ==
  {[Empty EXCEPT !.there = FALSE]}
  \cup {[there |-> TRUE, dsize |-> IF kind = "wave" THEN Len(d) ELSE 0, data |-> d, tail |-> c] :
          d \in {<<1, 2, 3, 4>>, <<1, 2, 3, 4, 5>>},
          c \in (IF kind = "wave" THEN {<<>>, <<Foreign>>} ELSE {<<>>})}

AfInit ==
  /\ \E k \in AfKinds : \E d \in Disks(k), lfs \in BOOLEAN :
       /\ lfs => k = "cdr"
       /\ af = [NewFile(k, d) EXCEPT !.lfs = lfs]
  /\ afLost = "none"

Loses(why, case) == IF case THEN why ELSE "none"
Calls(o, why) ==
  /\ af.t < AfSteps /\ af' = [o EXCEPT !.t = @ + 1]
  /\ afLost' = IF afLost = "none" THEN why ELSE afLost

(* The length of a wave file to be updated is taken with the sample format *)
(* of the object ("format"), and its data block takes in the chunks behind *)
(* it ("chunks").                                                          *)
AfOpen ==
  /\ ~af.open
  /\ \E mode \in {"read", "write", "readwrite"}, mmap \in BOOLEAN, scale \in {1, 2} :
       /\ mode = "read" => af.disk.there
       /\ mmap => mode = "read" /\ af.kind # "cdr" /\ Len(af.disk.data) > 0
       /\ scale = 2 => af.kind = "wave" /\ mode = "readwrite" /\ af.disk.there
       /\ Calls([FileOpened([af EXCEPT !.mode = mode, !.mmap = mmap, !.scale = scale]) EXCEPT
                   !.used = TRUE],
                IF scale = 2 THEN "format"
                ELSE Loses("chunks", mode = "readwrite" /\ af.disk.tail # <<>>))
AfSeek ==
  af.open /\ \E to \in AfSeeks :
    Calls([SeekPosition(af, to) EXCEPT !.buf = <<>>, !.at = to],
          Loses("rewind", StaysBehind(af, to) /\ af.fpos # 0))
AfRead ==
  /\ af.open /\ af.mode # "write" /\ ~FileFinished(af)
  /\ af.pend = <<>> /\ (af.mode = "readwrite" => af.pos < af.len)
  /\ Calls(ReadSamples(af), "none")
AfWrite ==
  /\ af.open /\ af.mode # "read" /\ af.pos + AfBlock <= AfFrames
  /\ Calls([WriteSamples(af, [n \in 1..AfBlock |-> 10 * af.t + n]) EXCEPT !.buf = <<>>], "none")
(* The padding of a CDR file goes where its writer is, and is what the     *)
(* length that the object knows asks for ("padding").                      *)
AtEnd(o) == o.fpos = o.len /\ o.len = Len(Pending(o))
AfClose ==
  /\ af.open
  /\ Calls(FileClosed(af), Loses("padding", af.kind = "cdr" /\ af.mode # "read" /\ ~AtEnd(af)))
(* The program ends; a part of what was not flushed is written or not.     *)
(* What was added to a wave file behind the size in its header is then no  *)
(* part of its data.                                                       *)
DataOnly(o, data) ==
  IF o.kind = "wave" /\ o.disk.dsize \notin {0, AfMax}
  THEN SubSeq(data, 1, Lower(o.disk.dsize, Len(data))) ELSE data
AfCrash ==
  /\ af.open
  /\ \E k \in 0..Len(af.pend) :
       LET c == After(af, k)  kept == DataOnly(af, c) IN
       Calls([af EXCEPT !.open = FALSE, !.disk.data = kept,
                !.disk.tail = SubSeq(c, Len(kept) + 1, Len(c)) \o @, !.pend = <<>>, !.buf = <<>>,
                !.pos = 0, !.len = 0, !.known = FALSE, !.want = kept, !.used = FALSE], "none")

AfNext == AfOpen \/ AfSeek \/ AfRead \/ AfWrite \/ AfClose \/ AfCrash
AfSpec == AfInit /\ [][AfNext]_<<af, afLost>>

----------------------------------------------------------------------------
(* Properties.                                                             *)

AfTypeOK ==
  /\ DOMAIN af = DOMAIN NewFile("raw", Empty) /\ af.kind \in AfKinds
  /\ af.pos \in Nat /\ af.fpos \in Nat /\ af.len \in Nat /\ af.t \in 0..AfSteps
  /\ Len(af.buf) <= AfBlock

(* What is read from a file is what was written to it last, at the same    *)
(* position, by whichever of the objects and modes; a wave file does not   *)
(* give the chunks behind its data.                                        *)
ReadsWritten ==
  \A k \in 1..Len(af.buf) :
    IF af.at + k <= Len(af.want) THEN af.buf[k] = af.want[af.at + k]
    ELSE af.kind = "cdr" /\ af.buf[k] = 0

(* The length of an open file is that of its contents, and a reader is     *)
(* finished only at it.  It is so after a crash too, when the header of a  *)
(* wave file has no size, and for files that are too large for a header.   *)
LengthTrue ==
  /\ af.open /\ af.mode = "read" =>
       /\ af.kind # "cdr" => af.len = Len(af.want)
       /\ FileFinished(af) => af.pos >= Len(af.want)
  /\ af.open /\ af.mode # "read" /\ af.known => af.len >= Len(af.want)

(* A closed CDR file is a whole number of sectors, and has lost nothing to *)
(* the padding.                                                            *)
CdrPadded ==
  af.kind = "cdr" /\ ~af.open /\ af.used /\ af.mode # "read" =>
    /\ Len(af.disk.data) % AfSector = 0
    /\ IsPrefix(af.want, af.disk.data)

(* The three together, up to the call by which the object and its file     *)
(* went apart, if there is one: an update of a wave file in another sample *)
(* format than it has or with chunks behind its data, a CDR file closed    *)
(* after a move or short of its end, and a seek of one to its start when   *)
(* offsets have 64 bits.                                                   *)
FilesExact == afLost = "none" => ReadsWritten /\ LengthTrue /\ CdrPadded
=============================================================================
