------------------------------ MODULE DbBuffer ------------------------------
(***************************************************************************)
(* AUDIO_IO_DB_BUFFER: the ring of sample buffers that an AUDIO_IO_DB_     *)
(* SERVER and one of its clients share.  Two atomic pointers and the       *)
(* arithmetic on them; one slot always stays empty, so that equal pointers *)
(* mean an empty ring.  The unsigned arithmetic of the code (size_t) gives *)
(* the same results as the integers here: a sum is taken modulo the size   *)
(* after the size has been added.                                          *)
(***************************************************************************)
EXTENDS Integers

CONSTANT Buffers    \* number_of_buffers: length of sbufs_rep

ASSUME BuffersAssumption == Buffers \in Nat \ {0}

Slots == 0 .. Buffers - 1

\* read_space(): sample buffers that can be read.
ReadSpace(readptr, writeptr) ==
  IF writeptr >= readptr
    THEN writeptr - readptr
    ELSE (writeptr - readptr + Buffers) % Buffers

NoGap(readptr, writeptr) == Buffers - ReadSpace(readptr, writeptr)

\* write_space(): sample buffers that can be written.
WriteSpace(readptr, writeptr) ==
  IF writeptr > readptr
    THEN ((readptr - writeptr + Buffers) % Buffers) - 1
    ELSE IF writeptr < readptr THEN readptr - writeptr - 1
                               ELSE Buffers - 1

\* advance_read_pointer(), advance_write_pointer().
Advanced(ptr) == (ptr + 1) % Buffers

\* The slot k places after ptr.
SlotAt(ptr, k) == IF ptr + k >= Buffers THEN ptr + k - Buffers ELSE ptr + k
=============================================================================
