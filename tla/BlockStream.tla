---------------------------- MODULE BlockStream ----------------------------
(***************************************************************************)
(* What the double-buffering layer promises the engine for one audio       *)
(* object: blocks come out in the order they went in, none is lost,        *)
(* repeated or altered while the stream plays, and at most Capacity blocks *)
(* are under way.  A block is named by its position in the audio object.   *)
(* A seek restarts both ends at one position.                              *)
(***************************************************************************)
EXTENDS Integers

CONSTANTS Capacity, Position

VARIABLES in,     \* position of the next block to enter
          out,    \* position of the next block to leave
          moved   \* the block that left last, -1 before the first one

StreamInit == in = 0 /\ out = 0 /\ moved = -1

Accept == /\ in - out < Capacity
          /\ in' = in + 1
          /\ UNCHANGED <<out, moved>>

Deliver == /\ out < in
           /\ moved' = out
           /\ out' = out + 1
           /\ UNCHANGED in

Seek == /\ \E t \in Position : in' = t /\ out' = t
        /\ UNCHANGED moved

StreamNext == Accept \/ Deliver \/ Seek

StreamStep == [StreamNext]_<<in, out, moved>>

StreamSpec == StreamInit /\ [][StreamNext]_<<in, out, moved>>
=============================================================================
