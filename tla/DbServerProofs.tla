--------------------------- MODULE DbServerProofs ---------------------------
(***************************************************************************)
(* Proofs about DbServer, for any number of clients, ring size and length. *)
(***************************************************************************)
EXTENDS DbServer, TLAPS

-----------------------------------------------------------------------------
(* What the pointer arithmetic of a ring returns, for every ring size.     *)

\* advance_read_pointer() and advance_write_pointer() step to the next slot
\* and wrap at the end.
LEMMA AdvancedSlot ==
  ASSUME NEW p \in Slots
  PROVE  /\ Advanced(p) = IF p + 1 = Buffers THEN 0 ELSE p + 1
         /\ Advanced(p) \in Slots
  BY BuffersAssumption DEF Slots, Advanced

\* read_space() is the distance from the read to the write pointer.
LEMMA ReadSpaceValue ==
  ASSUME NEW r \in Slots, NEW w \in Slots
  PROVE  /\ ReadSpace(r, w) = IF w >= r THEN w - r ELSE w - r + Buffers
         /\ ReadSpace(r, w) \in 0 .. Buffers - 1
         /\ ReadSpace(r, w) = 0 <=> r = w
  BY BuffersAssumption DEF Slots, ReadSpace

\* write_space() is what read_space() leaves, but for the one slot that keeps a
\* full ring apart from an empty one.
THEOREM SpaceShared ==
  ASSUME NEW r \in Slots, NEW w \in Slots
  PROVE  /\ WriteSpace(r, w) = Buffers - 1 - ReadSpace(r, w)
         /\ WriteSpace(r, w) \in 0 .. Buffers - 1
<1>1. /\ ReadSpace(r, w) = IF w >= r THEN w - r ELSE w - r + Buffers
      /\ ReadSpace(r, w) \in 0 .. Buffers - 1
  BY ReadSpaceValue
<1>2. r \in Int /\ w \in Int /\ Buffers \in Nat \ {0} /\ 0 <= r /\ 0 <= w
      /\ r < Buffers /\ w < Buffers
  BY BuffersAssumption DEF Slots
<1>3. CASE w > r
  <2>1. (r - w + Buffers) % Buffers = r - w + Buffers
    BY <1>2, <1>3
  <2> QED BY <1>1, <1>2, <1>3, <2>1 DEF WriteSpace
<1>4. CASE ~(w > r)
  BY <1>1, <1>2, <1>4 DEF WriteSpace
<1> QED BY <1>3, <1>4

\* The writer's advance makes one more block readable, if there was room, and
\* the block it leaves behind follows those that were readable.
LEMMA WriteAdvance ==
  ASSUME NEW r \in Slots, NEW w \in Slots, WriteSpace(r, w) > 0
  PROVE  /\ ReadSpace(r, Advanced(w)) = ReadSpace(r, w) + 1
         /\ SlotAt(r, ReadSpace(r, w)) = w
<1>1. r \in Int /\ w \in Int /\ Buffers \in Nat \ {0} /\ 0 <= r /\ 0 <= w
      /\ r < Buffers /\ w < Buffers
  BY BuffersAssumption DEF Slots
<1>2. Advanced(w) = (IF w + 1 = Buffers THEN 0 ELSE w + 1) /\ Advanced(w) \in Slots
  BY AdvancedSlot
<1>3. ReadSpace(r, w) = IF w >= r THEN w - r ELSE w - r + Buffers
  BY ReadSpaceValue
<1>4. ReadSpace(r, Advanced(w))
        = IF Advanced(w) >= r THEN Advanced(w) - r ELSE Advanced(w) - r + Buffers
  BY <1>2, ReadSpaceValue
<1>5. ReadSpace(r, w) < Buffers - 1
  BY <1>1, <1>3, SpaceShared
<1> QED BY <1>1, <1>2, <1>3, <1>4, <1>5 DEF SlotAt

\* The reader's advance makes one block less readable, if there was one, and
\* the blocks that stay keep their slots.
LEMMA ReadAdvance ==
  ASSUME NEW r \in Slots, NEW w \in Slots, ReadSpace(r, w) > 0
  PROVE  /\ ReadSpace(Advanced(r), w) = ReadSpace(r, w) - 1
         /\ \A k \in Nat : k + 1 < Buffers
              => SlotAt(Advanced(r), k) = SlotAt(r, k + 1)
<1>1. r \in Int /\ w \in Int /\ Buffers \in Nat \ {0} /\ 0 <= r /\ 0 <= w
      /\ r < Buffers /\ w < Buffers
  BY BuffersAssumption DEF Slots
<1>2. Advanced(r) = (IF r + 1 = Buffers THEN 0 ELSE r + 1) /\ Advanced(r) \in Slots
  BY AdvancedSlot
<1>3. ReadSpace(r, w) = IF w >= r THEN w - r ELSE w - r + Buffers
  BY ReadSpaceValue
<1>4. ReadSpace(Advanced(r), w)
        = IF w >= Advanced(r) THEN w - Advanced(r) ELSE w - Advanced(r) + Buffers
  BY <1>2, ReadSpaceValue
<1> QED BY <1>1, <1>2, <1>3, <1>4 DEF SlotAt

\* What the writer puts into its slot is none of what can be read.
LEMMA ReadableSlot ==
  ASSUME NEW r \in Slots, NEW w \in Slots, NEW k \in Nat, k < ReadSpace(r, w)
  PROVE  SlotAt(r, k) \in Slots /\ SlotAt(r, k) # w
<1>1. r \in Int /\ w \in Int /\ Buffers \in Nat \ {0} /\ 0 <= r /\ 0 <= w
      /\ r < Buffers /\ w < Buffers
  BY BuffersAssumption DEF Slots
<1>2. ReadSpace(r, w) = IF w >= r THEN w - r ELSE w - r + Buffers
  BY ReadSpaceValue
<1> QED BY <1>1, <1>2 DEF SlotAt, Slots

-----------------------------------------------------------------------------
(* The threads.                                                            *)

\* The local variables that index a client do so where they are used.
PlacesOK ==
  /\ iopc \in {"scan", "transfer", "mark", "advance"} => iop \in Clients
  /\ epc \in {"read", "underrun", "write", "overrun", "retry", "flushed",
              "pause", "paused", "quiet"} => cur \in Clients

TypeInv == TypeOK /\ PlacesOK

\* A ring has a first slot, and each slot a next one.
LEMMA SlotsType ==
  ASSUME NEW p \in Slots
  PROVE  0 \in Slots /\ Advanced(p) \in Slots
  BY BuffersAssumption, AdvancedSlot DEF Slots, Advanced

\* A file has a start, and a position before its end a next one.
LEMMA PositionType ==
  /\ 0 \in Position
  /\ \A p \in Position : p < Length => p + 1 \in Position
  BY DbServerAssumption DEF Position

\* The clients are numbered from one, in the order in which the thread serves them.
LEMMA ClientsType ==
  /\ 1 \in Clients
  /\ \A c \in Clients : c # NClients => c + 1 \in Clients
  /\ Clients \subseteq 0 .. NClients /\ 0 \in 0 .. NClients
  /\ Readers \subseteq Clients
  BY DbServerAssumption DEF Clients

\* A child's step on a write keeps the types.
LEMMA ChildWriteType ==
  ASSUME DataTypes, NEW c \in Clients, ChildWrite(c)
  PROVE  /\ childpos' \in [Clients -> Position]
         /\ childerr' \in [Clients -> BOOLEAN]
         /\ moved' \in [Clients -> Position \cup {-1}]
<1>1. CASE /\ childpos' = [childpos EXCEPT ![c] = IF @ < Length THEN @ + 1 ELSE @]
           /\ moved' = [moved EXCEPT ![c] = sbufs[c][readptr[c]]]
           /\ UNCHANGED childerr
  BY <1>1, PositionType DEF DataTypes
<1>2. CASE childerr' = [childerr EXCEPT ![c] = TRUE] /\ UNCHANGED <<childpos, moved>>
  BY <1>2 DEF DataTypes
<1> QED BY <1>1, <1>2 DEF ChildWrite

\* The types hold before the first step.
LEMMA InitTypeInv == Init => TypeInv
<1> SUFFICES ASSUME Init PROVE TypeInv
  OBVIOUS
<1>1. DataTypes
  BY SlotsType, PositionType, BuffersAssumption DEF Init, DataTypes, Slots
<1>2. FlagTypes
  BY Zenon DEF Init, FlagTypes
<1>3. PlaceTypes /\ PlacesOK
  BY PositionType, ClientsType
     DEF Init, PlaceTypes, PlacesOK, IoPlaces, EnginePlaces, Goals
<1> QED BY <1>1, <1>2, <1>3 DEF TypeInv, TypeOK

\* Every step keeps the types: the pointers stay in the ring, the positions in
\* the stream.
LEMMA NextTypeInv == TypeInv /\ [Next]_vars => TypeInv'
<1> SUFFICES ASSUME TypeInv, [Next]_vars PROVE TypeInv'
  OBVIOUS
<1> USE DEF TypeInv, TypeOK, ring, child, client, flags, io, job, eng
<1>0. /\ 0 \in Slots /\ \A p \in Slots : Advanced(p) \in Slots
      /\ 0 \in Position /\ \A p \in Position : p < Length => p + 1 \in Position
      /\ 1 \in Clients /\ \A c \in Clients : c # NClients => c + 1 \in Clients
      /\ Clients \subseteq 0 .. NClients /\ 0 \in 0 .. NClients
      /\ Readers \subseteq Clients /\ target \in Position
  BY SlotsType, PositionType, ClientsType, BuffersAssumption DEF Slots, PlaceTypes
<1>1. CASE IoTop
  <2> USE <1>1 DEF IoTop
  <2>1. DataTypes'
    BY <1>0 DEF DataTypes, PlaceTypes, FlagTypes, PlacesOK
  <2>2. FlagTypes'
    BY Zenon DEF FlagTypes
  <2>3. PlaceTypes' /\ PlacesOK'
    BY <1>0 DEF DataTypes, PlaceTypes, FlagTypes, PlacesOK, IoPlaces,
                EnginePlaces, Goals
  <2> QED BY <2>1, <2>2, <2>3
<1>2. CASE IoScan
  <2> USE <1>2 DEF IoScan, TransferSpace, IoNextClient, RS, WS, ChildFinished
  <2>1. DataTypes'
    BY <1>0 DEF DataTypes, PlaceTypes, FlagTypes, PlacesOK
  <2>2. FlagTypes'
    BY Zenon DEF FlagTypes
  <2>3. PlaceTypes' /\ PlacesOK'
    BY <1>0 DEF DataTypes, PlaceTypes, FlagTypes, PlacesOK, IoPlaces,
                EnginePlaces, Goals
  <2> QED BY <2>1, <2>2, <2>3
<1>3. CASE IoReadBuffer
  <2> USE <1>3 DEF IoReadBuffer
  <2>1. DataTypes'
    BY <1>0 DEF DataTypes, PlaceTypes, FlagTypes, PlacesOK
  <2>2. FlagTypes'
    BY Zenon DEF FlagTypes
  <2>3. PlaceTypes' /\ PlacesOK'
    BY <1>0 DEF DataTypes, PlaceTypes, FlagTypes, PlacesOK, IoPlaces,
                EnginePlaces, Goals
  <2> QED BY <2>1, <2>2, <2>3
<1>4. CASE IoWriteBuffer
  <2> USE <1>4 DEF IoWriteBuffer
  <2>0. iop \in Clients
    BY DEF PlacesOK
  <2>1. DataTypes'
    BY <2>0, ChildWriteType DEF DataTypes
  <2>2. FlagTypes'
    BY Zenon DEF FlagTypes
  <2>3. PlaceTypes' /\ PlacesOK'
    BY <1>0 DEF PlaceTypes, PlacesOK, IoPlaces, EnginePlaces, Goals
  <2> QED BY <2>1, <2>2, <2>3
<1>5. CASE IoMark
  <2> USE <1>5 DEF IoMark, ChildFinished
  <2>1. DataTypes'
    BY <1>0 DEF DataTypes, PlaceTypes, FlagTypes, PlacesOK
  <2>2. FlagTypes'
    BY Zenon DEF FlagTypes
  <2>3. PlaceTypes' /\ PlacesOK'
    BY <1>0 DEF DataTypes, PlaceTypes, FlagTypes, PlacesOK, IoPlaces,
                EnginePlaces, Goals
  <2> QED BY <2>1, <2>2, <2>3
<1>6. CASE IoAdvance
  <2> USE <1>6 DEF IoAdvance, IoNextClient
  <2>1. DataTypes'
    BY <1>0 DEF DataTypes, PlaceTypes, FlagTypes, PlacesOK
  <2>2. FlagTypes'
    BY Zenon DEF FlagTypes
  <2>3. PlaceTypes' /\ PlacesOK'
    BY <1>0 DEF DataTypes, PlaceTypes, FlagTypes, PlacesOK, IoPlaces,
                EnginePlaces, Goals
  <2> QED BY <2>1, <2>2, <2>3
<1>7. CASE IoEndPass
  <2> USE <1>7 DEF IoEndPass
  <2>1. DataTypes'
    BY <1>0 DEF DataTypes, PlaceTypes, FlagTypes, PlacesOK
  <2>2. FlagTypes'
    BY Zenon DEF FlagTypes
  <2>3. PlaceTypes' /\ PlacesOK'
    BY <1>0 DEF DataTypes, PlaceTypes, FlagTypes, PlacesOK, IoPlaces,
                EnginePlaces, Goals
  <2> QED BY <2>1, <2>2, <2>3
<1>8. CASE IoSignalFull
  <2> USE <1>8 DEF IoSignalFull, Signal
  <2>1. DataTypes'
    BY <1>0 DEF DataTypes, PlaceTypes, FlagTypes, PlacesOK
  <2>2. FlagTypes'
    BY Zenon DEF FlagTypes
  <2>3. PlaceTypes' /\ PlacesOK'
    BY <1>0 DEF DataTypes, PlaceTypes, FlagTypes, PlacesOK, IoPlaces,
                EnginePlaces, Goals
  <2> QED BY <2>1, <2>2, <2>3
<1>9. CASE IoWaitTimeout
  <2> USE <1>9 DEF IoWaitTimeout
  <2>1. DataTypes'
    BY <1>0 DEF DataTypes, PlaceTypes, FlagTypes, PlacesOK
  <2>2. FlagTypes'
    BY Zenon DEF FlagTypes
  <2>3. PlaceTypes' /\ PlacesOK'
    BY <1>0 DEF DataTypes, PlaceTypes, FlagTypes, PlacesOK, IoPlaces,
                EnginePlaces, Goals
  <2> QED BY <2>1, <2>2, <2>3
<1>10. CASE IoStop
  <2> USE <1>10 DEF IoStop, AcknowledgeStop
  <2>1. DataTypes'
    BY <1>0 DEF DataTypes, PlaceTypes, FlagTypes, PlacesOK
  <2>2. FlagTypes'
    BY Zenon DEF FlagTypes
  <2>3. PlaceTypes' /\ PlacesOK'
    BY <1>0 DEF DataTypes, PlaceTypes, FlagTypes, PlacesOK, IoPlaces,
                EnginePlaces, Goals
  <2> QED BY <2>1, <2>2, <2>3
<1>11. CASE IoSignalStop
  <2> USE <1>11 DEF IoSignalStop, Signal
  <2>1. DataTypes'
    BY <1>0 DEF DataTypes, PlaceTypes, FlagTypes, PlacesOK
  <2>2. FlagTypes'
    BY Zenon DEF FlagTypes
  <2>3. PlaceTypes' /\ PlacesOK'
    BY <1>0 DEF DataTypes, PlaceTypes, FlagTypes, PlacesOK, IoPlaces,
                EnginePlaces, Goals
  <2> QED BY <2>1, <2>2, <2>3
<1>12. CASE IoExit
  <2> USE <1>12 DEF IoExit, ResetRings
  <2>1. DataTypes'
    BY <1>0 DEF DataTypes, PlaceTypes, FlagTypes, PlacesOK
  <2>2. FlagTypes'
    BY Zenon DEF FlagTypes
  <2>3. PlaceTypes' /\ PlacesOK'
    BY <1>0 DEF DataTypes, PlaceTypes, FlagTypes, PlacesOK, IoPlaces,
                EnginePlaces, Goals
  <2> QED BY <2>1, <2>2, <2>3
<1>13. CASE EngineBlock
  <2> USE <1>13 DEF EngineBlock
  <2>1. DataTypes'
    BY <1>0 DEF DataTypes, PlaceTypes, FlagTypes, PlacesOK
  <2>2. FlagTypes'
    BY Zenon DEF FlagTypes
  <2>3. PlaceTypes' /\ PlacesOK'
    BY <1>0 DEF DataTypes, PlaceTypes, FlagTypes, PlacesOK, IoPlaces,
                EnginePlaces, Goals
  <2> QED BY <2>1, <2>2, <2>3
<1>14. CASE EngineTimeout
  <2> USE <1>14 DEF EngineTimeout, WaitExpires
  <2>1. DataTypes'
    BY <1>0 DEF DataTypes, PlaceTypes, FlagTypes, PlacesOK
  <2>2. FlagTypes'
    BY Zenon DEF FlagTypes
  <2>3. PlaceTypes' /\ PlacesOK'
    BY <1>0 DEF DataTypes, PlaceTypes, FlagTypes, PlacesOK, IoPlaces,
                EnginePlaces, Goals
  <2> QED BY <2>1, <2>2, <2>3
<1>15. CASE EnginePrefill
  <2> USE <1>15 DEF EnginePrefill, WaitFor, At
  <2>1. DataTypes'
    BY <1>0 DEF DataTypes, PlaceTypes, FlagTypes, PlacesOK
  <2>2. FlagTypes'
    BY Zenon DEF FlagTypes
  <2>3. PlaceTypes' /\ PlacesOK'
    BY <1>0 DEF DataTypes, PlaceTypes, FlagTypes, PlacesOK, IoPlaces,
                EnginePlaces, Goals
  <2> QED BY <2>1, <2>2, <2>3
<1>16. CASE EnginePrefilled
  <2> USE <1>16 DEF EnginePrefilled, Move, At
  <2>1. DataTypes'
    BY <1>0 DEF DataTypes, PlaceTypes, FlagTypes, PlacesOK
  <2>2. FlagTypes'
    BY Zenon DEF FlagTypes
  <2>3. PlaceTypes' /\ PlacesOK'
    BY <1>0 DEF DataTypes, PlaceTypes, FlagTypes, PlacesOK, IoPlaces,
                EnginePlaces, Goals
  <2> QED BY <2>1, <2>2, <2>3
<1>17. CASE Read
  <2> USE <1>17 DEF Read, At, SignalActivity
  <2>1. DataTypes'
    BY <1>0 DEF DataTypes, PlaceTypes, FlagTypes, PlacesOK
  <2>2. FlagTypes'
    BY Zenon DEF FlagTypes
  <2>3. PlaceTypes' /\ PlacesOK'
    BY <1>0 DEF DataTypes, PlaceTypes, FlagTypes, PlacesOK, IoPlaces,
                EnginePlaces, Goals
  <2> QED BY <2>1, <2>2, <2>3
<1>18. CASE Underrun
  <2> USE <1>18 DEF Underrun, At
  <2>1. DataTypes'
    BY <1>0 DEF DataTypes, PlaceTypes, FlagTypes, PlacesOK
  <2>2. FlagTypes'
    BY Zenon DEF FlagTypes
  <2>3. PlaceTypes' /\ PlacesOK'
    BY <1>0 DEF DataTypes, PlaceTypes, FlagTypes, PlacesOK, IoPlaces,
                EnginePlaces, Goals
  <2> QED BY <2>1, <2>2, <2>3
<1>19. CASE Write
  <2> USE <1>19 DEF Write, At, SignalActivity
  <2>1. DataTypes'
    BY <1>0 DEF DataTypes, PlaceTypes, FlagTypes, PlacesOK
  <2>2. FlagTypes'
    BY Zenon DEF FlagTypes
  <2>3. PlaceTypes' /\ PlacesOK'
    BY <1>0 DEF DataTypes, PlaceTypes, FlagTypes, PlacesOK, IoPlaces,
                EnginePlaces, Goals
  <2> QED BY <2>1, <2>2, <2>3
<1>20. CASE Overrun
  <2> USE <1>20 DEF Overrun, At
  <2>1. DataTypes'
    BY <1>0 DEF DataTypes, PlaceTypes, FlagTypes, PlacesOK
  <2>2. FlagTypes'
    BY Zenon DEF FlagTypes
  <2>3. PlaceTypes' /\ PlacesOK'
    BY <1>0 DEF DataTypes, PlaceTypes, FlagTypes, PlacesOK, IoPlaces,
                EnginePlaces, Goals
  <2> QED BY <2>1, <2>2, <2>3
<1>21. CASE OverrunRetry
  <2> USE <1>21 DEF OverrunRetry, At, Begin
  <2>0. cur \in Clients
    BY DEF PlacesOK
  <2>1. DataTypes'
    BY DEF DataTypes
  <2>2. FlagTypes'
    BY Zenon DEF FlagTypes
  <2>3. CASE WS(cur) > 0
    <3>1. PlaceTypes' /\ PlacesOK'
      BY <1>0, <2>0, <2>3 DEF PlaceTypes, PlacesOK, IoPlaces, EnginePlaces, Goals
    <3> QED BY <2>1, <2>2, <3>1
  <2>4. CASE ~(WS(cur) > 0)
    <3>1. goal' = "live" /\ todo' = {cur} /\ epc' = "each" /\ target' = pos[cur]
          /\ cur' = 0
      BY <2>4
    <3>2. target' \in Position
      BY <2>0, <3>1 DEF DataTypes
    <3>3. PlaceTypes' /\ PlacesOK'
      BY <1>0, <2>0, <3>1, <3>2 DEF PlaceTypes, PlacesOK, IoPlaces, EnginePlaces, Goals
    <3> QED BY <2>1, <2>2, <3>3
  <2> QED BY <2>3, <2>4
<1>22. CASE EngineStopping
  <2> USE <1>22 DEF EngineStopping, WaitFor, At
  <2>1. DataTypes'
    BY <1>0 DEF DataTypes, PlaceTypes, FlagTypes, PlacesOK
  <2>2. FlagTypes'
    BY Zenon DEF FlagTypes
  <2>3. PlaceTypes' /\ PlacesOK'
    BY <1>0 DEF DataTypes, PlaceTypes, FlagTypes, PlacesOK, IoPlaces,
                EnginePlaces, Goals
  <2> QED BY <2>1, <2>2, <2>3
<1>23. CASE EngineStopped
  <2> USE <1>23 DEF EngineStopped, Move, At
  <2>1. DataTypes'
    BY <1>0 DEF DataTypes, PlaceTypes, FlagTypes, PlacesOK
  <2>2. FlagTypes'
    BY Zenon DEF FlagTypes
  <2>3. PlaceTypes' /\ PlacesOK'
    BY <1>0 DEF DataTypes, PlaceTypes, FlagTypes, PlacesOK, IoPlaces,
                EnginePlaces, Goals
  <2> QED BY <2>1, <2>2, <2>3
<1>24. ASSUME NEW c \in Clients, Flush(c) PROVE TypeInv'
  <2> USE <1>24 DEF Flush, At, FlushWrite, Unflushed
  <2>1. DataTypes'
    BY ChildWriteType DEF DataTypes
  <2>2. FlagTypes'
    BY Zenon DEF FlagTypes
  <2>3. PlaceTypes' /\ PlacesOK'
    BY <1>0 DEF PlaceTypes, PlacesOK, IoPlaces, EnginePlaces, Goals
  <2> QED BY <2>1, <2>2, <2>3
<1>25. ASSUME NEW c \in Clients, EachClient(c) PROVE TypeInv'
  <2> USE <1>25 DEF EachClient, At, NeedsPause, StopServer
  <2>1. DataTypes'
    BY <1>0 DEF DataTypes, PlaceTypes, FlagTypes, PlacesOK
  <2>2. FlagTypes'
    BY Zenon DEF FlagTypes
  <2>3. PlaceTypes' /\ PlacesOK'
    BY <1>0 DEF DataTypes, PlaceTypes, FlagTypes, PlacesOK, IoPlaces,
                EnginePlaces, Goals
  <2> QED BY <2>1, <2>2, <2>3
<1>26. CASE FlushAdvance
  <2> USE <1>26 DEF FlushAdvance, At, ChildFinished
  <2>1. DataTypes'
    BY <1>0 DEF DataTypes, PlaceTypes, FlagTypes, PlacesOK
  <2>2. FlagTypes'
    BY Zenon DEF FlagTypes
  <2>3. PlaceTypes' /\ PlacesOK'
    BY <1>0 DEF DataTypes, PlaceTypes, FlagTypes, PlacesOK, IoPlaces,
                EnginePlaces, Goals
  <2> QED BY <2>1, <2>2, <2>3
<1>27. CASE FlushDone
  <2> USE <1>27 DEF FlushDone, At, ResetRings, Begin
  <2>1. DataTypes'
    BY <1>0 DEF DataTypes, PlaceTypes, FlagTypes, PlacesOK
  <2>2. FlagTypes'
    BY Zenon DEF FlagTypes
  <2>3. PlaceTypes' /\ PlacesOK'
    BY <1>0 DEF DataTypes, PlaceTypes, FlagTypes, PlacesOK, IoPlaces,
                EnginePlaces, Goals
  <2> QED BY <2>1, <2>2, <2>3
<1>28. CASE EnginePause
  <2> USE <1>28 DEF EnginePause, WaitFor, At
  <2>1. DataTypes'
    BY <1>0 DEF DataTypes, PlaceTypes, FlagTypes, PlacesOK
  <2>2. FlagTypes'
    BY Zenon DEF FlagTypes
  <2>3. PlaceTypes' /\ PlacesOK'
    BY <1>0 DEF DataTypes, PlaceTypes, FlagTypes, PlacesOK, IoPlaces,
                EnginePlaces, Goals
  <2> QED BY <2>1, <2>2, <2>3
<1>29. CASE ServeClient
  <2> USE <1>29 DEF ServeClient, StartIo, Unregister, Reseek, ResetRings, StartServer
  <2>0. cur \in Clients
    BY DEF PlacesOK
  <2>1. DataTypes'
    <3>1. CASE goal = "start"
      BY <1>0, <2>0, <3>1 DEF DataTypes
    <3>2. CASE goal = "destroy"
      BY <2>0, <3>2 DEF DataTypes
    <3>3. CASE goal \notin {"start", "destroy"}
      <4>1. /\ childpos' = [childpos EXCEPT ![cur] = target]
            /\ pos' = [pos EXCEPT ![cur] = target]
            /\ clientfin' = [clientfin EXCEPT ![cur] = FALSE]
            /\ readptr' = [c \in Clients |-> IF c \in {cur} THEN 0 ELSE readptr[c]]
            /\ writeptr' = [c \in Clients |-> IF c \in {cur} THEN 0 ELSE writeptr[c]]
            /\ finished' = [c \in Clients |-> finished[c] /\ c \notin {cur}]
            /\ UNCHANGED <<sbufs, childerr, moved>>
        BY <3>3
      <4> HIDE <1>29
      <4> QED BY <1>0, <2>0, <4>1 DEF DataTypes
    <3> QED BY <3>1, <3>2, <3>3
  <2>2. FlagTypes'
    BY Zenon DEF FlagTypes
  <2>3. PlaceTypes' /\ PlacesOK'
    BY <1>0 DEF DataTypes, PlaceTypes, FlagTypes, PlacesOK, IoPlaces,
                EnginePlaces, Goals
  <2> QED BY <2>1, <2>2, <2>3
<1>30. CASE EngineRestore
  <2> USE <1>30 DEF EngineRestore, WaitFor, At
  <2>1. DataTypes'
    BY <1>0 DEF DataTypes, PlaceTypes, FlagTypes, PlacesOK
  <2>2. FlagTypes'
    BY Zenon DEF FlagTypes
  <2>3. PlaceTypes' /\ PlacesOK'
    BY <1>0 DEF DataTypes, PlaceTypes, FlagTypes, PlacesOK, IoPlaces,
                EnginePlaces, Goals
  <2> QED BY <2>1, <2>2, <2>3
<1>31. CASE EngineRestored
  <2> USE <1>31 DEF EngineRestored, Move, At
  <2>1. DataTypes'
    BY <1>0 DEF DataTypes, PlaceTypes, FlagTypes, PlacesOK
  <2>2. FlagTypes'
    BY Zenon DEF FlagTypes
  <2>3. PlaceTypes' /\ PlacesOK'
    BY <1>0 DEF DataTypes, PlaceTypes, FlagTypes, PlacesOK, IoPlaces,
                EnginePlaces, Goals
  <2> QED BY <2>1, <2>2, <2>3
<1>32. CASE EachDone
  <2> USE <1>32 DEF EachDone, At, StartServer, Begin
  <2>1. DataTypes'
    BY <1>0 DEF DataTypes, PlaceTypes, FlagTypes, PlacesOK
  <2>2. FlagTypes'
    BY Zenon DEF FlagTypes
  <2>3. PlaceTypes' /\ PlacesOK'
    BY <1>0 DEF DataTypes, PlaceTypes, FlagTypes, PlacesOK, IoPlaces,
                EnginePlaces, Goals
  <2> QED BY <2>1, <2>2, <2>3
<1>33. CASE Join
  <2> USE <1>33 DEF Join, Move, At
  <2>1. DataTypes'
    BY <1>0 DEF DataTypes, PlaceTypes, FlagTypes, PlacesOK
  <2>2. FlagTypes'
    BY Zenon DEF FlagTypes
  <2>3. PlaceTypes' /\ PlacesOK'
    BY <1>0 DEF DataTypes, PlaceTypes, FlagTypes, PlacesOK, IoPlaces,
                EnginePlaces, Goals
  <2> QED BY <2>1, <2>2, <2>3
<1>34. CASE EngineStart
  <2> USE <1>34 DEF EngineStart, At, Begin
  <2>1. DataTypes'
    BY <1>0 DEF DataTypes, PlaceTypes, FlagTypes, PlacesOK
  <2>2. FlagTypes'
    BY Zenon DEF FlagTypes
  <2>3. PlaceTypes' /\ PlacesOK'
    BY <1>0 DEF DataTypes, PlaceTypes, FlagTypes, PlacesOK, IoPlaces,
                EnginePlaces, Goals
  <2> QED BY <2>1, <2>2, <2>3
<1>35. CASE EngineStop
  <2> USE <1>35 DEF EngineStop, At, StopServer
  <2>1. DataTypes'
    BY <1>0 DEF DataTypes, PlaceTypes, FlagTypes, PlacesOK
  <2>2. FlagTypes'
    BY Zenon DEF FlagTypes
  <2>3. PlaceTypes' /\ PlacesOK'
    BY <1>0 DEF DataTypes, PlaceTypes, FlagTypes, PlacesOK, IoPlaces,
                EnginePlaces, Goals
  <2> QED BY <2>1, <2>2, <2>3
<1>36. CASE SeekBegin
  <2> USE <1>36 DEF SeekBegin, At
  <2>1. DataTypes'
    BY <1>0 DEF DataTypes, PlaceTypes, FlagTypes, PlacesOK
  <2>2. FlagTypes'
    BY Zenon DEF FlagTypes
  <2>3. PlaceTypes' /\ PlacesOK'
    BY <1>0 DEF DataTypes, PlaceTypes, FlagTypes, PlacesOK, IoPlaces,
                EnginePlaces, Goals
  <2> QED BY <2>1, <2>2, <2>3
<1>37. CASE ExitRequest
  <2> USE <1>37 DEF ExitRequest, At
  <2>1. DataTypes'
    BY <1>0 DEF DataTypes, PlaceTypes, FlagTypes, PlacesOK
  <2>2. FlagTypes'
    BY Zenon DEF FlagTypes
  <2>3. PlaceTypes' /\ PlacesOK'
    BY <1>0 DEF DataTypes, PlaceTypes, FlagTypes, PlacesOK, IoPlaces,
                EnginePlaces, Goals
  <2> QED BY <2>1, <2>2, <2>3
<1>38. ASSUME NEW c \in Clients, ReadBegin(c) PROVE TypeInv'
  <2> USE <1>38 DEF ReadBegin, At
  <2>1. DataTypes'
    BY <1>0 DEF DataTypes, PlaceTypes, FlagTypes, PlacesOK
  <2>2. FlagTypes'
    BY Zenon DEF FlagTypes
  <2>3. PlaceTypes' /\ PlacesOK'
    BY <1>0 DEF DataTypes, PlaceTypes, FlagTypes, PlacesOK, IoPlaces,
                EnginePlaces, Goals
  <2> QED BY <2>1, <2>2, <2>3
<1>39. ASSUME NEW c \in Clients, WriteBegin(c) PROVE TypeInv'
  <2> USE <1>39 DEF WriteBegin, At
  <2>1. DataTypes'
    BY <1>0 DEF DataTypes, PlaceTypes, FlagTypes, PlacesOK
  <2>2. FlagTypes'
    BY Zenon DEF FlagTypes
  <2>3. PlaceTypes' /\ PlacesOK'
    BY <1>0 DEF DataTypes, PlaceTypes, FlagTypes, PlacesOK, IoPlaces,
                EnginePlaces, Goals
  <2> QED BY <2>1, <2>2, <2>3
<1>40. ASSUME NEW c \in Clients, DestroyClient(c) PROVE TypeInv'
  <2> USE <1>40 DEF DestroyClient, At, Begin
  <2>1. DataTypes'
    BY <1>0 DEF DataTypes, PlaceTypes, FlagTypes, PlacesOK
  <2>2. FlagTypes'
    BY Zenon DEF FlagTypes
  <2>3. PlaceTypes' /\ PlacesOK'
    BY <1>0 DEF DataTypes, PlaceTypes, FlagTypes, PlacesOK, IoPlaces,
                EnginePlaces, Goals
  <2> QED BY <2>1, <2>2, <2>3
<1>41. CASE UNCHANGED vars
  BY <1>41 DEF vars, DataTypes, FlagTypes, PlaceTypes, PlacesOK
<1> QED
  BY <1>1, <1>2, <1>3, <1>4, <1>5, <1>6, <1>7, <1>8, <1>9, <1>10, <1>11, <1>12,
     <1>13, <1>14, <1>15, <1>16, <1>17, <1>18, <1>19, <1>20, <1>21, <1>22,
     <1>23, <1>24, <1>25, <1>26, <1>27, <1>28, <1>29, <1>30, <1>31, <1>32,
     <1>33, <1>34, <1>35, <1>36, <1>37, <1>38, <1>39, <1>40, <1>41
     DEF Next, IoThread, EngineProgress, EngineRequest, Done

\* Type correctness of the ring pointers, positions and places in the code.
THEOREM TypeCorrect == Spec => []TypeOK
<1>1. TypeInv => TypeOK
  BY DEF TypeInv
<1> QED BY InitTypeInv, NextTypeInv, <1>1, PTL DEF Spec

-----------------------------------------------------------------------------
(* The two threads keep out of each other's way, if the disk is never      *)
(* slower than the timed waits and the engine never seeks while it runs:   *)
(* the two conditions without which the code does not have these           *)
(* properties.                                                             *)


\* Where the engine thread has made sure that the server is stopped.
QuietPlaces == {"idle", "stopped", "flush", "flushed", "quiet", "paused", "join",
                "done"}

\* The handshake of the two threads: what each place in the code of one says
\* about the flags and about the place of the other.
Handshake ==
  /\ ~running => iopc \in {"none", "top", "signalstop", "exited"}
  /\ iopc = "signalstop" /\ running
       => \/ epc \in {"prefill", "restore"}
          \/ epc \in {"prefilled", "restored"} /\ waits = "full"
  /\ waits = "full" => epc \in {"prefilled", "restored", "retry"}
  /\ waits = "stop" => epc \in {"stopped", "paused"}
  /\ waits = "none" /\ epc \in QuietPlaces => ~running
  /\ epc = "each" /\ goal # "live" => ~running
  /\ epc \in {"pause", "paused", "restore", "restored"} => goal = "live"
  /\ epc \in {"stopping", "stopped"} => goal \in {"none", "restart"}
  /\ epc \in {"flush", "flushed"} => goal \in {"idle", "restart"}
  /\ exitreq => epc \in {"join", "done"}

\* Between the choice of a client and the advance of a pointer, what the choice
\* was based on stays true.
RoomKept ==
  /\ epc = "read" => cur \in Readers /\ RS(cur) > 0
  /\ epc = "write" => cur \in Writers /\ WS(cur) > 0
  /\ epc \in {"overrun", "retry"} => cur \in Writers
  /\ iopc \in {"transfer", "mark", "advance"}
       => IF iop \in Readers THEN WS(iop) > 0 ELSE RS(iop) > 0

\* Nothing is asked of the server before the first call.
LEMMA InitHandshake == Init => Handshake
  BY DEF Init, Handshake, QuietPlaces

\* Each step of either thread keeps the handshake: a stop is acknowledged
\* outside the pass, and only the engine thread starts the server.
LEMMA NextHandshake ==
  ASSUME ~SlowIO, ~LiveSeek, TypeInv, Handshake, [Next]_vars
  PROVE  Handshake'
<1> USE DEF Handshake, QuietPlaces, ring, child, client, flags, io, job, eng
<1>0. /\ iopc \in IoPlaces /\ epc \in EnginePlaces /\ goal \in Goals
      /\ waits \in {"none", "full", "stop"} /\ running \in BOOLEAN
  BY DEF TypeInv, TypeOK, PlaceTypes, FlagTypes
<1> USE DEF IoPlaces, EnginePlaces, Goals
<1>1. CASE IoTop
  BY <1>0, <1>1 DEF IoTop
<1>2. CASE IoScan
  BY <1>0, <1>2 DEF IoScan, IoNextClient
<1>3. CASE IoReadBuffer
  BY <1>0, <1>3 DEF IoReadBuffer
<1>4. CASE IoWriteBuffer
  BY <1>0, <1>4 DEF IoWriteBuffer
<1>5. CASE IoMark
  BY <1>0, <1>5 DEF IoMark
<1>6. CASE IoAdvance
  BY <1>0, <1>6 DEF IoAdvance, IoNextClient
<1>7. CASE IoEndPass
  BY <1>0, <1>7 DEF IoEndPass
<1>8. CASE IoSignalFull
  BY <1>0, <1>8 DEF IoSignalFull, Signal
<1>9. CASE IoWaitTimeout
  BY <1>0, <1>9 DEF IoWaitTimeout
<1>10. CASE IoStop
  BY <1>0, <1>10 DEF IoStop, AcknowledgeStop
<1>11. CASE IoSignalStop
  BY <1>0, <1>11 DEF IoSignalStop, Signal
<1>12. CASE IoExit
  BY <1>0, <1>12 DEF IoExit
<1>13. CASE EngineBlock
  BY <1>0, <1>13 DEF EngineBlock
<1>14. CASE EngineTimeout
  BY <1>0, <1>14 DEF EngineTimeout, WaitExpires
<1>15. CASE EnginePrefill
  BY <1>0, <1>15 DEF EnginePrefill, WaitFor, At
<1>16. CASE EnginePrefilled
  BY <1>0, <1>16 DEF EnginePrefilled, Move, At
<1>17. CASE Read
  BY <1>0, <1>17 DEF Read, At, SignalActivity
<1>18. CASE Underrun
  BY <1>0, <1>18 DEF Underrun, At
<1>19. CASE Write
  BY <1>0, <1>19 DEF Write, At, SignalActivity
<1>20. CASE Overrun
  BY <1>0, <1>20 DEF Overrun, At
<1>21. CASE OverrunRetry
  BY <1>0, <1>21 DEF OverrunRetry, At, Begin
<1>22. CASE EngineStopping
  BY <1>0, <1>22 DEF EngineStopping, WaitFor, At
<1>23. CASE EngineStopped
  BY <1>0, <1>23 DEF EngineStopped, Move, At
<1>24. ASSUME NEW c \in Clients, Flush(c) PROVE Handshake'
  BY <1>0, <1>24 DEF Flush, At
<1>25. ASSUME NEW c \in Clients, EachClient(c) PROVE Handshake'
  BY <1>0, <1>25 DEF EachClient, At, StopServer
<1>26. CASE FlushAdvance
  BY <1>0, <1>26 DEF FlushAdvance, At
<1>27. CASE FlushDone
  BY <1>0, <1>27 DEF FlushDone, At, Begin
<1>28. CASE EnginePause
  BY <1>0, <1>28 DEF EnginePause, WaitFor, At
<1>29. CASE ServeClient
  BY <1>0, <1>29 DEF ServeClient, StartServer
<1>30. CASE EngineRestore
  BY <1>0, <1>30 DEF EngineRestore, WaitFor, At
<1>31. CASE EngineRestored
  BY <1>0, <1>31 DEF EngineRestored, Move, At
<1>32. CASE EachDone
  BY <1>0, <1>32 DEF EachDone, At, StartServer, Begin
<1>33. CASE Join
  BY <1>0, <1>33 DEF Join, Move, At
<1>34. CASE EngineStart
  BY <1>0, <1>34 DEF EngineStart, At, Begin
<1>35. CASE EngineStop
  BY <1>0, <1>35 DEF EngineStop, At, StopServer
<1>36. CASE SeekBegin
  BY <1>0, <1>36 DEF SeekBegin, At
<1>37. CASE ExitRequest
  BY <1>0, <1>37 DEF ExitRequest, At
<1>38. ASSUME NEW c \in Clients, ReadBegin(c) PROVE Handshake'
  BY <1>0, <1>38 DEF ReadBegin, At
<1>39. ASSUME NEW c \in Clients, WriteBegin(c) PROVE Handshake'
  BY <1>0, <1>39 DEF WriteBegin, At
<1>40. ASSUME NEW c \in Clients, DestroyClient(c) PROVE Handshake'
  BY <1>0, <1>40 DEF DestroyClient, At, Begin
<1>41. CASE UNCHANGED vars
  BY <1>41 DEF vars
<1> QED
  BY <1>1, <1>2, <1>3, <1>4, <1>5, <1>6, <1>7, <1>8, <1>9, <1>10, <1>11, <1>12,
     <1>13, <1>14, <1>15, <1>16, <1>17, <1>18, <1>19, <1>20, <1>21, <1>22,
     <1>23, <1>24, <1>25, <1>26, <1>27, <1>28, <1>29, <1>30, <1>31, <1>32,
     <1>33, <1>34, <1>35, <1>36, <1>37, <1>38, <1>39, <1>40, <1>41
     DEF Next, IoThread, EngineProgress, EngineRequest, Done

\* With the server stopped, whoever moves a child, resets a ring, flushes or
\* unregisters a client finds the i/o thread outside its pass.
THEOREM ServerAlwaysPaused ==
  ASSUME ~SlowIO, ~LiveSeek
  PROVE  Spec => []ServerPaused
<1>1. Init => TypeInv /\ Handshake
  BY InitTypeInv, InitHandshake
<1>2. TypeInv /\ Handshake /\ [Next]_vars => TypeInv' /\ Handshake'
  BY NextTypeInv, NextHandshake
<1>3. Handshake => ServerPaused
  BY DEF Handshake, QuietPlaces, ServerPaused, At, IoInPass
<1> QED BY <1>1, <1>2, <1>3, PTL DEF Spec

\* The pointers of a client's ring are slots.
LEMMA PointersType ==
  ASSUME TypeInv, NEW c \in Clients
  PROVE  readptr[c] \in Slots /\ writeptr[c] \in Slots
  BY DEF TypeInv, TypeOK, DataTypes

\* A block put into the ring of c leaves the reader of the ring what it had.
LEMMA PutKeepsRoom ==
  ASSUME TypeInv, NEW c \in Clients, WS(c) > 0,
         writeptr' = [writeptr EXCEPT ![c] = Advanced(@)], UNCHANGED readptr,
         NEW d \in Clients
  PROVE  /\ RS(d) > 0 => RS(d)' > 0
         /\ d # c => RS(d)' = RS(d) /\ WS(d)' = WS(d)
<1>1. readptr[c] \in Slots /\ writeptr[c] \in Slots
  BY PointersType
<1>2. writeptr \in [Clients -> Slots]
  BY DEF TypeInv, TypeOK, DataTypes
<1>3. ReadSpace(readptr[c], Advanced(writeptr[c])) = RS(c) + 1 /\ RS(c) \in Int
  BY <1>1, WriteAdvance, ReadSpaceValue DEF RS, WS
<1> QED BY <1>2, <1>3 DEF RS, WS

\* A block taken from the ring of c leaves the writer of the ring what it had.
LEMMA TakeKeepsRoom ==
  ASSUME TypeInv, NEW c \in Clients, RS(c) > 0,
         readptr' = [readptr EXCEPT ![c] = Advanced(@)], UNCHANGED writeptr,
         NEW d \in Clients
  PROVE  /\ WS(d) > 0 => WS(d)' > 0
         /\ d # c => RS(d)' = RS(d) /\ WS(d)' = WS(d)
<1>1. readptr[c] \in Slots /\ writeptr[c] \in Slots
  BY PointersType
<1>2. readptr \in [Clients -> Slots] /\ Advanced(readptr[c]) \in Slots
  BY <1>1, SlotsType DEF TypeInv, TypeOK, DataTypes
<1>3. ReadSpace(Advanced(readptr[c]), writeptr[c]) = RS(c) - 1 /\ RS(c) \in Int
  BY <1>1, ReadAdvance, ReadSpaceValue DEF RS, WS
<1>4. /\ WS(c) = Buffers - 1 - RS(c)
      /\ WriteSpace(Advanced(readptr[c]), writeptr[c]) = Buffers - 1 - (RS(c) - 1)
  BY <1>1, <1>2, <1>3, SpaceShared DEF RS, WS
<1> QED BY <1>2, <1>3, <1>4, BuffersAssumption DEF RS, WS

\* An empty ring has all its room.
LEMMA InitRoomKept == Init => RoomKept
  BY DEF Init, RoomKept

\* A step of one thread never takes from the other the room or the block it is
\* about to use; only a stopped server sees its rings reset.
LEMMA NextRoomKept ==
  ASSUME ~SlowIO, ~LiveSeek, TypeInv, Handshake, RoomKept, [Next]_vars
  PROVE  RoomKept'
<1> USE DEF RoomKept, RS, WS, ring, child, client, flags, io, job, eng
<1>0. Writers = Clients \ Readers /\ Readers \subseteq Clients
  BY DbServerAssumption DEF Writers
<1>1. CASE IoTop
  BY <1>0, <1>1 DEF IoTop
<1>2. CASE IoScan
  <2>1. UNCHANGED <<readptr, writeptr, epc, cur>>
    BY <1>2 DEF IoScan
  <2>2. iopc' = "transfer" => iop' = iop /\ TransferSpace(iop) > 0
    BY <1>2 DEF IoScan, IoNextClient
  <2>3. iopc' \in {"transfer", "scan", "endpass"}
    BY <1>2 DEF IoScan, IoNextClient
  <2> QED BY <2>1, <2>2, <2>3 DEF TransferSpace, RS, WS
<1>3. CASE IoReadBuffer
  BY <1>0, <1>3 DEF IoReadBuffer
<1>4. CASE IoWriteBuffer
  BY <1>0, <1>4 DEF IoWriteBuffer
<1>5. CASE IoMark
  BY <1>0, <1>5 DEF IoMark
<1>6. CASE IoAdvance
  <2>1. iop \in Clients /\ (epc \in {"read", "write"} => cur \in Clients)
    BY <1>6 DEF IoAdvance, TypeInv, PlacesOK
  <2>2. iopc' \in {"scan", "endpass"} /\ UNCHANGED <<epc, cur>>
    BY <1>6 DEF IoAdvance, IoNextClient
  <2>3. CASE iop \in Readers
    <3>1. WS(iop) > 0 /\ writeptr' = [writeptr EXCEPT ![iop] = Advanced(@)]
          /\ UNCHANGED readptr
      BY <1>6, <2>3 DEF IoAdvance
    <3>2. \A d \in Clients : /\ RS(d) > 0 => RS(d)' > 0
                             /\ d # iop => WS(d)' = WS(d)
      BY <2>1, <3>1, PutKeepsRoom
    <3> QED BY <1>0, <2>1, <2>2, <2>3, <3>2
  <2>4. CASE iop \notin Readers
    <3>1. RS(iop) > 0 /\ readptr' = [readptr EXCEPT ![iop] = Advanced(@)]
          /\ UNCHANGED writeptr
      BY <1>6, <2>4 DEF IoAdvance
    <3>2. \A d \in Clients : /\ WS(d) > 0 => WS(d)' > 0
                             /\ d # iop => RS(d)' = RS(d)
      BY <2>1, <3>1, TakeKeepsRoom
    <3> QED BY <1>0, <2>1, <2>2, <2>4, <3>2
  <2> QED BY <2>3, <2>4
<1>7. CASE IoEndPass
  BY <1>0, <1>7 DEF IoEndPass
<1>8. CASE IoSignalFull
  BY <1>0, <1>8 DEF IoSignalFull, Signal
<1>9. CASE IoWaitTimeout
  BY <1>0, <1>9 DEF IoWaitTimeout
<1>10. CASE IoStop
  BY <1>0, <1>10 DEF IoStop, AcknowledgeStop
<1>11. CASE IoSignalStop
  BY <1>0, <1>11 DEF IoSignalStop, Signal
<1>12. CASE IoExit
  <2>1. /\ epc \notin {"read", "write", "overrun", "retry"} /\ UNCHANGED epc
        /\ iopc' = "exited"
    BY <1>12 DEF IoExit, Handshake
  <2> QED BY <2>1
<1>13. CASE EngineBlock
  BY <1>0, <1>13 DEF EngineBlock
<1>14. CASE EngineTimeout
  BY <1>0, <1>14 DEF EngineTimeout, WaitExpires
<1>15. CASE EnginePrefill
  BY <1>0, <1>15 DEF EnginePrefill, WaitFor, At
<1>16. CASE EnginePrefilled
  BY <1>0, <1>16 DEF EnginePrefilled, Move, At
<1>17. CASE Read
  <2>1. cur \in Readers /\ cur \in Clients /\ RS(cur) > 0
    BY <1>0, <1>17 DEF Read, At
  <2>2. (iopc \in {"transfer", "mark", "advance"}) => iop \in Clients
    BY DEF TypeInv, PlacesOK
  <2>3. /\ readptr' = [readptr EXCEPT ![cur] = Advanced(@)] /\ UNCHANGED writeptr
        /\ epc' = "active" /\ iop' = iop
        /\ iopc' = iopc \/ iopc' = "top"
    BY <1>17 DEF Read, SignalActivity
  <2>4. \A d \in Clients : /\ WS(d) > 0 => WS(d)' > 0
                           /\ d # cur => RS(d)' = RS(d)
    BY <2>1, <2>3, TakeKeepsRoom
  <2> QED BY <1>0, <2>1, <2>2, <2>3, <2>4
<1>18. CASE Underrun
  BY <1>0, <1>18 DEF Underrun, At
<1>19. CASE Write
  <2>1. cur \in Writers /\ cur \in Clients /\ WS(cur) > 0
    BY <1>0, <1>19 DEF Write, At
  <2>2. (iopc \in {"transfer", "mark", "advance"}) => iop \in Clients
    BY DEF TypeInv, PlacesOK
  <2>3. /\ writeptr' = [writeptr EXCEPT ![cur] = Advanced(@)] /\ UNCHANGED readptr
        /\ epc' = "active" /\ iop' = iop
        /\ iopc' = iopc \/ iopc' = "top"
    BY <1>19 DEF Write, SignalActivity
  <2>4. \A d \in Clients : /\ RS(d) > 0 => RS(d)' > 0
                           /\ d # cur => WS(d)' = WS(d)
    BY <2>1, <2>3, PutKeepsRoom
  <2> QED BY <1>0, <2>1, <2>2, <2>3, <2>4
<1>20. CASE Overrun
  BY <1>0, <1>20 DEF Overrun, At
<1>21. CASE OverrunRetry
  BY <1>0, <1>21 DEF OverrunRetry, At, Begin
<1>22. CASE EngineStopping
  BY <1>0, <1>22 DEF EngineStopping, WaitFor, At
<1>23. CASE EngineStopped
  BY <1>0, <1>23 DEF EngineStopped, Move, At
<1>24. ASSUME NEW c \in Clients, Flush(c) PROVE RoomKept'
  BY <1>0, <1>24 DEF Flush, At
<1>25. ASSUME NEW c \in Clients, EachClient(c) PROVE RoomKept'
  BY <1>0, <1>25 DEF EachClient, At, StopServer
<1>26. CASE FlushAdvance
  <2>1. iopc \in {"none", "top", "signalstop", "exited"}
    BY <1>26 DEF FlushAdvance, At, Handshake, QuietPlaces
  <2>2. /\ epc' \notin {"read", "write", "overrun", "retry"}
        /\ (iopc' = iopc \/ iopc' = "top")
    BY <1>26 DEF FlushAdvance
  <2> QED BY <2>1, <2>2
<1>27. CASE FlushDone
  <2>1. iopc \in {"none", "top", "signalstop", "exited"}
    BY <1>27 DEF FlushDone, At, Handshake, QuietPlaces
  <2>2. /\ epc' \notin {"read", "write", "overrun", "retry"}
        /\ (iopc' = iopc \/ iopc' = "top")
    BY <1>27 DEF FlushDone, Begin
  <2> QED BY <2>1, <2>2
<1>28. CASE EnginePause
  BY <1>0, <1>28 DEF EnginePause, WaitFor, At
<1>29. CASE ServeClient
  <2>1. iopc \in {"none", "top", "signalstop", "exited"}
    BY <1>29 DEF ServeClient, At, Handshake, QuietPlaces
  <2>2. /\ epc' \notin {"read", "write", "overrun", "retry"}
        /\ (iopc' = iopc \/ iopc' = "top")
    BY <1>29 DEF ServeClient, StartServer
  <2> QED BY <2>1, <2>2
<1>30. CASE EngineRestore
  BY <1>0, <1>30 DEF EngineRestore, WaitFor, At
<1>31. CASE EngineRestored
  BY <1>0, <1>31 DEF EngineRestored, Move, At
<1>32. CASE EachDone
  BY <1>0, <1>32 DEF EachDone, At, StartServer, Begin
<1>33. CASE Join
  BY <1>0, <1>33 DEF Join, Move, At
<1>34. CASE EngineStart
  BY <1>0, <1>34 DEF EngineStart, At, Begin
<1>35. CASE EngineStop
  BY <1>0, <1>35 DEF EngineStop, At, StopServer
<1>36. CASE SeekBegin
  BY <1>0, <1>36 DEF SeekBegin, At
<1>37. CASE ExitRequest
  BY <1>0, <1>37 DEF ExitRequest, At
<1>38. ASSUME NEW c \in Clients, ReadBegin(c) PROVE RoomKept'
  BY <1>0, <1>38 DEF ReadBegin, At
<1>39. ASSUME NEW c \in Clients, WriteBegin(c) PROVE RoomKept'
  BY <1>0, <1>39 DEF WriteBegin, At
<1>40. ASSUME NEW c \in Clients, DestroyClient(c) PROVE RoomKept'
  BY <1>0, <1>40 DEF DestroyClient, At, Begin
<1>41. CASE UNCHANGED vars
  BY <1>41 DEF vars
<1> QED
  BY <1>1, <1>2, <1>3, <1>4, <1>5, <1>6, <1>7, <1>8, <1>9, <1>10, <1>11, <1>12,
     <1>13, <1>14, <1>15, <1>16, <1>17, <1>18, <1>19, <1>20, <1>21, <1>22,
     <1>23, <1>24, <1>25, <1>26, <1>27, <1>28, <1>29, <1>30, <1>31, <1>32,
     <1>33, <1>34, <1>35, <1>36, <1>37, <1>38, <1>39, <1>40, <1>41
     DEF Next, IoThread, EngineProgress, EngineRequest, Done

\* The engine thread and the i/o thread never copy to and from the same slot.
THEOREM SlotsExclusive ==
  ASSUME ~SlowIO, ~LiveSeek
  PROVE  Spec => []SlotExclusion
<1>1. Init => TypeInv /\ Handshake /\ RoomKept
  BY InitTypeInv, InitHandshake, InitRoomKept
<1>2. TypeInv /\ Handshake /\ RoomKept /\ [Next]_vars
        => TypeInv' /\ Handshake' /\ RoomKept'
  BY NextTypeInv, NextHandshake, NextRoomKept
<1>3. TypeInv /\ RoomKept => SlotExclusion
  <2> SUFFICES ASSUME TypeInv, RoomKept, NEW c \in Clients,
                      iopc = "transfer", iop = c, cur = c, At("read") \/ At("write")
               PROVE  readptr[c] # writeptr[c]
    BY DEF SlotExclusion
  <2>1. RS(c) > 0
    BY DbServerAssumption DEF RoomKept, At, Writers
  <2> QED BY <2>1, PointersType, ReadSpaceValue DEF RS
<1> QED BY <1>1, <1>2, <1>3, PTL DEF Spec

-----------------------------------------------------------------------------
(* What the rings hold: the blocks between the position of a child and     *)
(* that of its client, whatever the two threads are in the middle of.      *)

\* Places of a job that treats the clients one by one.
JobPlaces == {"each", "pause", "paused", "quiet", "restore", "restored"}

\* What the engine thread and the i/o thread know of the client they are at.
Chosen ==
  /\ todo \subseteq registered
  /\ epc \notin JobPlaces => todo = {}
  /\ epc \in {"pause", "paused", "quiet"} => cur \notin todo
  /\ goal = "live" => todo \subseteq Writers
  /\ epc \in JobPlaces => goal # "none"
  /\ exitreq => registered = {}
  /\ epc \in {"read", "write", "overrun", "retry", "flushed"} => cur \in registered
  /\ epc \in {"write", "overrun", "retry"} => pos[cur] < Length
  /\ epc = "flushed" => cur \in Writers /\ RS(cur) > 0
  /\ iopc \in {"transfer", "mark", "advance"} => iop \in registered
  /\ iopc = "transfer" /\ iop \in Readers => childpos[iop] < Length

\* flush() has reset every ring before the clients are moved one by one.
Emptied == epc \in {"each", "quiet"} /\ goal \in {"idle", "restart"}

RingsEmptied == Emptied => \A c \in registered : RS(c) = 0

\* The ring of c has been reset, and its ends not yet moved.
Resetting(c) == /\ goal \in {"idle", "restart"}
                /\ c \in todo \/ (cur = c /\ epc = "quiet")

RingOK(c) == IF c \in Readers THEN ReaderRing(c) ELSE childerr[c] \/ WriterRing(c)

RingInv == \A c \in registered : Resetting(c) \/ RingOK(c)

\* A reader whose ring is as full as its child can make it.
Filled(c) == WS(c) = 0 \/ ChildFinished(c)

Prefilling == epc \in {"prefill", "prefilled"}

\* The pass over the clients that leads to the signal for wait_for_full() has
\* been at c, and has found it full.
Passed(c) == \/ iopc \in {"scan", "transfer", "mark", "advance"} /\ ~processed /\ c < iop
             \/ iopc = "endpass" /\ ~processed
             \/ iopc = "signalfull"

\* While the engine waits for its inputs, the server runs, and a pass that moves
\* no block has found every ring full.
FillInv ==
  /\ Prefilling => running /\ ~stopreq /\ iopc # "stop"
  /\ \A c \in registered \cap Readers :
       (Prefilling /\ Passed(c)) \/ At("prefilled") => Filled(c)

-----------------------------------------------------------------------------
(* The end of a stream. *)

\* A mark for the end of a stream is set at the end of the child, and taken
\* back by whoever moves the child.
LEMMA NextEndOfStream == TypeInv /\ EndOfStreamReal /\ [Next]_vars => EndOfStreamReal'
<1> SUFFICES ASSUME TypeInv, EndOfStreamReal, [Next]_vars,
                    NEW c \in Readers, finished'[c] \/ clientfin'[c]
             PROVE  childpos'[c] = Length
  BY DEF EndOfStreamReal
<1> USE DEF ring, child, client, flags, io, job, eng
<1>0. /\ c \in Clients /\ c \notin Writers
      /\ finished \in [Clients -> BOOLEAN] /\ clientfin \in [Clients -> BOOLEAN]
      /\ childpos \in [Clients -> Position]
      /\ finished[c] \/ clientfin[c] => childpos[c] = Length
  BY DbServerAssumption DEF EndOfStreamReal, Writers, TypeInv, TypeOK, DataTypes
<1>1. \A d : ChildWrite(d) /\ d \in Writers => childpos'[c] = childpos[c]
  BY <1>0 DEF ChildWrite
<1>2. CASE IoScan
  BY <1>0, <1>2 DEF IoScan, ChildFinished
<1>3. CASE IoReadBuffer
  BY <1>0, <1>3, DbServerAssumption DEF IoReadBuffer
<1>4. CASE IoWriteBuffer
  BY <1>0, <1>1, <1>4 DEF IoWriteBuffer
<1>5. CASE IoMark
  BY <1>0, <1>5 DEF IoMark, ChildFinished
<1>6. CASE IoExit
  BY <1>0, <1>6 DEF IoExit, ResetRings
<1>7. CASE Underrun
  BY <1>0, <1>7 DEF Underrun
<1>8. CASE Overrun
  BY <1>0, <1>8 DEF Overrun
<1>9. ASSUME NEW d \in Clients, Flush(d) PROVE childpos'[c] = Length
  BY <1>0, <1>1, <1>9 DEF Flush, FlushWrite, Unflushed
<1>10. CASE FlushAdvance
  BY <1>0, <1>10 DEF FlushAdvance, ChildFinished
<1>11. CASE FlushDone
  BY <1>0, <1>11 DEF FlushDone, ResetRings
<1>12. CASE ServeClient
  BY <1>0, <1>12 DEF ServeClient, Reseek, StartIo, Unregister, ResetRings
<1>13. CASE UNCHANGED <<finished, clientfin, childpos>>
  BY <1>0, <1>13
<1> QED
  BY <1>2, <1>3, <1>4, <1>5, <1>6, <1>7, <1>8, <1>9, <1>10, <1>11, <1>12, <1>13
     DEF Next, IoThread, EngineProgress, EngineRequest, Done, vars,
         IoTop, IoAdvance, IoEndPass, IoSignalFull, IoWaitTimeout, IoStop,
         IoSignalStop, EngineBlock, EngineTimeout, EnginePrefill, WaitFor,
         EnginePrefilled, Move, Read, Write, OverrunRetry, EngineStopping,
         EngineStopped, EachClient, EnginePause, EngineRestore, EngineRestored,
         EachDone, Join, EngineStart, EngineStop, SeekBegin, ExitRequest,
         ReadBegin, WriteBegin, DestroyClient

\* No client reports the end of a stream whose child is not at its end, however
\* slow the disk is and whenever the engine seeks.
THEOREM EndsAreReal == Spec => []EndOfStreamReal
<1>1. Init => EndOfStreamReal
  BY DbServerAssumption DEF Init, EndOfStreamReal
<1> QED BY <1>1, InitTypeInv, NextTypeInv, NextEndOfStream, PTL DEF Spec

-----------------------------------------------------------------------------
(* The client that each thread is at. *)

\* Each step of either thread keeps what it knows of the client it is at.
LEMMA NextChosen ==
  ASSUME ~SlowIO, ~LiveSeek, TypeInv, Handshake, RoomKept, Chosen, [Next]_vars
  PROVE  Chosen'
<1> USE DEF Chosen, JobPlaces, RS, ring, child, client, flags, io, job, eng
<1>0. /\ Writers = Clients \ Readers /\ Readers \subseteq Clients /\ Length \in Nat
      /\ registered \subseteq Clients
      /\ childpos \in [Clients -> Position] /\ pos \in [Clients -> Position]
  BY DbServerAssumption DEF Writers, TypeInv, TypeOK, DataTypes, PlaceTypes
<1>q. epc = "flushed" \/ At("flush") \/ At("quiet") \/ At("paused")
        => iopc \in {"none", "top", "signalstop", "exited"}
  BY DEF Handshake, QuietPlaces, At, TypeInv, TypeOK, PlaceTypes
<1>1. CASE IoTop
  BY <1>0, <1>1 DEF IoTop
<1>2. CASE IoScan
  BY <1>0, <1>2 DEF IoScan, IoNextClient, ChildFinished, Position
<1>3. CASE IoReadBuffer
  BY <1>0, <1>3 DEF IoReadBuffer
<1>4. CASE IoWriteBuffer
  BY <1>0, <1>4 DEF IoWriteBuffer, ChildWrite
<1>5. CASE IoMark
  BY <1>0, <1>5 DEF IoMark
<1>6. CASE IoAdvance
  BY <1>0, <1>q, <1>6 DEF IoAdvance, IoNextClient
<1>7. CASE IoEndPass
  BY <1>0, <1>7 DEF IoEndPass
<1>8. CASE IoSignalFull
  BY <1>0, <1>8 DEF IoSignalFull, Signal
<1>9. CASE IoWaitTimeout
  BY <1>0, <1>9 DEF IoWaitTimeout
<1>10. CASE IoStop
  BY <1>0, <1>10 DEF IoStop, AcknowledgeStop
<1>11. CASE IoSignalStop
  BY <1>0, <1>11 DEF IoSignalStop, Signal
<1>12. CASE IoExit
  BY <1>0, <1>12 DEF IoExit, ResetRings
<1>13. CASE EngineBlock
  BY <1>0, <1>13 DEF EngineBlock
<1>14. CASE EngineTimeout
  BY <1>0, <1>14 DEF EngineTimeout
<1>15. CASE EnginePrefill
  BY <1>0, <1>15 DEF EnginePrefill, WaitFor, At
<1>16. CASE EnginePrefilled
  BY <1>0, <1>16 DEF EnginePrefilled, Move, At
<1>17. CASE Read
  BY <1>0, <1>17 DEF Read, At, SignalActivity
<1>18. CASE Underrun
  BY <1>0, <1>18 DEF Underrun, At
<1>19. CASE Write
  BY <1>0, <1>19 DEF Write, At, SignalActivity
<1>20. CASE Overrun
  BY <1>0, <1>20 DEF Overrun, At
<1>21. CASE OverrunRetry
  BY <1>0, <1>21 DEF OverrunRetry, At, Begin, RoomKept
<1>22. CASE EngineStopping
  BY <1>0, <1>22 DEF EngineStopping, WaitFor, At
<1>23. CASE EngineStopped
  BY <1>0, <1>23 DEF EngineStopped, Move, At
<1>24. ASSUME NEW c \in Clients, Flush(c) PROVE Chosen'
  BY <1>0, <1>24 DEF Flush, At, FlushWrite, Unflushed, ChildWrite
<1>25. ASSUME NEW c \in Clients, EachClient(c) PROVE Chosen'
  BY <1>0, <1>25 DEF EachClient, At, StopServer
<1>26. CASE FlushAdvance
  BY <1>0, <1>26 DEF FlushAdvance, At
<1>27. CASE FlushDone
  BY <1>0, <1>q, <1>27 DEF FlushDone, At, Begin, ResetRings, Handshake
<1>28. CASE EnginePause
  BY <1>0, <1>28 DEF EnginePause, WaitFor, At
<1>29. CASE ServeClient
  BY <1>0, <1>q, <1>29 DEF ServeClient, At, StartServer, StartIo, Unregister, Reseek,
                           ResetRings
<1>30. CASE EngineRestore
  BY <1>0, <1>30 DEF EngineRestore, WaitFor, At
<1>31. CASE EngineRestored
  BY <1>0, <1>31 DEF EngineRestored, Move, At
<1>32. CASE EachDone
  BY <1>0, <1>32 DEF EachDone, At, StartServer, Begin
<1>33. CASE Join
  BY <1>0, <1>33 DEF Join, Move, At
<1>34. CASE EngineStart
  BY <1>0, <1>34 DEF EngineStart, At, Begin
<1>35. CASE EngineStop
  BY <1>0, <1>35 DEF EngineStop, At, StopServer
<1>36. CASE SeekBegin
  BY <1>0, <1>36 DEF SeekBegin, At
<1>37. CASE ExitRequest
  BY <1>0, <1>37 DEF ExitRequest, At
<1>38. ASSUME NEW c \in Clients, ReadBegin(c) PROVE Chosen'
  BY <1>0, <1>38 DEF ReadBegin, At
<1>39. ASSUME NEW c \in Clients, WriteBegin(c) PROVE Chosen'
  BY <1>0, <1>39 DEF WriteBegin, At
<1>40. ASSUME NEW c \in Clients, DestroyClient(c) PROVE Chosen'
  BY <1>0, <1>40 DEF DestroyClient, At, Begin
<1>41. CASE UNCHANGED vars
  BY <1>41 DEF vars, RS
<1> QED
  BY <1>1, <1>2, <1>3, <1>4, <1>5, <1>6, <1>7, <1>8, <1>9, <1>10, <1>11, <1>12, <1>13,
     <1>14, <1>15, <1>16, <1>17, <1>18, <1>19, <1>20, <1>21, <1>22, <1>23, <1>24,
     <1>25, <1>26, <1>27, <1>28, <1>29, <1>30, <1>31, <1>32, <1>33, <1>34, <1>35,
     <1>36, <1>37, <1>38, <1>39, <1>40, <1>41
     DEF Next, IoThread, EngineProgress, EngineRequest, Done

-----------------------------------------------------------------------------
(* What the rings hold. *)

\* The steps that move a block, a pointer or a position.
Touches ==
  \/ IoReadBuffer \/ IoWriteBuffer \/ IoAdvance \/ IoExit \/ Read \/ Write
  \/ FlushAdvance \/ FlushDone \/ ServeClient
  \/ \E c \in Clients : Flush(c) \/ EachClient(c)

Untouched(c) ==
  /\ UNCHANGED <<readptr[c], writeptr[c], sbufs[c], childpos[c], childerr[c],
                 pos[c], moved[c]>>
  /\ UnderWay(c)' = UnderWay(c)

\* All other steps leave the rings and the positions alone, and a ring that was
\* reset stays one that was.
LEMMA OtherSteps ==
  ASSUME ~LiveSeek, TypeInv, Handshake, Chosen, [Next]_vars, ~Touches,
  NEW c \in Clients
  PROVE  Untouched(c) /\ (Resetting(c) => Resetting(c)')
         /\ (Emptied' => Emptied) /\ UNCHANGED registered
<1> USE DEF Untouched, Resetting, Emptied, UnderWay, JobPlaces, ring, child, client,
            flags, io, job, eng
<1>0. epc \notin JobPlaces => todo = {}
  BY DEF Chosen
<1>1. CASE IoTop
  BY <1>0, <1>1 DEF IoTop
<1>2. CASE IoScan
  BY <1>0, <1>2 DEF IoScan, IoNextClient, ChildFinished
<1>3. CASE IoMark
  BY <1>0, <1>3 DEF IoMark
<1>4. CASE IoEndPass
  BY <1>0, <1>4 DEF IoEndPass
<1>5. CASE IoSignalFull
  BY <1>0, <1>5 DEF IoSignalFull, Signal
<1>6. CASE IoWaitTimeout
  BY <1>0, <1>6 DEF IoWaitTimeout
<1>7. CASE IoStop
  BY <1>0, <1>7 DEF IoStop, AcknowledgeStop
<1>8. CASE IoSignalStop
  BY <1>0, <1>8 DEF IoSignalStop, Signal
<1>9. CASE EngineBlock
  BY <1>0, <1>9 DEF EngineBlock
<1>10. CASE EngineTimeout
  BY <1>0, <1>10 DEF EngineTimeout
<1>11. CASE EnginePrefill
  BY <1>0, <1>11 DEF EnginePrefill, WaitFor, At
<1>12. CASE EnginePrefilled
  BY <1>0, <1>12 DEF EnginePrefilled, Move, At
<1>13. CASE Underrun
  BY <1>0, <1>13 DEF Underrun, At
<1>14. CASE Overrun
  BY <1>0, <1>14 DEF Overrun, At
<1>15. CASE OverrunRetry
  BY <1>0, <1>15 DEF OverrunRetry, At, Begin
<1>16. CASE EngineStopping
  BY <1>0, <1>16 DEF EngineStopping, WaitFor, At
<1>17. CASE EngineStopped
  BY <1>0, <1>17 DEF EngineStopped, Move, At
<1>18. CASE EnginePause
  BY <1>0, <1>18 DEF EnginePause, WaitFor, At
<1>19. CASE EngineRestore
  BY <1>0, <1>19 DEF EngineRestore, WaitFor, At
<1>20. CASE EngineRestored
  BY <1>0, <1>20 DEF EngineRestored, Move, At, Handshake
<1>21. CASE EachDone
  BY <1>0, <1>21 DEF EachDone, At, StartServer, Begin
<1>22. CASE Join
  BY <1>0, <1>22 DEF Join, Move, At
<1>23. CASE EngineStart
  BY <1>0, <1>23 DEF EngineStart, At, Begin
<1>24. CASE EngineStop
  BY <1>0, <1>24 DEF EngineStop, At, StopServer
<1>25. CASE SeekBegin
  BY <1>0, <1>25 DEF SeekBegin, At
<1>26. CASE ExitRequest
  BY <1>0, <1>26 DEF ExitRequest, At
<1>27. ASSUME NEW d \in Clients, ReadBegin(d)
      PROVE  Untouched(c) /\ (Resetting(c) => Resetting(c)')
         /\ (Emptied' => Emptied) /\ UNCHANGED registered
  BY <1>0, <1>27 DEF ReadBegin, At
<1>28. ASSUME NEW d \in Clients, WriteBegin(d)
      PROVE  Untouched(c) /\ (Resetting(c) => Resetting(c)')
         /\ (Emptied' => Emptied) /\ UNCHANGED registered
  BY <1>0, <1>28 DEF WriteBegin, At
<1>29. ASSUME NEW d \in Clients, DestroyClient(d)
      PROVE  Untouched(c) /\ (Resetting(c) => Resetting(c)')
         /\ (Emptied' => Emptied) /\ UNCHANGED registered
  BY <1>0, <1>29 DEF DestroyClient, At, Begin
<1>30. CASE UNCHANGED vars
  BY <1>30 DEF vars
<1> QED
  BY <1>1, <1>2, <1>3, <1>4, <1>5, <1>6, <1>7, <1>8, <1>9, <1>10, <1>11, <1>12, <1>13,
     <1>14, <1>15, <1>16, <1>17, <1>18, <1>19, <1>20, <1>21, <1>22, <1>23, <1>24,
     <1>25, <1>26, <1>27, <1>28, <1>29, <1>30
     DEF Next, IoThread, EngineProgress, EngineRequest, Done, Touches

\* A ring that is left alone stays as it was.
LEMMA UntouchedRing ==
  ASSUME NEW c \in Clients, Untouched(c)
  PROVE  RS(c)' = RS(c) /\ WS(c)' = WS(c) /\ (RingOK(c) => RingOK(c)')
  BY DEF Untouched, RingOK, ReaderRing, WriterRing, RingHolds, Moved, RS, WS

\* No two of the threads have a block under way at once.
LEMMA OneUnderWay ==
  ASSUME TypeInv, Handshake
  PROVE  epc \in {"flush", "flushed", "quiet"} \/ At("paused")
         \/ (epc = "each" /\ goal # "live")
           => iopc \in {"none", "top", "signalstop", "exited"}
  BY DEF Handshake, QuietPlaces, At, TypeInv, TypeOK, PlaceTypes

\* A ring without blocks.
LEMMA EmptyRing == ReadSpace(0, 0) = 0
  BY DEF ReadSpace

\* What flush() has emptied stays empty until the last client has been moved.
LEMMA NextRingsEmptied ==
  ASSUME ~LiveSeek, TypeInv, Handshake, Chosen, RingsEmptied, [Next]_vars
  PROVE  RingsEmptied'
<1> SUFFICES ASSUME Emptied', NEW c \in registered' PROVE RS(c)' = 0
  BY DEF RingsEmptied
<1> USE DEF Emptied, ring, child, client, flags, io, job, eng
<1>0. /\ registered \subseteq Clients /\ todo \subseteq Clients
      /\ readptr \in [Clients -> Slots] /\ writeptr \in [Clients -> Slots]
  BY DEF TypeInv, TypeOK, PlaceTypes, DataTypes
<1>1. CASE ~Touches
  <2>1. UNCHANGED registered
    BY <1>1, ClientsType, OtherSteps
  <2>2. c \in Clients /\ c \in registered
    BY <1>0, <2>1
  <2>3. RS(c)' = RS(c) /\ Emptied
    BY <1>1, <2>2, OtherSteps, UntouchedRing DEF Emptied
  <2> QED BY <2>2, <2>3 DEF RingsEmptied
<1>2. CASE IoReadBuffer \/ IoWriteBuffer \/ IoAdvance
  BY <1>2, OneUnderWay DEF IoReadBuffer, IoWriteBuffer, IoAdvance, ChildWrite
<1>3. CASE Read \/ Write \/ FlushAdvance \/ \E d \in Clients : Flush(d)
  BY <1>3 DEF Read, Write, FlushAdvance, Flush
<1>4. CASE IoExit
  BY <1>4 DEF IoExit, Chosen
<1>5. CASE FlushDone
  BY <1>0, <1>5, EmptyRing DEF FlushDone, Begin, ResetRings, RS
<1>6. CASE ServeClient
  <2>1. epc \in {"quiet", "paused"} /\ goal' = goal /\ goal # "live"
    BY <1>6 DEF ServeClient
  <2>2. epc = "quiet"
    BY <2>1 DEF Handshake
  <2>3. registered' = registered /\ ResetRings({cur})
    BY <1>6, <2>1 DEF ServeClient, Reseek, StartIo
  <2> QED BY <1>0, <2>1, <2>2, <2>3, EmptyRing DEF RingsEmptied, ResetRings, RS
<1>7. CASE \E d \in Clients : EachClient(d)
  BY <1>7 DEF EachClient, At, RingsEmptied, RS
<1> QED
  BY <1>1, <1>2, <1>3, <1>4, <1>5, <1>6, <1>7 DEF Touches

\* The ring of a client: its pointers are slots, and the positions numbers.
LEMMA RingType ==
  ASSUME TypeInv, NEW c \in Clients
  PROVE  /\ readptr[c] \in Slots /\ writeptr[c] \in Slots
         /\ Advanced(readptr[c]) \in Slots /\ Advanced(writeptr[c]) \in Slots
         /\ sbufs[c] \in [Slots -> Position \cup {-1}]
         /\ childpos[c] \in Position /\ pos[c] \in Position
         /\ Position \subseteq Nat /\ Length \in Nat /\ Buffers \in Nat \ {0}
         /\ \A p \in Position : p <= Length
         /\ RS(c) \in 0 .. Buffers - 1 /\ WS(c) = Buffers - 1 - RS(c)
<1>1. readptr[c] \in Slots /\ writeptr[c] \in Slots
  BY PointersType
<1>2. RS(c) \in 0 .. Buffers - 1 /\ WS(c) = Buffers - 1 - RS(c)
  BY <1>1, ReadSpaceValue, SpaceShared DEF RS, WS
<1> QED
  BY <1>1, <1>2, SlotsType, DbServerAssumption, BuffersAssumption
     DEF TypeInv, TypeOK, DataTypes, Position

\* The i/o thread puts the next block of the child of c behind those that the
\* ring holds.
LEMMA PutByIo ==
  ASSUME TypeInv, NEW c \in Readers, c \in Clients, ReaderRing(c), ~UnderWay(c),
         WS(c) > 0, childpos[c] < Length,
         sbufs' = [sbufs EXCEPT ![c][writeptr[c]] = childpos[c]],
         childpos'[c] = childpos[c] + 1,
         UNCHANGED <<readptr, writeptr, pos>>, UnderWay(c)'
  PROVE  ReaderRing(c)'
<1> DEFINE r == readptr[c]
           w == writeptr[c]
<1>1. sbufs'[c] = [sbufs[c] EXCEPT ![w] = childpos[c]]
  BY DEF TypeInv, TypeOK, DataTypes
<1>2. RS(c)' = RS(c) /\ Moved(c) = 0 /\ Moved(c)' = 1
  BY DEF RS, Moved
<1>3. childpos[c] = pos[c] + RS(c)
  BY <1>2, RingType DEF ReaderRing
<1>4. \A k \in 0 .. Buffers - 1 : k < RS(c)
        => SlotAt(r, k) # w /\ sbufs[c][SlotAt(r, k)] = pos[c] + k /\ SlotAt(r, k) \in Slots
  BY RingType, ReadableSlot DEF ReaderRing, RingHolds, RS
<1>5. RingHolds(c, pos[c])'
  BY <1>1, <1>2, <1>4, RingType DEF RingHolds, RS
<1> QED BY <1>1, <1>2, <1>3, <1>5, RingType DEF ReaderRing

\* A block that leaves the ring of c for good: the ring holds those after it.
LEMMA TakeBlock ==
  ASSUME TypeInv, NEW c \in Clients, NEW first \in Int, RingHolds(c, first),
  RS(c) > 0,
         readptr'[c] = Advanced(readptr[c]), UNCHANGED <<writeptr, sbufs>>
  PROVE  /\ RS(c)' = RS(c) - 1
         /\ \A k \in 0 .. Buffers - 1 :
              k < RS(c)' => sbufs'[c][SlotAt(readptr'[c], k)] = first + 1 + k
<1>1. /\ RS(c)' = RS(c) - 1
      /\ \A k \in Nat : k + 1 < Buffers
              => SlotAt(readptr'[c], k) = SlotAt(readptr[c], k + 1)
  BY RingType, ReadAdvance DEF RS
<1>2. ASSUME NEW k \in 0 .. Buffers - 1, k < RS(c)'
      PROVE  sbufs'[c][SlotAt(readptr'[c], k)] = first + 1 + k
  <2>1. k + 1 \in 0 .. Buffers - 1 /\ k + 1 < RS(c) /\ k \in Nat /\ k + 1 < Buffers
    BY <1>1, <1>2, RingType
  <2>2. sbufs[c][SlotAt(readptr[c], k + 1)] = first + (k + 1)
    BY <2>1 DEF RingHolds
  <2> QED BY <1>1, <2>1, <2>2
<1> QED BY <1>1, <1>2

\* A block that joins the ring of c: it follows those that the ring holds.
LEMMA PutBlock ==
  ASSUME TypeInv, NEW c \in Clients, NEW first \in Int, RingHolds(c, first),
  WS(c) > 0,
         writeptr'[c] = Advanced(writeptr[c]), UNCHANGED readptr,
         sbufs'[c][writeptr[c]] = first + RS(c),
         \A s \in Slots : s # writeptr[c] => sbufs'[c][s] = sbufs[c][s]
  PROVE  RS(c)' = RS(c) + 1 /\ RingHolds(c, first)'
<1>1. RS(c)' = RS(c) + 1 /\ SlotAt(readptr[c], RS(c)) = writeptr[c]
  BY RingType, WriteAdvance DEF RS, WS
<1>2. ASSUME NEW k \in 0 .. Buffers - 1, k < RS(c)'
      PROVE  sbufs'[c][SlotAt(readptr[c], k)] = first + k
  <2>1. CASE k = RS(c)
    BY <1>1, <2>1
  <2>2. CASE k # RS(c)
    <3>1. k < RS(c) /\ k \in Nat
      BY <1>1, <1>2, <2>2, RingType
    <3>2. SlotAt(readptr[c], k) \in Slots /\ SlotAt(readptr[c], k) # writeptr[c]
      BY <3>1, RingType, ReadableSlot DEF RS
    <3> QED BY <3>1, <3>2 DEF RingHolds
  <2> QED BY <2>1, <2>2
<1> QED BY <1>1, <1>2 DEF RingHolds

\* A child has taken the first block of the ring of c, or has failed.
LEMMA WrittenBlock ==
  ASSUME TypeInv, NEW c \in Writers, c \in Clients, c \notin Readers, RingOK(c),
         ~UnderWay(c), RS(c) > 0, ChildWrite(c), UNCHANGED <<ring, pos>>, UnderWay(c)'
  PROVE  RingOK(c)'
<1> USE DEF ring
<1>1. CASE childerr' = [childerr EXCEPT ![c] = TRUE] /\ UNCHANGED <<childpos, moved>>
  BY <1>1 DEF RingOK, TypeInv, TypeOK, DataTypes
<1>2. CASE childerr[c] /\ UNCHANGED childerr
  BY <1>2 DEF RingOK
<1>3. CASE /\ ~childerr[c] /\ UNCHANGED childerr
           /\ childpos' = [childpos EXCEPT ![c] = IF @ < Length THEN @ + 1 ELSE @]
  <2>1. RS(c)' = RS(c) /\ Moved(c) = 0 /\ Moved(c)' = 1
    BY DEF RS, Moved
  <2>2. pos[c] = childpos[c] + RS(c) /\ RingHolds(c, childpos[c])
    BY <1>3, <2>1, RingType DEF RingOK, WriterRing
  <2>3. childpos'[c] = childpos[c] + 1
    BY <1>3, <2>2, RingType DEF TypeInv, TypeOK, DataTypes
  <2>4. childpos'[c] - 1 = childpos[c]
    BY <2>3, RingType
  <2>5. RingHolds(c, childpos'[c] - Moved(c)')
    BY <2>1, <2>2, <2>4
  <2>6. RingHolds(c, childpos[c] - Moved(c))'
    BY <2>5 DEF RingHolds, RS
  <2>7. pos'[c] = childpos'[c] + RS(c)' - Moved(c)'
    BY <2>1, <2>2, <2>3, RingType
  <2> QED BY <2>6, <2>7 DEF RingOK, WriterRing
<1> QED BY <1>1, <1>2, <1>3 DEF ChildWrite

\* The pointer of the ring of c follows the block that its child has taken.
LEMMA TakenBlock ==
  ASSUME TypeInv, NEW c \in Clients, c \notin Readers, RingOK(c), UnderWay(c),
  RS(c) > 0,
         readptr' = [readptr EXCEPT ![c] = Advanced(@)],
         UNCHANGED <<writeptr, sbufs, childpos, childerr, pos>>, ~UnderWay(c)'
  PROVE  RingOK(c)'
<1>1. CASE childerr[c]
  BY <1>1 DEF RingOK
<1>2. CASE ~childerr[c]
  <2>1. Moved(c) = 1 /\ Moved(c)' = 0
    BY DEF Moved
  <2>2. pos[c] = childpos[c] + RS(c) - 1 /\ RingHolds(c, childpos[c] - 1)
    BY <1>2, <2>1 DEF RingOK, WriterRing
  <2>3. readptr'[c] = Advanced(readptr[c]) /\ childpos[c] - 1 \in Int
    BY RingType DEF TypeInv, TypeOK, DataTypes
  <2>4. /\ RS(c)' = RS(c) - 1
        /\ \A k \in 0 .. Buffers - 1 : k < RS(c)' =>
             sbufs'[c][SlotAt(readptr'[c], k)] = childpos[c] - 1 + 1 + k
    BY <2>2, <2>3, TakeBlock
  <2>5. RingHolds(c, childpos[c] - Moved(c))'
    BY <2>1, <2>4, RingType DEF RingHolds
  <2>6. pos'[c] = childpos'[c] + RS(c)' - Moved(c)'
    BY <2>1, <2>2, <2>4, RingType
  <2> QED BY <2>5, <2>6 DEF RingOK, WriterRing
<1> QED BY <1>1, <1>2

\* The i/o thread makes the block of a reader readable.
LEMMA PutByIoDone ==
  ASSUME TypeInv, NEW c \in Readers, c \in Clients, ReaderRing(c), UnderWay(c),
  WS(c) > 0,
         writeptr' = [writeptr EXCEPT ![c] = Advanced(@)],
         UNCHANGED <<readptr, sbufs, childpos, pos>>, ~UnderWay(c)'
  PROVE  ReaderRing(c)'
<1>1. Moved(c) = 1 /\ Moved(c)' = 0
  BY DEF Moved
<1>2. /\ childpos[c] = pos[c] + RS(c) + 1 /\ RingHolds(c, pos[c])
      /\ sbufs[c][writeptr[c]] = pos[c] + RS(c)
  BY <1>1 DEF ReaderRing
<1>3. writeptr'[c] = Advanced(writeptr[c]) /\ pos[c] \in Int
  BY RingType DEF TypeInv, TypeOK, DataTypes
<1>4. RS(c)' = RS(c) + 1 /\ RingHolds(c, pos[c])'
  <2>1. /\ sbufs'[c][writeptr[c]] = pos[c] + RS(c)
        /\ \A s \in Slots : s # writeptr[c] => sbufs'[c][s] = sbufs[c][s]
    BY <1>2
  <2>2. RS(c)' = RS(c) + 1 /\ \A f \in Int : f = pos[c] => RingHolds(c, f)'
    BY <1>2, <1>3, <2>1, PutBlock
  <2> QED BY <1>3, <2>2 DEF RingHolds
<1> QED BY <1>1, <1>2, <1>4, RingType DEF ReaderRing

\* read_buffer() of a client takes the first block.
LEMMA ReadBlock ==
  ASSUME TypeInv, NEW c \in Readers, c \in Clients, ReaderRing(c), RS(c) > 0,
         readptr' = [readptr EXCEPT ![c] = Advanced(@)],
         pos' = [pos EXCEPT ![c] = IF @ < Length THEN @ + 1 ELSE @],
         UNCHANGED <<writeptr, sbufs, childpos>>, UnderWay(c)' = UnderWay(c)
  PROVE  ReaderRing(c)' /\ pos'[c] = pos[c] + 1
<1>1. Moved(c)' = Moved(c) /\ Moved(c) \in {0, 1}
  BY DEF Moved
<1>2. childpos[c] = pos[c] + RS(c) + Moved(c) /\ RingHolds(c, pos[c])
  BY DEF ReaderRing
<1>3. pos'[c] = pos[c] + 1
  BY <1>1, <1>2, RingType DEF TypeInv, TypeOK, DataTypes
<1>4. readptr'[c] = Advanced(readptr[c]) /\ pos[c] \in Int
  BY RingType DEF TypeInv, TypeOK, DataTypes
<1>5. /\ RS(c)' = RS(c) - 1
      /\ \A k \in 0 .. Buffers - 1 : k < RS(c)' =>
           sbufs'[c][SlotAt(readptr'[c], k)] = pos[c] + 1 + k
  BY <1>2, <1>4, TakeBlock
<1>6. RingHolds(c, pos[c])'
  BY <1>3, <1>5 DEF RingHolds
<1>7. childpos'[c] = pos'[c] + RS(c)' + Moved(c)'
  BY <1>1, <1>2, <1>3, <1>5, RingType
<1>8. UnderWay(c)' => sbufs'[c][writeptr'[c]] = pos'[c] + RS(c)'
  BY <1>3, <1>5, RingType DEF ReaderRing
<1> QED BY <1>3, <1>6, <1>7, <1>8 DEF ReaderRing

\* write_buffer() of a client appends a block.
LEMMA WriteBlock ==
  ASSUME TypeInv, NEW c \in Clients, WriterRing(c), WS(c) > 0, pos[c] < Length,
         sbufs' = [sbufs EXCEPT ![c][writeptr[c]] = pos[c]],
         writeptr' = [writeptr EXCEPT ![c] = Advanced(@)],
         pos' = [pos EXCEPT ![c] = IF @ < Length THEN @ + 1 ELSE @],
         UNCHANGED <<readptr, childpos>>, UnderWay(c)' = UnderWay(c)
  PROVE  WriterRing(c)'
<1> DEFINE first == childpos[c] - Moved(c)
<1>1. Moved(c)' = Moved(c) /\ Moved(c) \in {0, 1} /\ first \in Int
  BY RingType DEF Moved
<1>2. pos[c] = first + RS(c) /\ RingHolds(c, first)
  BY <1>1, RingType DEF WriterRing
<1>3. /\ writeptr'[c] = Advanced(writeptr[c])
      /\ sbufs'[c] = [sbufs[c] EXCEPT ![writeptr[c]] = pos[c]]
      /\ pos'[c] = pos[c] + 1
  BY DEF TypeInv, TypeOK, DataTypes
<1>4. /\ sbufs'[c][writeptr[c]] = first + RS(c)
      /\ \A s \in Slots : s # writeptr[c] => sbufs'[c][s] = sbufs[c][s]
  BY <1>2, <1>3, RingType
<1> HIDE DEF first
<1>5. RS(c)' = RS(c) + 1 /\ \A f \in Int : f = first => RingHolds(c, f)'
  BY <1>1, <1>2, <1>3, <1>4, PutBlock
<1> USE DEF first
<1>6. RingHolds(c, childpos[c] - Moved(c))'
  BY <1>1, <1>5 DEF RingHolds
<1> QED BY <1>1, <1>2, <1>3, <1>5, <1>6, RingType DEF WriterRing

\* At the beginning every ring is empty, and nothing is under way.
LEMMA InitRings == Init => Chosen /\ RingsEmptied /\ RingInv
<1> SUFFICES ASSUME Init PROVE Chosen /\ RingsEmptied /\ RingInv
  OBVIOUS
<1>1. Chosen /\ RingsEmptied
  BY DEF Init, Chosen, JobPlaces, RingsEmptied, Emptied
<1>2. ASSUME NEW c \in Clients PROVE RingOK(c)
  <2>1. RS(c) = 0 /\ Moved(c) = 0 /\ ~UnderWay(c) /\ pos[c] = 0 /\ childpos[c] = 0
    BY EmptyRing DEF Init, RS, Moved, UnderWay
  <2> QED BY <2>1 DEF RingOK, ReaderRing, WriterRing, RingHolds
<1> QED BY <1>1, <1>2 DEF RingInv, Init

\* Each step keeps the blocks of every ring between the two positions of its
\* client.
LEMMA NextRingInv ==
  ASSUME ~LiveSeek, Writers \subseteq Seekable, TypeInv, Handshake, RoomKept, Chosen,
         RingsEmptied, RingInv, [Next]_vars
  PROVE  RingInv'
<1> SUFFICES ASSUME NEW c \in registered', ~Resetting(c)' PROVE RingOK(c)'
  BY DEF RingInv
<1> USE DEF ring, child, client, flags, io, job, eng
<1>0. /\ registered \subseteq Clients /\ Writers = Clients \ Readers
      /\ \A d \in registered : ~Resetting(d) => RingOK(d)
  BY DEF TypeInv, TypeOK, PlaceTypes, RingInv, Writers
<1>c. c \in registered /\ c \in Clients
  <2>1. registered' \subseteq registered
    <3>1. CASE ~Touches
      BY <3>1, ClientsType, OtherSteps
    <3>2. CASE Touches
      BY <3>2 DEF Touches, IoReadBuffer, IoWriteBuffer, IoAdvance, IoExit, Read,
                  Write,
         FlushAdvance, FlushDone, ServeClient, Unregister, Reseek, StartIo, Flush,
         EachClient
    <3> QED BY <3>1, <3>2
  <2> QED BY <1>0, <2>1
<1>u. Untouched(c) /\ (Resetting(c) => Resetting(c)') => RingOK(c)'
  BY <1>0, <1>c, UntouchedRing
<1>1. CASE ~Touches
  BY <1>1, <1>c, <1>u, OtherSteps
<1>2. CASE IoReadBuffer
  <2>1. CASE c # iop
    BY <1>2, <1>c, <1>u, <2>1 DEF IoReadBuffer, Untouched, UnderWay, Resetting,
                                  TypeInv, TypeOK, DataTypes
  <2>2. CASE c = iop
    <3>1. c \in Readers /\ ~UnderWay(c) /\ UnderWay(c)' /\ WS(c) > 0 /\ childpos[c] < Length
      BY <1>2, <2>2, OneUnderWay DEF IoReadBuffer, UnderWay, RoomKept, Chosen
    <3>2. ReaderRing(c)
      BY <1>0, <1>2, <1>c, <3>1 DEF IoReadBuffer, Resetting, RingOK
    <3>3. /\ sbufs' = [sbufs EXCEPT ![c][writeptr[c]] = childpos[c]]
          /\ childpos'[c] = childpos[c] + 1
          /\ UNCHANGED <<readptr, writeptr, pos>>
      BY <1>2, <1>c, <2>2, <3>1 DEF IoReadBuffer, TypeInv, TypeOK, DataTypes
    <3> QED BY <1>c, <3>1, <3>2, <3>3, PutByIo DEF RingOK
  <2> QED BY <2>1, <2>2
<1>3. CASE IoWriteBuffer
  <2>1. CASE c # iop
    BY <1>3, <1>c, <1>u, <2>1
       DEF IoWriteBuffer, ChildWrite, Untouched, UnderWay, Resetting, TypeInv, TypeOK,
           DataTypes
  <2>2. CASE c = iop
    <3>1. c \in Writers /\ c \notin Readers /\ ~UnderWay(c) /\ UnderWay(c)' /\ RS(c) > 0
      BY <1>0, <1>3, <2>2, OneUnderWay DEF IoWriteBuffer, UnderWay, RoomKept
    <3>2. RingOK(c)
      BY <1>0, <1>3, <1>c DEF IoWriteBuffer, Resetting
    <3> QED BY <1>3, <1>c, <2>2, <3>1, <3>2, WrittenBlock DEF IoWriteBuffer
  <2> QED BY <2>1, <2>2
<1>4. CASE IoAdvance
  <2>0. (Resetting(c) => Resetting(c)') /\ epc # "flushed" /\ epc' = epc
        /\ iopc' \in {"scan", "endpass"}
    BY <1>4, OneUnderWay DEF IoAdvance, IoNextClient, Resetting
  <2>1. CASE c # iop
    BY <1>4, <1>c, <1>u, <2>0, <2>1
       DEF IoAdvance, IoNextClient, Untouched, UnderWay, TypeInv, TypeOK, DataTypes
  <2>2. CASE c = iop
    <3>1. UnderWay(c) /\ ~UnderWay(c)' /\ RingOK(c)
      BY <1>0, <1>4, <1>c, <2>0, <2>2 DEF IoAdvance, UnderWay
    <3>2. CASE c \in Readers
      BY <1>4, <1>c, <2>2, <3>1, <3>2, PutByIoDone DEF IoAdvance, RoomKept, RingOK
    <3>3. CASE c \notin Readers
      BY <1>4, <1>c, <2>2, <3>1, <3>3, TakenBlock DEF IoAdvance, RoomKept
    <3> QED BY <3>2, <3>3
  <2> QED BY <2>1, <2>2
<1>5. CASE IoExit
  BY <1>5, <1>c DEF IoExit, Chosen
<1>6. CASE Read
  <2>0. UnderWay(c)' = UnderWay(c) /\ ~Resetting(c)
    BY <1>6 DEF Read, At, SignalActivity, UnderWay, Resetting, Chosen, JobPlaces
  <2>1. CASE c # cur
    BY <1>6, <1>c, <1>u, <2>0, <2>1 DEF Read, Untouched, TypeInv, TypeOK, DataTypes
  <2>2. CASE c = cur
    BY <1>0, <1>6, <1>c, <2>0, <2>2, ReadBlock DEF Read, At, RoomKept, RingOK
  <2> QED BY <2>1, <2>2
<1>7. CASE Write
  <2>0. UnderWay(c)' = UnderWay(c) /\ ~Resetting(c)
    BY <1>7 DEF Write, At, SignalActivity, UnderWay, Resetting, Chosen, JobPlaces
  <2>1. CASE c # cur
    BY <1>7, <1>c, <1>u, <2>0, <2>1 DEF Write, Untouched, TypeInv, TypeOK, DataTypes
  <2>2. CASE c = cur
    <3>1. c \notin Readers /\ WS(c) > 0 /\ pos[c] < Length
      BY <1>0, <1>7, <2>2 DEF Write, At, RoomKept, Chosen
    <3>2. CASE childerr[c]
      BY <1>7, <3>1, <3>2 DEF Write, RingOK
    <3>3. CASE ~childerr[c]
      BY <1>0, <1>7, <1>c, <2>0, <2>2, <3>1, <3>3, WriteBlock DEF Write, RingOK
    <3> QED BY <3>2, <3>3
  <2> QED BY <2>1, <2>2
<1>8. ASSUME NEW d \in Clients, Flush(d) PROVE RingOK(c)'
  <2>0. ~Resetting(c) /\ iopc \notin {"mark",
  "advance"} /\ epc = "flush" /\ epc' = "flushed" /\ cur' = d
    BY <1>8, OneUnderWay DEF Flush, At, Resetting, Chosen, JobPlaces
  <2>1. CASE c # d
    BY <1>8, <1>c, <1>u, <2>0, <2>1
       DEF Flush, FlushWrite, ChildWrite, Untouched, UnderWay, TypeInv, TypeOK,
           DataTypes
  <2>2. CASE c = d
    <3>1. c \in Writers /\ RS(c) > 0 /\ ChildWrite(c) /\ UNCHANGED <<ring, pos>>
      BY <1>8, <2>2 DEF Flush, FlushWrite, Unflushed
    <3>2. ~UnderWay(c) /\ UnderWay(c)' /\ RingOK(c)
      BY <1>0, <1>c, <2>0, <2>2 DEF UnderWay
    <3> QED BY <1>0, <1>c, <3>1, <3>2, WrittenBlock
  <2> QED BY <2>1, <2>2
<1>9. CASE FlushAdvance
  <2>0. ~Resetting(c) /\ iopc \notin {"mark",
  "advance"} /\ epc = "flushed" /\ epc' = "flush"
    BY <1>9, OneUnderWay DEF FlushAdvance, At, Resetting, Chosen, JobPlaces
  <2>1. CASE c # cur
    BY <1>9, <1>c, <1>u, <2>0, <2>1
       DEF FlushAdvance, Untouched, UnderWay, TypeInv, TypeOK, DataTypes
  <2>2. CASE c = cur
    <3>1. UnderWay(c) /\ ~UnderWay(c)' /\ c \notin Readers /\ RS(c) > 0
      BY <1>0, <1>9, <2>0, <2>2 DEF FlushAdvance, UnderWay, Chosen
    <3> QED BY <1>0, <1>9, <1>c, <2>0, <2>2, <3>1, TakenBlock DEF FlushAdvance
  <2> QED BY <2>1, <2>2
<1>10. CASE FlushDone
  BY <1>10, <1>c DEF FlushDone, At, Begin, Handshake, Resetting
<1>11. ASSUME NEW d \in Clients, EachClient(d) PROVE RingOK(c)'
  <2>0. UNCHANGED <<readptr, writeptr, sbufs, childpos, childerr, moved, goal>>
        /\ UnderWay(c)' = UnderWay(c) /\ epc = "each"
    BY <1>11 DEF EachClient, At, UnderWay
  <2>1. CASE c # d
    BY <1>11, <1>c, <1>u, <2>0, <2>1 DEF EachClient, Untouched, Resetting, TypeInv,
                                         TypeOK, DataTypes
  <2>2. CASE c = d /\ NeedsPause(d)
    <3>1. ~Resetting(c)
      BY <1>11, <2>0, <2>2 DEF EachClient, Resetting, Handshake
    <3> QED BY <1>11, <1>c, <1>u, <2>0, <2>2, <3>1 DEF EachClient, Untouched
  <2>3. CASE c = d /\ ~NeedsPause(d)
    <3>1. CASE goal = "start"
      BY <1>11, <1>c, <1>u, <2>0, <2>3, <3>1 DEF EachClient, Untouched, Resetting
    <3>2. CASE goal # "start"
      <4>1. goal \in {"idle", "restart"}
        BY <1>11, <1>0, <2>0, <2>3, <3>2
           DEF EachClient, NeedsPause, Chosen, JobPlaces, TypeInv, TypeOK, PlaceTypes,
               Goals
      <4>2. RS(c) = 0 /\ ~UnderWay(c)
        BY <1>c, <2>0, <4>1, OneUnderWay DEF RingsEmptied, Emptied, UnderWay
      <4>3. pos'[c] = childpos[c] /\ childpos'[c] = childpos[c] /\ RS(c)' = 0 /\ Moved(c)' = 0
        BY <1>11, <1>c, <2>0, <2>3, <3>2, <4>2
           DEF EachClient, RS, Moved, TypeInv, TypeOK, DataTypes
      <4>4. childpos[c] \in Nat
        BY <1>c, RingType
      <4> QED BY <2>0, <4>2, <4>3, <4>4 DEF RingOK, ReaderRing, WriterRing, RingHolds
    <3> QED BY <3>1, <3>2
  <2> QED BY <2>1, <2>2, <2>3
<1>12. CASE ServeClient
  <2>0. /\ epc \in {"quiet", "paused"} /\ At(epc)
        /\ UNCHANGED <<childerr, moved, sbufs, goal, todo>>
        /\ iopc \notin {"mark", "advance"} /\ iopc' \notin {"mark", "advance"}
        /\ epc' \in {"each", "restore"}
    BY <1>12, OneUnderWay DEF ServeClient, At, StartServer, StartIo, Unregister,
                              Reseek, ResetRings
  <2>1. CASE c # cur
    <3>1. UNCHANGED <<readptr[c], writeptr[c], childpos[c], pos[c]>>
      BY <1>12, <1>c, <2>1 DEF ServeClient, StartIo, Unregister, Reseek, ResetRings,
                               TypeInv, TypeOK, DataTypes
    <3>2. Resetting(c) => Resetting(c)'
      BY <2>0, <2>1 DEF Resetting
    <3> QED BY <1>u, <2>0, <3>1, <3>2 DEF Untouched, UnderWay
  <2>2. CASE c = cur
    <3>1. goal # "destroy"
      BY <1>12, <2>2 DEF ServeClient, Unregister
    <3>2. /\ pos'[c] = childpos'[c] /\ childpos'[c] \in Nat
          /\ readptr'[c] = 0 /\ writeptr'[c] = 0
      <4>0. /\ childpos[c] \in Nat /\ target \in Nat
            /\ childpos \in [Clients -> Position] /\ pos \in [Clients -> Position]
        BY <1>c, RingType DEF TypeInv, TypeOK, DataTypes, PlaceTypes
      <4>1. ResetRings({c}) => readptr'[c] = 0 /\ writeptr'[c] = 0
        BY <1>c DEF ResetRings
      <4>2. CASE goal = "start"
        BY <1>12, <1>c, <2>2, <4>0, <4>1, <4>2 DEF ServeClient, StartIo
      <4>3. CASE goal # "start"
        BY <1>12, <1>c, <2>2, <3>1, <4>0, <4>1, <4>3 DEF ServeClient, Reseek
      <4> QED BY <4>2, <4>3
    <3>3. RS(c)' = 0 /\ Moved(c)' = 0 /\ ~UnderWay(c)'
      BY <2>0, <3>2, EmptyRing DEF RS, Moved, UnderWay
    <3> QED BY <3>2, <3>3 DEF RingOK, ReaderRing, WriterRing, RingHolds
  <2> QED BY <2>1, <2>2
<1> QED
  BY <1>1, <1>2, <1>3, <1>4, <1>5, <1>6, <1>7, <1>8, <1>9, <1>10, <1>11, <1>12
     DEF Touches

-----------------------------------------------------------------------------
(* The buffers at the start. *)

\* Only the i/o thread is at work while the engine waits for its inputs, and it
\* takes nothing from the ring of a reader.
LEMMA FilledStays ==
  ASSUME ~LiveSeek, TypeInv, RoomKept, Chosen, Handshake, Prefilling, [Next]_vars,
         NEW c \in Readers, c \in Clients, c \in registered, Filled(c)
  PROVE  Filled(c)'
<1> USE DEF Filled, ChildFinished, Prefilling, ring, child, client, flags, io, job,
            eng
<1>0. /\ c \notin Writers /\ Length \in Nat
      /\ childpos \in [Clients -> Position] /\ writeptr \in [Clients -> Slots]
      /\ readptr \in [Clients -> Slots]
  BY DbServerAssumption DEF Writers, TypeInv, TypeOK, DataTypes
<1>1. CASE ~Touches
  BY <1>1, OtherSteps, UntouchedRing DEF Untouched
<1>2. CASE IoReadBuffer
  <2>1. c # iop
    BY <1>2, RingType DEF IoReadBuffer, RoomKept, Chosen
  <2> QED BY <1>0, <1>2, <2>1 DEF IoReadBuffer, WS
<1>3. CASE IoWriteBuffer
  BY <1>0, <1>3 DEF IoWriteBuffer, ChildWrite, WS
<1>4. CASE IoAdvance
  <2>1. CASE c # iop
    BY <1>0, <1>4, <2>1 DEF IoAdvance, WS
  <2>2. CASE c = iop
    BY <1>4, <2>2, RingType DEF IoAdvance, RoomKept
  <2> QED BY <2>1, <2>2
<1>5. CASE IoExit
  BY <1>5 DEF IoExit, Chosen
<1>6. CASE \/ Read \/ Write \/ FlushAdvance \/ FlushDone \/ ServeClient
           \/ \E d \in Clients : Flush(d) \/ EachClient(d)
  BY <1>6 DEF Read, Write, FlushAdvance, FlushDone, ServeClient, Flush, EachClient, At
<1> QED BY <1>1, <1>2, <1>3, <1>4, <1>5, <1>6 DEF Touches

\* What a step of the i/o thread says of c while the engine waits: the pass goes
\* on past c only if c is full, and the engine is woken at the end of a pass.
LEMMA NextPassed ==
  ASSUME ~SlowIO, TypeInv, RoomKept, Handshake, EndOfStreamReal, FillInv, [Next]_vars,
         Prefilling, NEW c \in registered \cap Readers, c \in Clients,
         (Prefilling' /\ Passed(c)') \/ At("prefilled")'
  PROVE  Filled(c)
<1> USE DEF FillInv, Prefilling, Passed, At, ring, child, client, flags, io, job, eng
<1>0. /\ running /\ ~stopreq /\ iopc # "stop" /\ iop \in Int /\ c \in Int
      /\ c >= 1 /\ c <= NClients /\ NClients \in Int
      /\ waits \in {"none", "full", "stop"} /\ waits # "stop"
  BY DbServerAssumption DEF Clients, Handshake, TypeInv, TypeOK, PlaceTypes
<1>1. CASE IoTop
  BY <1>0, <1>1 DEF IoTop
<1>2. CASE IoScan
  <2>1. CASE c < iop \/ At("prefilled")
    BY <1>2, <2>1 DEF IoScan, IoNextClient
  <2>2. CASE ~(c < iop) /\ ~At("prefilled")
    <3>1. c = iop /\ ~(~finished[c] /\ ~ChildFinished(c) /\ TransferSpace(c) > 0)
      BY <1>0, <1>2, <2>2 DEF IoScan, IoNextClient
    <3>2. finished[c] => ChildFinished(c)
      BY DEF EndOfStreamReal, ChildFinished
    <3>3. TransferSpace(c) = WS(c) /\ WS(c) >= 0 /\ WS(c) \in Int
      BY RingType DEF TransferSpace
    <3> QED BY <3>1, <3>2, <3>3 DEF Filled
  <2> QED BY <2>1, <2>2
<1>3. CASE IoReadBuffer \/ IoWriteBuffer \/ IoMark
  <2>1. CASE IoReadBuffer
    BY <2>1 DEF IoReadBuffer
  <2>2. CASE IoWriteBuffer
    BY <2>2 DEF IoWriteBuffer
  <2>3. CASE IoMark
    BY <2>3 DEF IoMark
  <2> QED BY <1>3, <2>1, <2>2, <2>3
<1>4. CASE IoAdvance
  BY <1>0, <1>4 DEF IoAdvance, IoNextClient
<1>5. CASE IoEndPass
  BY <1>0, <1>5 DEF IoEndPass
<1>6. CASE IoSignalFull
  BY <1>0, <1>6 DEF IoSignalFull, Signal
<1>7. CASE IoWaitTimeout \/ IoStop
  BY <1>0, <1>7 DEF IoWaitTimeout, IoStop
<1>8. CASE IoSignalStop
  BY <1>0, <1>8 DEF IoSignalStop, Signal
<1>9. CASE IoExit
  BY <1>0, <1>9 DEF IoExit
<1>10. CASE EngineBlock
  BY <1>0, <1>10 DEF EngineBlock
<1>11. CASE EngineTimeout
  BY <1>0, <1>11 DEF EngineTimeout, WaitExpires
<1>12. CASE EnginePrefill
  BY <1>0, <1>12 DEF EnginePrefill, WaitFor
<1>13. CASE EnginePrefilled
  BY <1>0, <1>13 DEF EnginePrefilled, Move
<1>14. CASE UNCHANGED vars
  BY <1>14 DEF vars
<1> QED
  BY <1>1, <1>2, <1>3, <1>4, <1>5, <1>6, <1>7, <1>8, <1>9, <1>10, <1>11, <1>12,
     <1>13, <1>14
     DEF Next, IoThread, EngineProgress, EngineRequest, Done, Read, Underrun, Write,
         Overrun, OverrunRetry, EngineStopping, EngineStopped, Flush, EachClient,
         FlushAdvance, FlushDone, EnginePause, ServeClient, EngineRestore,
         EngineRestored, EachDone, Join, EngineStart, EngineStop, SeekBegin,
         ExitRequest, ReadBegin, WriteBegin, DestroyClient, WaitFor, Move

\* The engine begins to wait for its inputs by starting a stopped server.
LEMMA BeginsToWait ==
  ASSUME TypeInv, Handshake, [Next]_vars, Prefilling', ~Prefilling
  PROVE  EachDone /\ goal = "start"
<1> USE DEF Prefilling
<1>1. CASE IoThread
  BY <1>1
     DEF IoThread, IoTop, IoScan, IoReadBuffer, IoWriteBuffer, IoMark, IoAdvance,
         IoEndPass, IoSignalFull, IoWaitTimeout, IoStop, IoSignalStop, IoExit, Signal,
         eng
<1>2. CASE EngineProgress
  BY <1>2
     DEF EngineProgress, EngineBlock, EngineTimeout, EnginePrefill, EnginePrefilled,
         Read, Underrun, Write, Overrun, OverrunRetry, EngineStopping, EngineStopped,
         Flush, EachClient, FlushAdvance, FlushDone, EnginePause, ServeClient,
         EngineRestore, EngineRestored, EachDone, Join, WaitFor, Move, Begin, At, job
<1>3. CASE EngineRequest
  BY <1>3
     DEF EngineRequest, EngineStart, EngineStop, SeekBegin, ExitRequest, ReadBegin,
         WriteBegin, DestroyClient, Begin
<1>4. CASE UNCHANGED vars
  BY <1>4 DEF vars, eng
<1> QED BY <1>1, <1>2, <1>3, <1>4 DEF Next, Done

\* Every step keeps what a pass says of the rings of the readers.
LEMMA NextFillInv ==
  ASSUME ~SlowIO, ~LiveSeek, TypeInv, RoomKept, Chosen, Handshake, EndOfStreamReal,
         FillInv, [Next]_vars
  PROVE  FillInv'
<1> USE DEF ring, child, client, flags, io, job, eng
<1>1. ASSUME Prefilling' PROVE running' /\ ~stopreq' /\ iopc' # "stop"
  <2>1. CASE Prefilling
    <3>1. running /\ ~stopreq /\ iopc # "stop"
      BY <2>1 DEF FillInv
    <3>2. CASE IoThread
      <4>1. CASE IoEndPass
        BY <3>1, <4>1 DEF IoEndPass
      <4>2. CASE IoSignalFull
        BY <3>1, <4>2 DEF IoSignalFull, Signal
      <4>3. CASE IoSignalStop
        BY <3>1, <4>3 DEF IoSignalStop, Signal
      <4>4. CASE IoWaitTimeout
        BY <3>1, <4>4 DEF IoWaitTimeout
      <4>5. CASE IoTop
        BY <3>1, <4>5 DEF IoTop
      <4>6. CASE IoMark
        BY <3>1, <4>6 DEF IoMark
      <4>7. CASE IoReadBuffer
        BY <3>1, <4>7 DEF IoReadBuffer
      <4>8. CASE IoWriteBuffer
        BY <3>1, <4>8 DEF IoWriteBuffer
      <4>9. CASE IoScan
        BY <3>1, <4>9 DEF IoScan, IoNextClient
      <4>10. CASE IoAdvance
        BY <3>1, <4>10 DEF IoAdvance, IoNextClient
      <4>11. CASE IoStop
        BY <3>1, <4>11 DEF IoStop
      <4>12. CASE IoExit
        BY <3>1, <4>12 DEF IoExit
      <4> QED
        BY <3>2, <4>1, <4>2, <4>3, <4>4, <4>5, <4>6, <4>7, <4>8, <4>9, <4>10, <4>11,
           <4>12
           DEF IoThread
    <3>3. CASE EngineProgress
      <4>1. CASE EngineBlock \/ EngineTimeout \/ EnginePrefill \/ EnginePrefilled
        <5>1. UNCHANGED flags /\ iopc' = iopc
          BY <4>1 DEF EngineBlock, EngineTimeout, EnginePrefill, EnginePrefilled,
                      WaitFor, Move
        <5> QED BY <3>1, <5>1
      <4>2. ASSUME ~(EngineBlock \/ EngineTimeout \/ EnginePrefill \/ EnginePrefilled)
            PROVE  FALSE
        BY <2>1, <3>3, <4>2
           DEF Prefilling, EngineProgress, Read, Underrun, Write, Overrun,
               OverrunRetry,
               EngineStopping, EngineStopped, Flush, EachClient, FlushAdvance,
               FlushDone,
               EnginePause, ServeClient, EngineRestore, EngineRestored, EachDone,
               Join,
               WaitFor, Move, At
      <4> QED BY <4>1, <4>2
    <3>4. CASE EngineRequest
      BY <2>1, <3>4
         DEF Prefilling, EngineRequest, EngineStart, EngineStop, SeekBegin,
             ExitRequest,
             ReadBegin, WriteBegin, DestroyClient, At
    <3>5. CASE UNCHANGED vars
      BY <3>1, <3>5 DEF vars
    <3> QED BY <3>2, <3>3, <3>4, <3>5 DEF Next, Done
  <2>2. CASE ~Prefilling
    <3>1. EachDone /\ goal = "start"
      BY <1>1, <2>2, BeginsToWait
    <3> QED BY <3>1 DEF EachDone, At, StartServer, Handshake
  <2> QED BY <2>1, <2>2
<1>2. ASSUME NEW c \in registered' \cap Readers,
             (Prefilling' /\ Passed(c)') \/ At("prefilled")'
      PROVE  Filled(c)'
  <2>1. CASE Prefilling
    <3>1. c \in registered /\ c \in Clients
      <4>1. registered' = registered
        BY <1>2, <2>1, ClientsType, OtherSteps
           DEF Touches, IoReadBuffer, IoWriteBuffer, IoAdvance, IoExit, Read, Write,
               FlushAdvance, FlushDone, ServeClient, Flush, EachClient, At, Prefilling
      <4> QED BY <4>1, <1>2, DbServerAssumption
    <3> QED BY <1>2, <2>1, <3>1, NextPassed, FilledStays
  <2>2. CASE ~Prefilling
    <3>1. EachDone /\ goal = "start"
      BY <1>2, <2>2, BeginsToWait DEF At, Prefilling
    <3>2. iopc' \in {"top", "signalstop", "exited"} /\ epc' = "prefill"
      BY <3>1 DEF EachDone, At, StartServer, Handshake
    <3> QED BY <1>2, <3>2 DEF Passed, At
  <2> QED BY <2>1, <2>2
<1> QED BY <1>1, <1>2 DEF FillInv

-----------------------------------------------------------------------------
(* The two threads together keep the streams in order. *)

\* The invariant of the two threads, given that i/o is not slower than the timed
\* waits, that the engine seeks while stopped, and that every output can seek.
IInv ==
  /\ TypeInv /\ Handshake /\ RoomKept
  /\ Chosen /\ RingsEmptied /\ RingInv /\ EndOfStreamReal /\ FillInv

\* The whole invariant, from the lemmas on its parts.
LEMMA RingsInvariance ==
  ASSUME ~SlowIO, ~LiveSeek, Writers \subseteq Seekable
  PROVE  Spec => []IInv
<1>1. Init => IInv
  <2>1. Init => EndOfStreamReal
    BY DbServerAssumption DEF Init, EndOfStreamReal
  <2>2. Init => FillInv
    BY DEF Init, FillInv, Prefilling, At
  <2> QED BY <2>1, <2>2, InitTypeInv, InitHandshake, InitRoomKept, InitRings DEF IInv
<1>2. IInv /\ [Next]_vars => IInv'
  BY NextTypeInv, NextHandshake, NextRoomKept, NextChosen, NextRingsEmptied,
     NextRingInv, NextEndOfStream, NextFillInv DEF IInv
<1> QED BY <1>1, <1>2, PTL DEF Spec

\* The ring of a client holds what lies between the two positions, and the
\* engine starts with every input buffered.
THEOREM RingsAlwaysSound ==
  ASSUME ~SlowIO, ~LiveSeek, Writers \subseteq Seekable
  PROVE  Spec => []RingsSound
<1>1. IInv => RingsSound
  <2> SUFFICES ASSUME IInv PROVE RingConsistent /\ PrefilledOnStart
    BY DEF RingsSound
  <2>1. RingConsistent
    BY DEF IInv, RingInv, RingConsistent, RingOK, Resetting, Seeking
  <2>2. PrefilledOnStart
    BY DEF IInv, FillInv, PrefilledOnStart, Filled
  <2> QED BY <2>1, <2>2
<1> QED BY <1>1, RingsInvariance, PTL

\* The first block of a ring that is not empty.
LEMMA FirstBlock ==
  ASSUME TypeInv, NEW c \in Clients, NEW first \in Int, RingHolds(c, first), RS(c) > 0
  PROVE  sbufs[c][readptr[c]] = first
<1>1. 0 \in 0 .. Buffers - 1 /\ SlotAt(readptr[c], 0) = readptr[c]
  BY RingType DEF SlotAt, Slots
<1> QED BY <1>1, RingType DEF RingHolds

\* While the i/o thread is at a client, no ring waits for its ends to be moved.
LEMMA NoneResetting ==
  ASSUME TypeInv, Handshake, Chosen, iopc \in {"transfer", "mark", "advance"}, NEW c
  PROVE  ~Resetting(c) /\ epc # "flushed"
<1>1. epc \notin {"quiet", "flushed"} /\ ~(epc = "each" /\ goal # "live")
  BY OneUnderWay
<1>2. epc \in {"pause", "paused", "restore", "restored"} => goal = "live"
  BY DEF Handshake
<1> QED BY <1>1, <1>2 DEF Resetting, Chosen, JobPlaces

\* Every step of either thread is, for the stream of an input, a block that
\* enters or leaves, a seek, or nothing at all.
LEMMA ReaderStep ==
  ASSUME ~SlowIO, ~LiveSeek, IInv, [Next]_vars, NEW c \in Readers
  PROVE  ReadStream(c)!StreamStep
<1> USE DEF ring, child, client, flags, io, job, eng
<1> USE DEF ReadStream!StreamStep, ReadStream!StreamNext, ReadStream!Accept,
            ReadStream!Deliver, ReadStream!Seek
<1>0. /\ c \in Clients /\ c \notin Writers /\ TypeInv
      /\ childpos \in [Clients -> Position] /\ pos \in [Clients -> Position]
      /\ moved \in [Clients -> Position \cup {-1}] /\ target \in Position
      /\ childpos[c] \in Nat /\ pos[c] \in Nat
  BY DbServerAssumption, RingType DEF IInv, Writers, TypeInv, TypeOK, DataTypes,
                                      PlaceTypes
<1>s. UNCHANGED <<childpos[c], pos[c], moved[c]>> => ReadStream(c)!StreamStep
  OBVIOUS
<1>1. CASE ~Touches
  BY <1>0, <1>1, <1>s, OtherSteps DEF IInv, Untouched
<1>2. CASE IoReadBuffer
  <2>1. CASE c # iop
    BY <1>0, <1>2, <1>s, <2>1 DEF IoReadBuffer
  <2>2. CASE c = iop
    <3>1. c \in registered /\ ~Resetting(c) /\ ~UnderWay(c) /\ WS(c) > 0 /\ childpos[c] < Length
      BY <1>0, <1>2, <2>2, NoneResetting
         DEF IInv, IoReadBuffer, Chosen, UnderWay, RoomKept
    <3>2. childpos[c] = pos[c] + RS(c)
      BY <1>0, <3>1, RingType DEF IInv, RingInv, RingOK, ReaderRing, Moved
    <3>3. /\ childpos'[c] = childpos[c] + 1
          /\ UNCHANGED <<pos[c], moved[c]>>
      BY <1>0, <1>2, <2>2, <3>1 DEF IoReadBuffer
    <3>4. childpos[c] - pos[c] < Buffers - 1
      BY <1>0, <3>1, <3>2, RingType
    <3> QED BY <3>3, <3>4
  <2> QED BY <2>1, <2>2
<1>3. CASE IoWriteBuffer
  BY <1>0, <1>3, <1>s DEF IoWriteBuffer, ChildWrite
<1>4. CASE IoAdvance \/ IoExit \/ FlushAdvance \/ FlushDone
  BY <1>4, <1>s DEF IoAdvance, IoExit, FlushAdvance, FlushDone
<1>5. CASE Write
  <2>1. cur \in Writers
    BY <1>5 DEF IInv, Write, At, RoomKept
  <2> QED BY <1>0, <1>5, <1>s, <2>1 DEF Write
<1>6. CASE Read
  <2>1. CASE c # cur
    BY <1>0, <1>6, <1>s, <2>1 DEF Read
  <2>2. CASE c = cur
    <3>1. RS(c) > 0 /\ ReaderRing(c)
      BY <1>6, <2>2
         DEF IInv, Read, At, RoomKept, Chosen, JobPlaces, RingInv, RingOK, Resetting
    <3>2. UnderWay(c)' = UnderWay(c)
      BY <1>6 DEF Read, At, SignalActivity, UnderWay
    <3>3. pos'[c] = pos[c] + 1
      BY <1>0, <1>6, <2>2, <3>1, <3>2, ReadBlock DEF Read
    <3>4. moved'[c] = pos[c] /\ UNCHANGED childpos[c]
      BY <1>0, <1>6, <2>2, <3>1, FirstBlock DEF Read, ReaderRing
    <3>5. pos[c] < childpos[c]
      BY <1>0, <3>1, RingType DEF ReaderRing, Moved
    <3> QED BY <3>3, <3>4, <3>5
  <2> QED BY <2>1, <2>2
<1>7. ASSUME NEW d \in Clients, Flush(d) PROVE ReadStream(c)!StreamStep
  BY <1>0, <1>7, <1>s DEF Flush, FlushWrite, Unflushed, ChildWrite
<1>8. ASSUME NEW d \in Clients, EachClient(d) PROVE ReadStream(c)!StreamStep
  <2>1. pos'[c] = pos[c] \/ pos'[c] = childpos[c]
    BY <1>0, <1>8 DEF EachClient
  <2>2. UNCHANGED <<childpos[c], moved[c]>> /\ childpos[c] \in Position
    BY <1>0, <1>8 DEF EachClient
  <2> QED BY <1>s, <2>1, <2>2
<1>9. CASE ServeClient
  <2>1. CASE c # cur
    BY <1>0, <1>9, <1>s, <2>1 DEF ServeClient, StartIo, Unregister, Reseek
  <2>2. CASE c = cur
    <3>1. UNCHANGED moved
      BY <1>9 DEF ServeClient
    <3>2. CASE StartIo
      BY <1>0, <2>2, <3>1, <3>2 DEF StartIo
    <3>3. CASE Unregister
      BY <1>s, <3>1, <3>3 DEF Unregister
    <3>4. CASE Reseek
      BY <1>0, <2>2, <3>1, <3>4 DEF Reseek
    <3> QED BY <1>9, <3>2, <3>3, <3>4 DEF ServeClient
  <2> QED BY <2>1, <2>2
<1> QED BY <1>1, <1>2, <1>3, <1>4, <1>5, <1>6, <1>7, <1>8, <1>9 DEF Touches

\* The same of an output, until its child has failed to write a block.
LEMMA WriterStep ==
  ASSUME ~SlowIO, ~LiveSeek, IInv, [Next]_vars, NEW c \in Writers
  PROVE  childerr'[c] \/ WriteStream(c)!StreamStep
<1> USE DEF ring, child, client, flags, io, job, eng
<1> USE DEF WriteStream!StreamStep, WriteStream!StreamNext, WriteStream!Accept,
            WriteStream!Deliver, WriteStream!Seek
<1> DEFINE Step == childerr'[c] \/ WriteStream(c)!StreamStep
<1> SUFFICES Step
  OBVIOUS
<1>0. /\ c \in Clients /\ c \notin Readers /\ TypeInv
      /\ childpos \in [Clients -> Position] /\ pos \in [Clients -> Position]
      /\ moved \in [Clients -> Position \cup {-1}] /\ target \in Position
      /\ childerr \in [Clients -> BOOLEAN]
      /\ childpos[c] \in Nat /\ pos[c] \in Nat
  BY DbServerAssumption, RingType DEF IInv, Writers, TypeInv, TypeOK, DataTypes,
                                      PlaceTypes
<1>s. UNCHANGED <<childpos[c], pos[c], moved[c]>> => Step
  OBVIOUS
<1>w. ASSUME ChildWrite(c), UNCHANGED pos, c \in registered, ~Resetting(c),
             ~UnderWay(c), RS(c) > 0
      PROVE  Step
  <2>1. CASE childerr' = [childerr EXCEPT ![c] = TRUE]
    BY <1>0, <2>1
  <2>2. CASE childerr[c] /\ UNCHANGED childerr
    BY <2>2
  <2>3. CASE /\ ~childerr[c]
             /\ childpos' = [childpos EXCEPT ![c] = IF @ < Length THEN @ + 1 ELSE @]
             /\ moved' = [moved EXCEPT ![c] = sbufs[c][readptr[c]]]
    <3>1. pos[c] = childpos[c] + RS(c) /\ RingHolds(c, childpos[c])
      BY <1>0, <1>w, <2>3, RingType DEF IInv, RingInv, RingOK, WriterRing, Moved
    <3>2. childpos[c] < pos[c] /\ childpos'[c] = childpos[c] + 1
      BY <1>0, <1>w, <2>3, <3>1, RingType
    <3>3. moved'[c] = childpos[c]
      BY <1>0, <1>w, <2>3, <3>1, FirstBlock
    <3> QED BY <1>w, <3>2, <3>3
  <2> QED BY <1>w, <2>1, <2>2, <2>3 DEF ChildWrite
<1>n. ASSUME NEW d \in Clients, d # c, ChildWrite(d), UNCHANGED pos PROVE Step
  <2>1. UNCHANGED <<childpos[c], moved[c]>>
    BY <1>0, <1>n DEF ChildWrite
  <2> QED BY <1>n, <1>s, <2>1
<1> HIDE DEF Step
<1>1. CASE ~Touches
  BY <1>0, <1>1, <1>s, OtherSteps DEF IInv, Untouched
<1>2. CASE IoReadBuffer
  BY <1>0, <1>2, <1>s DEF IoReadBuffer
<1>3. CASE IoWriteBuffer
  <2>1. CASE c # iop
    BY <1>n, <1>3, <2>1, DbServerAssumption DEF IoWriteBuffer, Writers
  <2>2. CASE c = iop
    <3>1. ~Resetting(c) /\ ~UnderWay(c) /\ RS(c) > 0 /\ c \in registered
      BY <1>0, <1>3, <2>2, NoneResetting DEF IInv, IoWriteBuffer, Chosen, UnderWay,
                                             RoomKept
    <3> QED BY <1>w, <1>3, <2>2, <3>1 DEF IoWriteBuffer
  <2> QED BY <2>1, <2>2
<1>4. CASE IoAdvance \/ IoExit \/ FlushAdvance \/ FlushDone
  BY <1>4, <1>s DEF IoAdvance, IoExit, FlushAdvance, FlushDone
<1>5. CASE Read
  <2>1. cur \in Readers
    BY <1>5 DEF IInv, Read, At, RoomKept
  <2> QED BY <1>0, <1>5, <1>s, <2>1 DEF Read
<1>6. CASE Write
  <2>1. CASE c # cur
    BY <1>0, <1>6, <1>s, <2>1 DEF Write
  <2>2. CASE c = cur
    <3>1. /\ WS(c) > 0 /\ pos[c] < Length /\ c \in registered /\ ~Resetting(c)
      BY <1>6, <2>2 DEF IInv, Write, At, RoomKept, Chosen, JobPlaces, Resetting
    <3>2. CASE childerr[c]
      BY <1>6, <3>2 DEF Write, Step
    <3>3. CASE ~childerr[c]
      <4>1. pos[c] = childpos[c] + RS(c) - Moved(c) /\ Moved(c) \in {0, 1}
        BY <1>0, <3>1, <3>3 DEF IInv, RingInv, RingOK, WriterRing, Moved
      <4>2. pos[c] - childpos[c] < Buffers - 1
        BY <1>0, <3>1, <4>1, RingType
      <4>3. pos'[c] = pos[c] + 1 /\ UNCHANGED <<childpos[c], moved[c]>>
        BY <1>0, <1>6, <2>2, <3>1 DEF Write
      <4> QED BY <4>2, <4>3 DEF Step
    <3> QED BY <3>2, <3>3
  <2> QED BY <2>1, <2>2
<1>7. ASSUME NEW d \in Clients, Flush(d) PROVE Step
  <2>1. CASE c # d
    BY <1>n, <1>7, <2>1 DEF Flush, FlushWrite
  <2>2. CASE c = d
    <3>1. ~Resetting(c) /\ ~UnderWay(c) /\ RS(c) > 0 /\ c \in registered
      BY <1>7, <2>2, OneUnderWay
         DEF IInv, Flush, FlushWrite, Unflushed, At, Resetting, Chosen, JobPlaces,
             UnderWay
    <3> QED BY <1>w, <1>7, <2>2, <3>1 DEF Flush, FlushWrite
  <2> QED BY <2>1, <2>2
<1>8. ASSUME NEW d \in Clients, EachClient(d) PROVE Step
  <2>1. pos'[c] = pos[c] \/ pos'[c] = childpos[c]
    BY <1>0, <1>8 DEF EachClient
  <2>2. UNCHANGED <<childpos[c], moved[c]>> /\ childpos[c] \in Position
    BY <1>0, <1>8 DEF EachClient
  <2> QED BY <1>s, <2>1, <2>2 DEF Step
<1>9. CASE ServeClient
  <2>1. CASE c # cur
    BY <1>0, <1>9, <1>s, <2>1 DEF ServeClient, StartIo, Unregister, Reseek
  <2>2. CASE c = cur
    <3>1. UNCHANGED moved
      BY <1>9 DEF ServeClient
    <3>2. CASE StartIo
      BY <1>0, <2>2, <3>1, <3>2 DEF StartIo, Step
    <3>3. CASE Unregister
      BY <1>s, <3>1, <3>3 DEF Unregister
    <3>4. CASE Reseek
      BY <1>0, <2>2, <3>1, <3>4 DEF Reseek, Step
    <3> QED BY <1>9, <3>2, <3>3, <3>4 DEF ServeClient
  <2> QED BY <2>1, <2>2
<1> QED BY <1>1, <1>2, <1>3, <1>4, <1>5, <1>6, <1>7, <1>8, <1>9 DEF Touches

\* The streams of all clients keep the promise of BlockStream: no block is lost,
\* repeated, altered or reordered between a child and the engine.
THEOREM StreamsRefined ==
  ASSUME ~SlowIO, ~LiveSeek, Writers \subseteq Seekable
  PROVE  Spec => StreamsInOrder
<1> DEFINE Starts == /\ \A c \in Readers : ReadStream(c)!StreamInit
                     /\ \A c \in Writers : WriteStream(c)!StreamInit
           Steps  == /\ \A c \in Readers : ReadStream(c)!StreamStep
                     /\ \A c \in Writers : childerr'[c] \/ WriteStream(c)!StreamStep
<1>1. Init => Starts
  BY DbServerAssumption
     DEF Init, Writers, ReadStream!StreamInit, WriteStream!StreamInit
<1>2. IInv /\ [Next]_vars => [Steps]_vars
  BY ReaderStep, WriterStep
<1> HIDE DEF Starts, Steps
<1>3. Spec => Starts /\ [][Steps]_vars
  BY <1>1, <1>2, RingsInvariance, PTL DEF Spec
<1> QED BY <1>3 DEF Starts, Steps, StreamsInOrder
=============================================================================
