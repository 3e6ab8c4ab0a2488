-------------------------- MODULE StreamTypeProofs --------------------------
(***************************************************************************)
(* Type correctness of Stream, and that its positions stay in range, for   *)
(* every value of the constants.                                           *)
(*                                                                         *)
(* The invariant is proved action by action (53 of them); NextBounded puts *)
(* the actions of each thread together.                                    *)
(***************************************************************************)
EXTENDS StreamProperties, CircularBufferProofs, WellFoundedInduction

(* The inductive invariant: the types need the positions (a batch fits its *)
(* buffer because the slots granted do) and the positions need the types.  *)
Bounded == TypeOK /\ PositionsInRange

(* What the named assumptions say of the constants. *)
LEMMA Constants ==
  /\ Capacity \in Nat \ {0} /\ WriterBatch \in Nat \ {0} /\ ReaderBatch \in Nat \ {0}
  /\ MaxRecords \in Nat
  /\ Writers \subseteq Producers /\ ZCWriters \subseteq Producers
  /\ Readers \subseteq Clients /\ ZCReaders \subseteq Clients /\ LateClients \subseteq Clients
  /\ Writers \cap ZCWriters = {} /\ Readers \cap ZCReaders = {}
  /\ <<>> \in Seq(Records)
  BY BufferAssumption, WriterAssumption, WritersAssumption, ZCWritersAssumption,
     ReaderAssumption, ReadersAssumption, ZCReadersAssumption, StreamAssumption

USE DEF bufferVars, writerBaseVars, loopVars, writerVars, readerBaseVars, readerVars, zcVars

(* A non-empty set of natural numbers has a least element. *)
LEMMA LeastNat ==
  ASSUME NEW T \in SUBSET Nat, T # {}
  PROVE  \E x \in T : \A y \in T : x <= y
<1> DEFINE R == OpToRel(<, Nat)
<1>1. IsWellFoundedOn(R, Nat)
  BY NatLessThanWellFounded, Zenon
<1>2. PICK x \in T : \A y \in T : ~ (<<y, x>> \in R)
  <2> HIDE DEF R
  <2> QED BY <1>1, WFMin, Zenon
<1>3. \A y \in T : x <= y
  <2> TAKE y \in T
  <2>1. x \in Nat /\ y \in Nat
    OBVIOUS
  <2>2. ~ (y < x)
    BY <1>2, <2>1 DEF OpToRel
  <2> QED BY <2>1, <2>2
<1> QED BY <1>2, <1>3

(* The slowest cursor is the one of a registered reader ...                 *)
SlowestIsMin ==
  clients # {} =>
    \E d \in clients :
      MinReadCursor = cursor[d] /\ \A c \in clients : cursor[d] <= cursor[c]

LEMMA MinReadCursorIs ==
  ASSUME BufferTypeOK
  PROVE  SlowestIsMin
<1> SUFFICES ASSUME clients # {} PROVE SlowestIsMin
  BY DEF SlowestIsMin
<1> DEFINE T == {cursor[c] : c \in clients}
           Least(m) == \A c \in clients : m <= cursor[c]
<1>1. T \in SUBSET Nat /\ T # {}
  BY DEF BufferTypeOK
<1>2. PICK m \in T : \A y \in T : m <= y
  <2> HIDE DEF T
  <2> QED BY <1>1, LeastNat
<1>3. Least(m)
  BY <1>2
<1>4. MinReadCursor = CHOOSE k \in T : Least(k)
  BY Zenon DEF MinReadCursor
<1>5. MinReadCursor \in T /\ Least(MinReadCursor)
  <2> HIDE DEF T, Least
  <2> QED BY <1>3, <1>4
<1> QED BY <1>5 DEF SlowestIsMin

(* ... or, with none, a position remembered; no registered reader is behind.*)
LEMMA MinReadCursorType ==
  ASSUME BufferTypeOK
  PROVE  MinReadCursor \in Nat /\ \A c \in clients : MinReadCursor <= cursor[c]
<1>1. CASE clients = {}
  BY <1>1 DEF BufferTypeOK, MinReadCursor
<1>2. CASE clients # {}
  BY <1>2, MinReadCursorIs DEF BufferTypeOK, SlowestIsMin
<1> QED BY <1>1, <1>2

(* The free space is between nothing and the whole ring.                    *)
LEMMA SpaceType ==
  ASSUME BufferTypeOK
  PROVE  AvailableWriteSpace \in 0 .. Capacity
<1> HIDE DEF MinReadCursor
<1> QED BY MinReadCursorType, Constants DEF BufferTypeOK, AvailableWriteSpace

(* The oldest record left is a position within what has been written.      *)
LEMMA OldestType ==
  ASSUME Bounded
  PROVE  /\ OldestCursor \in Nat /\ OldestCursor <= totalWritten
         /\ ring.size \in 0 .. Capacity /\ totalWritten - OldestCursor = ring.size
  BY Constants DEF Bounded, TypeOK, BufferTypeOK, PositionsInRange, OldestCursor, RingOf,
     MinOf

(* What getBatchPtrFromGlobal() returns lies in the storage and within what *)
(* has been written.                                                        *)
LEMMA BatchType ==
  ASSUME Bounded, NEW c \in Clients, Readable(cursor[c]), NEW n \in 1 .. ReaderBatch
  PROVE  /\ BatchSlot(cursor[c]) \in 0 .. Capacity - 1
         /\ BatchRun(cursor[c], n) \in 0 .. Capacity
         /\ cursor[c] + BatchRun(cursor[c], n) <= totalWritten
         /\ BatchSlot(cursor[c]) + BatchRun(cursor[c], n) <= Capacity
<1> DEFINE slot == BatchSlot(cursor[c])
<1>1. /\ ring \in RingOf(Capacity, Cell) /\ ring.size \in 0 .. Capacity
      /\ totalWritten \in Nat /\ cursor[c] \in Nat /\ cursor[c] <= totalWritten
  BY DEF Bounded, TypeOK, BufferTypeOK, PositionsInRange, RingOf
<1>2. Lag(cursor[c]) \in 1 .. ring.size
  BY <1>1 DEF Readable, Lag
<1>3. RelativeIndex(cursor[c]) \in Int
  BY <1>1, <1>2 DEF RelativeIndex
<1>4. slot \in 0 .. Capacity - 1
  BY <1>1, <1>3, SlotInRing, Constants DEF BatchSlot
<1>5. BatchRun(cursor[c], n) = MinOf(MinOf(n, Lag(cursor[c])), Capacity - slot)
  BY DEF BatchRun
<1> HIDE DEF slot
<1>6. /\ BatchRun(cursor[c], n) \in 0 .. Capacity
      /\ BatchRun(cursor[c], n) <= Lag(cursor[c])
      /\ slot + BatchRun(cursor[c], n) <= Capacity
  BY <1>1, <1>2, <1>4, <1>5, Constants DEF MinOf
<1>7. cursor[c] + BatchRun(cursor[c], n) <= totalWritten
  BY <1>1, <1>6 DEF Lag
<1> QED BY <1>4, <1>6, <1>7 DEF slot

(* A chunk is a prefix of what is left to push and, for a blocking writer,  *)
(* no larger than the space it has read.                                    *)
LEMMA ChunkType ==
  ASSUME TypeOK, NEW p \in Producers
  PROVE  /\ ChunkSize(p) \in Nat
         /\ SubSeq(todo[p], 1, ChunkSize(p)) \in Seq(Records)
         /\ Len(SubSeq(todo[p], 1, ChunkSize(p))) = ChunkSize(p)
         /\ SubSeq(todo[p], ChunkSize(p) + 1, Len(todo[p])) \in Seq(Records)
         /\ p \in Blocking => ChunkSize(p) <= avail[p]
<1>1. todo[p] \in Seq(Records) /\ Len(todo[p]) \in Nat /\ avail[p] \in Nat
  BY Constants DEF TypeOK, WriterTypeOK
<1>2. /\ ChunkSize(p) \in Nat /\ ChunkSize(p) <= Len(todo[p])
      /\ p \in Blocking => ChunkSize(p) <= avail[p]
  BY <1>1 DEF ChunkSize, MinOf
<1> HIDE DEF ChunkSize
<1> QED BY <1>1, <1>2

(* What a commit adds are records, as many as committed.                    *)
LEMMA NewRecordsType ==
  ASSUME TypeOK, NEW p \in Producers, NEW k \in Nat, committed[p] + k <= MaxRecords
  PROVE  NewRecords(p, k) \in Seq(Records) /\ Len(NewRecords(p, k)) = k
<1>1. committed[p] \in Nat
  BY Constants DEF TypeOK, WriterTypeOK
<1>2. \A i \in 1 .. k : <<p, committed[p] + i>> \in Records
  BY <1>1, Constants DEF Records
<1> QED BY <1>2 DEF NewRecords

(* readFromGlobal() on a readable position copies cells of the ring.        *)
LEMMA CopiedType ==
  ASSUME Bounded, NEW r \in Readers, copier[r] = "copy", Readable(from[r])
  PROVE  ReadFromGlobal(from[r], count[r]) \in [1 .. count[r] -> Cell]
<1>1. /\ ring \in RingOf(Capacity, Cell) /\ ring.size \in 0 .. Capacity
      /\ totalWritten \in Nat /\ from[r] \in Nat /\ count[r] \in Nat
      /\ from[r] + count[r] <= totalWritten
  BY Constants DEF Bounded, TypeOK, BufferTypeOK, ReaderTypeOK, PositionsInRange, RingOf
<1>2. /\ RelativeIndex(from[r]) \in Nat
      /\ RelativeIndex(from[r]) + count[r] <= ring.size
  BY <1>1 DEF RelativeIndex, Readable, Lag
<1> QED BY <1>1, <1>2, PeekManyAtType, Constants DEF ReadFromGlobal
-----------------------------------------------------------------------------
(* One lemma per action: it keeps the inductive invariant.                  *)

(* The push loop reads the free space: it is at most the capacity. *)
LEMMA ClaimBounded ==
  ASSUME Bounded, NEW p \in Producers, Claim(p),
         UNCHANGED <<running, api, granted, committed, writerVars, stopPc>>, ReadersKeep
  PROVE  Bounded'
<1>1. BufferTypeOK'
  <2>1. phantom' \in Nat
    BY MinReadCursorType DEF Claim, RememberMin, At, ReadersKeep, Bounded, TypeOK
  <2> QED BY <2>1 DEF Claim, RememberMin, At, ReadersKeep, Bounded, TypeOK, BufferTypeOK
<1>2. WriterTypeOK'
  <2>1. avail' \in [Producers -> 0 .. Capacity]
    BY SpaceType DEF Claim, RememberMin, At, ReadersKeep, Bounded, TypeOK, WriterTypeOK
  <2>2. pushPc' \in [Producers -> PushPc]
    BY DEF Claim, RememberMin, At, ReadersKeep, Bounded, TypeOK, WriterTypeOK, PushPc
  <2> QED BY <2>1, <2>2 DEF Claim, RememberMin, At, ReadersKeep, Bounded, TypeOK,
             WriterTypeOK
<1>3. ReaderTypeOK'
  BY Constants DEF Claim, RememberMin, At, ReadersKeep, Bounded, TypeOK, ReaderTypeOK, Life
<1>4. PositionsInRange'
  BY Constants DEF Claim, RememberMin, At, ReadersKeep, Bounded, TypeOK, BufferTypeOK,
     ReaderTypeOK, PositionsInRange
<1> QED BY <1>1, <1>2, <1>3, <1>4 DEF Bounded, TypeOK

(* waitForSpace() evaluates its condition. *)
LEMMA CheckSpaceBounded ==
  ASSUME Bounded, NEW p \in Producers, CheckSpace(p),
         UNCHANGED <<running, api, granted, committed, writerVars, stopPc>>, ReadersKeep
  PROVE  Bounded'
<1>1. BufferTypeOK'
  <2>1. phantom' \in Nat
    BY MinReadCursorType DEF CheckSpace, RememberMin, DecideToWait, AbortPush, At,
       ReadersKeep, Bounded, TypeOK
  <2>2. spaceCv' \in [Producers -> CvState]
    BY DEF CheckSpace, RememberMin, DecideToWait, AbortPush, At, ReadersKeep, Bounded,
       TypeOK, BufferTypeOK, CvState
  <2> QED BY <2>1, <2>2 DEF CheckSpace, RememberMin, DecideToWait, AbortPush, At,
             ReadersKeep, Bounded, TypeOK, BufferTypeOK
<1>2. WriterTypeOK'
  <2>1. CASE UNCHANGED loopVars
    BY <2>1 DEF CheckSpace, RememberMin, DecideToWait, AbortPush, At, ReadersKeep, Bounded,
       TypeOK, WriterTypeOK
  <2>2. CASE pushPc' = [pushPc EXCEPT ![p] = "claim"] /\ UNCHANGED <<todo, avail>>
    BY <2>2 DEF CheckSpace, RememberMin, DecideToWait, AbortPush, At, ReadersKeep, Bounded,
       TypeOK, WriterTypeOK, PushPc
  <2>3. CASE AbortPush(p)
    BY <2>3, Constants DEF CheckSpace, RememberMin, DecideToWait, AbortPush, At,
       ReadersKeep, Bounded, TypeOK, WriterTypeOK, PushPc
  <2> QED BY <2>1, <2>2, <2>3 DEF CheckSpace
<1>3. ReaderTypeOK'
  BY Constants DEF CheckSpace, RememberMin, DecideToWait, AbortPush, At, ReadersKeep,
     Bounded, TypeOK, ReaderTypeOK, Life
<1>4. PositionsInRange'
  BY Constants DEF CheckSpace, RememberMin, DecideToWait, AbortPush, At, ReadersKeep,
     Bounded, TypeOK, BufferTypeOK, ReaderTypeOK, PositionsInRange
<1> QED BY <1>1, <1>2, <1>3, <1>4 DEF Bounded, TypeOK

(* A writer goes to sleep for space. *)
LEMMA SleepBounded ==
  ASSUME Bounded, NEW p \in Producers, Sleep(p),
         UNCHANGED <<running, api, granted, committed, writerVars, stopPc>>, ReadersKeep
  PROVE  Bounded'
<1>1. BufferTypeOK'
  BY Constants DEF Sleep, SleepForSpace, ReadersKeep, Bounded, TypeOK, BufferTypeOK, CvState
<1>2. WriterTypeOK'
  BY Constants DEF Sleep, SleepForSpace, ReadersKeep, Bounded, TypeOK, WriterTypeOK, PushPc
<1>3. ReaderTypeOK'
  BY Constants DEF Sleep, SleepForSpace, ReadersKeep, Bounded, TypeOK, ReaderTypeOK, Life
<1>4. PositionsInRange'
  BY Constants DEF Sleep, SleepForSpace, ReadersKeep, Bounded, TypeOK, BufferTypeOK,
     ReaderTypeOK, PositionsInRange
<1> QED BY <1>1, <1>2, <1>3, <1>4 DEF Bounded, TypeOK

(* push() of a chunk: the ring grows up to its capacity and no further,     *)
(* and the chunk is a prefix of what was left to push.                      *)
LEMMA PushBounded ==
  ASSUME Bounded, NEW p \in Producers, Push(p),
         UNCHANGED <<running, api, granted, committed, writerVars, stopPc>>, ReadersKeep
  PROVE  Bounded'
<1>1. BufferTypeOK'
  <2> DEFINE recs == SubSeq(todo[p], 1, ChunkSize(p))
  <2>1. recs \in Seq(Records) /\ recs \in Seq(Cell) /\ Len(recs) \in Nat
    BY ChunkType DEF Bounded, Cell
  <2>2. ring' = PushMany(ring, recs) /\ totalWritten' = totalWritten + Len(recs)
        /\ history' = history \o recs
    BY DEF Push, PushRecords
  <2> HIDE DEF recs
  <2>3. ring' \in RingOf(Capacity, Cell)
    BY <2>1, <2>2, PushManyType, Constants DEF Bounded, TypeOK, BufferTypeOK
  <2>4. totalWritten' \in Nat /\ history' \in Seq(Records)
    BY <2>1, <2>2 DEF Bounded, TypeOK, BufferTypeOK
  <2> QED BY <2>3, <2>4 DEF Push, PushRecords, ReadersKeep, Bounded, TypeOK, BufferTypeOK
<1>2. WriterTypeOK'
  <2>1. todo' \in [Producers -> Seq(Records)]
    BY ChunkType DEF Push, Bounded, TypeOK, WriterTypeOK
  <2>2. avail' \in [Producers -> 0 .. Capacity] /\ pushPc' \in [Producers -> PushPc]
    BY Constants DEF Push, Bounded, TypeOK, WriterTypeOK, PushPc
  <2> QED BY <2>1, <2>2 DEF Push, PushRecords, ReadersKeep, Bounded, TypeOK, WriterTypeOK
<1>3. ReaderTypeOK'
  BY Constants DEF Push, PushRecords, ReadersKeep, Bounded, TypeOK, ReaderTypeOK, Life
<1>4. PositionsInRange'
  <2> DEFINE recs == SubSeq(todo[p], 1, ChunkSize(p))
  <2>1. recs \in Seq(Cell) /\ Len(recs) \in Nat
    BY ChunkType DEF Bounded, Cell
  <2>2. ring' = PushMany(ring, recs) /\ totalWritten' = totalWritten + Len(recs)
    BY DEF Push, PushRecords
  <2> HIDE DEF recs
  <2>3. ring'.size = MinOf(ring.size + Len(recs), Capacity)
    BY <2>1, <2>2, PushManyType, Constants DEF Bounded, TypeOK, BufferTypeOK
  <2>4. ring.size = MinOf(totalWritten, Capacity) /\ totalWritten \in Nat
    BY DEF Bounded, TypeOK, BufferTypeOK, PositionsInRange
  <2>5. ring'.size = MinOf(totalWritten', Capacity)
    BY <2>1, <2>2, <2>3, <2>4, Constants DEF MinOf
  <2>6. totalWritten' \in Nat /\ totalWritten <= totalWritten'
    BY <2>1, <2>2, <2>4
  <2>7. UNCHANGED <<active, granted, cursor, life, user, copier, from, count, pinnedEnd,
                    batchSlot, batchCount>>
    BY DEF Push, PushRecords, ReadersKeep
  <2> QED BY <2>4, <2>5, <2>6, <2>7, Constants, SMTT(30)
          DEF Bounded, TypeOK, BufferTypeOK, ReaderTypeOK, PositionsInRange
<1> QED BY <1>1, <1>2, <1>3, <1>4 DEF Bounded, TypeOK

(* push() takes the lock under which it calls the clients. *)
LEMMA LockForNotifyBounded ==
  ASSUME Bounded, NEW p \in Producers, LockForNotify(p),
         UNCHANGED <<running, api, granted, committed, writerVars, stopPc>>, ReadersKeep
  PROVE  Bounded'
<1>1. BufferTypeOK'
  BY Constants DEF LockForNotify, BeginNotify, ReadersKeep, Bounded, TypeOK, BufferTypeOK,
     CvState
<1>2. WriterTypeOK'
  BY Constants DEF LockForNotify, BeginNotify, ReadersKeep, Bounded, TypeOK, WriterTypeOK,
     PushPc
<1>3. ReaderTypeOK'
  BY Constants DEF LockForNotify, BeginNotify, ReadersKeep, Bounded, TypeOK, ReaderTypeOK,
     Life
<1>4. PositionsInRange'
  BY Constants DEF LockForNotify, BeginNotify, ReadersKeep, Bounded, TypeOK, BufferTypeOK,
     ReaderTypeOK, PositionsInRange
<1> QED BY <1>1, <1>2, <1>3, <1>4 DEF Bounded, TypeOK

(* push() calls one client. *)
LEMMA NotifyBounded ==
  ASSUME Bounded, NEW p \in Producers, Notify(p),
         UNCHANGED <<running, api, granted, committed, writerVars, stopPc>>, ReadersKeep
  PROVE  Bounded'
<1>1. BufferTypeOK'
  BY Constants DEF Notify, NotifyClient, ReadersKeep, Bounded, TypeOK, BufferTypeOK, CvState
<1>2. WriterTypeOK'
  BY Constants DEF Notify, NotifyClient, ReadersKeep, Bounded, TypeOK, WriterTypeOK, PushPc
<1>3. ReaderTypeOK'
  BY Constants DEF Notify, NotifyClient, ReadersKeep, Bounded, TypeOK, ReaderTypeOK, Life
<1>4. PositionsInRange'
  BY Constants DEF Notify, NotifyClient, ReadersKeep, Bounded, TypeOK, BufferTypeOK,
     ReaderTypeOK, PositionsInRange
<1> QED BY <1>1, <1>2, <1>3, <1>4 DEF Bounded, TypeOK

(* nextBatch() grants no more slots than the active buffer has left. *)
LEMMA NextBatchBounded ==
  ASSUME Bounded, NEW w \in Writers, NEW n \in 1 .. WriterBatch, NextBatch(w, n),
         UNCHANGED stopPc, ReadersKeep
  PROVE  Bounded'
<1>1. BufferTypeOK'
  BY Constants DEF NextBatch, SwapBuffers, Woken, MinOf, ReadersKeep, Bounded, TypeOK,
     BufferTypeOK, CvState
<1>2. WriterTypeOK'
  <2>1. /\ active' \in [Writers -> Seq(Records)] /\ bg' \in [Writers -> Seq(Records)]
        /\ hasWork' \in [Writers -> BOOLEAN]
        /\ worker' \in [Writers -> {"loop", "busy", "deciding", "asleep", "exited"}]
    <3>1. CASE SwapBuffers(w)
      BY <3>1, Constants DEF NextBatch, SwapBuffers, Woken, MinOf, ReadersKeep, Bounded,
         TypeOK, WriterTypeOK
    <3>2. CASE UNCHANGED writerVars
      BY <3>2 DEF NextBatch, SwapBuffers, Woken, MinOf, ReadersKeep, Bounded, TypeOK,
         WriterTypeOK
    <3> QED BY <3>1, <3>2 DEF NextBatch, SwapBuffers, Woken, MinOf, ReadersKeep
  <2>2. granted' \in [Producers -> 0 .. WriterBatch]
    <3>1. Len(active'[w]) \in 0 .. WriterBatch
      <4>1. active[w] \in Seq(Records) /\ granted[w] \in Nat
            /\ Len(active[w]) + granted[w] <= WriterBatch
        BY Constants DEF Bounded, TypeOK, WriterTypeOK, PositionsInRange
      <4>2. active'[w] = active[w] \/ active'[w] = <<>>
        BY DEF NextBatch, SwapBuffers, Woken, MinOf, ReadersKeep, Bounded, TypeOK,
           WriterTypeOK
      <4> QED BY <4>1, <4>2, Constants
    <3>2. MinOf(n, WriterBatch - Len(active'[w])) \in 0 .. WriterBatch
      BY <3>1, Constants DEF NextBatch, SwapBuffers, Woken, MinOf, ReadersKeep, MinOf
    <3> QED BY <3>2, Constants DEF NextBatch, SwapBuffers, Woken, MinOf, ReadersKeep,
               Bounded, TypeOK, WriterTypeOK
  <2>3. api' \in [Producers -> {"idle", "filling", "flushing", "closing", "stopping",
                                "joining", "closed", "batch", "record"}]
    BY DEF NextBatch, SwapBuffers, Woken, MinOf, ReadersKeep, Bounded, TypeOK, WriterTypeOK
  <2> QED BY <2>1, <2>2, <2>3 DEF NextBatch, SwapBuffers, Woken, MinOf, ReadersKeep,
             Bounded, TypeOK, WriterTypeOK
<1>3. ReaderTypeOK'
  BY Constants DEF NextBatch, SwapBuffers, Woken, MinOf, ReadersKeep, Bounded, TypeOK,
     ReaderTypeOK, Life
<1>4. PositionsInRange'
  <2>1. Len(active'[w]) + granted'[w] <= WriterBatch
    <3>1. active[w] \in Seq(Records) /\ granted[w] \in Nat
          /\ Len(active[w]) + granted[w] <= WriterBatch
      BY Constants DEF Bounded, TypeOK, WriterTypeOK, PositionsInRange
    <3>2. active'[w] = active[w] \/ active'[w] = <<>>
      BY DEF NextBatch, SwapBuffers, Woken, MinOf, ReadersKeep, Bounded, TypeOK,
         WriterTypeOK
    <3>3. Len(active'[w]) \in 0 .. WriterBatch
      BY <3>1, <3>2, Constants
    <3>4. granted'[w] = MinOf(n, WriterBatch - Len(active'[w]))
      BY Constants DEF NextBatch, Bounded, TypeOK, WriterTypeOK
    <3>5. \A l \in 0 .. WriterBatch : l + MinOf(n, WriterBatch - l) <= WriterBatch
      BY Constants DEF MinOf
    <3> QED BY <3>3, <3>4, <3>5
  <2>2. \A v \in Writers \ {w} : active'[v] = active[v] /\ granted'[v] = granted[v]
    BY Constants DEF NextBatch, SwapBuffers, Bounded, TypeOK, WriterTypeOK
  <2> QED BY <2>1, <2>2 DEF NextBatch, SwapBuffers, Woken, MinOf, ReadersKeep, Bounded,
             PositionsInRange
<1> QED BY <1>1, <1>2, <1>3, <1>4 DEF Bounded, TypeOK

(* commitBatch() of at most the granted slots stays within the active       *)
(* buffer.                                                                  *)
LEMMA CommitBatchBounded ==
  ASSUME Bounded, NEW w \in Writers, NEW k \in 0 .. WriterBatch, CommitBatch(w, k),
         UNCHANGED stopPc, ReadersKeep
  PROVE  Bounded'
<1>1. BufferTypeOK'
  BY Constants DEF CommitBatch, ReadersKeep, Bounded, TypeOK, BufferTypeOK, CvState
<1>2. WriterTypeOK'
  <2>1. committed[w] + k <= MaxRecords /\ committed[w] + k \in 0 .. MaxRecords
    BY Constants DEF CommitBatch, ReadersKeep, Bounded, TypeOK, WriterTypeOK
  <2>2. NewRecords(w, k) \in Seq(Records)
    BY <2>1, NewRecordsType, Constants DEF Bounded
  <2>3. active' \in [Writers -> Seq(Records)]
    BY <2>2 DEF CommitBatch, ReadersKeep, Bounded, TypeOK, WriterTypeOK
  <2>4. /\ committed' \in [Producers -> 0 .. MaxRecords]
        /\ granted' \in [Producers -> 0 .. WriterBatch]
    BY <2>1, Constants DEF CommitBatch, ReadersKeep, Bounded, TypeOK, WriterTypeOK
  <2> QED BY <2>3, <2>4 DEF CommitBatch, ReadersKeep, Bounded, TypeOK, WriterTypeOK
<1>3. ReaderTypeOK'
  BY Constants DEF CommitBatch, ReadersKeep, Bounded, TypeOK, ReaderTypeOK, Life
<1>4. PositionsInRange'
  <2>1. Len(active'[w]) + granted'[w] <= WriterBatch
    <3>1. /\ active[w] \in Seq(Records) /\ granted[w] \in Nat /\ k \in Nat /\ k <= granted[w]
          /\ Len(active[w]) + granted[w] <= WriterBatch /\ committed[w] + k <= MaxRecords
      BY Constants DEF CommitBatch, Bounded, TypeOK, WriterTypeOK, PositionsInRange
    <3>2. NewRecords(w, k) \in Seq(Records) /\ Len(NewRecords(w, k)) = k
      BY <3>1, NewRecordsType, Constants DEF Bounded
    <3>3. active'[w] = active[w] \o NewRecords(w, k) /\ granted'[w] = 0
      BY Constants DEF CommitBatch, Bounded, TypeOK, WriterTypeOK
    <3> QED BY <3>1, <3>2, <3>3, Constants
  <2>2. \A v \in Writers \ {w} : active'[v] = active[v] /\ granted'[v] = granted[v]
    BY Constants DEF CommitBatch, Bounded, TypeOK, WriterTypeOK
  <2> QED BY <2>1, <2>2 DEF CommitBatch, ReadersKeep, Bounded, PositionsInRange
<1> QED BY <1>1, <1>2, <1>3, <1>4 DEF Bounded, TypeOK

(* flush() hands the active buffer over. *)
LEMMA BeginFlushBounded ==
  ASSUME Bounded, NEW w \in Writers, NEW goal \in {"flushing", "closing"}, BeginFlush(w,
         goal), UNCHANGED stopPc, ReadersKeep
  PROVE  Bounded'
<1>1. BufferTypeOK'
  BY Constants DEF BeginFlush, SwapBuffers, Woken, ReadersKeep, Bounded, TypeOK,
     BufferTypeOK, CvState
<1>2. WriterTypeOK'
  <2>1. /\ active' \in [Writers -> Seq(Records)] /\ bg' \in [Writers -> Seq(Records)]
        /\ hasWork' \in [Writers -> BOOLEAN]
        /\ worker' \in [Writers -> {"loop", "busy", "deciding", "asleep", "exited"}]
    <3>1. CASE SwapBuffers(w)
      BY <3>1, Constants DEF BeginFlush, SwapBuffers, Woken, ReadersKeep, Bounded, TypeOK,
         WriterTypeOK
    <3>2. CASE UNCHANGED writerVars
      BY <3>2 DEF BeginFlush, SwapBuffers, Woken, ReadersKeep, Bounded, TypeOK, WriterTypeOK
    <3> QED BY <3>1, <3>2 DEF BeginFlush, SwapBuffers, Woken, ReadersKeep
  <2>2. api' \in [Producers -> {"idle", "filling", "flushing", "closing", "stopping",
                                "joining", "closed", "batch", "record"}]
    BY DEF BeginFlush, SwapBuffers, Woken, ReadersKeep, Bounded, TypeOK, WriterTypeOK
  <2> QED BY <2>1, <2>2 DEF BeginFlush, SwapBuffers, Woken, ReadersKeep, Bounded, TypeOK,
             WriterTypeOK
<1>3. ReaderTypeOK'
  BY Constants DEF BeginFlush, SwapBuffers, Woken, ReadersKeep, Bounded, TypeOK,
     ReaderTypeOK, Life
<1>4. PositionsInRange'
  <2>1. Len(active'[w]) + granted'[w] <= WriterBatch
    <3>1. active[w] \in Seq(Records) /\ granted[w] \in 0 .. WriterBatch
          /\ Len(active[w]) + granted[w] <= WriterBatch
      BY Constants DEF Bounded, TypeOK, WriterTypeOK, PositionsInRange
    <3>2. active'[w] = active[w] \/ active'[w] = <<>>
      BY DEF BeginFlush, SwapBuffers, Woken, ReadersKeep, Bounded, TypeOK, WriterTypeOK
    <3>3. granted' = granted
      BY DEF BeginFlush, SwapBuffers, Woken, ReadersKeep
    <3> QED BY <3>1, <3>2, <3>3, Constants
  <2>2. \A v \in Writers \ {w} : active'[v] = active[v] /\ granted'[v] = granted[v]
    BY Constants DEF BeginFlush, SwapBuffers, Bounded, TypeOK, WriterTypeOK
  <2> QED BY <2>1, <2>2 DEF BeginFlush, SwapBuffers, Woken, ReadersKeep, Bounded,
             PositionsInRange
<1> QED BY <1>1, <1>2, <1>3, <1>4 DEF Bounded, TypeOK

(* flush() returns. *)
LEMMA EndFlushBounded ==
  ASSUME Bounded, NEW w \in Writers, EndFlush(w), UNCHANGED stopPc, ReadersKeep
  PROVE  Bounded'
<1>1. BufferTypeOK'
  BY Constants DEF EndFlush, ReadersKeep, Bounded, TypeOK, BufferTypeOK, CvState
<1>2. WriterTypeOK'
  BY Constants DEF EndFlush, ReadersKeep, Bounded, TypeOK, WriterTypeOK, PushPc
<1>3. ReaderTypeOK'
  BY Constants DEF EndFlush, ReadersKeep, Bounded, TypeOK, ReaderTypeOK, Life
<1>4. PositionsInRange'
  BY Constants DEF EndFlush, ReadersKeep, Bounded, TypeOK, BufferTypeOK, ReaderTypeOK,
     PositionsInRange
<1> QED BY <1>1, <1>2, <1>3, <1>4 DEF Bounded, TypeOK

(* The destructor of a RecordWriter clears m_running. *)
LEMMA ClearRunningBounded ==
  ASSUME Bounded, NEW w \in Writers, ClearRunning(w), UNCHANGED stopPc, ReadersKeep
  PROVE  Bounded'
<1>1. BufferTypeOK'
  BY Constants DEF ClearRunning, ReadersKeep, Bounded, TypeOK, BufferTypeOK, CvState
<1>2. WriterTypeOK'
  BY Constants DEF ClearRunning, ReadersKeep, Bounded, TypeOK, WriterTypeOK, PushPc
<1>3. ReaderTypeOK'
  BY Constants DEF ClearRunning, ReadersKeep, Bounded, TypeOK, ReaderTypeOK, Life
<1>4. PositionsInRange'
  BY Constants DEF ClearRunning, ReadersKeep, Bounded, TypeOK, BufferTypeOK, ReaderTypeOK,
     PositionsInRange
<1> QED BY <1>1, <1>2, <1>3, <1>4 DEF Bounded, TypeOK

(* The destructor of a RecordWriter wakes the worker. *)
LEMMA WakeWorkerBounded ==
  ASSUME Bounded, NEW w \in Writers, WakeWorker(w), UNCHANGED stopPc, ReadersKeep
  PROVE  Bounded'
<1>1. BufferTypeOK'
  BY Constants DEF WakeWorker, Woken, ReadersKeep, Bounded, TypeOK, BufferTypeOK, CvState
<1>2. WriterTypeOK'
  BY Constants DEF WakeWorker, Woken, ReadersKeep, Bounded, TypeOK, WriterTypeOK, PushPc
<1>3. ReaderTypeOK'
  BY Constants DEF WakeWorker, Woken, ReadersKeep, Bounded, TypeOK, ReaderTypeOK, Life
<1>4. PositionsInRange'
  BY Constants DEF WakeWorker, Woken, ReadersKeep, Bounded, TypeOK, BufferTypeOK,
     ReaderTypeOK, PositionsInRange
<1> QED BY <1>1, <1>2, <1>3, <1>4 DEF Bounded, TypeOK

(* The destructor of a RecordWriter joins the worker. *)
LEMMA JoinWorkerBounded ==
  ASSUME Bounded, NEW w \in Writers, JoinWorker(w), UNCHANGED stopPc, ReadersKeep
  PROVE  Bounded'
<1>1. BufferTypeOK'
  BY Constants DEF JoinWorker, ReadersKeep, Bounded, TypeOK, BufferTypeOK, CvState
<1>2. WriterTypeOK'
  BY Constants DEF JoinWorker, ReadersKeep, Bounded, TypeOK, WriterTypeOK, PushPc
<1>3. ReaderTypeOK'
  BY Constants DEF JoinWorker, ReadersKeep, Bounded, TypeOK, ReaderTypeOK, Life
<1>4. PositionsInRange'
  BY Constants DEF JoinWorker, ReadersKeep, Bounded, TypeOK, BufferTypeOK, ReaderTypeOK,
     PositionsInRange
<1> QED BY <1>1, <1>2, <1>3, <1>4 DEF Bounded, TypeOK

(* The worker of a RecordWriter evaluates its wait condition. *)
LEMMA WorkerCheckBounded ==
  ASSUME Bounded, NEW w \in Writers, WorkerCheck(w), UNCHANGED stopPc, ReadersKeep
  PROVE  Bounded'
<1>1. BufferTypeOK'
  BY Constants DEF WorkerCheck, StartPush, ReadersKeep, Bounded, TypeOK, BufferTypeOK,
     CvState
<1>2. WriterTypeOK'
  <2>1. todo' \in [Producers -> Seq(Records)] /\ pushPc' \in [Producers -> PushPc]
    <3>1. CASE StartPush(w, bg[w])
      BY <3>1, Constants DEF StartPush, Bounded, TypeOK, WriterTypeOK, PushPc
    <3>2. CASE UNCHANGED loopVars
      BY <3>2 DEF Bounded, TypeOK, WriterTypeOK
    <3> QED BY <3>1, <3>2 DEF WorkerCheck
  <2>2. worker' \in [Writers -> {"loop", "busy", "deciding", "asleep", "exited"}]
    <3>1. \E pc \in {"exited", "busy", "deciding"} : worker' = [worker EXCEPT ![w] = pc]
      BY DEF WorkerCheck
    <3> QED BY <3>1 DEF Bounded, TypeOK, WriterTypeOK
  <2>3. UNCHANGED <<running, avail, api, granted, committed, active, bg, hasWork, stopPc>>
    BY DEF WorkerCheck, StartPush, ReadersKeep
  <2> QED BY <2>1, <2>2, <2>3 DEF Bounded, TypeOK, WriterTypeOK
<1>3. ReaderTypeOK'
  BY Constants DEF WorkerCheck, StartPush, ReadersKeep, Bounded, TypeOK, ReaderTypeOK, Life
<1>4. PositionsInRange'
  BY Constants DEF WorkerCheck, StartPush, ReadersKeep, Bounded, TypeOK, BufferTypeOK,
     ReaderTypeOK, PositionsInRange
<1> QED BY <1>1, <1>2, <1>3, <1>4 DEF Bounded, TypeOK

(* The worker of a RecordWriter goes to sleep. *)
LEMMA WorkerSleepBounded ==
  ASSUME Bounded, NEW w \in Writers, WorkerSleep(w), UNCHANGED stopPc, ReadersKeep
  PROVE  Bounded'
<1>1. BufferTypeOK'
  BY Constants DEF WorkerSleep, ReadersKeep, Bounded, TypeOK, BufferTypeOK, CvState
<1>2. WriterTypeOK'
  BY Constants DEF WorkerSleep, ReadersKeep, Bounded, TypeOK, WriterTypeOK, PushPc
<1>3. ReaderTypeOK'
  BY Constants DEF WorkerSleep, ReadersKeep, Bounded, TypeOK, ReaderTypeOK, Life
<1>4. PositionsInRange'
  BY Constants DEF WorkerSleep, ReadersKeep, Bounded, TypeOK, BufferTypeOK, ReaderTypeOK,
     PositionsInRange
<1> QED BY <1>1, <1>2, <1>3, <1>4 DEF Bounded, TypeOK

(* The worker of a RecordWriter frees the background buffer. *)
LEMMA WorkerDoneBounded ==
  ASSUME Bounded, NEW w \in Writers, WorkerDone(w), UNCHANGED stopPc, ReadersKeep
  PROVE  Bounded'
<1>1. BufferTypeOK'
  BY Constants DEF WorkerDone, At, ReadersKeep, Bounded, TypeOK, BufferTypeOK, CvState
<1>2. WriterTypeOK'
  BY Constants DEF WorkerDone, At, ReadersKeep, Bounded, TypeOK, WriterTypeOK, PushPc
<1>3. ReaderTypeOK'
  BY Constants DEF WorkerDone, At, ReadersKeep, Bounded, TypeOK, ReaderTypeOK, Life
<1>4. PositionsInRange'
  BY Constants DEF WorkerDone, At, ReadersKeep, Bounded, TypeOK, BufferTypeOK, ReaderTypeOK,
     PositionsInRange
<1> QED BY <1>1, <1>2, <1>3, <1>4 DEF Bounded, TypeOK

(* nextBatch() of a RecordWriterZC grants at most its capacity. *)
LEMMA ZCNextBatchBounded ==
  ASSUME Bounded, NEW w \in ZCWriters, NEW n \in 1 .. WriterBatch, ZCNextBatch(w, n),
         UNCHANGED writerVars, ReadersKeep
  PROVE  Bounded'
<1>1. BufferTypeOK'
  BY Constants DEF ZCNextBatch, MinOf, ReadersKeep, Bounded, TypeOK, BufferTypeOK, CvState
<1>2. WriterTypeOK'
  BY Constants DEF ZCNextBatch, MinOf, ReadersKeep, Bounded, TypeOK, WriterTypeOK, PushPc
<1>3. ReaderTypeOK'
  BY Constants DEF ZCNextBatch, MinOf, ReadersKeep, Bounded, TypeOK, ReaderTypeOK, Life
<1>4. PositionsInRange'
  <2>1. \A v \in Writers : granted'[v] = granted[v]
    BY Constants DEF ZCNextBatch, Bounded, TypeOK, WriterTypeOK
  <2> QED BY <2>1 DEF ZCNextBatch, MinOf, ReadersKeep, Bounded, PositionsInRange
<1> QED BY <1>1, <1>2, <1>3, <1>4 DEF Bounded, TypeOK

(* commitBatch() of a RecordWriterZC enters the push loop. *)
LEMMA ZCCommitBounded ==
  ASSUME Bounded, NEW w \in ZCWriters, NEW k \in 1 .. WriterBatch,
         NEW kind \in {"batch", "record"}, ZCCommit(w, k, kind), UNCHANGED writerVars,
         ReadersKeep
  PROVE  Bounded'
<1>1. BufferTypeOK'
  BY Constants DEF ZCCommit, StartPush, ReadersKeep, Bounded, TypeOK, BufferTypeOK, CvState
<1>2. WriterTypeOK'
  <2>1. committed[w] + k <= MaxRecords /\ committed[w] + k \in 0 .. MaxRecords
    BY Constants DEF ZCCommit, StartPush, ReadersKeep, Bounded, TypeOK, WriterTypeOK
  <2>2. NewRecords(w, k) \in Seq(Records)
    BY <2>1, NewRecordsType, Constants DEF Bounded
  <2>3. todo' \in [Producers -> Seq(Records)] /\ pushPc' \in [Producers -> PushPc]
    BY <2>2 DEF ZCCommit, StartPush, ReadersKeep, Bounded, TypeOK, WriterTypeOK, PushPc
  <2>4. /\ committed' \in [Producers -> 0 .. MaxRecords]
        /\ granted' \in [Producers -> 0 .. WriterBatch]
    BY <2>1, Constants DEF ZCCommit, StartPush, ReadersKeep, Bounded, TypeOK, WriterTypeOK
  <2>5. api' \in [Producers -> {"idle", "filling", "flushing", "closing", "stopping",
                                "joining", "closed", "batch", "record"}]
    BY DEF ZCCommit, Bounded, TypeOK, WriterTypeOK
  <2> QED BY <2>3, <2>4, <2>5 DEF ZCCommit, StartPush, ReadersKeep, Bounded, TypeOK,
             WriterTypeOK
<1>3. ReaderTypeOK'
  BY Constants DEF ZCCommit, StartPush, ReadersKeep, Bounded, TypeOK, ReaderTypeOK, Life
<1>4. PositionsInRange'
  <2>1. \A v \in Writers : granted'[v] = granted[v]
    BY Constants DEF ZCCommit, Bounded, TypeOK, WriterTypeOK
  <2> QED BY <2>1 DEF ZCCommit, StartPush, ReadersKeep, Bounded, PositionsInRange
<1> QED BY <1>1, <1>2, <1>3, <1>4 DEF Bounded, TypeOK

(* A stopped RecordWriterZC leaves the push loop. *)
LEMMA ZCAbortBounded ==
  ASSUME Bounded, NEW w \in ZCWriters, ZCAbort(w), UNCHANGED writerVars, ReadersKeep
  PROVE  Bounded'
<1>1. BufferTypeOK'
  BY Constants DEF ZCAbort, AbortPush, ReadersKeep, Bounded, TypeOK, BufferTypeOK, CvState
<1>2. WriterTypeOK'
  BY Constants DEF ZCAbort, AbortPush, ReadersKeep, Bounded, TypeOK, WriterTypeOK, PushPc
<1>3. ReaderTypeOK'
  BY Constants DEF ZCAbort, AbortPush, ReadersKeep, Bounded, TypeOK, ReaderTypeOK, Life
<1>4. PositionsInRange'
  BY Constants DEF ZCAbort, AbortPush, ReadersKeep, Bounded, TypeOK, BufferTypeOK,
     ReaderTypeOK, PositionsInRange
<1> QED BY <1>1, <1>2, <1>3, <1>4 DEF Bounded, TypeOK

(* commitBatch() of a RecordWriterZC returns. *)
LEMMA ZCDoneBounded ==
  ASSUME Bounded, NEW w \in ZCWriters, ZCDone(w), UNCHANGED writerVars, ReadersKeep
  PROVE  Bounded'
<1>1. BufferTypeOK'
  BY Constants DEF ZCDone, At, ReadersKeep, Bounded, TypeOK, BufferTypeOK, CvState
<1>2. WriterTypeOK'
  BY Constants DEF ZCDone, At, ReadersKeep, Bounded, TypeOK, WriterTypeOK, PushPc
<1>3. ReaderTypeOK'
  BY Constants DEF ZCDone, At, ReadersKeep, Bounded, TypeOK, ReaderTypeOK, Life
<1>4. PositionsInRange'
  BY Constants DEF ZCDone, At, ReadersKeep, Bounded, TypeOK, BufferTypeOK, ReaderTypeOK,
     PositionsInRange
<1> QED BY <1>1, <1>2, <1>3, <1>4 DEF Bounded, TypeOK

(* stop() of a RecordWriterZC clears m_running. *)
LEMMA ZCStopBounded ==
  ASSUME Bounded, NEW w \in ZCWriters, ZCStop(w), UNCHANGED writerVars, ReadersKeep
  PROVE  Bounded'
<1>1. BufferTypeOK'
  BY Constants DEF ZCStop, ReadersKeep, Bounded, TypeOK, BufferTypeOK, CvState
<1>2. WriterTypeOK'
  BY Constants DEF ZCStop, ReadersKeep, Bounded, TypeOK, WriterTypeOK, PushPc
<1>3. ReaderTypeOK'
  BY Constants DEF ZCStop, ReadersKeep, Bounded, TypeOK, ReaderTypeOK, Life
<1>4. PositionsInRange'
  BY Constants DEF ZCStop, ReadersKeep, Bounded, TypeOK, BufferTypeOK, ReaderTypeOK,
     PositionsInRange
<1> QED BY <1>1, <1>2, <1>3, <1>4 DEF Bounded, TypeOK

(* stop() of a RecordWriterZC wakes the writers. *)
LEMMA ZCStopNotifyBounded ==
  ASSUME Bounded, NEW w \in ZCWriters, ZCStopNotify(w), UNCHANGED writerVars, ReadersKeep
  PROVE  Bounded'
<1>1. BufferTypeOK'
  BY Constants DEF ZCStopNotify, NotifyWriters, ReadersKeep, Bounded, TypeOK, BufferTypeOK,
     CvState
<1>2. WriterTypeOK'
  BY Constants DEF ZCStopNotify, NotifyWriters, ReadersKeep, Bounded, TypeOK, WriterTypeOK,
     PushPc
<1>3. ReaderTypeOK'
  BY Constants DEF ZCStopNotify, NotifyWriters, ReadersKeep, Bounded, TypeOK, ReaderTypeOK,
     Life
<1>4. PositionsInRange'
  BY Constants DEF ZCStopNotify, NotifyWriters, ReadersKeep, Bounded, TypeOK, BufferTypeOK,
     ReaderTypeOK, PositionsInRange
<1> QED BY <1>1, <1>2, <1>3, <1>4 DEF Bounded, TypeOK

(* The worker of a RecordReader evaluates its wait condition. *)
LEMMA WaitForDataBounded ==
  ASSUME Bounded, NEW r \in Readers, WaitForData(r), UNCHANGED zcVars, WritersKeep
  PROVE  Bounded'
<1>1. BufferTypeOK'
  BY Constants DEF WaitForData, CopierAt, Goto, WritersKeep, Bounded, TypeOK, BufferTypeOK,
     CvState
<1>2. WriterTypeOK'
  BY Constants DEF WaitForData, CopierAt, Goto, WritersKeep, Bounded, TypeOK, WriterTypeOK,
     PushPc
<1>3. ReaderTypeOK'
  <2>1. /\ copier' \in [Readers -> {"wait", "snapshot", "copy", "advance", "notify", "publish",
                                    "exited"}]
        /\ rdRunning' \in [Clients -> BOOLEAN]
    <3>1. CASE Goto(r, "exited") /\ UNCHANGED rdRunning
      BY <3>1 DEF Goto, Bounded, TypeOK, ReaderTypeOK
    <3>2. CASE Goto(r, "exited") /\ rdRunning' = [rdRunning EXCEPT ![r] = FALSE]
      BY <3>2 DEF Goto, Bounded, TypeOK, ReaderTypeOK
    <3>3. CASE Goto(r, "snapshot") /\ UNCHANGED rdRunning
      BY <3>3 DEF Goto, Bounded, TypeOK, ReaderTypeOK
    <3>4. CASE UNCHANGED <<copier, rdRunning>>
      BY <3>4 DEF Bounded, TypeOK, ReaderTypeOK
    <3> QED BY <3>1, <3>2, <3>3, <3>4 DEF WaitForData
  <2>2. UNCHANGED <<life, finishing, finishTarget, user, got, buf, bgBuf, bgCount, bgFull,
                    activeIdx, activeCount, from, count, zcVars>>
    BY DEF WaitForData
  <2> QED BY <2>1, <2>2 DEF Bounded, TypeOK, ReaderTypeOK
<1>4. PositionsInRange'
  <2>1. /\ \/ copier' = copier
           \/ \E pc \in {"exited", "snapshot"} : copier' = [copier EXCEPT ![r] = pc]
        /\ life[r] \notin {"new", "placed"}
    BY DEF WaitForData, Goto
  <2>2. /\ copier \in [Readers -> {"wait", "snapshot", "copy", "advance", "notify", "publish",
                                   "exited"}]
        /\ \A q \in Readers : copier'[q] \in {"copy", "advance"} => copier[q] = copier'[q]
        /\ \A q \in Readers : life[q] \in {"new", "placed"} => copier'[q] = copier[q]
    BY <2>1 DEF Bounded, TypeOK, ReaderTypeOK
  <2>3. UNCHANGED <<ring, totalWritten, cursor, life, user, from, count, active, granted,
                    pinnedEnd>>
    BY DEF WaitForData, WritersKeep, writerBaseVars, writerVars, zcVars
  <2> QED BY <2>2, <2>3 DEF Bounded, PositionsInRange
<1> QED BY <1>1, <1>2, <1>3, <1>4 DEF Bounded, TypeOK

(* The worker of a RecordReader goes to sleep. *)
LEMMA SleepForDataBounded ==
  ASSUME Bounded, NEW r \in Readers, SleepForData(r), UNCHANGED zcVars, WritersKeep
  PROVE  Bounded'
<1>1. BufferTypeOK'
  BY Constants DEF SleepForData, WritersKeep, Bounded, TypeOK, BufferTypeOK, CvState
<1>2. WriterTypeOK'
  BY Constants DEF SleepForData, WritersKeep, Bounded, TypeOK, WriterTypeOK, PushPc
<1>3. ReaderTypeOK'
  BY Constants DEF SleepForData, WritersKeep, Bounded, TypeOK, ReaderTypeOK, Life
<1>4. PositionsInRange'
  BY Constants DEF SleepForData, WritersKeep, Bounded, TypeOK, BufferTypeOK, ReaderTypeOK,
     PositionsInRange
<1> QED BY <1>1, <1>2, <1>3, <1>4 DEF Bounded, TypeOK

(* The snapshot of a RecordReader ends within what has been written and     *)
(* does not start behind its cursor.                                        *)
LEMMA TakeSnapshotBounded ==
  ASSUME Bounded, NEW r \in Readers, TakeSnapshot(r), UNCHANGED zcVars, WritersKeep
  PROVE  Bounded'
<1>1. BufferTypeOK'
  BY Constants DEF TakeSnapshot, CopierAt, Goto, Lag, OldestCursor, MinOf, RingOf,
     WritersKeep, Bounded, TypeOK, BufferTypeOK, CvState
<1>2. WriterTypeOK'
  BY Constants DEF TakeSnapshot, CopierAt, Goto, Lag, OldestCursor, MinOf, RingOf,
     WritersKeep, Bounded, TypeOK, WriterTypeOK, PushPc
<1>3. ReaderTypeOK'
  <2> DEFINE start == IF Lag(cursor[r]) > ring.size THEN OldestCursor ELSE cursor[r]
  <2>1. start \in Nat /\ start <= totalWritten /\ totalWritten \in Nat
    BY OldestType, Constants DEF Bounded, TypeOK, BufferTypeOK, PositionsInRange
  <2>2. /\ from' = [from EXCEPT ![r] = start]
        /\ count' = [count EXCEPT ![r] = MinOf(Lag(start), ReaderBatch)]
        /\ copier' = [copier EXCEPT ![r] = "copy"]
    BY DEF TakeSnapshot, Goto
  <2> HIDE DEF start
  <2>3. MinOf(Lag(start), ReaderBatch) \in 0 .. ReaderBatch
    BY <2>1, Constants DEF MinOf, Lag
  <2>4. from' \in [Readers -> Nat] /\ count' \in [Readers -> 0 .. ReaderBatch]
    BY <2>1, <2>2, <2>3 DEF Bounded, TypeOK, ReaderTypeOK
  <2>5. UNCHANGED <<readerBaseVars, buf, bgBuf, bgCount, bgFull, activeIdx, activeCount, zcVars>>
    BY DEF TakeSnapshot, CopierAt, Goto, Lag, OldestCursor, MinOf, RingOf, WritersKeep
  <2> QED BY <2>2, <2>4, <2>5 DEF Bounded, TypeOK, ReaderTypeOK
<1>4. PositionsInRange'
  BY Constants, SMTT(30) DEF TakeSnapshot, CopierAt, Goto, Lag, OldestCursor, MinOf, RingOf,
     WritersKeep, Bounded, TypeOK, BufferTypeOK, ReaderTypeOK, PositionsInRange
<1> QED BY <1>1, <1>2, <1>3, <1>4 DEF Bounded, TypeOK

(* readFromGlobal() copies cells of the ring into the background buffer,    *)
(* or the snapshot is dropped.                                              *)
LEMMA CopyRecordsBounded ==
  ASSUME Bounded, NEW r \in Readers, CopyRecords(r), UNCHANGED zcVars, WritersKeep
  PROVE  Bounded'
<1>1. BufferTypeOK'
  BY Constants DEF CopyRecords, CopierAt, Goto, ForgetSnapshot, WritersKeep, Bounded,
     TypeOK, BufferTypeOK, CvState
<1>2. WriterTypeOK'
  BY Constants DEF CopyRecords, CopierAt, Goto, ForgetSnapshot, WritersKeep, Bounded,
     TypeOK, WriterTypeOK, PushPc
<1>3. ReaderTypeOK'
  <2>1. buf' \in [Readers -> [{0, 1} -> [1 .. ReaderBatch -> Cell]]]
    <3>1. CASE Readable(from[r])
      <4> DEFINE copied == ReadFromGlobal(from[r], count[r])
      <4>1. copied \in [1 .. count[r] -> Cell]
        BY <3>1, CopiedType DEF CopyRecords, CopierAt
      <4>2. buf' = [buf EXCEPT ![r][bgBuf[r]] =
                     [i \in 1 .. ReaderBatch |-> IF i <= count[r] THEN copied[i] ELSE @[i]]]
        BY <3>1 DEF CopyRecords
      <4> HIDE DEF copied
      <4>3. /\ buf \in [Readers -> [{0, 1} -> [1 .. ReaderBatch -> Cell]]]
            /\ bgBuf[r] \in {0, 1} /\ count[r] \in 0 .. ReaderBatch
        BY DEF Bounded, TypeOK, ReaderTypeOK
      <4>4. [i \in 1 .. ReaderBatch |->
               IF i <= count[r] THEN copied[i] ELSE buf[r][bgBuf[r]][i]]
              \in [1 .. ReaderBatch -> Cell]
        <5>1. \A i \in 1 .. ReaderBatch : i <= count[r] => copied[i] \in Cell
          BY <4>1, <4>3, Constants, SMTT(30)
        <5>2. buf[r][bgBuf[r]] \in [1 .. ReaderBatch -> Cell]
          BY <4>3
        <5> QED BY <5>1, <5>2
      <4> QED BY <4>2, <4>3, <4>4
    <3>2. CASE ~ Readable(from[r])
      BY <3>2 DEF CopyRecords, Bounded, TypeOK, ReaderTypeOK
    <3> QED BY <3>1, <3>2
  <2>2. /\ copier' \in [Readers -> {"wait", "snapshot", "copy", "advance", "notify", "publish",
                                    "exited"}]
        /\ from' \in [Readers -> Nat] /\ count' \in [Readers -> 0 .. ReaderBatch]
    <3>1. CASE Readable(from[r])
      BY <3>1 DEF CopyRecords, Goto, Bounded, TypeOK, ReaderTypeOK
    <3>2. CASE ~ Readable(from[r])
      <4>1. copier' = [copier EXCEPT ![r] = "wait"]
            /\ from' = [from EXCEPT ![r] = 0] /\ count' = [count EXCEPT ![r] = 0]
        BY <3>2 DEF CopyRecords, ForgetSnapshot, Goto
      <4>2. 0 \in 0 .. ReaderBatch
        BY Constants
      <4>3. from' \in [Readers -> Nat] /\ count' \in [Readers -> 0 .. ReaderBatch]
        BY <4>1, <4>2 DEF Bounded, TypeOK, ReaderTypeOK
      <4>4. copier' \in [Readers -> {"wait", "snapshot", "copy", "advance", "notify", "publish",
                                     "exited"}]
        BY <4>1 DEF Bounded, TypeOK, ReaderTypeOK
      <4> QED BY <4>3, <4>4
    <3> QED BY <3>1, <3>2
  <2>3. UNCHANGED <<readerBaseVars, bgBuf, bgCount, bgFull, activeIdx, activeCount, zcVars>>
    BY DEF CopyRecords, CopierAt, Goto, ForgetSnapshot, WritersKeep
  <2> QED BY <2>1, <2>2, <2>3 DEF Bounded, TypeOK, ReaderTypeOK
<1>4. PositionsInRange'
  <2>1. CASE Readable(from[r])
    <3>1. copier' = [copier EXCEPT ![r] = "advance"] /\ copier[r] = "copy"
          /\ UNCHANGED <<from, count>>
      BY <2>1 DEF CopyRecords, CopierAt, Goto
    <3>2. \A c \in Readers :
            /\ copier'[c] \in {"copy", "advance"} => copier[c] \in {"copy", "advance"}
            /\ life[c] \in {"new", "placed"} => copier'[c] = "wait"
      BY <3>1 DEF Bounded, TypeOK, ReaderTypeOK, PositionsInRange
    <3> QED BY <3>1, <3>2 DEF CopyRecords, CopierAt, Goto, ForgetSnapshot, WritersKeep,
               Bounded, PositionsInRange
  <2>2. CASE ~ Readable(from[r])
    <3>1. /\ copier' = [copier EXCEPT ![r] = "wait"]
          /\ from' = [from EXCEPT ![r] = 0] /\ count' = [count EXCEPT ![r] = 0]
      BY <2>2 DEF CopyRecords, ForgetSnapshot, Goto
    <3>2. \A c \in Readers :
            /\ copier'[c] \in {"copy", "advance"} =>
                 copier'[c] = copier[c] /\ from'[c] = from[c] /\ count'[c] = count[c]
            /\ life[c] \in {"new", "placed"} => copier'[c] = "wait"
      BY <3>1 DEF Bounded, TypeOK, ReaderTypeOK, PositionsInRange
    <3> QED BY <3>2 DEF CopyRecords, CopierAt, Goto, ForgetSnapshot, WritersKeep, Bounded,
               PositionsInRange
  <2> QED BY <2>1, <2>2
<1> QED BY <1>1, <1>2, <1>3, <1>4 DEF Bounded, TypeOK

(* The cursor moves to the end of the copied records, never back and never  *)
(* past what has been written.                                              *)
LEMMA AdvanceCursorBounded ==
  ASSUME Bounded, NEW r \in Readers, AdvanceCursor(r), UNCHANGED zcVars, WritersKeep
  PROVE  Bounded'
<1>1. BufferTypeOK'
  <2>1. cursor' \in [Clients -> Nat]
    BY Constants DEF AdvanceCursor, Bounded, TypeOK, BufferTypeOK, ReaderTypeOK
  <2> QED BY <2>1 DEF AdvanceCursor, CopierAt, Goto, WritersKeep, Bounded, TypeOK,
             BufferTypeOK
<1>2. WriterTypeOK'
  BY Constants DEF AdvanceCursor, CopierAt, Goto, WritersKeep, Bounded, TypeOK,
     WriterTypeOK, PushPc
<1>3. ReaderTypeOK'
  BY Constants DEF AdvanceCursor, CopierAt, Goto, WritersKeep, Bounded, TypeOK,
     ReaderTypeOK, Life
<1>4. PositionsInRange'
  <2>1. /\ cursor' = [cursor EXCEPT ![r] = from[r] + count[r]]
        /\ copier' = [copier EXCEPT ![r] = "notify"]
        /\ from[r] + count[r] <= totalWritten
    BY DEF AdvanceCursor, CopierAt, Goto, WritersKeep, Bounded, PositionsInRange
  <2>2. \A c \in Clients : cursor'[c] <= totalWritten
    BY <2>1 DEF Bounded, TypeOK, BufferTypeOK, PositionsInRange
  <2>3. \A c \in Readers :
          /\ copier'[c] \in {"copy", "advance"} => c # r /\ copier'[c] = copier[c]
          /\ c # r => cursor'[c] = cursor[c] /\ copier'[c] = copier[c]
    BY <2>1, Constants DEF Bounded, TypeOK, BufferTypeOK, ReaderTypeOK
  <2>4. \A y \in ZCReaders : cursor'[y] = cursor[y]
    BY <2>1, Constants DEF Bounded, TypeOK, BufferTypeOK
  <2>5. life[r] \notin {"new", "placed"}
    BY DEF AdvanceCursor, CopierAt, Goto, WritersKeep, Bounded, PositionsInRange
  <2>6. UNCHANGED <<ring, totalWritten, active, granted, life, user, from, count, pinnedEnd>>
    BY DEF AdvanceCursor, CopierAt, Goto, WritersKeep
  <2> QED BY <2>2, <2>3, <2>4, <2>5, <2>6 DEF Bounded, PositionsInRange
<1> QED BY <1>1, <1>2, <1>3, <1>4 DEF Bounded, TypeOK

(* The worker of a RecordReader wakes the writers. *)
LEMMA NotifySpaceBounded ==
  ASSUME Bounded, NEW r \in Readers, NotifySpace(r), UNCHANGED zcVars, WritersKeep
  PROVE  Bounded'
<1>1. BufferTypeOK'
  BY Constants DEF NotifySpace, CopierAt, Goto, NotifyWriters, WritersKeep, Bounded, TypeOK,
     BufferTypeOK, CvState
<1>2. WriterTypeOK'
  BY Constants DEF NotifySpace, CopierAt, Goto, NotifyWriters, WritersKeep, Bounded, TypeOK,
     WriterTypeOK, PushPc
<1>3. ReaderTypeOK'
  BY Constants DEF NotifySpace, CopierAt, Goto, NotifyWriters, WritersKeep, Bounded, TypeOK,
     ReaderTypeOK, Life
<1>4. PositionsInRange'
  BY Constants DEF NotifySpace, CopierAt, Goto, NotifyWriters, WritersKeep, Bounded, TypeOK,
     BufferTypeOK, ReaderTypeOK, PositionsInRange
<1> QED BY <1>1, <1>2, <1>3, <1>4 DEF Bounded, TypeOK

(* The background buffer is offered to the user. *)
LEMMA OfferBatchBounded ==
  ASSUME Bounded, NEW r \in Readers, OfferBatch(r), UNCHANGED zcVars, WritersKeep
  PROVE  Bounded'
<1>1. BufferTypeOK'
  BY Constants DEF OfferBatch, CopierAt, Goto, ForgetSnapshot, WritersKeep, Bounded, TypeOK,
     BufferTypeOK, CvState
<1>2. WriterTypeOK'
  BY Constants DEF OfferBatch, CopierAt, Goto, ForgetSnapshot, WritersKeep, Bounded, TypeOK,
     WriterTypeOK, PushPc
<1>3. ReaderTypeOK'
  <2>1. /\ from' \in [Readers -> Nat] /\ count' \in [Readers -> 0 .. ReaderBatch]
        /\ bgCount' \in [Readers -> 0 .. ReaderBatch] /\ bgFull' \in [Readers -> BOOLEAN]
    BY Constants DEF OfferBatch, ForgetSnapshot, Bounded, TypeOK, ReaderTypeOK
  <2>2. copier' \in [Readers -> {"wait", "snapshot", "copy", "advance", "notify", "publish",
                                 "exited"}]
    BY DEF OfferBatch, Goto, Bounded, TypeOK, ReaderTypeOK
  <2>3. UNCHANGED <<readerBaseVars, buf, bgBuf, activeIdx, activeCount, zcVars>>
    BY DEF OfferBatch, CopierAt, Goto, ForgetSnapshot, WritersKeep
  <2> QED BY <2>1, <2>2, <2>3 DEF Bounded, TypeOK, ReaderTypeOK
<1>4. PositionsInRange'
  BY Constants DEF OfferBatch, CopierAt, Goto, ForgetSnapshot, WritersKeep, Bounded, TypeOK,
     BufferTypeOK, ReaderTypeOK, PositionsInRange
<1> QED BY <1>1, <1>2, <1>3, <1>4 DEF Bounded, TypeOK

(* nextBatch() takes no more than the active buffer holds. *)
LEMMA TakeFromActiveBounded ==
  ASSUME Bounded, NEW r \in Readers, NEW n \in 1 .. ReaderBatch, TakeFromActive(r, n),
         UNCHANGED zcVars, WritersKeep
  PROVE  Bounded'
<1>1. BufferTypeOK'
  BY Constants DEF TakeFromActive, MinOf, WritersKeep, Bounded, TypeOK, BufferTypeOK,
     CvState
<1>2. WriterTypeOK'
  BY Constants DEF TakeFromActive, MinOf, WritersKeep, Bounded, TypeOK, WriterTypeOK, PushPc
<1>3. ReaderTypeOK'
  <2>1. activeIdx[r] + MinOf(n, activeCount[r] - activeIdx[r]) \in 0 .. ReaderBatch
    <3>1. /\ activeIdx[r] \in 0 .. ReaderBatch /\ activeCount[r] \in 0 .. ReaderBatch
          /\ activeIdx[r] < activeCount[r]
      BY DEF TakeFromActive, Bounded, TypeOK, ReaderTypeOK
    <3> QED BY <3>1, Constants DEF MinOf
  <2>2. activeIdx' \in [Readers -> 0 .. ReaderBatch]
    BY <2>1 DEF TakeFromActive, Bounded, TypeOK, ReaderTypeOK
  <2>3. user' = [user EXCEPT ![r] = "idle"]
    BY DEF TakeFromActive
  <2>4. UNCHANGED <<life, rdRunning, finishing, finishTarget, buf, bgBuf, bgCount, bgFull,
                    activeCount, copier, from, count, zcVars>>
    BY DEF TakeFromActive
  <2>5. got' \in [Clients -> Seq(Cell)]
    <3> DEFINE b == buf[r][1 - bgBuf[r]]
               i == activeIdx[r]
               k == MinOf(n, activeCount[r] - activeIdx[r])
    <3>1. /\ got \in [Clients -> Seq(Cell)] /\ b \in Seq(Cell) /\ Len(b) = ReaderBatch
          /\ i \in Nat
      <4>1. 1 - bgBuf[r] \in {0, 1}
        <5>1. bgBuf[r] \in {0, 1}
          BY DEF Bounded, TypeOK, ReaderTypeOK
        <5> QED BY <5>1
      <4>2. b \in [1 .. ReaderBatch -> Cell]
        <5>1. buf[r] \in [{0, 1} -> [1 .. ReaderBatch -> Cell]]
          BY DEF Bounded, TypeOK, ReaderTypeOK
        <5> QED BY <4>1, <5>1
      <4> QED BY <4>2, Constants DEF Bounded, TypeOK, ReaderTypeOK
    <3>2. i + k <= ReaderBatch /\ k \in Nat
      BY Constants DEF TakeFromActive, MinOf, Bounded, TypeOK, ReaderTypeOK
    <3>3. got' = [got EXCEPT ![r] = got[r] \o SubSeq(b, i + 1, i + k)]
      BY DEF TakeFromActive
    <3> HIDE DEF b, i, k
    <3>4. SubSeq(b, i + 1, i + k) \in Seq(Cell)
      BY <3>1, <3>2
    <3>5. got[r] \o SubSeq(b, i + 1, i + k) \in Seq(Cell)
      BY <3>1, <3>4, Constants
    <3> QED BY <3>1, <3>3, <3>5
  <2> QED BY <2>2, <2>3, <2>4, <2>5 DEF Bounded, TypeOK, ReaderTypeOK
<1>4. PositionsInRange'
  BY Constants DEF TakeFromActive, MinOf, WritersKeep, Bounded, TypeOK, BufferTypeOK,
     ReaderTypeOK, PositionsInRange
<1> QED BY <1>1, <1>2, <1>3, <1>4 DEF Bounded, TypeOK

(* nextBatch() starts to wait for a background buffer. *)
LEMMA BeginNextBatchBounded ==
  ASSUME Bounded, NEW r \in Readers, BeginNextBatch(r), UNCHANGED zcVars, WritersKeep
  PROVE  Bounded'
<1>1. BufferTypeOK'
  BY Constants DEF BeginNextBatch, WritersKeep, Bounded, TypeOK, BufferTypeOK, CvState
<1>2. WriterTypeOK'
  BY Constants DEF BeginNextBatch, WritersKeep, Bounded, TypeOK, WriterTypeOK, PushPc
<1>3. ReaderTypeOK'
  BY Constants DEF BeginNextBatch, WritersKeep, Bounded, TypeOK, ReaderTypeOK, Life
<1>4. PositionsInRange'
  <2>1. /\ life[r] # "new"
        /\ user' = [user EXCEPT ![r] = "waiting"]
        /\ r \notin ZCReaders
    BY StreamAssumption DEF BeginNextBatch, WritersKeep, Usable
  <2> QED BY <2>1, Constants
          DEF BeginNextBatch, WritersKeep, Bounded, TypeOK, ReaderTypeOK, PositionsInRange
<1> QED BY <1>1, <1>2, <1>3, <1>4 DEF Bounded, TypeOK

(* swapBuffers() exchanges the two buffers of a RecordReader. *)
LEMMA SwapActiveBounded ==
  ASSUME Bounded, NEW r \in Readers, SwapActive(r), UNCHANGED zcVars, WritersKeep
  PROVE  Bounded'
<1>1. BufferTypeOK'
  BY Constants DEF SwapActive, WakeReader, WritersKeep, Bounded, TypeOK, BufferTypeOK,
     CvState
<1>2. WriterTypeOK'
  BY Constants DEF SwapActive, WakeReader, WritersKeep, Bounded, TypeOK, WriterTypeOK,
     PushPc
<1>3. ReaderTypeOK'
  <2>1. bgBuf' \in [Readers -> {0, 1}]
    <3>1. bgBuf[r] \in {0, 1} /\ bgBuf \in [Readers -> {0, 1}]
      BY DEF Bounded, TypeOK, ReaderTypeOK
    <3>2. 1 - bgBuf[r] \in {0, 1}
      BY <3>1
    <3>3. bgBuf' = [bgBuf EXCEPT ![r] = 1 - bgBuf[r]]
      BY DEF SwapActive
    <3> QED BY <3>1, <3>2, <3>3
  <2>2. /\ activeCount' \in [Readers -> 0 .. ReaderBatch]
        /\ activeIdx' \in [Readers -> 0 .. ReaderBatch]
        /\ bgCount' \in [Readers -> 0 .. ReaderBatch] /\ bgFull' \in [Readers -> BOOLEAN]
    BY Constants DEF SwapActive, Bounded, TypeOK, ReaderTypeOK
  <2>3. user' = [user EXCEPT ![r] = IF bgCount[r] = 0 THEN "idle" ELSE "taking"]
    BY DEF SwapActive
  <2>4. UNCHANGED <<life, rdRunning, finishing, finishTarget, got, buf, copier, from, count,
                    zcVars>>
    BY DEF SwapActive
  <2> QED BY <2>1, <2>2, <2>3, <2>4 DEF Bounded, TypeOK, ReaderTypeOK
<1>4. PositionsInRange'
  BY Constants DEF SwapActive, WakeReader, WritersKeep, Bounded, TypeOK, BufferTypeOK,
     ReaderTypeOK, PositionsInRange
<1> QED BY <1>1, <1>2, <1>3, <1>4 DEF Bounded, TypeOK

(* stop() of a RecordReader, or its destructor, clears m_running. *)
LEMMA StopBounded ==
  ASSUME Bounded, NEW r \in Readers, NEW goal \in {"stopping", "closing"}, Stop(r, goal),
         UNCHANGED zcVars, WritersKeep
  PROVE  Bounded'
<1>1. BufferTypeOK'
  BY Constants DEF Stop, SetLife, WritersKeep, Bounded, TypeOK, BufferTypeOK, CvState
<1>2. WriterTypeOK'
  BY Constants DEF Stop, SetLife, WritersKeep, Bounded, TypeOK, WriterTypeOK, PushPc
<1>3. ReaderTypeOK'
  BY Constants DEF Stop, SetLife, WritersKeep, Bounded, TypeOK, ReaderTypeOK, Life
<1>4. PositionsInRange'
  BY Constants DEF Stop, SetLife, WritersKeep, Bounded, TypeOK, BufferTypeOK, ReaderTypeOK,
     PositionsInRange
<1> QED BY <1>1, <1>2, <1>3, <1>4 DEF Bounded, TypeOK

(* stop() of a RecordReader wakes its threads. *)
LEMMA StopNotifyBounded ==
  ASSUME Bounded, NEW r \in Readers, StopNotify(r), UNCHANGED zcVars, WritersKeep
  PROVE  Bounded'
<1>1. BufferTypeOK'
  BY Constants DEF StopNotify, SetLife, WakeReader, WritersKeep, Bounded, TypeOK,
     BufferTypeOK, CvState
<1>2. WriterTypeOK'
  BY Constants DEF StopNotify, SetLife, WakeReader, WritersKeep, Bounded, TypeOK,
     WriterTypeOK, PushPc
<1>3. ReaderTypeOK'
  BY Constants DEF StopNotify, SetLife, WakeReader, WritersKeep, Bounded, TypeOK,
     ReaderTypeOK, Life
<1>4. PositionsInRange'
  BY Constants DEF StopNotify, SetLife, WakeReader, WritersKeep, Bounded, TypeOK,
     BufferTypeOK, ReaderTypeOK, PositionsInRange
<1> QED BY <1>1, <1>2, <1>3, <1>4 DEF Bounded, TypeOK

(* finish() of a RecordReader takes its target. *)
LEMMA FinishBounded ==
  ASSUME Bounded, NEW r \in Readers, Finish(r), UNCHANGED zcVars, WritersKeep
  PROVE  Bounded'
<1>1. BufferTypeOK'
  BY Constants DEF Finish, SetLife, WakeReader, WritersKeep, Bounded, TypeOK, BufferTypeOK,
     CvState
<1>2. WriterTypeOK'
  BY Constants DEF Finish, SetLife, WakeReader, WritersKeep, Bounded, TypeOK, WriterTypeOK,
     PushPc
<1>3. ReaderTypeOK'
  <2>1. finishTarget' \in [Clients -> Nat]
    BY DEF Finish, SetLife, WakeReader, WritersKeep, Bounded, TypeOK, BufferTypeOK,
       ReaderTypeOK
  <2>2. finishing' \in [Clients -> BOOLEAN] /\ life' \in [Clients -> Life]
    BY DEF Finish, SetLife, WakeReader, WritersKeep, Bounded, TypeOK, ReaderTypeOK, Life
  <2> QED BY <2>1, <2>2 DEF Finish, SetLife, WakeReader, WritersKeep, Bounded, TypeOK,
             ReaderTypeOK
<1>4. PositionsInRange'
  BY Constants DEF Finish, SetLife, WakeReader, WritersKeep, Bounded, TypeOK, BufferTypeOK,
     ReaderTypeOK, PositionsInRange
<1> QED BY <1>1, <1>2, <1>3, <1>4 DEF Bounded, TypeOK

(* stop(), finish() and the destructor of a RecordReader join the worker. *)
LEMMA JoinCopierBounded ==
  ASSUME Bounded, NEW r \in Readers, JoinCopier(r), UNCHANGED zcVars, WritersKeep
  PROVE  Bounded'
<1>1. BufferTypeOK'
  BY Constants DEF JoinCopier, SetLife, WritersKeep, Bounded, TypeOK, BufferTypeOK, CvState
<1>2. WriterTypeOK'
  BY Constants DEF JoinCopier, SetLife, WritersKeep, Bounded, TypeOK, WriterTypeOK, PushPc
<1>3. ReaderTypeOK'
  BY Constants DEF JoinCopier, SetLife, WritersKeep, Bounded, TypeOK, ReaderTypeOK, Life
<1>4. PositionsInRange'
  BY Constants DEF JoinCopier, SetLife, WritersKeep, Bounded, TypeOK, BufferTypeOK,
     ReaderTypeOK, PositionsInRange
<1> QED BY <1>1, <1>2, <1>3, <1>4 DEF Bounded, TypeOK

(* initBase() places the cursor on the oldest record. *)
LEMMA PlaceBounded ==
  ASSUME Bounded, NEW r \in Readers, Place(r), UNCHANGED <<readerVars, zcVars>>, WritersKeep
  PROVE  Bounded'
<1>1. BufferTypeOK'
  BY Constants DEF Place, SetLife, OldestCursor, RingOf, WritersKeep, Bounded, TypeOK,
     BufferTypeOK, CvState
<1>2. WriterTypeOK'
  BY Constants DEF Place, SetLife, OldestCursor, RingOf, WritersKeep, Bounded, TypeOK,
     WriterTypeOK, PushPc
<1>3. ReaderTypeOK'
  BY Constants DEF Place, SetLife, OldestCursor, RingOf, WritersKeep, Bounded, TypeOK,
     ReaderTypeOK, Life
<1>4. PositionsInRange'
  <2>1. /\ cursor' = [cursor EXCEPT ![r] = IF totalWritten > ring.size THEN OldestCursor ELSE 0]
        /\ OldestCursor \in Nat /\ OldestCursor <= totalWritten
    BY OldestType DEF ZCPlace, Place
  <2>2. \A c \in Clients : cursor'[c] \in Nat /\ cursor'[c] <= totalWritten
    BY <2>1, Constants DEF Place, SetLife, OldestCursor, RingOf, WritersKeep, Bounded,
       TypeOK, BufferTypeOK, PositionsInRange
  <2>3. \A c \in Readers : /\ copier[c] \in {"copy", "advance"} => cursor'[c] = cursor[c]
                           /\ life'[c] \in {"new", "placed"} => copier[c] = "wait"
    BY <2>1, Constants DEF Place, SetLife, OldestCursor, RingOf, WritersKeep, Bounded,
       TypeOK, BufferTypeOK, ReaderTypeOK, PositionsInRange
  <2>4. \A y \in ZCReaders : cursor'[y] = cursor[y]
    BY <2>1, StreamAssumption DEF Place, SetLife, OldestCursor, RingOf, WritersKeep,
       Bounded, TypeOK, BufferTypeOK
  <2>5. \A c \in Clients : life'[c] = "new" => user[c] = "idle"
    BY Constants DEF Place, SetLife, OldestCursor, RingOf, WritersKeep, Bounded, TypeOK,
       ReaderTypeOK, PositionsInRange
  <2> QED BY <2>2, <2>3, <2>4, <2>5 DEF Place, SetLife, OldestCursor, RingOf, WritersKeep,
             Bounded, PositionsInRange
<1> QED BY <1>1, <1>2, <1>3, <1>4 DEF Bounded, TypeOK

(* initBase() registers the reader. *)
LEMMA RegisterBounded ==
  ASSUME Bounded, NEW c \in Clients, Register(c), UNCHANGED <<readerVars, zcVars>>,
         WritersKeep
  PROVE  Bounded'
<1>1. BufferTypeOK'
  BY Constants DEF Register, SetLife, AddClient, WritersKeep, Bounded, TypeOK, BufferTypeOK,
     CvState
<1>2. WriterTypeOK'
  BY Constants DEF Register, SetLife, AddClient, WritersKeep, Bounded, TypeOK, WriterTypeOK,
     PushPc
<1>3. ReaderTypeOK'
  BY Constants DEF Register, SetLife, AddClient, WritersKeep, Bounded, TypeOK, ReaderTypeOK,
     Life
<1>4. PositionsInRange'
  BY Constants DEF Register, SetLife, AddClient, WritersKeep, Bounded, TypeOK, BufferTypeOK,
     ReaderTypeOK, PositionsInRange
<1> QED BY <1>1, <1>2, <1>3, <1>4 DEF Bounded, TypeOK

(* The destructor of a reader that has ended. *)
LEMMA DestroyEndedBounded ==
  ASSUME Bounded, NEW c \in Clients, DestroyEnded(c), UNCHANGED <<readerVars, zcVars>>,
         WritersKeep
  PROVE  Bounded'
<1>1. BufferTypeOK'
  BY Constants DEF DestroyEnded, SetLife, WritersKeep, Bounded, TypeOK, BufferTypeOK,
     CvState
<1>2. WriterTypeOK'
  BY Constants DEF DestroyEnded, SetLife, WritersKeep, Bounded, TypeOK, WriterTypeOK, PushPc
<1>3. ReaderTypeOK'
  BY Constants DEF DestroyEnded, SetLife, WritersKeep, Bounded, TypeOK, ReaderTypeOK, Life
<1>4. PositionsInRange'
  BY Constants DEF DestroyEnded, SetLife, WritersKeep, Bounded, TypeOK, BufferTypeOK,
     ReaderTypeOK, PositionsInRange
<1> QED BY <1>1, <1>2, <1>3, <1>4 DEF Bounded, TypeOK

(* removeClient() erases the reader. *)
LEMMA UnregisterBounded ==
  ASSUME Bounded, NEW c \in Clients, Unregister(c), UNCHANGED <<readerVars, zcVars>>,
         WritersKeep
  PROVE  Bounded'
<1>1. BufferTypeOK'
  BY Constants DEF Unregister, SetLife, EraseClient, WritersKeep, Bounded, TypeOK,
     BufferTypeOK, CvState
<1>2. WriterTypeOK'
  BY Constants DEF Unregister, SetLife, EraseClient, WritersKeep, Bounded, TypeOK,
     WriterTypeOK, PushPc
<1>3. ReaderTypeOK'
  BY Constants DEF Unregister, SetLife, EraseClient, WritersKeep, Bounded, TypeOK,
     ReaderTypeOK, Life
<1>4. PositionsInRange'
  BY Constants DEF Unregister, SetLife, EraseClient, WritersKeep, Bounded, TypeOK,
     BufferTypeOK, ReaderTypeOK, PositionsInRange
<1> QED BY <1>1, <1>2, <1>3, <1>4 DEF Bounded, TypeOK

(* removeClient() wakes the writers. *)
LEMMA UnregisterNotifyBounded ==
  ASSUME Bounded, NEW c \in Clients, UnregisterNotify(c), UNCHANGED <<readerVars, zcVars>>,
         WritersKeep
  PROVE  Bounded'
<1>1. BufferTypeOK'
  BY Constants DEF UnregisterNotify, SetLife, NotifyWriters, WritersKeep, Bounded, TypeOK,
     BufferTypeOK, CvState
<1>2. WriterTypeOK'
  BY Constants DEF UnregisterNotify, SetLife, NotifyWriters, WritersKeep, Bounded, TypeOK,
     WriterTypeOK, PushPc
<1>3. ReaderTypeOK'
  BY Constants DEF UnregisterNotify, SetLife, NotifyWriters, WritersKeep, Bounded, TypeOK,
     ReaderTypeOK, Life
<1>4. PositionsInRange'
  BY Constants DEF UnregisterNotify, SetLife, NotifyWriters, WritersKeep, Bounded, TypeOK,
     BufferTypeOK, ReaderTypeOK, PositionsInRange
<1> QED BY <1>1, <1>2, <1>3, <1>4 DEF Bounded, TypeOK

(* A RecordReaderZC starts with its cursor placed and nothing pinned. *)
LEMMA ZCPlaceBounded ==
  ASSUME Bounded, NEW z \in ZCReaders, ZCPlace(z), UNCHANGED readerVars, WritersKeep
  PROVE  Bounded'
<1>1. BufferTypeOK'
  BY Constants DEF ZCPlace, Place, SetLife, OldestCursor, RingOf, WritersKeep, Bounded,
     TypeOK, BufferTypeOK, CvState
<1>2. WriterTypeOK'
  BY Constants DEF ZCPlace, Place, SetLife, OldestCursor, RingOf, WritersKeep, Bounded,
     TypeOK, WriterTypeOK, PushPc
<1>3. ReaderTypeOK'
  <2>1. cursor'[z] \in Nat
    BY OldestType, Constants DEF ZCPlace, Place, SetLife, OldestCursor, RingOf, WritersKeep,
       Bounded, TypeOK, BufferTypeOK
  <2>2. pinnedEnd' \in [ZCReaders -> Nat]
    BY <2>1 DEF ZCPlace, Place, SetLife, OldestCursor, RingOf, WritersKeep, Bounded, TypeOK,
       ReaderTypeOK
  <2>3. life' \in [Clients -> Life] /\ rdRunning' \in [Clients -> BOOLEAN]
    BY DEF ZCPlace, Place, SetLife, OldestCursor, RingOf, WritersKeep, Bounded, TypeOK,
       ReaderTypeOK, Life
  <2> QED BY <2>2, <2>3 DEF ZCPlace, Place, SetLife, OldestCursor, RingOf, WritersKeep,
             Bounded, TypeOK, ReaderTypeOK
<1>4. PositionsInRange'
  <2>1. /\ cursor' = [cursor EXCEPT ![z] = IF totalWritten > ring.size THEN OldestCursor ELSE 0]
        /\ OldestCursor \in Nat /\ OldestCursor <= totalWritten
    BY OldestType DEF ZCPlace, Place
  <2>2. \A c \in Clients : cursor'[c] \in Nat /\ cursor'[c] <= totalWritten
    BY <2>1, Constants DEF ZCPlace, Place, SetLife, OldestCursor, RingOf, WritersKeep,
       Bounded, TypeOK, BufferTypeOK, PositionsInRange
  <2>3. \A c \in Readers : cursor'[c] = cursor[c] /\ life'[c] = life[c]
    BY <2>1, StreamAssumption DEF ZCPlace, Place, SetLife, OldestCursor, RingOf,
       WritersKeep, Bounded, TypeOK, BufferTypeOK, ReaderTypeOK
  <2>4. \A y \in ZCReaders :
          /\ cursor'[y] <= pinnedEnd'[y] /\ pinnedEnd'[y] <= totalWritten
          /\ user[y] \in {"fetching", "overrun"} => y # z /\ cursor'[y] = cursor[y]
    BY <2>1, <2>2, Constants, SMTT(30) DEF ZCPlace, Place, SetLife, OldestCursor, RingOf, WritersKeep,
       Bounded, TypeOK, BufferTypeOK, ReaderTypeOK, PositionsInRange
  <2>5. \A c \in Clients : life'[c] = "new" => user[c] = "idle"
    BY Constants DEF ZCPlace, Place, SetLife, OldestCursor, RingOf, WritersKeep, Bounded,
       TypeOK, ReaderTypeOK, PositionsInRange
  <2> QED BY <2>2, <2>3, <2>4, <2>5 DEF ZCPlace, Place, SetLife, OldestCursor, RingOf,
             WritersKeep, Bounded, PositionsInRange
<1> QED BY <1>1, <1>2, <1>3, <1>4 DEF Bounded, TypeOK

(* release() moves the cursor to the end of the pinned batch. *)
LEMMA ReleaseBounded ==
  ASSUME Bounded, NEW z \in ZCReaders, Release(z), UNCHANGED readerVars, WritersKeep
  PROVE  Bounded'
<1>1. BufferTypeOK'
  <2>1. cursor' \in [Clients -> Nat]
    BY Constants DEF Release, UserAt, UserGoto, WritersKeep, Bounded, TypeOK, BufferTypeOK,
       ReaderTypeOK
  <2> QED BY <2>1 DEF Release, UserAt, UserGoto, WritersKeep, Bounded, TypeOK, BufferTypeOK
<1>2. WriterTypeOK'
  BY Constants DEF Release, UserAt, UserGoto, WritersKeep, Bounded, TypeOK, WriterTypeOK,
     PushPc
<1>3. ReaderTypeOK'
  <2>1. batchCount' \in [ZCReaders -> 0 .. Capacity]
    BY Constants DEF Release, UserAt, UserGoto, WritersKeep, Bounded, TypeOK, ReaderTypeOK
  <2> QED BY <2>1 DEF Release, UserAt, UserGoto, WritersKeep, Bounded, TypeOK, ReaderTypeOK
<1>4. PositionsInRange'
  <2>1. \A c \in Clients : cursor'[c] \in Nat /\ cursor'[c] <= totalWritten
    BY Constants DEF Release, UserAt, UserGoto, WritersKeep, Bounded, TypeOK, BufferTypeOK,
       ReaderTypeOK, PositionsInRange
  <2>2. \A y \in ZCReaders : cursor'[y] <= pinnedEnd[y]
    BY Constants DEF Release, UserAt, UserGoto, WritersKeep, Bounded, TypeOK, BufferTypeOK,
       ReaderTypeOK, PositionsInRange
  <2>3. \A c \in Readers : cursor'[c] = cursor[c] /\ c \in Clients
    BY StreamAssumption DEF Release, UserAt, UserGoto, WritersKeep, Bounded, TypeOK,
       BufferTypeOK
  <2>4. \A c \in Clients : life[c] = "new" => user'[c] = "idle"
    BY DEF Release, UserAt, UserGoto, WritersKeep, Bounded, TypeOK, ReaderTypeOK,
       PositionsInRange, Usable
  <2>5. \A y \in ZCReaders :
          user'[y] \in {"fetching", "overrun"} =>
            y # z /\ user[y] \in {"fetching", "overrun"} /\ cursor'[y] = cursor[y]
    BY Constants DEF Release, UserAt, UserGoto, WritersKeep, Bounded, TypeOK, BufferTypeOK,
       ReaderTypeOK
  <2>6. \A y \in ZCReaders : batchSlot'[y] + batchCount'[y] <= Capacity
    BY Constants DEF Release, Bounded, TypeOK, ReaderTypeOK, PositionsInRange
  <2> QED BY <2>1, <2>2, <2>3, <2>4, <2>5, <2>6 DEF Release, UserAt, UserGoto, WritersKeep,
             Bounded, PositionsInRange
<1> QED BY <1>1, <1>2, <1>3, <1>4 DEF Bounded, TypeOK

(* release() wakes the writers. *)
LEMMA ReleaseNotifyBounded ==
  ASSUME Bounded, NEW z \in ZCReaders, ReleaseNotify(z), UNCHANGED readerVars, WritersKeep
  PROVE  Bounded'
<1>1. BufferTypeOK'
  BY Constants DEF ReleaseNotify, UserAt, UserGoto, NotifyWriters, WritersKeep, Bounded,
     TypeOK, BufferTypeOK, CvState
<1>2. WriterTypeOK'
  BY Constants DEF ReleaseNotify, UserAt, UserGoto, NotifyWriters, WritersKeep, Bounded,
     TypeOK, WriterTypeOK, PushPc
<1>3. ReaderTypeOK'
  BY Constants DEF ReleaseNotify, UserAt, UserGoto, NotifyWriters, WritersKeep, Bounded,
     TypeOK, ReaderTypeOK, Life
<1>4. PositionsInRange'
  BY Constants DEF ReleaseNotify, UserAt, UserGoto, NotifyWriters, WritersKeep, Bounded,
     TypeOK, BufferTypeOK, ReaderTypeOK, PositionsInRange
<1> QED BY <1>1, <1>2, <1>3, <1>4 DEF Bounded, TypeOK

(* nextBatch() of a RecordReaderZC evaluates its conditions: it goes on to  *)
(* fetch only if there are records behind its cursor.                       *)
LEMMA ZCWaitBounded ==
  ASSUME Bounded, NEW z \in ZCReaders, ZCWait(z), UNCHANGED readerVars, WritersKeep
  PROVE  Bounded'
<1>1. BufferTypeOK'
  BY Constants DEF ZCWait, UserAt, UserGoto, Lag, WritersKeep, Bounded, TypeOK,
     BufferTypeOK, CvState
<1>2. WriterTypeOK'
  BY Constants DEF ZCWait, UserAt, UserGoto, Lag, WritersKeep, Bounded, TypeOK,
     WriterTypeOK, PushPc
<1>3. ReaderTypeOK'
  <2>1. \/ UNCHANGED user
        \/ \E pc \in {"idle", "fetching"} : user' = [user EXCEPT ![z] = pc]
    BY DEF ZCWait, UserGoto
  <2>2. rdRunning' = rdRunning \/ rdRunning' = [rdRunning EXCEPT ![z] = FALSE]
    BY DEF ZCWait
  <2>3. UNCHANGED <<life, finishing, finishTarget, got, readerVars, zcVars>>
    BY DEF ZCWait
  <2>4. user' \in [Clients -> {"idle", "waiting", "taking", "released", "checking", "fetching",
                               "overrun", "skipped", "refetching", "holding"}]
    BY <2>1 DEF Bounded, TypeOK, ReaderTypeOK
  <2>5. rdRunning' \in [Clients -> BOOLEAN]
    BY <2>2 DEF Bounded, TypeOK, ReaderTypeOK
  <2> QED BY <2>3, <2>4, <2>5 DEF readerVars, zcVars, Bounded, TypeOK, ReaderTypeOK
<1>4. PositionsInRange'
  BY Constants, SMTT(30) DEF ZCWait, UserAt, UserGoto, Lag, WritersKeep, Bounded, TypeOK,
     BufferTypeOK, ReaderTypeOK, PositionsInRange
<1> QED BY <1>1, <1>2, <1>3, <1>4 DEF Bounded, TypeOK

(* nextBatch() of a RecordReaderZC goes to sleep. *)
LEMMA ZCSleepBounded ==
  ASSUME Bounded, NEW z \in ZCReaders, ZCSleep(z), UNCHANGED readerVars, WritersKeep
  PROVE  Bounded'
<1>1. BufferTypeOK'
  BY Constants DEF ZCSleep, WritersKeep, Bounded, TypeOK, BufferTypeOK, CvState
<1>2. WriterTypeOK'
  BY Constants DEF ZCSleep, WritersKeep, Bounded, TypeOK, WriterTypeOK, PushPc
<1>3. ReaderTypeOK'
  BY Constants DEF ZCSleep, WritersKeep, Bounded, TypeOK, ReaderTypeOK, Life
<1>4. PositionsInRange'
  BY Constants DEF ZCSleep, WritersKeep, Bounded, TypeOK, BufferTypeOK, ReaderTypeOK,
     PositionsInRange
<1> QED BY <1>1, <1>2, <1>3, <1>4 DEF Bounded, TypeOK

(* getBatchPtrFromGlobal() pins a batch that lies in one piece of the       *)
(* storage and within what has been written.                                *)
LEMMA FetchBounded ==
  ASSUME Bounded, NEW z \in ZCReaders, Fetch(z), UNCHANGED readerVars, WritersKeep
  PROVE  Bounded'
<1>1. BufferTypeOK'
  BY Constants DEF Fetch, UserAt, UserGoto, Pin, WritersKeep, Bounded, TypeOK, BufferTypeOK,
     CvState
<1>2. WriterTypeOK'
  BY Constants DEF Fetch, UserAt, UserGoto, Pin, WritersKeep, Bounded, TypeOK, WriterTypeOK,
     PushPc
<1>3. ReaderTypeOK'
  <2>1. CASE Readable(cursor[z])
    <3>1. PICK n \in 1 .. ReaderBatch : Pin(z, n)
      BY <2>1 DEF Fetch
    <3>2. /\ BatchSlot(cursor[z]) \in 0 .. Capacity - 1
          /\ BatchRun(cursor[z], n) \in 0 .. Capacity
          /\ cursor[z] + BatchRun(cursor[z], n) \in Nat
      BY <2>1, BatchType, Constants DEF Fetch, UserAt, UserGoto, Pin, WritersKeep, Bounded,
         TypeOK, BufferTypeOK
    <3>3. /\ batchSlot' \in [ZCReaders -> 0 .. Capacity - 1]
          /\ batchCount' \in [ZCReaders -> 0 .. Capacity]
          /\ pinnedEnd' \in [ZCReaders -> Nat]
      BY <3>1, <3>2 DEF Fetch, UserAt, UserGoto, Pin, WritersKeep, Bounded, TypeOK,
         ReaderTypeOK
    <3> QED BY <3>1, <3>3 DEF Fetch, UserAt, UserGoto, Pin, WritersKeep, Bounded, TypeOK,
               ReaderTypeOK
  <2>2. CASE ~ Readable(cursor[z])
    BY <2>2 DEF Fetch, UserAt, UserGoto, Pin, WritersKeep, Bounded, TypeOK, ReaderTypeOK
  <2> QED BY <2>1, <2>2
<1>4. PositionsInRange'
  <2>1. CASE Readable(cursor[z])
    <3>1. PICK n \in 1 .. ReaderBatch : Pin(z, n)
      BY <2>1 DEF Fetch
    <3>2. /\ BatchRun(cursor[z], n) \in Nat
          /\ cursor[z] + BatchRun(cursor[z], n) <= totalWritten
      BY <2>1, BatchType, Constants DEF Bounded, TypeOK, BufferTypeOK
    <3>3. pinnedEnd' = [pinnedEnd EXCEPT ![z] = cursor[z] + BatchRun(cursor[z], n)]
          /\ user' = [user EXCEPT ![z] = "holding"]
      BY <3>1 DEF Pin, UserGoto
    <3>4. \A y \in ZCReaders : batchSlot'[y] + batchCount'[y] <= Capacity
      <4>1. BatchSlot(cursor[z]) + BatchRun(cursor[z], n) <= Capacity
        BY <2>1, BatchType, Constants
      <4>2. /\ batchSlot' = [batchSlot EXCEPT ![z] = BatchSlot(cursor[z])]
            /\ batchCount' = [batchCount EXCEPT ![z] = BatchRun(cursor[z], n)]
        BY <3>1 DEF Pin
      <4> QED BY <4>1, <4>2 DEF Bounded, TypeOK, ReaderTypeOK, PositionsInRange
    <3> QED BY <3>1, <3>2, <3>3, <3>4, Constants, SMTT(60)
            DEF Fetch, UserAt, UserGoto, Pin, WritersKeep, Bounded, TypeOK, BufferTypeOK,
                ReaderTypeOK, PositionsInRange
  <2>2. CASE ~ Readable(cursor[z])
    BY <2>2, Constants, SMTT(30) DEF Fetch, UserAt, UserGoto, Pin, WritersKeep, Bounded, TypeOK,
       BufferTypeOK, ReaderTypeOK, PositionsInRange
  <2> QED BY <2>1, <2>2
<1> QED BY <1>1, <1>2, <1>3, <1>4 DEF Bounded, TypeOK

(* An overrun RecordReaderZC moves to the oldest record. *)
LEMMA SkipOverrunBounded ==
  ASSUME Bounded, NEW z \in ZCReaders, SkipOverrun(z), UNCHANGED readerVars, WritersKeep
  PROVE  Bounded'
<1>1. BufferTypeOK'
  <2>1. cursor' \in [Clients -> Nat]
    BY OldestType, Constants DEF SkipOverrun, UserAt, UserGoto, OldestCursor, RingOf,
       WritersKeep, Bounded, TypeOK, BufferTypeOK
  <2> QED BY <2>1 DEF SkipOverrun, UserAt, UserGoto, OldestCursor, RingOf, WritersKeep,
             Bounded, TypeOK, BufferTypeOK
<1>2. WriterTypeOK'
  BY Constants DEF SkipOverrun, UserAt, UserGoto, OldestCursor, RingOf, WritersKeep,
     Bounded, TypeOK, WriterTypeOK, PushPc
<1>3. ReaderTypeOK'
  <2>1. pinnedEnd' \in [ZCReaders -> Nat]
    BY OldestType DEF SkipOverrun, UserAt, UserGoto, OldestCursor, RingOf, WritersKeep,
       Bounded, TypeOK, ReaderTypeOK
  <2> QED BY <2>1 DEF SkipOverrun, UserAt, UserGoto, OldestCursor, RingOf, WritersKeep,
             Bounded, TypeOK, ReaderTypeOK
<1>4. PositionsInRange'
  <2>1. /\ cursor' = [cursor EXCEPT ![z] = OldestCursor]
        /\ pinnedEnd' = [pinnedEnd EXCEPT ![z] = OldestCursor]
        /\ OldestCursor \in Nat /\ OldestCursor <= totalWritten
    BY OldestType DEF SkipOverrun
  <2>2. /\ user' = [user EXCEPT ![z] = "skipped"]
        /\ UNCHANGED <<ring, totalWritten, life, copier, from, count, active, granted,
                       batchSlot, batchCount>>
    BY DEF SkipOverrun, UserGoto, WritersKeep, readerVars, writerBaseVars, writerVars
  <2>3. \A c \in Clients : /\ cursor'[c] <= totalWritten
                           /\ life[c] = "new" => user'[c] = "idle"
    BY <2>1, <2>2 DEF SkipOverrun, UserAt, Usable, Bounded, TypeOK, BufferTypeOK, ReaderTypeOK,
       PositionsInRange
  <2>4. \A q \in Readers : cursor'[q] = cursor[q]
    BY <2>1, Constants DEF Bounded, TypeOK, BufferTypeOK
  <2>5. ASSUME NEW q \in ZCReaders
        PROVE  /\ cursor'[q] <= pinnedEnd'[q] /\ pinnedEnd'[q] <= totalWritten
               /\ user'[q] \in {"fetching", "overrun"} => cursor'[q] < totalWritten
               /\ batchSlot[q] + batchCount[q] <= Capacity
    <3>1. CASE q = z
      BY <2>1, <2>2, <3>1, Constants DEF Bounded, TypeOK, BufferTypeOK, ReaderTypeOK,
         PositionsInRange
    <3>2. CASE q # z
      <4>1. cursor'[q] = cursor[q] /\ pinnedEnd'[q] = pinnedEnd[q] /\ user'[q] = user[q]
        BY <2>1, <2>2, <3>2, Constants DEF Bounded, TypeOK, BufferTypeOK, ReaderTypeOK
      <4> QED BY <4>1 DEF Bounded, PositionsInRange
    <3> QED BY <3>1, <3>2
  <2> QED BY <2>2, <2>3, <2>4, <2>5 DEF Bounded, PositionsInRange
<1> QED BY <1>1, <1>2, <1>3, <1>4 DEF Bounded, TypeOK

(* An overrun RecordReaderZC wakes the writers. *)
LEMMA SkipNotifyBounded ==
  ASSUME Bounded, NEW z \in ZCReaders, SkipNotify(z), UNCHANGED readerVars, WritersKeep
  PROVE  Bounded'
<1>1. BufferTypeOK'
  BY Constants DEF SkipNotify, UserAt, UserGoto, NotifyWriters, WritersKeep, Bounded,
     TypeOK, BufferTypeOK, CvState
<1>2. WriterTypeOK'
  BY Constants DEF SkipNotify, UserAt, UserGoto, NotifyWriters, WritersKeep, Bounded,
     TypeOK, WriterTypeOK, PushPc
<1>3. ReaderTypeOK'
  BY Constants DEF SkipNotify, UserAt, UserGoto, NotifyWriters, WritersKeep, Bounded,
     TypeOK, ReaderTypeOK, Life
<1>4. PositionsInRange'
  BY Constants DEF SkipNotify, UserAt, UserGoto, NotifyWriters, WritersKeep, Bounded,
     TypeOK, BufferTypeOK, ReaderTypeOK, PositionsInRange
<1> QED BY <1>1, <1>2, <1>3, <1>4 DEF Bounded, TypeOK

(* The second fetch, under the same conditions as the first. *)
LEMMA RefetchBounded ==
  ASSUME Bounded, NEW z \in ZCReaders, Refetch(z), UNCHANGED readerVars, WritersKeep
  PROVE  Bounded'
<1>1. BufferTypeOK'
  BY Constants DEF Refetch, UserAt, UserGoto, Pin, WritersKeep, Bounded, TypeOK,
     BufferTypeOK, CvState
<1>2. WriterTypeOK'
  BY Constants DEF Refetch, UserAt, UserGoto, Pin, WritersKeep, Bounded, TypeOK,
     WriterTypeOK, PushPc
<1>3. ReaderTypeOK'
  <2>1. CASE Readable(cursor[z])
    <3>1. PICK n \in 1 .. ReaderBatch : Pin(z, n)
      BY <2>1 DEF Refetch
    <3>2. /\ BatchSlot(cursor[z]) \in 0 .. Capacity - 1
          /\ BatchRun(cursor[z], n) \in 0 .. Capacity
          /\ cursor[z] + BatchRun(cursor[z], n) \in Nat
      BY <2>1, BatchType, Constants DEF Refetch, UserAt, UserGoto, Pin, WritersKeep,
         Bounded, TypeOK, BufferTypeOK
    <3>3. /\ batchSlot' \in [ZCReaders -> 0 .. Capacity - 1]
          /\ batchCount' \in [ZCReaders -> 0 .. Capacity]
          /\ pinnedEnd' \in [ZCReaders -> Nat]
      BY <3>1, <3>2 DEF Refetch, UserAt, UserGoto, Pin, WritersKeep, Bounded, TypeOK,
         ReaderTypeOK
    <3> QED BY <3>1, <3>3 DEF Refetch, UserAt, UserGoto, Pin, WritersKeep, Bounded, TypeOK,
               ReaderTypeOK
  <2>2. CASE ~ Readable(cursor[z])
    BY <2>2 DEF Refetch, UserAt, UserGoto, Pin, WritersKeep, Bounded, TypeOK, ReaderTypeOK
  <2> QED BY <2>1, <2>2
<1>4. PositionsInRange'
  <2>1. CASE Readable(cursor[z])
    <3>1. PICK n \in 1 .. ReaderBatch : Pin(z, n)
      BY <2>1 DEF Refetch
    <3>2. /\ BatchRun(cursor[z], n) \in Nat
          /\ cursor[z] + BatchRun(cursor[z], n) <= totalWritten
      BY <2>1, BatchType, Constants DEF Bounded, TypeOK, BufferTypeOK
    <3>3. pinnedEnd' = [pinnedEnd EXCEPT ![z] = cursor[z] + BatchRun(cursor[z], n)]
          /\ user' = [user EXCEPT ![z] = "holding"]
      BY <3>1 DEF Pin, UserGoto
    <3>4. \A y \in ZCReaders : batchSlot'[y] + batchCount'[y] <= Capacity
      <4>1. BatchSlot(cursor[z]) + BatchRun(cursor[z], n) <= Capacity
        BY <2>1, BatchType, Constants
      <4>2. /\ batchSlot' = [batchSlot EXCEPT ![z] = BatchSlot(cursor[z])]
            /\ batchCount' = [batchCount EXCEPT ![z] = BatchRun(cursor[z], n)]
        BY <3>1 DEF Pin
      <4> QED BY <4>1, <4>2 DEF Bounded, TypeOK, ReaderTypeOK, PositionsInRange
    <3> QED BY <3>1, <3>2, <3>3, <3>4, Constants, SMTT(60)
            DEF Refetch, UserAt, UserGoto, Pin, WritersKeep, Bounded, TypeOK, BufferTypeOK,
                ReaderTypeOK, PositionsInRange
  <2>2. CASE ~ Readable(cursor[z])
    BY <2>2, Constants, SMTT(30) DEF Refetch, UserAt, UserGoto, Pin, WritersKeep, Bounded, TypeOK,
       BufferTypeOK, ReaderTypeOK, PositionsInRange
  <2> QED BY <2>1, <2>2
<1> QED BY <1>1, <1>2, <1>3, <1>4 DEF Bounded, TypeOK

(* The user reads its batch. *)
LEMMA ReadBatchBounded ==
  ASSUME Bounded, NEW z \in ZCReaders, ReadBatch(z), UNCHANGED readerVars, WritersKeep
  PROVE  Bounded'
<1>1. BufferTypeOK'
  BY Constants DEF ReadBatch, UserAt, UserGoto, WritersKeep, Bounded, TypeOK, BufferTypeOK,
     CvState
<1>2. WriterTypeOK'
  BY Constants DEF ReadBatch, UserAt, UserGoto, WritersKeep, Bounded, TypeOK, WriterTypeOK,
     PushPc
<1>3. ReaderTypeOK'
  <2>1. BatchContent(z) \in Seq(Cell)
    <3>1. /\ ring.array \in [0 .. Capacity - 1 -> Cell]
          /\ batchSlot[z] \in Nat /\ batchCount[z] \in Nat /\ Capacity \in Nat
          /\ batchSlot[z] + batchCount[z] <= Capacity
      BY Constants DEF Bounded, TypeOK, BufferTypeOK, ReaderTypeOK, PositionsInRange, RingOf
    <3>2. \A i \in 1 .. batchCount[z] : batchSlot[z] + i - 1 \in 0 .. Capacity - 1
      BY <3>1
    <3>3. \A i \in 1 .. batchCount[z] : ring.array[batchSlot[z] + i - 1] \in Cell
      BY <3>1, <3>2
    <3>4. BatchContent(z) \in [1 .. batchCount[z] -> Cell]
      BY <3>3 DEF BatchContent
    <3> QED BY <3>1, <3>4
  <2>2. got' = [got EXCEPT ![z] = got[z] \o BatchContent(z)]
    BY DEF ReadBatch
  <2>3. got' \in [Clients -> Seq(Cell)]
    <3>1. got \in [Clients -> Seq(Cell)] /\ got[z] \o BatchContent(z) \in Seq(Cell)
      BY <2>1, Constants DEF Bounded, TypeOK, ReaderTypeOK
    <3> QED BY <2>2, <3>1
  <2>4. user' = [user EXCEPT ![z] = "idle"]
        /\ UNCHANGED <<life, rdRunning, finishing, finishTarget, readerVars, zcVars>>
    BY DEF ReadBatch, UserGoto
  <2> QED BY <2>3, <2>4 DEF Bounded, TypeOK, ReaderTypeOK
<1>4. PositionsInRange'
  BY Constants DEF ReadBatch, UserAt, UserGoto, WritersKeep, Bounded, TypeOK, BufferTypeOK,
     ReaderTypeOK, PositionsInRange
<1> QED BY <1>1, <1>2, <1>3, <1>4 DEF Bounded, TypeOK

(* stop() of a RecordReaderZC, or its destructor, clears m_running. *)
LEMMA ZCStopReaderBounded ==
  ASSUME Bounded, NEW z \in ZCReaders, NEW goal \in {"stopping", "closing"}, ZCStopReader(z,
         goal), UNCHANGED readerVars, WritersKeep
  PROVE  Bounded'
<1>1. BufferTypeOK'
  BY Constants DEF ZCStopReader, SetLife, WritersKeep, Bounded, TypeOK, BufferTypeOK,
     CvState
<1>2. WriterTypeOK'
  BY Constants DEF ZCStopReader, SetLife, WritersKeep, Bounded, TypeOK, WriterTypeOK, PushPc
<1>3. ReaderTypeOK'
  BY Constants DEF ZCStopReader, SetLife, WritersKeep, Bounded, TypeOK, ReaderTypeOK, Life
<1>4. PositionsInRange'
  BY Constants DEF ZCStopReader, SetLife, WritersKeep, Bounded, TypeOK, BufferTypeOK,
     ReaderTypeOK, PositionsInRange
<1> QED BY <1>1, <1>2, <1>3, <1>4 DEF Bounded, TypeOK

(* finish() of a RecordReaderZC takes its target. *)
LEMMA ZCFinishBounded ==
  ASSUME Bounded, NEW z \in ZCReaders, ZCFinish(z), UNCHANGED readerVars, WritersKeep
  PROVE  Bounded'
<1>1. BufferTypeOK'
  BY Constants DEF ZCFinish, SetLife, WritersKeep, Bounded, TypeOK, BufferTypeOK, CvState
<1>2. WriterTypeOK'
  BY Constants DEF ZCFinish, SetLife, WritersKeep, Bounded, TypeOK, WriterTypeOK, PushPc
<1>3. ReaderTypeOK'
  <2>1. finishTarget' \in [Clients -> Nat]
    BY DEF ZCFinish, SetLife, WritersKeep, Bounded, TypeOK, BufferTypeOK, ReaderTypeOK
  <2>2. finishing' \in [Clients -> BOOLEAN] /\ life' \in [Clients -> Life]
    BY DEF ZCFinish, SetLife, WritersKeep, Bounded, TypeOK, ReaderTypeOK, Life
  <2> QED BY <2>1, <2>2 DEF ZCFinish, SetLife, WritersKeep, Bounded, TypeOK, ReaderTypeOK
<1>4. PositionsInRange'
  BY Constants DEF ZCFinish, SetLife, WritersKeep, Bounded, TypeOK, BufferTypeOK,
     ReaderTypeOK, PositionsInRange
<1> QED BY <1>1, <1>2, <1>3, <1>4 DEF Bounded, TypeOK

(* stop() and finish() of a RecordReaderZC wake its user. *)
LEMMA ZCEndNotifyBounded ==
  ASSUME Bounded, NEW z \in ZCReaders, ZCEndNotify(z), UNCHANGED readerVars, WritersKeep
  PROVE  Bounded'
<1>1. BufferTypeOK'
  BY Constants DEF ZCEndNotify, SetLife, WakeReader, WritersKeep, Bounded, TypeOK,
     BufferTypeOK, CvState
<1>2. WriterTypeOK'
  BY Constants DEF ZCEndNotify, SetLife, WakeReader, WritersKeep, Bounded, TypeOK,
     WriterTypeOK, PushPc
<1>3. ReaderTypeOK'
  BY Constants DEF ZCEndNotify, SetLife, WakeReader, WritersKeep, Bounded, TypeOK,
     ReaderTypeOK, Life
<1>4. PositionsInRange'
  BY Constants DEF ZCEndNotify, SetLife, WakeReader, WritersKeep, Bounded, TypeOK,
     BufferTypeOK, ReaderTypeOK, PositionsInRange
<1> QED BY <1>1, <1>2, <1>3, <1>4 DEF Bounded, TypeOK
-----------------------------------------------------------------------------
(* The threads of a RecordWriter.                                           *)
LEMMA WriterThreadsBounded ==
  ASSUME Bounded, NEW w \in Writers, CallerThread(w) \/ WorkerThread(w)
  PROVE  Bounded'
<1>1. w \in Producers
  BY Constants
<1>2. CASE CallerThread(w)
  <2>1. CASE \E n \in 1 .. WriterBatch : NextBatch(w, n)
    BY <1>2, <2>1, NextBatchBounded DEF CallerThread
  <2>2. CASE \E k \in 0 .. WriterBatch : CommitBatch(w, k)
    BY <1>2, <2>2, CommitBatchBounded DEF CallerThread
  <2>3. CASE \E goal \in {"flushing", "closing"} : BeginFlush(w, goal)
    BY <1>2, <2>3, BeginFlushBounded DEF CallerThread
  <2>4. CASE EndFlush(w) \/ ClearRunning(w) \/ WakeWorker(w) \/ JoinWorker(w)
    BY <1>2, <2>4, EndFlushBounded, ClearRunningBounded, WakeWorkerBounded,
       JoinWorkerBounded
       DEF CallerThread
  <2> QED BY <1>2, <2>1, <2>2, <2>3, <2>4 DEF CallerThread, WriterCaller
<1>3. CASE WorkerThread(w)
  <2>1. CASE WorkerCheck(w) \/ WorkerSleep(w) \/ WorkerDone(w)
    BY <1>3, <2>1, WorkerCheckBounded, WorkerSleepBounded, WorkerDoneBounded
       DEF WorkerThread
  <2>2. CASE WorkerPush(w)
    BY <1>1, <1>3, <2>2, ClaimBounded, CheckSpaceBounded, SleepBounded, PushBounded,
       LockForNotifyBounded, NotifyBounded DEF WorkerThread, WorkerPush
  <2> QED BY <1>3, <2>1, <2>2 DEF WorkerThread, WriterWorker
<1> QED BY <1>2, <1>3

(* The threads of a RecordWriterZC.                                         *)
LEMMA ZCWriterThreadsBounded ==
  ASSUME Bounded, NEW w \in ZCWriters, ZCCallerThread(w) \/ ZCStopThread(w)
  PROVE  Bounded'
<1>1. w \in Producers
  BY Constants
<1>2. CASE ZCCallerThread(w)
  <2>1. CASE \E n \in 1 .. WriterBatch : ZCNextBatch(w, n)
    BY <1>2, <2>1, ZCNextBatchBounded DEF ZCCallerThread
  <2>2. CASE \E k \in 1 .. WriterBatch, kind \in {"batch", "record"} : ZCCommit(w, k, kind)
    BY <1>2, <2>2, ZCCommitBounded DEF ZCCallerThread
  <2>3. CASE ZCPush(w)
    BY <1>1, <1>2, <2>3, ClaimBounded, CheckSpaceBounded, SleepBounded, PushBounded,
       LockForNotifyBounded, NotifyBounded DEF ZCCallerThread, ZCPush
  <2>4. CASE ZCAbort(w) \/ ZCDone(w)
    BY <1>2, <2>4, ZCAbortBounded, ZCDoneBounded DEF ZCCallerThread
  <2> QED BY <1>2, <2>1, <2>2, <2>3, <2>4 DEF ZCCallerThread, WriterZCCaller
<1>3. CASE ZCStopThread(w)
  BY <1>3, ZCStopBounded, ZCStopNotifyBounded DEF ZCStopThread, WriterZCStopper
<1> QED BY <1>2, <1>3

(* Joining and leaving the registry.                                        *)
LEMMA MembershipBounded ==
  ASSUME Bounded, NEW c \in Clients, Membership(c), UNCHANGED <<readerVars, zcVars>>,
         WritersKeep
  PROVE  Bounded'
  BY RegisterBounded, DestroyEndedBounded, UnregisterBounded, UnregisterNotifyBounded
     DEF Membership

(* The threads of a RecordReader.                                           *)
LEMMA ReaderThreadsBounded ==
  ASSUME Bounded, NEW r \in Readers, CopierThread(r) \/ UserThread(r) \/ OwnerThread(r)
  PROVE  Bounded'
<1>1. r \in Clients
  BY Constants
<1>2. CASE CopierThread(r)
  BY <1>2, WaitForDataBounded, SleepForDataBounded, TakeSnapshotBounded, CopyRecordsBounded,
     AdvanceCursorBounded, NotifySpaceBounded, OfferBatchBounded DEF CopierThread, Copier
<1>3. CASE UserThread(r)
  BY <1>3, TakeFromActiveBounded, BeginNextBatchBounded, SwapActiveBounded
     DEF UserThread, ReaderUser
<1>4. CASE OwnerThread(r)
  <2>1. CASE ReaderControl(r)
    BY <1>4, <2>1, StopBounded, StopNotifyBounded, FinishBounded, JoinCopierBounded
       DEF OwnerThread, ReaderControl
  <2>2. CASE (Place(r) \/ Membership(r)) /\ UNCHANGED readerVars
    BY <1>1, <1>4, <2>2, PlaceBounded, MembershipBounded DEF OwnerThread
  <2> QED BY <1>4, <2>1, <2>2 DEF OwnerThread
<1> QED BY <1>2, <1>3, <1>4

(* The threads of a RecordReaderZC.                                         *)
LEMMA ZCReaderThreadsBounded ==
  ASSUME Bounded, NEW z \in ZCReaders, ZCUserThread(z) \/ ZCOwnerThread(z)
  PROVE  Bounded'
<1>1. z \in Clients
  BY Constants
<1>2. CASE ZCUserThread(z)
  BY <1>2, ReleaseBounded, ReleaseNotifyBounded, ZCWaitBounded, ZCSleepBounded,
     FetchBounded,
     SkipOverrunBounded, SkipNotifyBounded, RefetchBounded, ReadBatchBounded
     DEF ZCUserThread, ReaderZCUser
<1>3. CASE ZCOwnerThread(z)
  <2>1. CASE ReaderZCControl(z)
    BY <1>3, <2>1, ZCStopReaderBounded, ZCFinishBounded, ZCEndNotifyBounded
       DEF ZCOwnerThread, ReaderZCControl
  <2>2. CASE ZCPlace(z)
    BY <1>3, <2>2, ZCPlaceBounded DEF ZCOwnerThread
  <2>3. CASE Membership(z) /\ UNCHANGED zcVars
    BY <1>1, <1>3, <2>3, MembershipBounded DEF ZCOwnerThread
  <2> QED BY <1>3, <2>1, <2>2, <2>3 DEF ZCOwnerThread
<1> QED BY <1>2, <1>3

(* Every initial state is bounded.                                          *)
LEMMA InitBounded == Init => Bounded
<1> SUFFICES ASSUME Init PROVE Bounded
  OBVIOUS
<1> USE Constants DEF Init
<1>1. BufferTypeOK
  <2>1. NoRecord \in Cell
    BY DEF Cell
  <2>2. ring \in RingOf(Capacity, Cell)
    BY <2>1, NewRingType DEF InitBuffer
  <2>3. history \in Seq(Records)
    BY DEF InitBuffer
  <2> QED BY <2>2, <2>3 DEF InitBuffer, BufferTypeOK, CvState
<1>2. WriterTypeOK
  BY DEF InitWriterBase, InitWriter, InitWriterZC, WriterTypeOK, PushPc
<1>3. ReaderTypeOK
  <2>1. /\ buf \in [Readers -> [{0, 1} -> [1 .. ReaderBatch -> Cell]]]
        /\ bgBuf \in [Readers -> {0, 1}]
    BY DEF InitReader, Cell
  <2> QED BY <2>1 DEF InitReaderBase, InitReader, InitReaderZC, ReaderTypeOK, Life
<1>4. PositionsInRange
  <2>1. ring.size = MinOf(totalWritten, Capacity)
    BY DEF InitBuffer, NewRing, MinOf
  <2>2. \A w \in Writers : Len(active[w]) + granted[w] <= WriterBatch
    BY DEF InitWriter, InitWriterBase
  <2> QED BY <2>1, <2>2
          DEF InitBuffer, InitReaderBase, InitReader, InitReaderZC, PositionsInRange
<1> QED BY <1>1, <1>2, <1>3, <1>4 DEF Bounded, TypeOK

(* Every step keeps the invariant.                                          *)
LEMMA NextBounded == Bounded /\ [Next]_vars => Bounded'
<1> SUFFICES ASSUME Bounded, [Next]_vars PROVE Bounded'
  OBVIOUS
<1>1. CASE Next
  BY <1>1, WriterThreadsBounded, ZCWriterThreadsBounded, ReaderThreadsBounded,
     ZCReaderThreadsBounded DEF Next
<1>2. CASE UNCHANGED vars
  BY <1>2 DEF vars, Bounded, TypeOK, BufferTypeOK, WriterTypeOK, ReaderTypeOK,
     PositionsInRange
<1> QED BY <1>1, <1>2

(* The inductive invariant holds throughout.                                *)
LEMMA AlwaysBounded == Spec => []Bounded
  BY InitBounded, NextBounded, PTL DEF Spec

(* Every variable of the data path keeps its type: no counter goes below    *)
(* zero, no index leaves its buffer, no batch outgrows its capacity.        *)
THEOREM TypeCorrect == Spec => []TypeOK
<1>1. Bounded => TypeOK
  BY DEF Bounded
<1> QED BY <1>1, AlwaysBounded, PTL

(* The cursors, snapshots and pinned ends of all readers stay within what   *)
(* has been written: no unsigned difference in RecBuffer.cpp or in a        *)
(* reader can wrap.                                                         *)
THEOREM IndexArithmeticSafe == Spec => []PositionsInRange
<1>1. Bounded => PositionsInRange
  BY DEF Bounded
<1> QED BY <1>1, AlwaysBounded, PTL
=============================================================================
