---------------------------- MODULE ContentProofs ---------------------------
(***************************************************************************)
(* Which records the ring, the copies and the pinned batches hold, for     *)
(* every capacity, batch size and set of writers and readers.              *)
(*                                                                         *)
(* HistoryInRing says what the ring holds: the end of the history.  From   *)
(* it follows what a reader copies (CopiesAreFaithful) and what a batch    *)
(* pinned in the ring shows as long as it is pinned.  The places a reader  *)
(* keeps its records in (the batch being copied, the background buffer,    *)
(* the active buffer, its user) are one flow, so that none is lost or      *)
(* given out twice; FinishDrains follows from where the flow ends.  The    *)
(* records of a writer are numbered, hence distinct; with that, and with   *)
(* the flow, every step maps to a step of RecordStream or to a stutter.    *)
(***************************************************************************)
EXTENDS CoordinationProofs

USE DEF bufferVars, writerBaseVars, loopVars, writerVars, readerBaseVars, readerVars, zcVars

(* The survivors, position by position. *)
LEMMA SurvivorsPointwise ==
  ASSUME NEW S, NEW s \in Seq(S), NEW n \in Nat, NEW a \in Nat, Len(s) = a,
         NEW m \in Nat, MinOf(a, n) = m
  PROVE  /\ Survivors(s, n) \in Seq(S) /\ Len(Survivors(s, n)) = m
         /\ \A i \in 1 .. m : Survivors(s, n)[i] = s[a - m + i]
<1>1. Survivors(s, n) \in Seq(S) /\ Len(Survivors(s, n)) = MinOf(Len(s), n)
  BY SurvivorsType
<1>2. \A i \in 1 .. MinOf(Len(s), n) : Survivors(s, n)[i] = s[Len(s) - MinOf(Len(s), n) + i]
  BY SurvivorsAre
<1> QED BY <1>1, <1>2

LEMMA ConcatenationPointwise ==
  ASSUME NEW S, NEW s \in Seq(S), NEW t \in Seq(S)
  PROVE  /\ s \o t \in Seq(S) /\ Len(s \o t) = Len(s) + Len(t)
         /\ \A i \in 1 .. Len(s) : (s \o t)[i] = s[i]
         /\ \A i \in Len(s) + 1 .. Len(s) + Len(t) : (s \o t)[i] = t[i - Len(s)]
  OBVIOUS

LEMMA RunPointwise ==
  ASSUME NEW S, NEW s \in Seq(S), NEW a \in Nat, NEW n \in Nat, a + n <= Len(s)
  PROVE  /\ SubSeq(s, a + 1, a + n) \in Seq(S) /\ Len(SubSeq(s, a + 1, a + n)) = n
         /\ \A i \in 1 .. n : SubSeq(s, a + 1, a + n)[i] = s[a + i]
  OBVIOUS

(* Dropping what is over after each append is dropping it once at the end. *)
LEMMA SurvivorsAppend ==
  ASSUME NEW S, NEW h \in Seq(S), NEW s \in Seq(S), NEW n \in Nat
  PROVE  Survivors(Survivors(h, n) \o s, n) = Survivors(h \o s, n)
<1>1. PICK a \in Nat, b \in Nat, m \in 0 .. n, k \in 0 .. n :
           /\ a = Len(h) /\ b = Len(s) /\ m = MinOf(a, n) /\ k = MinOf(a + b, n)
  BY DEF MinOf
<1>m. m = MinOf(a, n) /\ k = MinOf(a + b, n)
  BY <1>1
<1> DEFINE q == Survivors(h, n)
           x == q \o s
           y == h \o s
<1> HIDE DEF q
<1>2. /\ q \in Seq(S) /\ Len(q) = m
      /\ \A i \in 1 .. m : q[i] = h[a - m + i]
  BY <1>1, SurvivorsPointwise DEF q
<1>3. /\ x \in Seq(S) /\ Len(x) = m + b
      /\ \A i \in 1 .. m : x[i] = h[a - m + i]
      /\ \A i \in m + 1 .. m + b : x[i] = s[i - m]
  <2>1. /\ x \in Seq(S) /\ Len(x) = m + b
        /\ \A i \in 1 .. m : x[i] = q[i]
        /\ \A i \in m + 1 .. m + b : x[i] = s[i - m]
    <3>1. m \in Nat /\ Len(s) = b /\ Len(q) = m
      BY <1>1, <1>2
    <3>q. q \in Seq(S)
      BY <1>2
    <3>2. /\ q \o s \in Seq(S) /\ Len(q \o s) = Len(q) + Len(s)
          /\ \A i \in 1 .. Len(q) : (q \o s)[i] = q[i]
          /\ \A i \in Len(q) + 1 .. Len(q) + Len(s) : (q \o s)[i] = s[i - Len(q)]
      BY <3>q, ConcatenationPointwise
    <3> QED BY <3>1, <3>2
  <2> QED BY <1>2, <2>1
<1>4. /\ y \in Seq(S) /\ Len(y) = a + b /\ a + b \in Nat
      /\ \A i \in 1 .. a : y[i] = h[i]
      /\ \A i \in a + 1 .. a + b : y[i] = s[i - a]
  BY <1>1, ConcatenationPointwise
<1> HIDE DEF x, y
<1>5. MinOf(m + b, n) = k /\ k <= m + b /\ m + b \in Nat /\ a + b \in Nat /\ m <= a
      /\ MinOf(a + b, n) = k /\ k \in Nat
  BY <1>m DEF MinOf
<1>6. /\ Survivors(x, n) \in Seq(S) /\ Len(Survivors(x, n)) = k
      /\ \A i \in 1 .. k : Survivors(x, n)[i] = x[m + b - k + i]
  BY <1>3, <1>5, SurvivorsPointwise
<1>7. /\ Survivors(y, n) \in Seq(S) /\ Len(Survivors(y, n)) = k
      /\ \A i \in 1 .. k : Survivors(y, n)[i] = y[a + b - k + i]
  BY <1>4, <1>5, SurvivorsPointwise
<1>8. ASSUME NEW i \in 1 .. k
      PROVE  x[m + b - k + i] = y[a + b - k + i]
  <2>1. PICK j \in 1 .. m + b : j = m + b - k + i
    BY <1>5
  <2>2. CASE j <= m
    <3>1. j \in 1 .. m /\ a - m + j \in 1 .. a /\ a - m + j = a + b - k + i
      BY <1>5, <2>1, <2>2
    <3>2. x[j] = h[a - m + j] /\ y[a - m + j] = h[a - m + j]
      BY <3>1, <1>3, <1>4
    <3> QED BY <2>1, <3>1, <3>2
  <2>3. CASE j > m
    <3>1. PICK g \in a + 1 .. a + b :
              g = a + b - k + i /\ g - a = j - m /\ j \in m + 1 .. m + b
      <4>1. a + b - k + i \in a + 1 .. a + b
        BY <1>5, <2>1, <2>3
      <4> QED BY <4>1, <1>5, <2>1, <2>3
    <3>2. x[j] = s[j - m] /\ y[g] = s[g - a]
      BY <3>1, <1>3, <1>4
    <3> QED BY <2>1, <3>1, <3>2
  <2> QED BY <2>1, <2>2, <2>3
<1>9. \A i \in 1 .. k : Survivors(x, n)[i] = Survivors(y, n)[i]
  BY <1>6, <1>7, <1>8
<1> QED BY <1>6, <1>7, <1>9 DEF q, x, y
-----------------------------------------------------------------------------
(* The ring holds the end of what was ever pushed. *)
HistoryInRing ==
  /\ Len(history) = totalWritten
  /\ Contents(ring) = Survivors(history, Capacity)

(* push() keeps it so, for a batch of any length. *)
LEMMA PushKeepsHistory ==
  ASSUME Bounded, HistoryInRing, NEW recs \in Seq(Records), PushRecords(recs)
  PROVE  HistoryInRing'
<1>1. /\ ring \in RingOf(Capacity, Cell) /\ history \in Seq(Cell) /\ recs \in Seq(Cell)
      /\ history \in Seq(Records) /\ Capacity \in Nat \ {0} /\ Capacity \in Nat
  BY Constants DEF Bounded, TypeOK, BufferTypeOK, Cell
<1>2. ring' = PushMany(ring, recs) /\ history' = history \o recs
      /\ totalWritten' = totalWritten + Len(recs)
  BY DEF PushRecords
<1>3. Contents(PushMany(ring, recs)) = Survivors(Contents(ring) \o recs, Capacity)
  BY <1>1, PushManyContents
<1>4. Survivors(Survivors(history, Capacity) \o recs, Capacity)
        = Survivors(history \o recs, Capacity)
  BY <1>1, SurvivorsAppend
<1>5. Len(history \o recs) = Len(history) + Len(recs)
  BY <1>1
<1> QED BY <1>2, <1>3, <1>4, <1>5 DEF HistoryInRing

(* Nothing else touches the ring. *)
LEMMA OnlyPushWrites ==
  ASSUME [Next]_vars
  PROVE  \/ \E p \in Producers : Push(p) /\ ReadersKeep
         \/ UNCHANGED <<ring, totalWritten, history>>
<1>1. CASE \/ \E w \in Writers : CallerThread(w) \/ WorkerThread(w)
           \/ \E w \in ZCWriters : ZCCallerThread(w) \/ ZCStopThread(w)
  BY <1>1, Constants
     DEF CallerThread, WorkerThread, ZCCallerThread, ZCStopThread,
         WriterCaller, WriterWorker, WriterZCCaller, WriterZCStopper,
         NextBatch, CommitBatch, BeginFlush, EndFlush, ClearRunning, WakeWorker, JoinWorker,
         WorkerCheck, WorkerSleep, WorkerPush, WorkerDone,
         ZCNextBatch, ZCCommit, ZCPush, ZCAbort, ZCDone, ZCStop, ZCStopNotify,
         Claim, CheckSpace, Sleep, LockForNotify, Notify
<1>2. CASE \E r \in Readers : CopierThread(r) \/ UserThread(r) \/ OwnerThread(r)
  BY <1>2, SMTT(20)
     DEF CopierThread, UserThread, OwnerThread, Copier, ReaderUser, ReaderControl,
     Membership, WaitForData, SleepForData, TakeSnapshot, CopyRecords, AdvanceCursor,
     NotifySpace, OfferBatch, TakeFromActive, BeginNextBatch, SwapActive, Stop, StopNotify,
     Finish, JoinCopier, Place, Register, DestroyEnded, Unregister, UnregisterNotify
<1>3. CASE \E z \in ZCReaders : ZCUserThread(z) \/ ZCOwnerThread(z)
  BY <1>3 DEF ZCUserThread, ZCOwnerThread, ReaderZCUser, ReaderZCControl, Membership,
     Release, ReleaseNotify, ZCWait, ZCSleep, Fetch, Pin, SkipOverrun, SkipNotify, Refetch,
     ReadBatch, ZCStopReader, ZCFinish, ZCEndNotify, ZCPlace, Place, Register, DestroyEnded,
     Unregister, UnregisterNotify
<1>4. CASE UNCHANGED vars
  BY <1>4 DEF vars
<1> QED BY <1>1, <1>2, <1>3, <1>4 DEF Next

(* At the start the ring and the history are empty. *)
LEMMA InitHistory == Init => HistoryInRing
<1> SUFFICES ASSUME Init PROVE HistoryInRing
  OBVIOUS
<1>1. ring = NewRing(Capacity, NoRecord) /\ history = <<>> /\ totalWritten = 0
  BY DEF Init, InitBuffer
<1>2. Contents(ring) \in Seq({NoRecord}) /\ Len(Contents(ring)) = 0
  <2>1. NewRing(Capacity, NoRecord) \in RingOf(Capacity, {NoRecord})
        /\ NewRing(Capacity, NoRecord).size = 0
    BY Constants, NewRingType DEF NewRing
  <2> QED BY <1>1, <2>1, Constants, ContentsType
<1>3. Survivors(history, Capacity) = <<>>
  BY <1>1, Constants DEF Survivors, MinOf
<1> QED BY <1>1, <1>2, <1>3 DEF HistoryInRing

LEMMA NextHistory ==
  ASSUME Bounded, HistoryInRing, [Next]_vars
  PROVE  HistoryInRing'
<1>1. CASE \E p \in Producers : Push(p)
  <2>1. PICK p \in Producers : PushRecords(SubSeq(todo[p], 1, ChunkSize(p)))
    BY <1>1 DEF Push
  <2>2. SubSeq(todo[p], 1, ChunkSize(p)) \in Seq(Records)
    BY ChunkType DEF Bounded
  <2> QED BY <2>1, <2>2, PushKeepsHistory
<1>2. CASE UNCHANGED <<ring, totalWritten, history>>
  BY <1>2 DEF HistoryInRing
<1> QED BY <1>1, <1>2, OnlyPushWrites

LEMMA AlwaysHistory == Spec => [](Bounded /\ HistoryInRing)
<1>1. Init => Bounded /\ HistoryInRing
  BY InitBounded, InitHistory
<1>2. Bounded /\ HistoryInRing /\ [Next]_vars => (Bounded /\ HistoryInRing)'
  BY NextBounded, NextHistory
<1> QED BY <1>1, <1>2, PTL DEF Spec

(* A reader that keeps its place finds there the records of that place: in  *)
(* the slots behind it, and in what readFromGlobal() copies from there.     *)
LEMMA RingHolds ==
  ASSUME Bounded, HistoryInRing, NEW c \in Nat, NEW n \in Nat,
         OldestCursor <= c, c + n <= totalWritten
  PROVE  /\ RelativeIndex(c) \in 0 .. Capacity
         /\ \A i \in 1 .. n : ReadFromGlobal(c, n)[i] = history[c + i]
         /\ \A i \in 1 .. n :
              ring.array[Wrap(ring.head + (RelativeIndex(c) + (i - 1)), Capacity)]
                = history[c + i]
<1>1. PICK z \in 0 .. Capacity, tw \in Nat, rel \in 0 .. Capacity, cap \in Nat \ {0} :
           /\ ring.size = z /\ totalWritten = tw /\ RelativeIndex(c) = rel /\ cap = Capacity
           /\ z = MinOf(tw, cap) /\ rel = z - (tw - c) /\ rel + n <= z
  <2>1. /\ ring.size \in 0 .. Capacity /\ totalWritten \in Nat
        /\ ring.size = MinOf(totalWritten, Capacity)
    BY Constants DEF Bounded, TypeOK, BufferTypeOK, PositionsInRange, RingOf
  <2>2. RelativeIndex(c) \in 0 .. Capacity /\ RelativeIndex(c) = ring.size - (totalWritten - c)
        /\ RelativeIndex(c) + n <= ring.size
    BY <2>1, Constants DEF RelativeIndex, Lag, OldestCursor
  <2> QED BY <2>1, <2>2, Constants
<1>2. /\ ring \in RingOf(Capacity, Cell) /\ history \in Seq(Records) /\ Capacity \in Nat \ {0}
      /\ Len(history) = tw /\ Capacity \in Nat
  BY <1>1, Constants DEF Bounded, TypeOK, BufferTypeOK, HistoryInRing
<1>3. ASSUME NEW j \in 1 .. z
      PROVE  Contents(ring)[j] = history[tw - z + j]
  <2>1. j \in 1 .. MinOf(Len(history), Capacity) /\ MinOf(Len(history), Capacity) = z
    BY <1>1, <1>2
  <2>2. Survivors(history, Capacity)[j] = history[Len(history) - MinOf(Len(history), Capacity) + j]
    BY <1>2, <2>1, SurvivorsAre
  <2> QED BY <1>2, <2>1, <2>2 DEF HistoryInRing
<1>4. /\ Contents(ring) \in Seq(Cell) /\ Len(Contents(ring)) = z
      /\ \A j \in 1 .. z : Contents(ring)[j] = ring.array[Wrap(ring.head + (j - 1), Capacity)]
  BY <1>1, <1>2, ContentsType
<1>5. ReadFromGlobal(c, n) = SubSeq(Contents(ring), rel + 1, rel + n)
  <2>1. rel \in Nat /\ rel + n <= ring.size
    BY <1>1
  <2>2. PeekManyAt(ring, rel, n) = SubSeq(Contents(ring), rel + 1, rel + n)
    BY <1>2, <2>1, PeekManyAtIs
  <2> QED BY <1>1, <2>2 DEF ReadFromGlobal
<1>6. ASSUME NEW i \in 1 .. n
      PROVE  /\ ReadFromGlobal(c, n)[i] = history[c + i]
             /\ ring.array[Wrap(ring.head + (rel + (i - 1)), Capacity)] = history[c + i]
  <2>1. PICK j \in 1 .. z : j = rel + i /\ tw - z + j = c + i /\ j - 1 = rel + (i - 1)
    <3>1. rel + i \in 1 .. z
      BY <1>1
    <3> QED BY <3>1, <1>1
  <2>2. SubSeq(Contents(ring), rel + 1, rel + n)[i] = Contents(ring)[j]
    <3>1. Contents(ring) \in Seq(Cell) /\ rel \in Nat /\ rel + n <= Len(Contents(ring))
      BY <1>1, <1>4
    <3>2. \A k \in 1 .. n : SubSeq(Contents(ring), rel + 1, rel + n)[k] = Contents(ring)[rel + k]
      BY ONLY <3>1, n \in Nat, RunPointwise
    <3> QED BY <2>1, <3>2
  <2> QED BY <1>3, <1>4, <1>5, <2>1, <2>2
<1> QED BY <1>1, <1>6
-----------------------------------------------------------------------------
(* What belongs to one RecordReader. *)
ReaderState(r) ==
  <<cursor[r], life[r], rdRunning[r], finishing[r], finishTarget[r], user[r], got[r],
    buf[r], bgBuf[r], bgCount[r], bgFull[r], activeIdx[r], activeCount[r], copier[r],
    from[r], count[r]>>

ReaderSteps(r) == CopierThread(r) \/ UserThread(r) \/ OwnerThread(r)

(* Nobody else changes it. *)
LEMMA OthersKeepReader ==
  ASSUME Bounded, [Next]_vars, NEW r \in Readers, ~ ReaderSteps(r)
  PROVE  UNCHANGED ReaderState(r)
<1>1. /\ cursor \in [Clients -> Nat] /\ life \in [Clients -> Life]
      /\ rdRunning \in [Clients -> BOOLEAN] /\ finishing \in [Clients -> BOOLEAN]
      /\ finishTarget \in [Clients -> Nat] /\ r \in Clients
      /\ DOMAIN user = Clients /\ DOMAIN got = Clients
  BY Constants DEF Bounded, TypeOK, BufferTypeOK, ReaderTypeOK
<1>2. /\ DOMAIN buf = Readers /\ DOMAIN bgBuf = Readers /\ DOMAIN bgCount = Readers
      /\ DOMAIN bgFull = Readers /\ DOMAIN activeIdx = Readers /\ DOMAIN activeCount = Readers
      /\ DOMAIN copier = Readers /\ DOMAIN from = Readers /\ DOMAIN count = Readers
  BY DEF Bounded, TypeOK, ReaderTypeOK
<1>3. CASE \/ \E w \in Writers : CallerThread(w) \/ WorkerThread(w)
           \/ \E w \in ZCWriters : ZCCallerThread(w) \/ ZCStopThread(w)
  <2>1. ReadersKeep
    BY <1>3 DEF CallerThread, WorkerThread, ZCCallerThread, ZCStopThread
  <2>2. UNCHANGED cursor
    BY <1>3 DEF CallerThread, WorkerThread, ZCCallerThread, ZCStopThread,
         WriterCaller, WriterWorker, WriterZCCaller, WriterZCStopper,
         NextBatch, CommitBatch, BeginFlush, EndFlush, ClearRunning, WakeWorker, JoinWorker,
         WorkerCheck, WorkerSleep, WorkerPush, WorkerDone,
         ZCNextBatch, ZCCommit, ZCPush, ZCAbort, ZCDone, ZCStop, ZCStopNotify,
         Claim, CheckSpace, Sleep, Push, LockForNotify, Notify
  <2> QED BY <2>1, <2>2 DEF ReadersKeep, ReaderState
<1>4. ASSUME NEW q \in Readers \ {r}, CopierThread(q)
      PROVE  UNCHANGED ReaderState(r)
  BY <1>1, <1>2, <1>4 DEF CopierThread, Copier, ReaderState, WaitForData, SleepForData,
     TakeSnapshot, CopyRecords, AdvanceCursor, NotifySpace, OfferBatch, Goto, ForgetSnapshot
<1>5. ASSUME NEW q \in Readers \ {r}, UserThread(q)
      PROVE  UNCHANGED ReaderState(r)
  BY <1>1, <1>2, <1>5 DEF UserThread, ReaderUser, ReaderState, TakeFromActive,
     BeginNextBatch, SwapActive
<1>6. ASSUME NEW q \in Readers \ {r}, OwnerThread(q)
      PROVE  UNCHANGED ReaderState(r)
  BY <1>1, <1>2, <1>6 DEF OwnerThread, ReaderControl, ReaderState, Stop, StopNotify, Finish,
     JoinCopier, Place, Membership, Register, DestroyEnded, Unregister, UnregisterNotify, SetLife
<1>7. ASSUME NEW z \in ZCReaders, ZCUserThread(z) \/ ZCOwnerThread(z)
      PROVE  UNCHANGED ReaderState(r)
  <2>1. z # r /\ z \in Clients
    BY Constants
  <2>2. UNCHANGED readerVars
    BY <1>7 DEF ZCUserThread, ZCOwnerThread
  <2>3. CASE ZCUserThread(z)
    BY <1>1, <2>1, <2>2, <2>3 DEF ZCUserThread, ReaderZCUser, ReaderState, Release,
       ReleaseNotify, ZCWait, ZCSleep, Fetch, Pin, SkipOverrun, SkipNotify, Refetch,
       ReadBatch, UserGoto
  <2>4. CASE ZCOwnerThread(z)
    BY <1>1, <2>1, <2>2, <2>4 DEF ZCOwnerThread, ReaderZCControl, ReaderState, ZCStopReader,
       ZCFinish, ZCEndNotify, ZCPlace, Place, Membership, Register, DestroyEnded,
       Unregister, UnregisterNotify, SetLife
  <2> QED BY <1>7, <2>3, <2>4
<1>8. CASE UNCHANGED vars
  BY <1>8 DEF vars, ReaderState
<1>9. CASE ReaderSteps(r)
  BY <1>9
<1> QED BY <1>3, <1>4, <1>5, <1>6, <1>7, <1>8 DEF Next, ReaderSteps
-----------------------------------------------------------------------------
(* What was pushed stays in the history. *)
HistoryKept ==
  totalWritten <= totalWritten' /\ \A i \in 1 .. totalWritten : history'[i] = history[i]

LEMMA HistoryGrows ==
  ASSUME Bounded, HistoryInRing, [Next]_vars
  PROVE  HistoryKept
<1>1. totalWritten \in Nat /\ history \in Seq(Records) /\ Len(history) = totalWritten
  BY DEF Bounded, TypeOK, BufferTypeOK, HistoryInRing
<1>2. CASE \E p \in Producers : Push(p)
  <2>1. PICK p \in Producers : Push(p)
    BY <1>2
  <2> DEFINE recs == SubSeq(todo[p], 1, ChunkSize(p))
  <2>2. recs \in Seq(Records)
    BY ChunkType DEF Bounded
  <2>3. history' = history \o recs /\ totalWritten' = totalWritten + Len(recs)
    BY <2>1 DEF Push, PushRecords
  <2> HIDE DEF recs
  <2>4. /\ Len(recs) \in Nat
        /\ \A i \in 1 .. Len(history) : (history \o recs)[i] = history[i]
    BY <1>1, <2>2, ConcatenationPointwise
  <2> QED BY <1>1, <2>3, <2>4 DEF HistoryKept
<1>3. CASE UNCHANGED <<ring, totalWritten, history>>
  BY <1>1, <1>3 DEF HistoryKept
<1> QED BY <1>2, <1>3, OnlyPushWrites

(* The background buffer of a reader starts with n records of the history,  *)
(* those after the first ones.                                              *)
Holds(r, first, n) ==
  \A i \in 1 .. n : buf[r][bgBuf[r]][i] = history[first + i]

(* While a reader runs, its worker fills the background buffer only when it *)
(* is not on offer, and what is in it ends at the cursor once that has      *)
(* moved.                                                                   *)
CopyInOrder(r) ==
  /\ life[r] \in {"new", "placed"} => ~bgFull[r]
  /\ rdRunning[r] =>
       /\ copier[r] # "wait" => ~bgFull[r]
       /\ copier[r] = "advance" => Holds(r, from[r], count[r])
       /\ copier[r] \in {"notify", "publish"} =>
            cursor[r] = from[r] + count[r] /\ Holds(r, from[r], count[r])
       /\ bgFull[r] =>
            bgCount[r] <= cursor[r] /\ Holds(r, cursor[r] - bgCount[r], bgCount[r])

CopiesInOrder == \A r \in Readers : CopyInOrder(r)

LEMMA ReaderTypes ==
  ASSUME Bounded, NEW r \in Readers
  PROVE  /\ cursor[r] \in Nat /\ cursor[r] <= totalWritten /\ totalWritten \in Nat
         /\ from[r] \in Nat /\ count[r] \in Nat /\ bgCount[r] \in Nat /\ r \in Clients
         /\ activeIdx[r] \in Nat /\ activeCount[r] \in Nat
         /\ count[r] <= ReaderBatch /\ bgCount[r] <= ReaderBatch
         /\ activeIdx[r] <= ReaderBatch /\ activeCount[r] <= ReaderBatch
         /\ bgBuf[r] \in {0, 1} /\ bgFull[r] \in BOOLEAN
         /\ buf[r] \in [{0, 1} -> [1 .. ReaderBatch -> Cell]]
         /\ copier[r] \in {"copy", "advance"} =>
              cursor[r] <= from[r] /\ from[r] + count[r] <= totalWritten
         /\ life[r] \in {"new", "placed"} => copier[r] = "wait"
<1>1. r \in Clients /\ ReaderBatch \in Nat
  BY Constants
<1> QED BY <1>1 DEF Bounded, TypeOK, BufferTypeOK, ReaderTypeOK, PositionsInRange

(* A step that leaves the reader alone. *)
LEMMA CopyFrame ==
  ASSUME Bounded, NEW r \in Readers, CopyInOrder(r), UNCHANGED ReaderState(r), HistoryKept
  PROVE  CopyInOrder(r)'
<1>1. ASSUME NEW first \in Nat, NEW n \in Nat, first + n <= totalWritten, Holds(r, first, n)
      PROVE  \A i \in 1 .. n : buf'[r][bgBuf'[r]][i] = history'[first + i]
  <2>1. \A i \in 1 .. n : first + i \in 1 .. totalWritten
    BY <1>1, ReaderTypes
  <2>2. buf'[r] = buf[r] /\ bgBuf'[r] = bgBuf[r]
    BY DEF ReaderState
  <2> QED BY <1>1, <2>1, <2>2 DEF Holds, HistoryKept
<1>2. /\ cursor'[r] = cursor[r] /\ life'[r] = life[r] /\ rdRunning'[r] = rdRunning[r]
      /\ bgCount'[r] = bgCount[r] /\ bgFull'[r] = bgFull[r] /\ copier'[r] = copier[r]
      /\ from'[r] = from[r] /\ count'[r] = count[r]
  BY DEF ReaderState
<1>3. CASE ~ rdRunning[r]
  BY <1>2, <1>3 DEF CopyInOrder
<1>4. CASE rdRunning[r]
  <2>1. copier[r] = "advance" => Holds(r, from[r], count[r])'
    <3> SUFFICES ASSUME copier[r] = "advance"
                 PROVE  Holds(r, from[r], count[r])'
      OBVIOUS
    <3>1. Holds(r, from[r], count[r]) /\ from[r] + count[r] <= totalWritten
      BY <1>4, ReaderTypes DEF CopyInOrder
    <3>2. \A i \in 1 .. count[r] : buf'[r][bgBuf'[r]][i] = history'[from[r] + i]
      BY <1>1, <3>1, ReaderTypes
    <3> QED BY <1>2, <3>2 DEF Holds
  <2>2. copier[r] \in {"notify", "publish"} =>
          cursor[r] = from[r] + count[r] /\ Holds(r, from[r], count[r])'
    <3> SUFFICES ASSUME copier[r] \in {"notify", "publish"}
                 PROVE  cursor[r] = from[r] + count[r] /\ Holds(r, from[r], count[r])'
      OBVIOUS
    <3>1. Holds(r, from[r], count[r]) /\ cursor[r] = from[r] + count[r]
          /\ from[r] + count[r] <= totalWritten
      BY <1>4, ReaderTypes DEF CopyInOrder
    <3>2. \A i \in 1 .. count[r] : buf'[r][bgBuf'[r]][i] = history'[from[r] + i]
      BY <1>1, <3>1, ReaderTypes
    <3> QED BY <1>2, <3>1, <3>2 DEF Holds
  <2>3. bgFull[r] => bgCount[r] <= cursor[r] /\ Holds(r, cursor[r] - bgCount[r], bgCount[r])'
    <3> SUFFICES ASSUME bgFull[r]
                 PROVE  bgCount[r] <= cursor[r]
                        /\ Holds(r, cursor[r] - bgCount[r], bgCount[r])'
      OBVIOUS
    <3>1. bgCount[r] <= cursor[r] /\ Holds(r, cursor[r] - bgCount[r], bgCount[r])
      BY <1>4 DEF CopyInOrder
    <3>2. cursor[r] - bgCount[r] \in Nat
          /\ cursor[r] - bgCount[r] + bgCount[r] <= totalWritten
      BY <3>1, ReaderTypes
    <3>3. \A i \in 1 .. bgCount[r] :
            buf'[r][bgBuf'[r]][i] = history'[cursor[r] - bgCount[r] + i]
      BY <1>1, <3>1, <3>2, ReaderTypes
    <3> QED BY <1>2, <3>1, <3>3 DEF Holds
  <2> QED BY <1>2, <1>4, <2>1, <2>2, <2>3 DEF CopyInOrder
<1> QED BY <1>3, <1>4

(* The worker's steps. *)
LEMMA CopierKeepsOrder ==
  ASSUME Bounded, HistoryInRing, NEW r \in Readers, CopyInOrder(r), CopierThread(r)
  PROVE  CopyInOrder(r)'
<1> USE ReaderTypes
<1>0. UNCHANGED <<history, totalWritten>>
  BY DEF CopierThread, Copier, WaitForData, SleepForData, TakeSnapshot, CopyRecords,
     AdvanceCursor, NotifySpace, OfferBatch
<1>t. /\ cursor \in [Clients -> Nat] /\ rdRunning \in [Clients -> BOOLEAN]
      /\ DOMAIN copier = Readers /\ DOMAIN from = Readers /\ DOMAIN count = Readers
      /\ DOMAIN bgCount = Readers /\ DOMAIN bgFull = Readers
      /\ buf \in [Readers -> [{0, 1} -> [1 .. ReaderBatch -> Cell]]]
  BY DEF Bounded, TypeOK, BufferTypeOK, ReaderTypeOK
<1>1. CASE WaitForData(r)
  <2>1. /\ UNCHANGED <<cursor, life, buf, bgBuf, bgCount, bgFull, from, count>>
        /\ copier[r] = "wait"
        /\ \/ copier'[r] = "exited" /\ (rdRunning'[r] => FALSE)
           \/ copier'[r] = "snapshot" /\ ~ bgFull[r] /\ UNCHANGED rdRunning
           \/ UNCHANGED <<copier, rdRunning>>
    BY <1>1, <1>t DEF WaitForData, CopierAt, Goto
  <2> QED BY <1>0, <2>1 DEF CopyInOrder, Holds
<1>2. CASE SleepForData(r)
  BY <1>0, <1>2 DEF SleepForData, CopyInOrder, Holds
<1>3. CASE TakeSnapshot(r)
  <2>1. /\ UNCHANGED <<cursor, life, rdRunning, buf, bgBuf, bgCount, bgFull>>
        /\ copier[r] = "snapshot" /\ copier'[r] = "copy"
    BY <1>3, <1>t DEF TakeSnapshot, CopierAt, Goto
  <2> QED BY <1>0, <2>1 DEF CopyInOrder, Holds
<1>4. CASE CopyRecords(r)
  <2>1. /\ UNCHANGED <<cursor, life, rdRunning, bgBuf, bgCount, bgFull>>
        /\ copier[r] = "copy"
    BY <1>4 DEF CopyRecords, CopierAt
  <2>2. CASE Readable(from[r])
    <3>1. /\ buf' = [buf EXCEPT ![r][bgBuf[r]] =
                      [i \in 1 .. ReaderBatch |->
                         IF i <= count[r] THEN ReadFromGlobal(from[r], count[r])[i] ELSE @[i]]]
          /\ copier'[r] = "advance" /\ UNCHANGED <<from, count>>
      BY <1>4, <1>t, <2>2 DEF CopyRecords, Goto
    <3>2. OldestCursor <= from[r]
      <4>1. totalWritten \in Nat /\ ring.size \in Nat /\ from[r] \in Nat
        BY Constants DEF Bounded, TypeOK, BufferTypeOK, RingOf
      <4> QED BY <4>1, <2>2 DEF Readable, Lag, OldestCursor
    <3>3. \A i \in 1 .. count[r] : ReadFromGlobal(from[r], count[r])[i] = history[from[r] + i]
      BY <2>1, <3>2, RingHolds
    <3>4. \A i \in 1 .. count[r] :
            buf'[r][bgBuf[r]][i] = ReadFromGlobal(from[r], count[r])[i]
      <4> DEFINE copied == ReadFromGlobal(from[r], count[r])
      <4> HIDE DEF copied
      <4>1. buf' = [buf EXCEPT ![r][bgBuf[r]] =
                      [i \in 1 .. ReaderBatch |-> IF i <= count[r] THEN copied[i] ELSE @[i]]]
        BY <3>1 DEF copied
      <4>2. \A i \in 1 .. ReaderBatch : i <= count[r] => buf'[r][bgBuf[r]][i] = copied[i]
        BY <1>t, <4>1
      <4>3. \A i \in 1 .. count[r] : i \in 1 .. ReaderBatch /\ i <= count[r]
        BY Constants
      <4> QED BY <4>2, <4>3 DEF copied
    <3>5. Holds(r, from[r], count[r])'
      BY <1>0, <2>1, <3>1, <3>3, <3>4 DEF Holds
    <3> QED BY <2>1, <3>1, <3>5 DEF CopyInOrder
  <2>3. CASE ~ Readable(from[r])
    <3>1. UNCHANGED buf /\ copier'[r] = "wait"
      BY <1>4, <1>t, <2>3 DEF CopyRecords, Goto
    <3> QED BY <1>0, <2>1, <3>1 DEF CopyInOrder, Holds
  <2> QED BY <2>2, <2>3
<1>5. CASE AdvanceCursor(r)
  <2>1. /\ UNCHANGED <<life, rdRunning, buf, bgBuf, bgCount, bgFull, from, count>>
        /\ copier[r] = "advance" /\ copier'[r] = "notify"
        /\ cursor'[r] = from[r] + count[r]
    BY <1>5, <1>t DEF AdvanceCursor, CopierAt, Goto
  <2> QED BY <1>0, <2>1 DEF CopyInOrder, Holds
<1>6. CASE NotifySpace(r)
  <2>1. /\ UNCHANGED <<cursor, life, rdRunning, buf, bgBuf, bgCount, bgFull, from, count>>
        /\ copier[r] = "notify" /\ copier'[r] = "publish"
    BY <1>6, <1>t DEF NotifySpace, CopierAt, Goto
  <2> QED BY <1>0, <2>1 DEF CopyInOrder, Holds
<1>7. CASE OfferBatch(r)
  <2>1. /\ UNCHANGED <<cursor, life, rdRunning, buf, bgBuf>>
        /\ copier[r] = "publish" /\ copier'[r] = "wait"
        /\ bgCount'[r] = count[r] /\ bgFull'[r] = TRUE
    BY <1>7, <1>t DEF OfferBatch, CopierAt, Goto
  <2>2. rdRunning[r] =>
          /\ cursor[r] - bgCount'[r] = from[r] /\ bgCount'[r] <= cursor[r]
          /\ Holds(r, from[r], count[r])
    BY <2>1 DEF CopyInOrder
  <2>3. rdRunning[r] => Holds(r, cursor[r] - bgCount[r], bgCount[r])'
    BY <1>0, <2>1, <2>2 DEF Holds
  <2>4. life'[r] \notin {"new", "placed"}
    BY <2>1
  <2> QED BY <2>1, <2>2, <2>3, <2>4 DEF CopyInOrder
<1> QED BY <1>1, <1>2, <1>3, <1>4, <1>5, <1>6, <1>7 DEF CopierThread, Copier

(* The steps of its user and its owner. *)
LEMMA UserKeepsCopyOrder ==
  ASSUME Bounded, NEW r \in Readers, CopyInOrder(r), UserThread(r) \/ OwnerThread(r)
  PROVE  CopyInOrder(r)'
<1> USE ReaderTypes
<1>0. UNCHANGED <<history, totalWritten, copier, from, count, buf>>
  BY DEF UserThread, OwnerThread, ReaderUser, ReaderControl, Membership, TakeFromActive,
     BeginNextBatch, SwapActive, Stop, StopNotify, Finish, JoinCopier, Place, Register,
     DestroyEnded, Unregister, UnregisterNotify
<1>t. /\ life \in [Clients -> Life] /\ rdRunning \in [Clients -> BOOLEAN]
      /\ DOMAIN bgFull = Readers
  BY DEF Bounded, TypeOK, BufferTypeOK, ReaderTypeOK
<1>1. CASE \/ BeginNextBatch(r) \/ \E n \in 1 .. ReaderBatch : TakeFromActive(r, n)
  <2>1. UNCHANGED <<cursor, life, rdRunning, bgBuf, bgCount, bgFull>>
    BY <1>1 DEF BeginNextBatch, TakeFromActive
  <2> QED BY <1>0, <2>1 DEF CopyInOrder, Holds
<1>2. CASE SwapActive(r)
  <2>1. /\ UNCHANGED <<life, rdRunning, cursor>> /\ bgFull'[r] = FALSE
        /\ bgFull[r] \/ ~rdRunning[r]
    BY <1>2, <1>t DEF SwapActive
  <2> QED BY <1>0, <2>1 DEF CopyInOrder
<1>3. CASE ReaderControl(r)
  <2>1. /\ UNCHANGED <<cursor, bgBuf, bgCount, bgFull>> /\ life'[r] \notin {"new", "placed"}
        /\ rdRunning'[r] => rdRunning[r]
    BY <1>3, <1>t DEF ReaderControl, Stop, StopNotify, Finish, JoinCopier, SetLife
  <2> QED BY <1>0, <2>1 DEF CopyInOrder, Holds
<1>4. CASE Place(r) /\ UNCHANGED readerVars
  <2>1. UNCHANGED bgFull /\ life[r] = "new"
    BY <1>4 DEF Place
  <2> QED BY <1>0, <2>1 DEF CopyInOrder
<1>5. CASE Membership(r) /\ UNCHANGED readerVars
  <2>1. /\ UNCHANGED <<cursor, rdRunning>> /\ life'[r] \notin {"new", "placed"}
    BY <1>5, <1>t DEF Membership, Register, DestroyEnded, Unregister, UnregisterNotify, SetLife
  <2> QED BY <1>0, <1>5, <2>1 DEF CopyInOrder, Holds
<1> QED BY <1>1, <1>2, <1>3, <1>4, <1>5 DEF UserThread, OwnerThread, ReaderUser

LEMMA AlwaysCopies == Spec => [](Bounded /\ HistoryInRing /\ CopiesInOrder)
<1>1. Init => CopiesInOrder
  BY Constants DEF Init, InitReader, CopiesInOrder, CopyInOrder
<1>2. Bounded /\ HistoryInRing /\ CopiesInOrder /\ [Next]_vars => CopiesInOrder'
  <2> SUFFICES ASSUME Bounded, HistoryInRing, CopiesInOrder, [Next]_vars, NEW r \in Readers
               PROVE  CopyInOrder(r)'
    BY DEF CopiesInOrder
  <2>1. CopyInOrder(r)
    BY DEF CopiesInOrder
  <2>2. CASE ReaderSteps(r)
    BY <2>1, <2>2, CopierKeepsOrder, UserKeepsCopyOrder DEF ReaderSteps
  <2>3. CASE ~ ReaderSteps(r)
    BY <2>1, <2>3, OthersKeepReader, HistoryGrows, CopyFrame
  <2> QED BY <2>2, <2>3
<1> QED BY <1>1, <1>2, AlwaysHistory, PTL DEF Spec

(* README: "no torn records".  What a running reader offers its user is the *)
(* run of records before its cursor, however many writers there are and     *)
(* however often they overran the reader.                                   *)
THEOREM NoTornRecords == Spec => []CopiesAreFaithful
<1>1. Bounded /\ HistoryInRing /\ CopiesInOrder => CopiesAreFaithful
  <2> SUFFICES ASSUME Bounded, HistoryInRing, CopiesInOrder, NEW r \in Readers,
                      bgFull[r], rdRunning[r]
               PROVE  SubSeq(buf[r][bgBuf[r]], 1, bgCount[r])
                        = SubSeq(history, cursor[r] - bgCount[r] + 1, cursor[r])
    BY DEF CopiesAreFaithful
  <2>1. PICK n \in Nat, first \in Nat : n = bgCount[r] /\ first + n = cursor[r]
    <3>1. bgCount[r] <= cursor[r] /\ bgCount[r] \in Nat /\ cursor[r] \in Nat
      BY ReaderTypes DEF CopiesInOrder, CopyInOrder
    <3>2. cursor[r] - bgCount[r] \in Nat /\ cursor[r] - bgCount[r] + bgCount[r] = cursor[r]
      BY <3>1
    <3> QED BY <3>1, <3>2
  <2>2. \A i \in 1 .. n : buf[r][bgBuf[r]][i] = history[first + i]
    <3>1. cursor[r] - bgCount[r] = first
      BY <2>1, ReaderTypes
    <3> QED BY <2>1, <3>1 DEF CopiesInOrder, CopyInOrder, Holds
  <2> DEFINE b == buf[r][bgBuf[r]]
  <2>3. /\ b \in Seq(Cell) /\ n <= Len(b)
        /\ history \in Seq(Records) /\ first + n <= Len(history)
    <3>1. b \in [1 .. ReaderBatch -> Cell] /\ n <= ReaderBatch /\ ReaderBatch \in Nat
      BY <2>1, ReaderTypes, Constants
    <3>2. history \in Seq(Records) /\ first + n <= Len(history)
      BY <2>1, ReaderTypes DEF Bounded, TypeOK, BufferTypeOK, HistoryInRing
    <3> QED BY <3>1, <3>2
  <2> HIDE DEF b
  <2>4. /\ SubSeq(b, 1, n) \in Seq(Cell) /\ Len(SubSeq(b, 1, n)) = n
        /\ \A i \in 1 .. n : SubSeq(b, 1, n)[i] = b[i]
    BY <2>3
  <2>5. /\ SubSeq(history, first + 1, first + n) \in Seq(Records)
        /\ Len(SubSeq(history, first + 1, first + n)) = n
        /\ \A i \in 1 .. n : SubSeq(history, first + 1, first + n)[i] = history[first + i]
    BY <2>3, RunPointwise
  <2>6. SubSeq(b, 1, n) = SubSeq(history, first + 1, first + n)
    BY <2>2, <2>4, <2>5 DEF b
  <2>7. cursor[r] - bgCount[r] = first /\ cursor[r] = first + n /\ bgCount[r] = n
    BY <2>1, ReaderTypes
  <2> QED BY <2>6, <2>7 DEF b
<1> QED BY <1>1, AlwaysCopies, PTL
-----------------------------------------------------------------------------
(* What belongs to one RecordReaderZC. *)
ZCState(z) ==
  <<cursor[z], life[z], rdRunning[z], finishing[z], finishTarget[z], user[z], got[z],
    pinnedEnd[z], batchSlot[z], batchCount[z]>>

ZCSteps(z) == ZCUserThread(z) \/ ZCOwnerThread(z)

LEMMA OthersKeepZCReader ==
  ASSUME Bounded, [Next]_vars, NEW z \in ZCReaders, ~ ZCSteps(z)
  PROVE  UNCHANGED ZCState(z)
<1>1. /\ DOMAIN cursor = Clients /\ DOMAIN life = Clients /\ DOMAIN rdRunning = Clients
      /\ DOMAIN finishing = Clients /\ DOMAIN finishTarget = Clients /\ z \in Clients
      /\ DOMAIN user = Clients /\ DOMAIN got = Clients
      /\ DOMAIN pinnedEnd = ZCReaders /\ DOMAIN batchSlot = ZCReaders
      /\ DOMAIN batchCount = ZCReaders
  BY Constants DEF Bounded, TypeOK, BufferTypeOK, ReaderTypeOK
<1>2. CASE \/ \E w \in Writers : CallerThread(w) \/ WorkerThread(w)
           \/ \E w \in ZCWriters : ZCCallerThread(w) \/ ZCStopThread(w)
  <2>1. ReadersKeep
    BY <1>2 DEF CallerThread, WorkerThread, ZCCallerThread, ZCStopThread
  <2>2. UNCHANGED cursor
    BY <1>2 DEF CallerThread, WorkerThread, ZCCallerThread, ZCStopThread,
         WriterCaller, WriterWorker, WriterZCCaller, WriterZCStopper,
         NextBatch, CommitBatch, BeginFlush, EndFlush, ClearRunning, WakeWorker, JoinWorker,
         WorkerCheck, WorkerSleep, WorkerPush, WorkerDone,
         ZCNextBatch, ZCCommit, ZCPush, ZCAbort, ZCDone, ZCStop, ZCStopNotify,
         Claim, CheckSpace, Sleep, Push, LockForNotify, Notify
  <2> QED BY <2>1, <2>2 DEF ReadersKeep, ZCState
<1>3. ASSUME NEW r \in Readers, CopierThread(r) \/ UserThread(r) \/ OwnerThread(r)
      PROVE  UNCHANGED ZCState(z)
  <2>1. r # z /\ r \in Clients
    BY Constants
  <2>2. UNCHANGED zcVars
    BY <1>3 DEF CopierThread, UserThread, OwnerThread
  <2>3. CASE CopierThread(r)
    BY <1>1, <2>1, <2>2, <2>3 DEF CopierThread, Copier, ZCState, WaitForData, SleepForData,
       TakeSnapshot, CopyRecords, AdvanceCursor, NotifySpace, OfferBatch
  <2>4. CASE UserThread(r)
    BY <1>1, <2>1, <2>2, <2>4 DEF UserThread, ReaderUser, ZCState, TakeFromActive,
       BeginNextBatch, SwapActive
  <2>5. CASE OwnerThread(r)
    BY <1>1, <2>1, <2>2, <2>5 DEF OwnerThread, ReaderControl, ZCState, Stop, StopNotify,
       Finish, JoinCopier, Place, Membership, Register, DestroyEnded, Unregister,
       UnregisterNotify, SetLife
  <2> QED BY <1>3, <2>3, <2>4, <2>5
<1>4. ASSUME NEW y \in ZCReaders \ {z}, ZCUserThread(y)
      PROVE  UNCHANGED ZCState(z)
  BY <1>1, <1>4 DEF ZCUserThread, ReaderZCUser, ZCState, Release, ReleaseNotify, ZCWait,
     ZCSleep, Fetch, Pin, SkipOverrun, SkipNotify, Refetch, ReadBatch, UserGoto
<1>5. ASSUME NEW y \in ZCReaders \ {z}, ZCOwnerThread(y)
      PROVE  UNCHANGED ZCState(z)
  BY <1>1, <1>5 DEF ZCOwnerThread, ReaderZCControl, ZCState, ZCStopReader, ZCFinish,
     ZCEndNotify, ZCPlace, Place, Membership, Register, DestroyEnded, Unregister,
     UnregisterNotify, SetLife
<1>6. CASE UNCHANGED vars
  BY <1>6 DEF vars, ZCState
<1> QED BY <1>2, <1>3, <1>4, <1>5, <1>6 DEF Next, ZCSteps

(* The registry changes only when a reader joins or leaves. *)
LEMMA OnlyMembersChange ==
  ASSUME [Next]_vars
  PROVE  \/ UNCHANGED clients
         \/ \E c \in Clients : Register(c) \/ Unregister(c)
<1>1. CASE \/ \E w \in Writers : CallerThread(w) \/ WorkerThread(w)
           \/ \E w \in ZCWriters : ZCCallerThread(w) \/ ZCStopThread(w)
  BY <1>1 DEF CallerThread, WorkerThread, ZCCallerThread, ZCStopThread,
       WriterCaller, WriterWorker, WriterZCCaller, WriterZCStopper,
       NextBatch, CommitBatch, BeginFlush, EndFlush, ClearRunning, WakeWorker, JoinWorker,
       WorkerCheck, WorkerSleep, WorkerPush, WorkerDone,
       ZCNextBatch, ZCCommit, ZCPush, ZCAbort, ZCDone, ZCStop, ZCStopNotify,
       Claim, CheckSpace, Sleep, Push, LockForNotify, Notify
<1>2. ASSUME NEW c \in Clients, Membership(c)
      PROVE  UNCHANGED clients \/ Register(c) \/ Unregister(c)
  BY <1>2 DEF Membership, DestroyEnded, UnregisterNotify
<1>3. CASE \E r \in Readers : CopierThread(r) \/ UserThread(r) \/ OwnerThread(r)
  <2>1. CASE \E r \in Readers : Membership(r)
    BY <1>2, <2>1, Constants
  <2>2. CASE ~ \E r \in Readers : Membership(r)
    BY <1>3, <2>2, SMTT(20) DEF CopierThread, UserThread, OwnerThread, Copier, ReaderUser,
       ReaderControl, WaitForData, SleepForData, TakeSnapshot, CopyRecords, AdvanceCursor,
       NotifySpace, OfferBatch, TakeFromActive, BeginNextBatch, SwapActive, Stop, StopNotify,
       Finish, JoinCopier, Place
  <2> QED BY <2>1, <2>2
<1>4. CASE \E z \in ZCReaders : ZCUserThread(z) \/ ZCOwnerThread(z)
  <2>1. CASE \E z \in ZCReaders : Membership(z)
    BY <1>2, <2>1, Constants
  <2>2. CASE ~ \E z \in ZCReaders : Membership(z)
    BY <1>4, <2>2 DEF ZCUserThread, ZCOwnerThread, ReaderZCUser, ReaderZCControl,
       Release, ReleaseNotify, ZCWait, ZCSleep, Fetch, Pin, SkipOverrun, SkipNotify, Refetch,
       ReadBatch, ZCStopReader, ZCFinish, ZCEndNotify, ZCPlace, Place
  <2> QED BY <2>1, <2>2
<1>5. CASE UNCHANGED vars
  BY <1>5 DEF vars
<1> QED BY <1>1, <1>3, <1>4, <1>5 DEF Next

(* Only late readers join. *)
LEMMA OnlyLateJoin ==
  ASSUME SpaceStaysFree, [Next]_vars
  PROVE  clients' \ LateClients \subseteq clients \ LateClients
<1>1. ASSUME NEW c \in Clients, Register(c)
      PROVE  clients' \ LateClients \subseteq clients \ LateClients
  <2>1. clients' = clients \cup {c} /\ life[c] = "placed"
    BY <1>1 DEF Register, AddClient
  <2>2. c \in LateClients
    BY <2>1 DEF SpaceStaysFree
  <2> QED BY <2>1, <2>2
<1>2. ASSUME NEW c \in Clients, Unregister(c)
      PROVE  clients' \ LateClients \subseteq clients \ LateClients
  BY <1>2 DEF Unregister, EraseClient
<1> QED BY <1>1, <1>2, OnlyMembersChange
-----------------------------------------------------------------------------
(* A record that is still in the ring after a push of no more than the ring *)
(* holds is still in its slot.                                              *)
LEMMA SlotsStay ==
  ASSUME Bounded, NEW recs \in Seq(Records), PushRecords(recs), Len(recs) <= Capacity,
         NEW c \in Nat, c <= totalWritten, totalWritten + Len(recs) - c <= Capacity
  PROVE  BatchSlot(c)' = BatchSlot(c)
<1>1. /\ ring \in RingOf(Capacity, Cell) /\ recs \in Seq(Cell) /\ Capacity \in Nat \ {0}
      /\ totalWritten \in Nat /\ ring.size = MinOf(totalWritten, Capacity)
  BY Constants DEF Bounded, TypeOK, BufferTypeOK, PositionsInRange, Cell
<1>2. PICK n \in Nat \ {0}, len \in Nat, tw \in Nat :
           n = Capacity /\ len = Len(recs) /\ tw = totalWritten
  BY <1>1
<1>3. PICK h \in 0 .. n - 1, z \in 0 .. n : ring.head = h /\ ring.size = z /\ ring.capacity = n
  BY <1>1, <1>2 DEF RingOf
<1>4. z = MinOf(tw, n) /\ len <= n /\ c <= tw /\ tw + len - c <= n
  BY <1>1, <1>2, <1>3
<1>5. /\ ring' = PushMany(ring, recs) /\ totalWritten' = tw + len
      /\ ring' \in RingOf(Capacity, Cell)
      /\ ring'.size = MinOf(z + len, n)
      /\ ring'.head = HeadAfterPush(ring, len)
  <2>1. ring' = PushMany(ring, recs) /\ totalWritten' = tw + len
    BY <1>2 DEF PushRecords
  <2>2. Survivors(recs, ring.capacity) = recs
    BY <1>1, <1>2, <1>3, SurvivorsOfFew
  <2>3. PushMany(ring, recs).head = HeadAfterPush(ring, len)
    BY <1>2, <2>2, <1>1 DEF PushMany, RingOf
  <2>4. /\ PushMany(ring, recs) \in RingOf(Capacity, Cell)
        /\ PushMany(ring, recs).size = MinOf(ring.size + Len(recs), Capacity)
    BY <1>1, PushManyType
  <2> QED BY <1>2, <1>3, <2>1, <2>3, <2>4
<1>6. PICK h1 \in 0 .. n - 1 : h1 = ring'.head
             /\ h1 = IF z + len > n THEN Wrap(h + z + len - n, n) ELSE h
  <2>1. ring'.head \in 0 .. n - 1
    BY <1>2, <1>5 DEF RingOf
  <2>2. CASE z + len > n
    <3>1. h + z + len - n \in 0 .. 2 * n - 1
      BY <1>4, <2>2
    <3>2. (h + z + len - n) % n = Wrap(h + z + len - n, n)
      BY <3>1, ModOnce
    <3>3. ring'.head = (h + z + len - n) % n
      BY <1>3, <1>5, <2>2 DEF HeadAfterPush
    <3> QED BY <2>1, <2>2, <3>2, <3>3
  <2>3. CASE ~ (z + len > n)
    BY <1>3, <1>5, <2>1, <2>3 DEF HeadAfterPush
  <2> QED BY <2>2, <2>3
<1>7. PICK k \in 0 .. n, k1 \in 0 .. n :
             /\ k = z - (tw - c) /\ k1 = MinOf(z + len, n) - (tw + len - c)
  <2>1. z - (tw - c) \in 0 .. n /\ MinOf(z + len, n) - (tw + len - c) \in 0 .. n
    BY <1>4 DEF MinOf
  <2> QED BY <2>1
<1>8. BatchSlot(c) = Wrap(h + k, n)
  <2>1. BatchSlot(c) = SlotOf(ring, k)
    BY <1>2, <1>3, <1>7 DEF BatchSlot, RelativeIndex, Lag
  <2>2. k \in 0 .. Capacity
    BY <1>2
  <2> QED BY <1>1, <1>2, <1>3, <2>1, <2>2, SlotOnce
<1>9. BatchSlot(c)' = Wrap(h1 + k1, n)
  <2>1. BatchSlot(c)' = SlotOf(ring', k1)
    BY <1>5, <1>7 DEF BatchSlot, RelativeIndex, Lag
  <2>2. k1 \in 0 .. Capacity
    BY <1>2
  <2>3. SlotOf(ring', k1) = Wrap(ring'.head + k1, Capacity)
    BY <1>1, <1>5, <2>2, SlotOnce
  <2> QED BY <1>2, <1>6, <2>1, <2>3
<1>10. Wrap(h1 + k1, n) = Wrap(h + k, n)
  BY <1>4, <1>6, <1>7 DEF Wrap, MinOf
<1> QED BY <1>8, <1>9, <1>10
-----------------------------------------------------------------------------
(* A batch that is handed out lies in the slots of its reader's cursor, and *)
(* the writers have not passed it.                                          *)
PinnedAt(z) ==
  batchCount[z] > 0 =>
    cursor[z] + batchCount[z] <= totalWritten /\ batchSlot[z] = BatchSlot(cursor[z])

PinsInPlace == \A z \in ZCReaders \cap (clients \ LateClients) : PinnedAt(z)

LEMMA ZCTypes ==
  ASSUME Bounded, NEW z \in ZCReaders
  PROVE  /\ z \in Clients /\ cursor[z] \in Nat /\ cursor[z] <= totalWritten
         /\ totalWritten \in Nat /\ pinnedEnd[z] \in Nat /\ batchCount[z] \in Nat
         /\ batchSlot[z] \in 0 .. Capacity - 1 /\ batchCount[z] <= Capacity
         /\ batchSlot[z] + batchCount[z] <= Capacity
         /\ cursor[z] <= pinnedEnd[z] /\ pinnedEnd[z] <= totalWritten
<1>1. z \in Clients /\ Capacity \in Nat
  BY Constants
<1> QED BY <1>1 DEF Bounded, TypeOK, BufferTypeOK, ReaderTypeOK, PositionsInRange

(* A push by the only, blocking, writer leaves the pinned slots alone.      *)
LEMMA PushKeepsPin ==
  ASSUME SingleBlockingWriter, Bounded, SpaceStaysFree, SpaceStaysFree',
         NEW z \in ZCReaders, z \in clients \ LateClients, PinnedAt(z),
         UNCHANGED ZCState(z), NEW p \in Producers, Push(p)
  PROVE  PinnedAt(z)'
<1> SUFFICES ASSUME batchCount[z] > 0
             PROVE  /\ cursor[z] + batchCount[z] <= totalWritten'
                    /\ batchSlot[z] = BatchSlot(cursor[z])'
  BY DEF PinnedAt, ZCState, BatchSlot, RelativeIndex, Lag
<1>1. PICK c \in Nat, b \in Nat, tw \in Nat :
         c = cursor[z] /\ b = batchCount[z] /\ tw = totalWritten /\ c <= tw
  BY ZCTypes
<1>2. c + b <= tw /\ batchSlot[z] = BatchSlot(c)
  BY <1>1 DEF PinnedAt
<1> DEFINE recs == SubSeq(todo[p], 1, ChunkSize(p))
<1>3. /\ PushRecords(recs) /\ recs \in Seq(Records) /\ Len(recs) = ChunkSize(p)
      /\ ChunkSize(p) \in Nat /\ p \in Blocking => ChunkSize(p) <= avail[p]
  BY ChunkType DEF Push, Bounded
<1>4. p \in Blocking /\ avail[p] \in 0 .. Capacity
  BY DEF SingleBlockingWriter, Bounded, TypeOK, WriterTypeOK
<1> HIDE DEF recs
<1>5. Len(recs) \in Nat /\ Len(recs) <= Capacity /\ totalWritten' = tw + Len(recs)
  BY <1>1, <1>3, <1>4, Constants DEF PushRecords
<1>6. tw + Len(recs) - c <= Capacity
  <2>1. clients' = clients /\ cursor' = cursor
    BY DEF Push
  <2>2. totalWritten' - cursor'[z] <= Capacity
    BY <2>1 DEF SpaceStaysFree
  <2> QED BY <1>1, <1>5, <2>1, <2>2
<1>7. BatchSlot(c)' = BatchSlot(c)
  <2>1. c <= totalWritten /\ totalWritten + Len(recs) - c <= Capacity
    BY <1>1, <1>6
  <2> QED BY <1>3, <1>5, <2>1, SlotsStay
<1>8. BatchSlot(cursor[z])' = BatchSlot(c)'
  BY <1>1 DEF ZCState, BatchSlot, RelativeIndex, Lag
<1>9. cursor[z] + batchCount[z] <= totalWritten'
  BY <1>1, <1>2, <1>5
<1> QED BY <1>2, <1>7, <1>8, <1>9

(* A reader moves its pin only to records that are in the ring.             *)
LEMMA OwnStepsKeepPin ==
  ASSUME Bounded, SpaceStaysFree, NEW z \in ZCReaders, z \in clients \ LateClients,
         PinnedAt(z), ZCSteps(z)
  PROVE  PinnedAt(z)'
<1> USE ZCTypes
<1>t. /\ DOMAIN batchCount = ZCReaders /\ DOMAIN batchSlot = ZCReaders
      /\ DOMAIN cursor = Clients /\ DOMAIN user = Clients
  BY DEF Bounded, TypeOK, BufferTypeOK, ReaderTypeOK
<1>0. UNCHANGED <<ring, totalWritten>>
  BY DEF ZCSteps, ZCUserThread, ZCOwnerThread, ReaderZCUser, ReaderZCControl, Membership,
     Release, ReleaseNotify, ZCWait, ZCSleep, Fetch, Pin, SkipOverrun, SkipNotify, Refetch,
     ReadBatch, ZCStopReader, ZCFinish, ZCEndNotify, ZCPlace, Place, Register, DestroyEnded,
     Unregister, UnregisterNotify
<1>1. ASSUME cursor'[z] = cursor[z], batchSlot'[z] = batchSlot[z],
             batchCount'[z] = batchCount[z]
      PROVE  PinnedAt(z)'
  BY <1>0, <1>1 DEF PinnedAt, BatchSlot, RelativeIndex, Lag
<1>2. CASE Release(z)
  <2>1. batchCount'[z] = 0
    BY <1>2, <1>t DEF Release
  <2> QED BY <2>1 DEF PinnedAt
<1>3. ASSUME NEW n \in 1 .. ReaderBatch, Pin(z, n)
      PROVE  PinnedAt(z)'
  <2>1. /\ Readable(cursor[z]) /\ cursor' = cursor
        /\ batchSlot'[z] = BatchSlot(cursor[z])
        /\ batchCount'[z] = BatchRun(cursor[z], n)
    BY <1>3, <1>t DEF Pin
  <2>2. cursor[z] + BatchRun(cursor[z], n) <= totalWritten
    BY <2>1, BatchType
  <2>3. BatchSlot(cursor[z])' = BatchSlot(cursor[z])
    BY <1>0, <2>1 DEF BatchSlot, RelativeIndex, Lag
  <2> QED BY <1>0, <2>1, <2>2, <2>3 DEF PinnedAt
<1>4. CASE ZCUserThread(z)
  <2>1. ~ SkipOverrun(z)
    BY DEF SkipOverrun, UserAt, SpaceStaysFree
  <2>2. CASE ReleaseNotify(z) \/ ZCWait(z) \/ ZCSleep(z) \/ SkipNotify(z) \/ ReadBatch(z)
    BY <2>2, <1>1 DEF ReleaseNotify, ZCWait, ZCSleep, SkipNotify, ReadBatch
  <2>3. CASE Fetch(z) \/ Refetch(z)
    BY <2>3, <1>1, <1>3 DEF Fetch, Refetch
  <2> QED BY <1>2, <1>4, <2>1, <2>2, <2>3 DEF ZCUserThread, ReaderZCUser
<1>5. CASE ZCOwnerThread(z)
  <2>1. ~ ZCPlace(z)
    BY DEF ZCPlace, Place, SpaceStaysFree
  <2>2. UNCHANGED <<cursor, batchSlot, batchCount>>
    BY <1>5, <2>1 DEF ZCOwnerThread, ReaderZCControl, Membership, ZCStopReader, ZCFinish,
       ZCEndNotify, Register, DestroyEnded, Unregister, UnregisterNotify
  <2> QED BY <1>1, <2>2
<1> QED BY <1>4, <1>5 DEF ZCSteps

LEMMA AlwaysInPlace ==
  ASSUME SingleBlockingWriter
  PROVE  Spec => [](Bounded /\ HistoryInRing /\ SpaceStaysFree /\ PinsInPlace)
<1>1. Init => PinsInPlace
  BY Constants DEF Init, InitReaderZC, PinsInPlace, PinnedAt
<1>2. /\ Bounded /\ SpaceStaysFree /\ SpaceStaysFree' /\ PinsInPlace /\ [Next]_vars
      => PinsInPlace'
  <2> SUFFICES ASSUME Bounded, SpaceStaysFree, SpaceStaysFree', PinsInPlace, [Next]_vars,
                      NEW z \in ZCReaders, z \in (clients \ LateClients)'
               PROVE  PinnedAt(z)'
    BY DEF PinsInPlace
  <2>1. z \in clients \ LateClients /\ PinnedAt(z)
    BY OnlyLateJoin DEF PinsInPlace
  <2>2. CASE ZCSteps(z)
    BY <2>1, <2>2, OwnStepsKeepPin
  <2>3. CASE ~ ZCSteps(z)
    <3>1. UNCHANGED ZCState(z)
      BY <2>3, OthersKeepZCReader
    <3>2. CASE UNCHANGED <<ring, totalWritten, history>>
      BY <2>1, <3>1, <3>2 DEF ZCState, PinnedAt, BatchSlot, RelativeIndex, Lag
    <3> QED BY <2>1, <3>1, <3>2, OnlyPushWrites, PushKeepsPin
  <2> QED BY <2>2, <2>3
<1> QED BY <1>1, <1>2, AlwaysSpace, AlwaysHistory, PTL DEF Spec

(* The slots of a pinned batch hold the records of its place in the stream. *)
LEMMA PinsHold ==
  Bounded /\ HistoryInRing /\ SpaceStaysFree /\ PinsInPlace => PinnedBatchIntact
<1> SUFFICES ASSUME Bounded, HistoryInRing, SpaceStaysFree, PinsInPlace,
                    NEW z \in ZCReaders, z \in clients \ LateClients
             PROVE  BatchContent(z)
                      = SubSeq(history, cursor[z] + 1, cursor[z] + batchCount[z])
  BY DEF PinnedBatchIntact, PinnedIntact
<1>1. PICK c \in Nat, b \in Nat, slot \in Nat, cap \in Nat, tw \in Nat :
         /\ c = cursor[z] /\ b = batchCount[z] /\ slot = batchSlot[z] /\ cap = Capacity
         /\ tw = totalWritten /\ c <= tw /\ slot < cap /\ slot + b <= cap
  <2>1. /\ cursor[z] \in Nat /\ cursor[z] <= totalWritten /\ totalWritten \in Nat
        /\ batchCount[z] \in Nat /\ batchSlot[z] \in 0 .. Capacity - 1
        /\ batchSlot[z] + batchCount[z] <= Capacity
    BY ZCTypes
  <2>2. Capacity \in Nat /\ batchSlot[z] \in Nat /\ batchSlot[z] < Capacity
    BY <2>1, Constants
  <2> QED BY <2>1, <2>2
<1>2. history \in Seq(Records) /\ Len(history) = tw
  BY <1>1 DEF Bounded, TypeOK, BufferTypeOK, HistoryInRing
<1>3. CASE b = 0
  <2>1. BatchContent(z) = <<>>
    BY <1>1, <1>3 DEF BatchContent
  <2>2. SubSeq(history, c + 1, c + b) = <<>>
    BY <1>2, <1>3
  <2> QED BY <1>1, <2>1, <2>2
<1>4. CASE b > 0
  <2>1. c + b <= tw /\ slot = BatchSlot(c)
    BY <1>1, <1>4 DEF PinsInPlace, PinnedAt
  <2>2. tw - ring.size <= c
    <3>1. tw - c <= cap /\ ring.size = MinOf(tw, cap)
      BY <1>1 DEF SpaceStaysFree, Bounded, PositionsInRange
    <3> QED BY <1>1, <3>1 DEF MinOf
  <2>3. PICK h \in 0 .. cap - 1, rel \in 0 .. cap :
           /\ h = ring.head /\ rel = RelativeIndex(c)
           /\ \A i \in 1 .. b : ring.array[Wrap(h + (rel + (i - 1)), cap)] = history[c + i]
    <3>1. OldestCursor <= c /\ c + b <= totalWritten
      BY <1>1, <2>1, <2>2 DEF OldestCursor
    <3>2. ring.head \in 0 .. cap - 1
      BY <1>1 DEF Bounded, TypeOK, BufferTypeOK, RingOf
    <3> QED BY <1>1, <3>1, <3>2, RingHolds
  <2>4. slot = Wrap(h + rel, cap)
    <3>1. SlotOf(ring, rel) = Wrap(ring.head + rel, Capacity)
      BY <1>1, <2>3, SlotOnce, Constants DEF Bounded, TypeOK, BufferTypeOK
    <3> QED BY <1>1, <2>1, <2>3, <3>1 DEF BatchSlot
  <2>5. ASSUME NEW i \in 1 .. b
        PROVE  ring.array[slot + i - 1] = history[c + i]
    <3>1. Wrap(h + (rel + (i - 1)), cap) = slot + i - 1
      BY <1>1, <2>4 DEF Wrap
    <3> QED BY <2>3, <3>1
  <2>6. BatchContent(z) = [i \in 1 .. b |-> history[c + i]]
    BY <1>1, <2>5 DEF BatchContent
  <2>7. SubSeq(history, c + 1, c + b) = [i \in 1 .. b |-> history[c + i]]
    <3>1. /\ SubSeq(history, c + 1, c + b) \in Seq(Records)
          /\ Len(SubSeq(history, c + 1, c + b)) = b
          /\ \A i \in 1 .. b : SubSeq(history, c + 1, c + b)[i] = history[c + i]
      BY <1>2, <2>1, RunPointwise
    <3> QED BY <3>1
  <2> QED BY <1>1, <2>6, <2>7
<1> QED BY <1>1, <1>3, <1>4

(* RecordReaderZC.h:20-31, for readers there from the start: the memory of  *)
(* a batch that was handed out holds the same records until it is released, *)
(* whatever a single blocking writer pushes in the meantime.                *)
THEOREM PinnedMemoryIsSafe ==
  ASSUME SingleBlockingWriter
  PROVE  Spec => []PinnedBatchIntact
  BY PinsHold, AlwaysInPlace, PTL
-----------------------------------------------------------------------------
(* A reader is in the registry from its construction until its destructor   *)
(* leaves it, and no call of nextBatch() is under way while it is destroyed.*)
InUse(c) ==
  /\ life[c] \notin {"new", "placed", "erased", "gone"} => c \in clients
  /\ user[c] # "idle" => Usable(c)

ClientsInUse == \A c \in Clients : InUse(c)

LEMMA OwnStepsKeepInUse ==
  ASSUME Bounded, [Next]_vars, NEW c \in Clients, InUse(c),
         \/ c \in Readers /\ ReaderSteps(c)
         \/ c \in ZCReaders /\ ZCSteps(c)
  PROVE  InUse(c)'
<1>t. /\ life \in [Clients -> Life] /\ DOMAIN user = Clients
      /\ c \in Readers => c \notin ZCReaders
  BY Constants DEF Bounded, TypeOK, ReaderTypeOK
<1>1. CASE Register(c)
  BY <1>1, <1>t DEF Register, AddClient, SetLife, InUse, Usable
<1>2. CASE Unregister(c)
  BY <1>2, <1>t DEF Unregister, SetLife, InUse, Usable
<1>3. ASSUME ~ Register(c), ~ Unregister(c),
             \/ UNCHANGED <<life, user>>
             \/ life' = life /\ user'[c] = "idle"
             \/ life' = life /\ (Usable(c) \/ user[c] # "idle")
             \/ user' = user /\ life[c] = "new" /\ life'[c] = "placed"
             \/ user' = user /\ Usable(c) /\ life'[c] \in {"stopping", "finishing", "joining", "ended"}
             \/ /\ user' = user /\ user[c] = "idle"
                /\ life[c] \notin {"new", "placed", "erased", "gone"}
             \/ /\ user' = user /\ life[c] \in {"closing", "closeJoin", "erased"}
                /\ life'[c] = IF life[c] = "closing" THEN "closeJoin"
                              ELSE IF life[c] = "erased" THEN "gone" ELSE "erasing"
             \/ user' = user /\ life[c] = "closing" /\ life'[c] = "erasing"
      PROVE  InUse(c)'
  <2>1. c \in clients => c \in clients'
    <3>1. ASSUME NEW d \in Clients, Register(d) \/ Unregister(d)
          PROVE  c \in clients => c \in clients'
      BY <1>3, <3>1 DEF Register, AddClient, Unregister, EraseClient
    <3> QED BY <3>1, OnlyMembersChange
  <2> QED BY <1>3, <2>1, <1>t DEF InUse, Usable
<1>4. CASE c \in Readers /\ ReaderSteps(c) /\ ~ Register(c) /\ ~ Unregister(c)
  <2>1. CASE CopierThread(c)
    BY <1>3, <1>4, <2>1 DEF CopierThread, Copier, WaitForData, SleepForData, TakeSnapshot,
       CopyRecords, AdvanceCursor, NotifySpace, OfferBatch
  <2>2. CASE UserThread(c)
    BY <1>3, <1>4, <2>2, <1>t DEF UserThread, ReaderUser, TakeFromActive, BeginNextBatch,
       SwapActive
  <2>3. CASE OwnerThread(c)
    <3>1. CASE \E goal \in {"stopping", "closing"} : Stop(c, goal)
      BY <1>3, <1>4, <3>1, <1>t DEF Stop, MayEnd, SetLife, Usable
    <3>2. CASE StopNotify(c)
      BY <1>3, <1>4, <3>2, <1>t DEF StopNotify, SetLife, Usable
    <3>3. CASE Finish(c)
      BY <1>3, <1>4, <3>3, <1>t DEF Finish, MayEnd, SetLife, Usable
    <3>4. CASE JoinCopier(c)
      BY <1>3, <1>4, <3>4, <1>t DEF JoinCopier, SetLife, Usable
    <3>5. CASE Place(c)
      BY <1>3, <1>4, <3>5, <1>t DEF Place, SetLife
    <3>6. CASE DestroyEnded(c) \/ UnregisterNotify(c)
      BY <1>3, <1>4, <3>6, <1>t DEF DestroyEnded, UnregisterNotify, SetLife
    <3> QED BY <1>4, <2>3, <3>1, <3>2, <3>3, <3>4, <3>5, <3>6 DEF OwnerThread, ReaderControl,
               Membership
  <2> QED BY <1>4, <2>1, <2>2, <2>3 DEF ReaderSteps
<1>5. CASE c \in ZCReaders /\ ZCSteps(c) /\ ~ Register(c) /\ ~ Unregister(c)
  <2>1. CASE ZCUserThread(c)
    BY <1>3, <1>5, <2>1, <1>t DEF ZCUserThread, ReaderZCUser, Release, ReleaseNotify, ZCWait,
       ZCSleep, Fetch, Pin, SkipOverrun, SkipNotify, Refetch, ReadBatch, UserGoto, UserAt
  <2>2. CASE ZCOwnerThread(c)
    <3>1. CASE \E goal \in {"stopping", "closing"} : ZCStopReader(c, goal)
      BY <1>3, <1>5, <3>1, <1>t DEF ZCStopReader, MayEnd, SetLife, Usable
    <3>2. CASE ZCEndNotify(c)
      BY <1>3, <1>5, <3>2, <1>t DEF ZCEndNotify, SetLife, Usable
    <3>3. CASE ZCFinish(c)
      BY <1>3, <1>5, <3>3, <1>t DEF ZCFinish, MayEnd, SetLife, Usable
    <3>5. CASE ZCPlace(c)
      BY <1>3, <1>5, <3>5, <1>t DEF ZCPlace, Place, SetLife
    <3>6. CASE DestroyEnded(c) \/ UnregisterNotify(c)
      BY <1>3, <1>5, <3>6, <1>t DEF DestroyEnded, UnregisterNotify, SetLife
    <3> QED BY <1>5, <2>2, <3>1, <3>2, <3>3, <3>5, <3>6 DEF ZCOwnerThread, ReaderZCControl,
               Membership
  <2> QED BY <1>5, <2>1, <2>2 DEF ZCSteps
<1> QED BY <1>1, <1>2, <1>4, <1>5

LEMMA AlwaysInUse == Spec => [](Bounded /\ ClientsInUse)
<1>1. Init => ClientsInUse
  BY Constants DEF Init, InitBuffer, InitReaderBase, ClientsInUse, InUse
<1>2. Bounded /\ ClientsInUse /\ [Next]_vars => ClientsInUse'
  <2> SUFFICES ASSUME Bounded, ClientsInUse, [Next]_vars, NEW c \in Clients PROVE InUse(c)'
    BY DEF ClientsInUse
  <2>1. InUse(c)
    BY DEF ClientsInUse
  <2>2. CASE \/ c \in Readers /\ ReaderSteps(c)
             \/ c \in ZCReaders /\ ZCSteps(c)
    BY <2>1, <2>2, OwnStepsKeepInUse
  <2>3. CASE ~ (\/ c \in Readers /\ ReaderSteps(c)
                \/ c \in ZCReaders /\ ZCSteps(c))
    <3>1. life'[c] = life[c] /\ user'[c] = user[c]
      BY <2>3, OthersKeepReader, OthersKeepZCReader, StreamAssumption DEF ReaderState, ZCState
    <3>2. ~ Unregister(c)
      <4>1. ASSUME Unregister(c) PROVE FALSE
        <5>1. life'[c] = "erased" /\ life[c] = "erasing"
          BY <4>1 DEF Unregister, SetLife, Bounded, TypeOK, ReaderTypeOK
        <5> QED BY <3>1, <5>1
      <4> QED BY <4>1
    <3>3. c \in clients => c \in clients'
      <4>1. ASSUME NEW d \in Clients, Register(d) \/ Unregister(d)
            PROVE  c \in clients => c \in clients'
        BY <3>2, <4>1 DEF Register, AddClient, Unregister, EraseClient
      <4> QED BY <4>1, OnlyMembersChange
    <3> QED BY <2>1, <3>1, <3>3 DEF InUse, Usable
  <2> QED BY <2>2, <2>3
<1> QED BY <1>1, <1>2, AlwaysBounded, NextBounded, PTL DEF Spec
-----------------------------------------------------------------------------
(* Where a RecordReader is in its life, and what that says of its worker and*)
(* its two buffers.  A reader that has been finished and has ended has      *)
(* nothing left in the background buffer.                                   *)
BuffersInPhase(r) ==
  /\ activeIdx[r] <= activeCount[r]
  /\ ~bgFull[r] => bgCount[r] = 0
  /\ user[r] = "waiting" => activeIdx[r] = activeCount[r]
  /\ life[r] = "new" => got[r] = <<>> /\ activeCount[r] = 0 /\ ~bgFull[r]

LifeInPhase(r) ==
  /\ copier[r] = "exited" => ~rdRunning[r]
  /\ rdRunning[r] => life[r] \in {"placed", "live", "finishing"}
  /\ life[r] \in {"placed", "live"} => rdRunning[r]
  /\ life[r] \in {"new", "placed", "live"} => ~finishing[r]
  /\ life[r] = "finishing" => finishing[r]
  /\ finishing[r] /\ ~rdRunning[r] =>
       copier[r] = "exited" /\ ~bgFull[r] /\ cursor[r] >= finishTarget[r]
  /\ "stop" \notin Controls[r] =>
       life[r] \notin {"stopping", "joining"} /\ (life[r] = "ended" => finishing[r])

InPhase(r) == BuffersInPhase(r) /\ LifeInPhase(r)

ReadersInPhase == \A r \in Readers : InPhase(r)

LEMMA OwnStepsKeepBuffers ==
  ASSUME Bounded, NEW r \in Readers, BuffersInPhase(r), ReaderSteps(r)
  PROVE  BuffersInPhase(r)'
<1> USE ReaderTypes
<1>t. /\ life \in [Clients -> Life] /\ DOMAIN user = Clients /\ DOMAIN got = Clients
      /\ DOMAIN activeIdx = Readers /\ DOMAIN activeCount = Readers
      /\ DOMAIN bgCount = Readers /\ DOMAIN bgFull = Readers
  BY DEF Bounded, TypeOK, ReaderTypeOK
<1>1. CASE CopierThread(r)
  <2>1. CASE OfferBatch(r)
    <3>1. /\ UNCHANGED <<activeIdx, activeCount, user, life, got>>
          /\ bgFull'[r] = TRUE /\ copier[r] = "publish"
      BY <2>1, <1>t DEF OfferBatch, CopierAt
    <3> QED BY <3>1 DEF BuffersInPhase
  <2>2. UNCHANGED <<activeIdx, activeCount, bgCount, bgFull, user, life, got>> \/ OfferBatch(r)
    BY <1>1 DEF CopierThread, Copier, WaitForData, SleepForData, TakeSnapshot,
       CopyRecords, AdvanceCursor, NotifySpace
  <2> QED BY <2>1, <2>2 DEF BuffersInPhase
<1>2. CASE UserThread(r)
  <2>1. ASSUME NEW n \in 1 .. ReaderBatch, TakeFromActive(r, n)
        PROVE  BuffersInPhase(r)'
    <3>1. /\ UNCHANGED <<activeCount, bgCount, bgFull, life>> /\ user'[r] = "idle"
          /\ activeIdx'[r] = activeIdx[r] + MinOf(n, activeCount[r] - activeIdx[r])
          /\ life[r] # "new"
      BY <2>1, <1>t DEF TakeFromActive, Usable
    <3>2. activeIdx'[r] <= activeCount[r]
      BY <3>1, Constants DEF MinOf, BuffersInPhase
    <3> QED BY <3>1, <3>2 DEF BuffersInPhase
  <2>2. CASE BeginNextBatch(r)
    <3>1. /\ UNCHANGED <<activeIdx, activeCount, bgCount, bgFull, life, got>>
          /\ activeIdx[r] >= activeCount[r]
      BY <2>2 DEF BeginNextBatch
    <3> QED BY <3>1 DEF BuffersInPhase
  <2>3. CASE SwapActive(r)
    <3>1. /\ UNCHANGED <<life, got>> /\ user'[r] \in {"idle", "taking"} /\ user[r] = "waiting"
          /\ activeIdx'[r] = 0 /\ activeCount'[r] = bgCount[r]
          /\ bgCount'[r] = 0 /\ bgFull'[r] = FALSE
      BY <2>3, <1>t DEF SwapActive
    <3>2. life[r] # "new"
      BY <3>1 DEF Bounded, PositionsInRange
    <3> QED BY <3>1, <3>2 DEF BuffersInPhase
  <2> QED BY <1>2, <2>1, <2>2, <2>3 DEF UserThread, ReaderUser
<1>3. CASE OwnerThread(r)
  <2>1. UNCHANGED <<activeIdx, activeCount, bgCount, bgFull, user, got>> /\ life'[r] # "new"
    BY <1>3, <1>t DEF OwnerThread, ReaderControl, Stop, StopNotify, Finish, JoinCopier, Place,
       Membership, Register, DestroyEnded, Unregister, UnregisterNotify, SetLife
  <2> QED BY <2>1 DEF BuffersInPhase
<1> QED BY <1>1, <1>2, <1>3 DEF ReaderSteps

LEMMA OwnStepsKeepLife ==
  ASSUME Bounded, NEW r \in Readers, LifeInPhase(r), ReaderSteps(r)
  PROVE  LifeInPhase(r)'
<1> USE ReaderTypes
<1>t. /\ life \in [Clients -> Life] /\ rdRunning \in [Clients -> BOOLEAN]
      /\ finishing \in [Clients -> BOOLEAN] /\ DOMAIN finishTarget = Clients
      /\ DOMAIN cursor = Clients /\ DOMAIN copier = Readers /\ DOMAIN bgFull = Readers
  BY DEF Bounded, TypeOK, BufferTypeOK, ReaderTypeOK
<1>1. CASE CopierThread(r)
  <2>1. CASE WaitForData(r)
    <3>1. /\ UNCHANGED <<life, finishing, finishTarget, cursor, bgFull>>
          /\ copier[r] = "wait" /\ life[r] \notin {"new", "placed"}
          /\ \/ ~rdRunning[r] /\ copier'[r] = "exited" /\ UNCHANGED rdRunning
             \/ /\ rdRunning[r] /\ ~bgFull[r] /\ finishing[r] /\ cursor[r] >= finishTarget[r]
                /\ copier'[r] = "exited" /\ rdRunning'[r] = FALSE
             \/ rdRunning[r] /\ copier'[r] \in {"wait", "snapshot"} /\ UNCHANGED rdRunning
      BY <2>1, <1>t DEF WaitForData, CopierAt, Goto, Drained
    <3> QED BY <3>1 DEF LifeInPhase
  <2>2. CASE SleepForData(r)
    BY <2>2 DEF SleepForData, LifeInPhase
  <2>3. CASE TakeSnapshot(r) \/ CopyRecords(r) \/ NotifySpace(r)
    <3>1. /\ UNCHANGED <<life, rdRunning, finishing, finishTarget, cursor, bgFull>>
          /\ copier[r] # "exited" /\ copier'[r] # "exited"
      BY <2>3, <1>t DEF TakeSnapshot, CopyRecords, NotifySpace, CopierAt, Goto
    <3> QED BY <3>1 DEF LifeInPhase
  <2>4. CASE AdvanceCursor(r) \/ OfferBatch(r)
    <3>1. /\ UNCHANGED <<life, rdRunning, finishing, finishTarget>>
          /\ copier[r] # "exited" /\ copier'[r] # "exited"
      BY <2>4, <1>t DEF AdvanceCursor, OfferBatch, CopierAt, Goto
    <3> QED BY <3>1 DEF LifeInPhase
  <2> QED BY <1>1, <2>1, <2>2, <2>3, <2>4 DEF CopierThread, Copier
<1>2. CASE UserThread(r)
  <2>1. /\ UNCHANGED <<life, rdRunning, finishing, finishTarget, cursor, copier>>
        /\ bgFull'[r] => bgFull[r]
    BY <1>2, <1>t DEF UserThread, ReaderUser, TakeFromActive, BeginNextBatch, SwapActive
  <2> QED BY <2>1 DEF LifeInPhase
<1>3. CASE OwnerThread(r)
  <2>1. CASE \E goal \in {"stopping", "closing"} : Stop(r, goal)
    <3>1. /\ UNCHANGED <<finishing, finishTarget, cursor, copier, bgFull>>
          /\ life[r] \in {"live", "ended"} /\ rdRunning[r] /\ rdRunning'[r] = FALSE
          /\ \/ life'[r] = "stopping" /\ "stop" \in Controls[r]
             \/ life'[r] = "closing"
      BY <2>1, <1>t DEF Stop, MayEnd, SetLife
    <3> QED BY <3>1 DEF LifeInPhase
  <2>2. CASE StopNotify(r)
    <3>1. /\ UNCHANGED <<rdRunning, finishing, finishTarget, cursor, copier, bgFull>>
          /\ \/ life[r] = "closing" /\ life'[r] = "closeJoin"
             \/ life[r] = "stopping" /\ life'[r] = "joining"
      BY <2>2, <1>t DEF StopNotify, SetLife
    <3> QED BY <3>1 DEF LifeInPhase
  <2>3. CASE Finish(r)
    <3>1. /\ UNCHANGED <<rdRunning, cursor, copier, bgFull>>
          /\ rdRunning[r] /\ life'[r] = "finishing" /\ finishing'[r] = TRUE
      BY <2>3, <1>t DEF Finish, SetLife
    <3> QED BY <3>1 DEF LifeInPhase
  <2>4. CASE JoinCopier(r)
    <3>1. /\ UNCHANGED <<finishing, finishTarget, cursor, copier, bgFull>>
          /\ copier[r] = "exited" /\ rdRunning'[r] = FALSE
          /\ \/ life[r] = "closeJoin" /\ life'[r] = "erasing"
             \/ life[r] \in {"finishing", "joining"} /\ life'[r] = "ended"
      BY <2>4, <1>t DEF JoinCopier, CopierAt, SetLife
    <3> QED BY <3>1 DEF LifeInPhase
  <2>5. CASE Place(r) /\ UNCHANGED readerVars
    <3>1. /\ UNCHANGED <<finishing, copier>>
          /\ life[r] = "new" /\ life'[r] = "placed" /\ rdRunning'[r] = TRUE
      BY <2>5, <1>t DEF Place, SetLife
    <3>2. copier[r] = "wait"
      BY <3>1
    <3> QED BY <3>1, <3>2 DEF LifeInPhase
  <2>6. CASE Membership(r) /\ UNCHANGED readerVars
    <3>1. /\ UNCHANGED <<rdRunning, finishing, finishTarget, cursor, copier, bgFull>>
          /\ \/ life[r] = "placed" /\ life'[r] = "live"
             \/ life'[r] = "erasing" /\ ~rdRunning[r]
             \/ life[r] = "erasing" /\ life'[r] = "erased"
             \/ life[r] = "erased" /\ life'[r] = "gone"
      BY <2>6, <1>t DEF Membership, Register, DestroyEnded, Unregister, UnregisterNotify,
         SetLife
    <3> QED BY <3>1 DEF LifeInPhase
  <2> QED BY <1>3, <2>1, <2>2, <2>3, <2>4, <2>5, <2>6 DEF OwnerThread, ReaderControl
<1> QED BY <1>1, <1>2, <1>3 DEF ReaderSteps

LEMMA AlwaysInPhase == Spec => [](Bounded /\ ReadersInPhase)
<1>1. Init => ReadersInPhase
  <2> SUFFICES ASSUME Init, NEW r \in Readers PROVE InPhase(r)
    BY DEF ReadersInPhase
  <2>1. r \in Clients
    BY Constants
  <2>2. /\ activeIdx[r] = 0 /\ activeCount[r] = 0 /\ bgCount[r] = 0 /\ bgFull[r] = FALSE
        /\ copier[r] = "wait" /\ user[r] = "idle" /\ got[r] = <<>> /\ finishing[r] = FALSE
        /\ life[r] \in {"live", "new"}
        /\ rdRunning[r] => life[r] = "live"
        /\ life[r] = "live" => rdRunning[r]
    BY <2>1 DEF Init, InitReaderBase, InitReader
  <2>3. BuffersInPhase(r)
    BY <2>2 DEF BuffersInPhase
  <2>4. LifeInPhase(r)
    BY <2>2 DEF LifeInPhase
  <2> QED BY <2>3, <2>4 DEF InPhase
<1>2. Bounded /\ ReadersInPhase /\ [Next]_vars => ReadersInPhase'
  <2> SUFFICES ASSUME Bounded, ReadersInPhase, [Next]_vars, NEW r \in Readers
               PROVE  InPhase(r)'
    BY DEF ReadersInPhase
  <2>1. InPhase(r)
    BY DEF ReadersInPhase
  <2>2. CASE ReaderSteps(r)
    BY <2>1, <2>2, OwnStepsKeepBuffers, OwnStepsKeepLife DEF InPhase
  <2>3. CASE ~ ReaderSteps(r)
    <3>1. UNCHANGED ReaderState(r)
      BY <2>3, OthersKeepReader
    <3> QED BY <2>1, <3>1 DEF ReaderState, InPhase, BuffersInPhase, LifeInPhase
  <2> QED BY <2>2, <2>3
<1> QED BY <1>1, <1>2, AlwaysBounded, NextBounded, PTL DEF Spec
-----------------------------------------------------------------------------
(* Records flow from the ring into the background buffer, from there into   *)
(* the active one and on to the user.  p is the position in the history of  *)
(* the last record the user was given, e that of the last one in the active *)
(* buffer; what is in the background buffer or on its way there comes later.*)
Left(r) == activeCount[r] - activeIdx[r]

InFlow(r, p, e) ==
  /\ p + Left(r) <= e /\ e + bgCount[r] <= cursor[r]
  /\ copier[r] \in {"notify", "publish"} => e + bgCount[r] <= from[r]
  /\ got[r] = <<>> => p = 0
  /\ got[r] # <<>> => p > 0 /\ got[r][Len(got[r])] = history[p]
  /\ \A i \in activeIdx[r] + 1 .. activeCount[r] :
       buf[r][1 - bgBuf[r]][i] = history[e - activeCount[r] + i]

(* No record is left out when the writer may not pass the reader.           *)
NoneLeftOut(r, p, e) ==
  /\ p = Len(got[r]) /\ p + Left(r) = e
  /\ copier[r] \in {"notify", "publish"} => e + bgCount[r] = from[r]
  /\ copier[r] \notin {"notify", "publish"} => e + bgCount[r] = cursor[r]
  /\ copier[r] \in {"copy", "advance"} => from[r] = cursor[r]
  /\ \A i \in 1 .. Len(got[r]) : got[r][i] = history[i]

NeverPassed(r) == SingleBlockingWriter /\ r \notin LateClients

FlowAt(r, p, e) == InFlow(r, p, e) /\ (NeverPassed(r) => NoneLeftOut(r, p, e))

Undisturbed(r) == rdRunning[r] \/ finishing[r]

ReaderFlow(r) == Undisturbed(r) => \E p, e \in Nat : FlowAt(r, p, e)

ReadersFlow == \A r \in Readers : ReaderFlow(r)

(* What a reader holds is in the history, so it stays there. *)
LEMMA FlowRange ==
  ASSUME Bounded, NEW r \in Readers, BuffersInPhase(r), NEW p \in Nat, NEW e \in Nat,
         InFlow(r, p, e)
  PROVE  /\ p <= totalWritten /\ e <= totalWritten /\ e <= cursor[r]
         /\ Left(r) \in Nat /\ activeIdx[r] + Left(r) = activeCount[r]
         /\ \A i \in activeIdx[r] + 1 .. activeCount[r] :
              e - activeCount[r] + i \in 1 .. totalWritten
<1>1. PICK a \in Nat, n \in Nat, c \in Nat, b \in Nat, tw \in Nat :
           /\ a = activeIdx[r] /\ n = activeCount[r] /\ c = cursor[r] /\ b = bgCount[r]
           /\ tw = totalWritten /\ c <= tw /\ a <= n
  BY ReaderTypes DEF BuffersInPhase
<1>2. p + (n - a) <= e /\ e + b <= c
  BY <1>1 DEF InFlow, Left
<1>3. \A i \in a + 1 .. n : e - n + i \in 1 .. tw
  BY <1>1, <1>2
<1> QED BY <1>1, <1>2, <1>3 DEF Left

LEMMA FlowFrame ==
  ASSUME Bounded, HistoryInRing, NEW r \in Readers, BuffersInPhase(r), ReaderFlow(r),
         UNCHANGED ReaderState(r), HistoryKept
  PROVE  ReaderFlow(r)'
<1>1. /\ cursor'[r] = cursor[r] /\ rdRunning'[r] = rdRunning[r] /\ got'[r] = got[r]
      /\ finishing'[r] = finishing[r] /\ buf'[r] = buf[r] /\ bgBuf'[r] = bgBuf[r]
      /\ bgCount'[r] = bgCount[r] /\ activeIdx'[r] = activeIdx[r]
      /\ activeCount'[r] = activeCount[r] /\ copier'[r] = copier[r] /\ from'[r] = from[r]
  BY DEF ReaderState
<1>2. SUFFICES ASSUME Undisturbed(r) PROVE \E p, e \in Nat : FlowAt(r, p, e)'
  BY <1>1 DEF ReaderFlow, Undisturbed
<1>3. PICK p \in Nat, e \in Nat : FlowAt(r, p, e)
  BY <1>2 DEF ReaderFlow
<1>4. InFlow(r, p, e)
  BY <1>3 DEF FlowAt
<1>5. /\ p <= totalWritten /\ totalWritten \in Nat
      /\ \A i \in activeIdx[r] + 1 .. activeCount[r] :
           e - activeCount[r] + i \in 1 .. totalWritten
  BY <1>4, FlowRange, ReaderTypes
<1>6. InFlow(r, p, e)'
  <2>1. got[r] # <<>> => history'[p] = history[p]
    BY <1>4, <1>5 DEF InFlow, HistoryKept
  <2>2. \A i \in activeIdx[r] + 1 .. activeCount[r] :
          history'[e - activeCount[r] + i] = history[e - activeCount[r] + i]
    BY <1>5 DEF HistoryKept
  <2> QED BY <1>1, <1>4, <2>1, <2>2 DEF InFlow, Left
<1>7. NoneLeftOut(r, p, e) => NoneLeftOut(r, p, e)'
  <2>1. SUFFICES ASSUME NoneLeftOut(r, p, e) PROVE NoneLeftOut(r, p, e)'
    OBVIOUS
  <2>2. \A i \in 1 .. Len(got[r]) : history'[i] = history[i]
    BY <1>5, <2>1 DEF NoneLeftOut, HistoryKept
  <2> QED BY <1>1, <2>1, <2>2 DEF NoneLeftOut, Left
<1> QED BY <1>3, <1>6, <1>7 DEF FlowAt, NeverPassed

(* A step that leaves the active buffer and the user alone. *)
LEMMA FlowBehind ==
  ASSUME NEW r \in Readers, NEW p \in Nat, NEW e \in Nat, FlowAt(r, p, e), history' = history,
         got'[r] = got[r], activeIdx'[r] = activeIdx[r], activeCount'[r] = activeCount[r],
         bgBuf'[r] = bgBuf[r],
         \A i \in activeIdx[r] + 1 .. activeCount[r] :
           buf'[r][1 - bgBuf[r]][i] = buf[r][1 - bgBuf[r]][i],
         e + bgCount'[r] <= cursor'[r],
         copier'[r] \in {"notify", "publish"} => e + bgCount'[r] <= from'[r],
         NeverPassed(r) =>
           /\ copier'[r] \in {"notify", "publish"} => e + bgCount'[r] = from'[r]
           /\ copier'[r] \notin {"notify", "publish"} => e + bgCount'[r] = cursor'[r]
           /\ copier'[r] \in {"copy", "advance"} => from'[r] = cursor'[r]
  PROVE  FlowAt(r, p, e)'
<1>1. InFlow(r, p, e)'
  BY DEF FlowAt, InFlow, Left
<1>2. NeverPassed(r) => NoneLeftOut(r, p, e)'
  BY DEF FlowAt, NoneLeftOut, Left
<1> QED BY <1>1, <1>2 DEF FlowAt, NeverPassed
-----------------------------------------------------------------------------
LEMMA CopierKeepsFlow ==
  ASSUME Bounded, NEW r \in Readers, CopyInOrder(r), InPhase(r), ReaderFlow(r),
         NeverPassed(r) /\ rdRunning[r] => OldestCursor <= cursor[r],
         CopierThread(r)
  PROVE  ReaderFlow(r)'
<1> USE ReaderTypes
<1>t. /\ cursor \in [Clients -> Nat] /\ rdRunning \in [Clients -> BOOLEAN]
      /\ DOMAIN copier = Readers /\ DOMAIN from = Readers /\ DOMAIN count = Readers
      /\ DOMAIN bgCount = Readers /\ DOMAIN bgFull = Readers
      /\ buf \in [Readers -> [{0, 1} -> [1 .. ReaderBatch -> Cell]]]
  BY DEF Bounded, TypeOK, BufferTypeOK, ReaderTypeOK
<1>1. /\ UNCHANGED <<history, got, finishing, activeIdx, activeCount, bgBuf>>
      /\ rdRunning'[r] => rdRunning[r]
  BY <1>t DEF CopierThread, Copier, WaitForData, SleepForData, TakeSnapshot, CopyRecords,
     AdvanceCursor, NotifySpace, OfferBatch
<1>2. SUFFICES ASSUME Undisturbed(r) PROVE \E p, e \in Nat : FlowAt(r, p, e)'
  BY <1>1 DEF ReaderFlow, Undisturbed
<1>3. PICK p \in Nat, e \in Nat : FlowAt(r, p, e)
  BY <1>2 DEF ReaderFlow
<1>4. copier[r] # "exited" => rdRunning[r]
  BY <1>2 DEF Undisturbed, InPhase, LifeInPhase
<1>5. /\ e + bgCount[r] <= cursor[r]
      /\ copier[r] \in {"notify", "publish"} => e + bgCount[r] <= from[r]
      /\ NeverPassed(r) =>
           /\ copier[r] \in {"notify", "publish"} => e + bgCount[r] = from[r]
           /\ copier[r] \notin {"notify", "publish"} => e + bgCount[r] = cursor[r]
           /\ copier[r] \in {"copy", "advance"} => from[r] = cursor[r]
  BY <1>3 DEF FlowAt, InFlow, NoneLeftOut
<1>6. SUFFICES FlowAt(r, p, e)'
  OBVIOUS
<1>7. CASE WaitForData(r) \/ SleepForData(r)
  <2>1. /\ UNCHANGED <<cursor, buf, bgCount, from>>
        /\ \/ copier' = copier
           \/ copier[r] = "wait" /\ copier'[r] \in {"exited", "snapshot"}
    BY <1>7, <1>t DEF WaitForData, SleepForData, CopierAt, Goto
  <2> QED BY <1>1, <1>3, <1>5, <2>1, FlowBehind
<1>8. CASE TakeSnapshot(r)
  <2>1. /\ UNCHANGED <<cursor, buf, bgCount>>
        /\ copier[r] = "snapshot" /\ copier'[r] = "copy"
        /\ from'[r] = IF Lag(cursor[r]) > ring.size THEN OldestCursor ELSE cursor[r]
    BY <1>8, <1>t DEF TakeSnapshot, CopierAt, Goto
  <2>2. NeverPassed(r) => from'[r] = cursor[r]
    <3>1. ring.size \in Nat
      BY Constants DEF Bounded, TypeOK, BufferTypeOK, RingOf
    <3> QED BY <1>4, <2>1, <3>1 DEF OldestCursor, Lag
  <2> QED BY <1>1, <1>3, <1>5, <2>1, <2>2, FlowBehind
<1>9. CASE CopyRecords(r)
  <2>1. /\ UNCHANGED <<cursor, bgCount>> /\ copier[r] = "copy"
        /\ \/ copier'[r] = "advance" /\ UNCHANGED from
           \/ copier'[r] = "wait"
    BY <1>9, <1>t DEF CopyRecords, CopierAt, Goto
  <2>2. buf'[r][1 - bgBuf[r]] = buf[r][1 - bgBuf[r]]
    BY <1>9, <1>t DEF CopyRecords
  <2>3. /\ copier'[r] \notin {"notify", "publish"} /\ e + bgCount'[r] <= cursor'[r]
        /\ NeverPassed(r) =>
             /\ e + bgCount'[r] = cursor'[r]
             /\ copier'[r] \in {"copy", "advance"} => from'[r] = cursor'[r]
    BY <1>5, <2>1
  <2> QED BY <1>1, <1>3, <2>2, <2>3, FlowBehind
<1>10. CASE AdvanceCursor(r)
  <2>1. /\ UNCHANGED <<buf, bgCount, from>>
        /\ copier[r] = "advance" /\ copier'[r] = "notify"
        /\ cursor'[r] = from[r] + count[r]
    BY <1>10, <1>t DEF AdvanceCursor, CopierAt, Goto
  <2>2. cursor[r] <= from[r] /\ from'[r] = from[r] /\ bgCount'[r] = bgCount[r]
    BY <2>1
  <2>3. /\ e + bgCount'[r] <= cursor'[r] /\ e + bgCount'[r] <= from'[r]
        /\ NeverPassed(r) => e + bgCount'[r] = from'[r]
    BY <1>5, <2>1, <2>2
  <2>4. buf'[r][1 - bgBuf[r]] = buf[r][1 - bgBuf[r]]
    BY <2>1
  <2> QED BY <1>1, <1>3, <2>1, <2>3, <2>4, FlowBehind
<1>11. CASE NotifySpace(r)
  <2>1. /\ UNCHANGED <<cursor, buf, bgCount, from>>
        /\ copier[r] = "notify" /\ copier'[r] = "publish"
    BY <1>11, <1>t DEF NotifySpace, CopierAt, Goto
  <2> QED BY <1>1, <1>3, <1>5, <2>1, FlowBehind
<1>12. CASE OfferBatch(r)
  <2>1. /\ UNCHANGED <<cursor, buf>> /\ bgCount'[r] = count[r]
        /\ copier[r] = "publish" /\ copier'[r] = "wait"
    BY <1>12, <1>t DEF OfferBatch, CopierAt, Goto
  <2>2. cursor[r] = from[r] + count[r] /\ bgCount[r] = 0
    BY <1>4, <2>1 DEF CopyInOrder, InPhase, BuffersInPhase
  <2> QED BY <1>1, <1>3, <1>5, <2>1, <2>2, FlowBehind
<1> QED BY <1>7, <1>8, <1>9, <1>10, <1>11, <1>12 DEF CopierThread, Copier

(* The k records after position a of s are the k after position q of t. *)
Agree(s, a, t, q, k) == \A i \in 1 .. k : s[a + i] = t[q + i]

(* g is the beginning of h. *)
Begins(g, h) == \A i \in 1 .. Len(g) : g[i] = h[i]

(* s ends with h's record p, and is a beginning of h if g was one and h went*)
(* on after it.                                                             *)
Prolongs(s, g, h, q, p) ==
  /\ s # <<>> /\ s[Len(s)] = h[p]
  /\ q = Len(g) /\ Begins(g, h) => Begins(s, h)

(* Two runs of the same records. *)
LEMMA SameRun ==
  ASSUME NEW S, NEW s \in Seq(S), NEW t \in Seq(S), NEW a \in Nat, NEW q \in Nat,
         NEW k \in Nat, a + k <= Len(s), q + k <= Len(t),
         Agree(s, a, t, q, k)
  PROVE  SubSeq(s, a + 1, a + k) = SubSeq(t, q + 1, q + k)
<1>1. /\ SubSeq(s, a + 1, a + k) \in Seq(S) /\ Len(SubSeq(s, a + 1, a + k)) = k
      /\ \A i \in 1 .. k : SubSeq(s, a + 1, a + k)[i] = s[a + i]
  BY RunPointwise
<1>2. /\ SubSeq(t, q + 1, q + k) \in Seq(S) /\ Len(SubSeq(t, q + 1, q + k)) = k
      /\ \A i \in 1 .. k : SubSeq(t, q + 1, q + k)[i] = t[q + i]
  BY RunPointwise
<1>3. PICK u \in Seq(S) : u = SubSeq(s, a + 1, a + k)
  BY <1>1
<1>4. PICK v \in Seq(S) : v = SubSeq(t, q + 1, q + k)
  BY <1>2
<1>5. Len(u) = k /\ Len(v) = k
  BY <1>1, <1>2, <1>3, <1>4
<1>6. \A i \in 1 .. k : u[i] = v[i]
  BY <1>1, <1>2, <1>3, <1>4 DEF Agree
<1>7. u = v
  BY ONLY <1>5, <1>6, u \in Seq(S), v \in Seq(S), k \in Nat
<1> QED BY <1>3, <1>4, <1>7

(* What a reader has, with a run of the history appended to it. *)
LEMMA RunAppended ==
  ASSUME NEW S, NEW g \in Seq(S), NEW h \in Seq(S), NEW q \in Nat, NEW k \in Nat,
         k > 0, q + k <= Len(h)
  PROVE  /\ Len(g \o SubSeq(h, q + 1, q + k)) = Len(g) + k
         /\ Prolongs(g \o SubSeq(h, q + 1, q + k), g, h, q, q + k)
<1>1. PICK t \in Seq(S) :
           /\ t = SubSeq(h, q + 1, q + k) /\ Len(t) = k
           /\ \A i \in 1 .. k : t[i] = h[q + i]
  <2>1. /\ SubSeq(h, q + 1, q + k) \in Seq(S) /\ Len(SubSeq(h, q + 1, q + k)) = k
        /\ \A i \in 1 .. k : SubSeq(h, q + 1, q + k)[i] = h[q + i]
    BY RunPointwise
  <2> QED BY <2>1
<1>2. PICK len \in Nat : len = Len(g)
  OBVIOUS
<1>3. PICK all \in Seq(S) :
           /\ all = g \o t /\ Len(all) = len + k
           /\ \A i \in 1 .. len : all[i] = g[i]
           /\ \A i \in len + 1 .. len + k : all[i] = t[i - len]
  <2>1. /\ g \o t \in Seq(S) /\ Len(g \o t) = Len(g) + Len(t)
        /\ \A i \in 1 .. Len(g) : (g \o t)[i] = g[i]
        /\ \A i \in Len(g) + 1 .. Len(g) + Len(t) : (g \o t)[i] = t[i - Len(g)]
    BY ConcatenationPointwise
  <2>2. PICK all \in Seq(S) : all = g \o t
    BY <2>1
  <2>3. /\ Len(all) = Len(g) + Len(t)
        /\ \A i \in 1 .. Len(g) : all[i] = g[i]
        /\ \A i \in Len(g) + 1 .. Len(g) + Len(t) : all[i] = t[i - Len(g)]
    BY <2>1, <2>2
  <2> QED BY <1>1, <1>2, <2>2, <2>3
<1>4. all # <<>> /\ all[Len(all)] = h[q + k]
  <2>1. len + k \in len + 1 .. len + k /\ len + k - len = k /\ k \in 1 .. k /\ len + k > 0
    OBVIOUS
  <2>2. all[len + k] = t[k] /\ t[k] = h[q + k]
    BY <1>1, <1>3, <2>1
  <2>3. Len(all) > 0
    BY <1>3, <2>1
  <2> QED BY <1>3, <2>2, <2>3
<1>5. ASSUME q = Len(g), Begins(g, h), NEW i \in 1 .. Len(all)
      PROVE  all[i] = h[i]
  <2>1. CASE i \in 1 .. len
    BY <1>2, <1>3, <1>5, <2>1 DEF Begins
  <2>2. CASE i \in len + 1 .. len + k
    <3>1. i - len \in 1 .. k /\ q + (i - len) = i
      BY <1>2, <1>5, <2>2
    <3> QED BY <1>1, <1>3, <2>2, <3>1
  <2> QED BY <1>3, <2>1, <2>2
<1>6. q = Len(g) /\ Begins(g, h) => Begins(all, h)
  BY <1>5 DEF Begins
<1>7. all = g \o SubSeq(h, q + 1, q + k) /\ Len(all) = Len(g) + k
  BY <1>1, <1>2, <1>3
<1>8. Prolongs(all, g, h, q, q + k)
  BY <1>4, <1>6 DEF Prolongs
<1> QED BY <1>7, <1>8

(* nextBatch() returns the k records after the q-th, none of them before.   *)
Taken(r, p, q, k) ==
  /\ p <= q /\ q + k <= totalWritten
  /\ got' = [got EXCEPT ![r] = @ \o SubSeq(history, q + 1, q + k)]
  /\ NeverPassed(r) => q = p

(* What nextBatch() of a RecordReader returns is a run of the history, after*)
(* what it returned before.                                                 *)
LEMMA TakenIsRun ==
  ASSUME Bounded, HistoryInRing, NEW r \in Readers, BuffersInPhase(r),
         NEW p \in Nat, NEW e \in Nat, FlowAt(r, p, e),
         NEW m \in 1 .. ReaderBatch, TakeFromActive(r, m)
  PROVE  \E q \in Nat, k \in Nat \ {0} : Taken(r, p, q, k) /\ FlowAt(r, q + k, e)'
<1>1. PICK a \in Nat, n \in Nat, c \in Nat, tw \in Nat, size \in Nat :
           /\ a = activeIdx[r] /\ n = activeCount[r] /\ c = cursor[r]
           /\ tw = totalWritten /\ c <= tw /\ a < n /\ n <= size /\ size = ReaderBatch
           /\ e <= c /\ p + (n - a) <= e
  <2>1. activeIdx[r] < activeCount[r]
    BY DEF TakeFromActive
  <2>2. e <= cursor[r] /\ p + (activeCount[r] - activeIdx[r]) <= e
    BY FlowRange DEF FlowAt, InFlow, Left
  <2> QED BY <2>1, <2>2, ReaderTypes, Constants
<1> DEFINE taken == MinOf(m, n - a)
<1>t. taken \in Nat /\ taken > 0 /\ a + taken <= n
  BY <1>1, Constants DEF MinOf
<1> HIDE DEF taken
<1>k. PICK k \in Nat : k = taken
  BY <1>t
<1>q. PICK q \in Nat : q = e - n + a
  <2>1. e - n + a \in Nat
    BY <1>1
  <2> QED BY <2>1
<1>2. k > 0 /\ a + k <= n /\ q = e - n + a /\ p <= q /\ q + k <= e /\ q + k <= tw
  <2>1. k > 0 /\ a + k <= n
    BY <1>k, <1>t
  <2>2. k > 0 /\ a + k <= n /\ p <= q /\ q + k <= e
    BY <1>1, <1>q, <2>1
  <2>3. q + k <= tw
    BY <1>1, <2>2
  <2> QED BY <1>q, <2>2, <2>3
<1>3. 1 - bgBuf[r] \in {0, 1} /\ buf[r][1 - bgBuf[r]] \in [1 .. ReaderBatch -> Cell]
  BY ReaderTypes
<1>4. /\ history \in Seq(Cell) /\ Len(history) = tw
      /\ got[r] \in Seq(Cell) /\ Len(got[r]) \in Nat
  <2>1. history \in Seq(Records) /\ Len(history) = tw /\ got[r] \in Seq(Cell)
    BY <1>1, ReaderTypes DEF Bounded, TypeOK, BufferTypeOK, ReaderTypeOK, HistoryInRing
  <2>2. Records \subseteq Cell
    BY DEF Cell
  <2> QED BY <2>1, <2>2
<1>5. q + k <= Len(history)
  BY ONLY <1>2, <1>4
<1>6. SubSeq(buf[r][1 - bgBuf[r]], a + 1, a + k) = SubSeq(history, q + 1, q + k)
  <2>1. /\ buf[r][1 - bgBuf[r]] \in Seq(Cell)
        /\ a + k <= Len(buf[r][1 - bgBuf[r]])
    <3>1. ReaderBatch \in Nat /\ a + k <= ReaderBatch
      BY <1>1, <1>2
    <3> QED BY <1>3, <3>1
  <2>2. \A i \in 1 .. k : a + i \in a + 1 .. n /\ e - n + (a + i) = q + i
    BY <1>2
  <2>3. \A i \in a + 1 .. n : buf[r][1 - bgBuf[r]][i] = history[e - n + i]
    BY <1>1 DEF FlowAt, InFlow
  <2>4. \A i \in 1 .. k : buf[r][1 - bgBuf[r]][a + i] = history[q + i]
    BY <2>2, <2>3
  <2>5. PICK b \in Seq(Cell) : b = buf[r][1 - bgBuf[r]]
    BY <2>1
  <2>6. PICK h \in Seq(Cell) : h = history
    BY <1>4
  <2>7. a + k <= Len(b) /\ q + k <= Len(h) /\ Agree(b, a, h, q, k)
    BY <1>5, <2>1, <2>4, <2>5, <2>6 DEF Agree
  <2>8. SubSeq(b, a + 1, a + k) = SubSeq(h, q + 1, q + k)
    BY <2>7, SameRun
  <2> QED BY <2>5, <2>6, <2>8
<1> DEFINE run == SubSeq(history, q + 1, q + k)
<1>7. /\ got' = [got EXCEPT ![r] = @ \o run] /\ activeIdx'[r] = a + k
      /\ UNCHANGED <<history, cursor, buf, bgBuf, bgCount, activeCount, copier, from>>
  <2>1. /\ got' = [got EXCEPT ![r] = @ \o SubSeq(buf[r][1 - bgBuf[r]], a + 1, a + k)]
        /\ activeIdx' = [activeIdx EXCEPT ![r] = @ + k]
        /\ UNCHANGED <<history, cursor, buf, bgBuf, bgCount, activeCount, copier, from>>
    BY <1>1, <1>k DEF TakeFromActive, taken
  <2>2. DOMAIN activeIdx = Readers
    BY DEF Bounded, TypeOK, ReaderTypeOK
  <2> QED BY <1>1, <1>6, <2>1, <2>2
<1>8. got'[r] = got[r] \o run
  BY <1>7, Constants DEF Bounded, TypeOK, ReaderTypeOK
<1> HIDE DEF run
<1>9. /\ Len(got'[r]) = Len(got[r]) + k
      /\ k > 0 => got'[r] # <<>> /\ got'[r][Len(got'[r])] = history[q + k]
      /\ q = Len(got[r]) /\ Begins(got[r], history) => Begins(got'[r], history)
  <2>1. /\ Len(got[r] \o run) = Len(got[r]) + k
        /\ k > 0 => got[r] \o run # <<>> /\ (got[r] \o run)[Len(got[r] \o run)] = history[q + k]
        /\ q = Len(got[r]) /\ Begins(got[r], history) => Begins(got[r] \o run, history)
    <3>1. PICK g \in Seq(Cell) : g = got[r]
      BY <1>4
    <3>2. PICK h \in Seq(Cell) : h = history
      BY <1>4
    <3>3. q + k <= Len(h)
      BY <1>5, <3>2
    <3>4. PICK all \in Seq(Cell) :
            all = g \o SubSeq(h, q + 1, q + k)
      BY <3>3, RunPointwise, ConcatenationPointwise
    <3>5. all = got[r] \o run
      BY <3>1, <3>2, <3>4 DEF run
    <3>6. k > 0
      BY <1>2
    <3>7. Len(all) = Len(g) + k /\ Prolongs(all, g, h, q, q + k)
      BY <3>3, <3>4, <3>6, RunAppended
    <3> QED BY <3>1, <3>2, <3>5, <3>7 DEF Prolongs
  <2> QED BY <1>8, <2>1
<1>10. q + k + (n - (a + k)) <= e /\ \A i \in a + k + 1 .. n : i \in a + 1 .. n
  BY <1>2
<1>11. InFlow(r, q + k, e)'
  <2>1. /\ q + k + (activeCount'[r] - activeIdx'[r]) <= e
        /\ \A i \in activeIdx'[r] + 1 .. activeCount'[r] : i \in activeIdx[r] + 1 .. activeCount[r]
    BY <1>1, <1>7, <1>10
  <2>2. q + k > 0 /\ got'[r] # <<>> /\ got'[r][Len(got'[r])] = history[q + k]
    BY <1>2, <1>9
  <2> QED BY <1>7, <2>1, <2>2 DEF FlowAt, InFlow, Left
<1>12. ASSUME NeverPassed(r)
       PROVE  q = p /\ NoneLeftOut(r, q + k, e)'
  <2>1. NoneLeftOut(r, p, e)
    BY <1>12 DEF FlowAt
  <2>2. /\ p = Len(got[r]) /\ p + (n - a) = e
        /\ \A i \in 1 .. Len(got[r]) : got[r][i] = history[i]
    BY <1>1, <2>1 DEF NoneLeftOut, Left
  <2>3. q = p /\ q + k + (n - (a + k)) = e
    <3>1. p + (n - a) = e
      BY <2>2
    <3> QED BY <1>2, <3>1
  <2>4. Begins(got'[r], history)
    BY <1>9, <2>2, <2>3 DEF Begins
  <2>5. Len(got'[r]) = q + k
    BY <1>9, <2>2, <2>3
  <2>6. /\ q + k = Len(got'[r]) /\ q + k + (activeCount'[r] - activeIdx'[r]) = e
    BY <1>1, <1>7, <2>3, <2>5
  <2>7. \A i \in 1 .. Len(got'[r]) : got'[r][i] = history'[i]
    BY <1>7, <2>4 DEF Begins
  <2>8. NoneLeftOut(r, q + k, e)'
    BY <1>7, <2>1, <2>6, <2>7 DEF NoneLeftOut, Left
  <2> QED BY <2>3, <2>8
<1>13. FlowAt(r, q + k, e)'
  BY <1>11, <1>12 DEF FlowAt, NeverPassed
<1>14. k \in Nat \ {0} /\ q + k <= totalWritten
  BY <1>1, <1>2
<1>15. Taken(r, p, q, k)
  BY <1>2, <1>7, <1>12, <1>14 DEF run, Taken
<1> QED BY <1>13, <1>14, <1>15

(* swapBuffers(): the active buffer was empty, and becomes what was offered.*)
LEMMA SwapKeepsFlow ==
  ASSUME Bounded, HistoryInRing, NEW r \in Readers, CopyInOrder(r), InPhase(r), ReaderFlow(r),
         SwapActive(r)
  PROVE  ReaderFlow(r)'
<1> USE ReaderTypes
<1>1. /\ UNCHANGED <<history, got, finishing, rdRunning, buf, cursor, copier, from>>
      /\ activeIdx'[r] = 0 /\ activeCount'[r] = bgCount[r] /\ bgCount'[r] = 0
      /\ bgBuf'[r] = 1 - bgBuf[r] /\ user[r] = "waiting" /\ (bgFull[r] \/ ~rdRunning[r])
  BY DEF SwapActive, Bounded, TypeOK, ReaderTypeOK
<1>2. SUFFICES ASSUME Undisturbed(r) PROVE \E p, e \in Nat : FlowAt(r, p, e)'
  BY <1>1 DEF ReaderFlow, Undisturbed
<1>3. PICK p \in Nat, e \in Nat : FlowAt(r, p, e)
  BY <1>2 DEF ReaderFlow
<1>4. activeIdx[r] = activeCount[r] /\ Left(r) = 0
  <2>1. activeIdx[r] = activeCount[r]
    BY <1>1 DEF InPhase, BuffersInPhase
  <2> QED BY <2>1 DEF Left
<1>5. PICK n \in Nat, c \in Nat : n = bgCount[r] /\ c = cursor[r]
  OBVIOUS
<1>6. /\ p <= e /\ e + n <= c
      /\ copier[r] \in {"notify", "publish"} => e + n <= from[r]
      /\ got[r] = <<>> => p = 0
      /\ got[r] # <<>> => p > 0 /\ got[r][Len(got[r])] = history[p]
  BY <1>3, <1>4, <1>5 DEF FlowAt, InFlow
<1>7. copier[r] \notin {"notify", "publish", "advance"} \/ n = 0
  <2>1. CASE bgFull[r] /\ rdRunning[r]
    BY <2>1 DEF CopyInOrder
  <2>2. CASE ~bgFull[r]
    BY <1>5, <2>2 DEF InPhase, BuffersInPhase
  <2>3. CASE ~rdRunning[r]
    BY <1>2, <2>3 DEF InPhase, LifeInPhase, Undisturbed
  <2> QED BY <2>1, <2>2, <2>3 DEF Bounded, TypeOK, ReaderTypeOK
<1>8. PICK f \in Nat :
           /\ f + n <= c /\ p <= f /\ f = IF n = 0 THEN e ELSE c - n
           /\ \A i \in 1 .. n : buf[r][bgBuf[r]][i] = history[f + i]
  <2>1. CASE n = 0
    BY <1>6, <2>1
  <2>2. CASE n # 0
    <3>1. bgFull[r] /\ rdRunning[r]
      <4>1. bgFull[r]
        BY <1>5, <2>2 DEF InPhase, BuffersInPhase
      <4> QED BY <1>2, <4>1 DEF InPhase, LifeInPhase, Undisturbed
    <3>2. c - n \in Nat /\ \A i \in 1 .. n : buf[r][bgBuf[r]][i] = history[c - n + i]
      BY <1>5, <3>1 DEF CopyInOrder, Holds
    <3> QED BY <1>6, <2>2, <3>2
  <2> QED BY <2>1, <2>2
<1>9. PICK g \in Nat : g = f + n
  OBVIOUS
<1>10. InFlow(r, p, g)'
  <2>1. /\ p + n <= g /\ g <= c
        /\ copier[r] \in {"notify", "publish"} => g <= from[r]
    BY <1>6, <1>7, <1>8, <1>9
  <2>2. \A i \in 1 .. n : g - n + i = f + i
    BY <1>9
  <2>3. \A i \in 1 .. n : buf[r][bgBuf[r]][i] = history[g - n + i]
    BY <1>8, <2>2
  <2>4. 1 - bgBuf'[r] = bgBuf[r]
    <3>1. bgBuf'[r] = 1 - bgBuf[r]
      BY <1>1
    <3> QED BY <3>1
  <2>5. \A i \in activeIdx'[r] + 1 .. activeCount'[r] :
          buf'[r][1 - bgBuf'[r]][i] = history'[g - activeCount'[r] + i]
    BY <1>1, <1>5, <2>3, <2>4
  <2>6. /\ Left(r)' = n /\ bgCount'[r] = 0 /\ cursor'[r] = c
        /\ copier'[r] = copier[r] /\ from'[r] = from[r] /\ got'[r] = got[r]
        /\ history' = history
    <3>1. activeIdx'[r] = 0 /\ activeCount'[r] = n
      BY <1>1, <1>5
    <3>2. Left(r)' = n
      BY <3>1 DEF Left
    <3> QED BY <1>1, <1>5, <3>2
  <2>7. /\ p + Left(r)' <= g /\ g + bgCount'[r] <= cursor'[r]
        /\ copier'[r] \in {"notify", "publish"} => g + bgCount'[r] <= from'[r]
    <3>1. g + 0 <= c /\ (copier[r] \in {"notify", "publish"} => g + 0 <= from[r])
      BY <2>1
    <3> QED BY ONLY <2>1, <2>6, <3>1
  <2> QED BY <1>6, <2>5, <2>6, <2>7 DEF InFlow
<1>11. ASSUME NeverPassed(r)
       PROVE  NoneLeftOut(r, p, g)'
  <2>1. /\ p = Len(got[r]) /\ p = e
        /\ copier[r] \in {"notify", "publish"} => e + n = from[r]
        /\ copier[r] \notin {"notify", "publish"} => e + n = c
        /\ copier[r] \in {"copy", "advance"} => from[r] = c
        /\ \A i \in 1 .. Len(got[r]) : got[r][i] = history[i]
    BY <1>3, <1>4, <1>5, <1>11 DEF FlowAt, NoneLeftOut
  <2>2. /\ f = e /\ p + n = g
        /\ copier[r] \in {"notify", "publish"} => g = from[r]
        /\ copier[r] \notin {"notify", "publish"} => g = c
    BY <1>7, <1>8, <1>9, <2>1
  <2>3. /\ Left(r)' = n /\ bgCount'[r] = 0 /\ cursor'[r] = c
        /\ copier'[r] = copier[r] /\ from'[r] = from[r] /\ got'[r] = got[r]
        /\ history' = history
    <3>1. activeIdx'[r] = 0 /\ activeCount'[r] = n
      BY <1>1, <1>5
    <3>2. Left(r)' = n
      BY <3>1 DEF Left
    <3> QED BY <1>1, <1>5, <3>2
  <2>4. /\ p + Left(r)' = g
        /\ copier'[r] \in {"notify", "publish"} => g + bgCount'[r] = from'[r]
        /\ copier'[r] \notin {"notify", "publish"} => g + bgCount'[r] = cursor'[r]
    <3>1. g + 0 = g
      OBVIOUS
    <3>2. p + Left(r)' = g
      BY ONLY <2>2, <2>3
    <3>3. copier'[r] \in {"notify", "publish"} => g + 0 = from'[r]
      BY ONLY <2>2, <2>3, <3>1
    <3>4. copier'[r] \notin {"notify", "publish"} => g + 0 = cursor'[r]
      BY ONLY <2>2, <2>3, <3>1
    <3> QED BY ONLY <2>3, <3>2, <3>3, <3>4
  <2> QED BY <2>1, <2>3, <2>4 DEF NoneLeftOut
<1>12. FlowAt(r, p, g)'
  BY <1>10, <1>11 DEF FlowAt, NeverPassed
<1> QED BY <1>12

LEMMA UserKeepsFlow ==
  ASSUME Bounded, HistoryInRing, NEW r \in Readers, CopyInOrder(r), InPhase(r), ReaderFlow(r),
         UserThread(r)
  PROVE  ReaderFlow(r)'
<1>1. CASE SwapActive(r)
  BY <1>1, SwapKeepsFlow
<1>2. CASE BeginNextBatch(r)
  BY <1>2 DEF BeginNextBatch, ReaderFlow, Undisturbed, FlowAt, NeverPassed, InFlow, NoneLeftOut,
     Left
<1>3. ASSUME NEW m \in 1 .. ReaderBatch, TakeFromActive(r, m)
      PROVE  ReaderFlow(r)'
  <2>1. Undisturbed(r)' => Undisturbed(r)
    BY <1>3 DEF TakeFromActive, Undisturbed
  <2>2. SUFFICES ASSUME Undisturbed(r) PROVE \E p, e \in Nat : FlowAt(r, p, e)'
    BY <2>1 DEF ReaderFlow
  <2>3. PICK p \in Nat, e \in Nat : FlowAt(r, p, e)
    BY <2>2 DEF ReaderFlow
  <2>4. PICK q \in Nat, k \in Nat \ {0} : FlowAt(r, q + k, e)'
    BY <1>3, <2>3, TakenIsRun DEF InPhase
  <2> QED BY <2>4
<1> QED BY <1>1, <1>2, <1>3 DEF UserThread, ReaderUser

LEMMA OwnerKeepsFlow ==
  ASSUME Bounded, NEW r \in Readers, InPhase(r), ReaderFlow(r),
         NeverPassed(r) => life[r] # "new", OwnerThread(r)
  PROVE  ReaderFlow(r)'
<1> USE ReaderTypes
<1>1. CASE Place(r)
  <2>1. /\ UNCHANGED <<history, got, activeIdx, activeCount, bgBuf, bgCount, copier, from, buf>>
        /\ life[r] = "new"
    <3>1. /\ UNCHANGED <<history, got, activeIdx, activeCount, bgBuf, bgCount, copier, from, buf>>
          /\ life[r] = "new"
      BY <1>1 DEF OwnerThread, Place, ReaderControl, Stop, StopNotify, Finish, JoinCopier, MayEnd
    <3> QED BY <3>1
  <2>5. cursor'[r] \in Nat
    <3>1. Bounded'
      BY NextBounded DEF Next
    <3> QED BY <3>1 DEF Bounded, TypeOK, BufferTypeOK
  <2>2. /\ got[r] = <<>> /\ activeCount[r] = 0 /\ activeIdx[r] = 0 /\ bgCount[r] = 0
        /\ copier[r] = "wait"
    BY <2>1 DEF InPhase, BuffersInPhase
  <2>3. InFlow(r, 0, 0)'
    <3>1. Left(r)' = 0 /\ bgCount'[r] = 0 /\ copier'[r] = "wait" /\ got'[r] = <<>>
          /\ activeIdx'[r] = 0 /\ activeCount'[r] = 0
      BY <2>1, <2>2 DEF Left
    <3> QED BY <2>5, <3>1 DEF InFlow
  <2>4. FlowAt(r, 0, 0)'
    BY <2>1, <2>3 DEF FlowAt, NeverPassed
  <2> QED BY <2>4 DEF ReaderFlow
<1>2. CASE \E goal \in {"stopping", "closing"} : Stop(r, goal)
  <2>1. UNCHANGED finishing /\ rdRunning'[r] = FALSE /\ life[r] \in {"live", "ended"}
        /\ rdRunning[r]
    BY <1>2 DEF Stop, MayEnd, Bounded, TypeOK, ReaderTypeOK
  <2>2. ~finishing[r]
    BY <2>1 DEF InPhase, LifeInPhase
  <2> QED BY <2>1, <2>2 DEF ReaderFlow, Undisturbed
<1>3. CASE StopNotify(r) \/ Finish(r) \/ JoinCopier(r) \/ Membership(r)
  <2>1. /\ UNCHANGED <<history, got, activeIdx, activeCount, bgBuf, bgCount, copier, from, buf,
                       cursor>>
        /\ Undisturbed(r)' => Undisturbed(r)
    <3>1. CASE StopNotify(r) \/ JoinCopier(r)
      BY <3>1 DEF StopNotify, JoinCopier, Undisturbed, Bounded, TypeOK, ReaderTypeOK
    <3>2. CASE Finish(r)
      BY <3>2 DEF Finish, Undisturbed
    <3>3. CASE Membership(r)
      <4>1. UNCHANGED readerVars
        BY <3>3 DEF OwnerThread, ReaderControl, Stop, StopNotify, Finish, JoinCopier, Membership,
           Register, DestroyEnded, Unregister, UnregisterNotify
      <4> QED BY <3>3, <4>1 DEF Membership, Register, DestroyEnded, Unregister,
                 UnregisterNotify, Undisturbed
    <3> QED BY <1>3, <3>1, <3>2, <3>3
  <2> QED BY <2>1 DEF ReaderFlow, FlowAt, NeverPassed, InFlow, NoneLeftOut, Left
<1> QED BY <1>1, <1>2, <1>3 DEF OwnerThread, ReaderControl

(* A single blocking writer leaves every reader that was there from the     *)
(* start room, and its place in the ring.                                   *)
Roomy == SingleBlockingWriter => SpaceStaysFree

LEMMA AlwaysRoomy == Spec => []Roomy
<1>1. CASE SingleBlockingWriter
  <2>1. Spec => [](Bounded /\ SpaceStaysFree)
    BY <1>1, AlwaysSpace
  <2>2. SpaceStaysFree => Roomy
    BY DEF Roomy
  <2> QED BY <2>1, <2>2, PTL
<1>2. CASE ~ SingleBlockingWriter
  <2>1. Roomy
    BY <1>2 DEF Roomy
  <2> QED BY <2>1, PTL
<1> QED BY <1>1, <1>2

LEMMA PlaceIsKept ==
  ASSUME Bounded, SpaceStaysFree, NEW c \in clients, c \notin LateClients
  PROVE  OldestCursor <= cursor[c]
<1>1. /\ ring.size = MinOf(totalWritten, Capacity) /\ totalWritten \in Nat
      /\ cursor[c] \in Nat /\ totalWritten - cursor[c] <= Capacity
      /\ cursor[c] <= totalWritten
  BY DEF Bounded, TypeOK, BufferTypeOK, PositionsInRange, SpaceStaysFree
<1> QED BY <1>1, Constants DEF OldestCursor, MinOf

LEMMA AlwaysFlow ==
  Spec => [](Bounded /\ HistoryInRing /\ Roomy /\ ReadersInPhase /\ ReadersFlow)
<1>1. Init => ReadersFlow
  <2> SUFFICES ASSUME Init, NEW r \in Readers PROVE ReaderFlow(r)
    BY DEF ReadersFlow
  <2>1. /\ activeIdx[r] = 0 /\ activeCount[r] = 0 /\ bgCount[r] = 0 /\ copier[r] = "wait"
        /\ got[r] = <<>> /\ cursor[r] = 0
    BY Constants DEF Init, InitBuffer, InitReaderBase, InitReader
  <2>2. InFlow(r, 0, 0) /\ NoneLeftOut(r, 0, 0)
    BY <2>1 DEF InFlow, NoneLeftOut, Left
  <2> QED BY <2>2 DEF ReaderFlow, FlowAt
<1>2. /\ Bounded /\ HistoryInRing /\ Roomy /\ CopiesInOrder /\ ClientsInUse
      /\ ReadersInPhase /\ ReadersFlow /\ [Next]_vars
      => ReadersFlow'
  <2> SUFFICES ASSUME Bounded, HistoryInRing, Roomy, CopiesInOrder, ClientsInUse,
                      ReadersInPhase, ReadersFlow, [Next]_vars, NEW r \in Readers
               PROVE  ReaderFlow(r)'
    BY DEF ReadersFlow
  <2>1. CopyInOrder(r) /\ InPhase(r) /\ ReaderFlow(r) /\ r \in Clients
    BY Constants DEF CopiesInOrder, ReadersInPhase, ReadersFlow
  <2>2. NeverPassed(r) => life[r] \notin {"new", "placed"}
    BY <2>1 DEF NeverPassed, Roomy, SpaceStaysFree
  <2>3. NeverPassed(r) /\ rdRunning[r] => OldestCursor <= cursor[r]
    <3> SUFFICES ASSUME NeverPassed(r), rdRunning[r] PROVE OldestCursor <= cursor[r]
      OBVIOUS
    <3>1. life[r] \in {"live", "finishing"}
      BY <2>1, <2>2 DEF InPhase, LifeInPhase
    <3>2. r \in clients
      BY <2>1, <3>1 DEF ClientsInUse, InUse
    <3> QED BY <3>2, PlaceIsKept DEF NeverPassed, Roomy
  <2>4. CASE ~ ReaderSteps(r)
    BY <2>1, <2>4, OthersKeepReader, HistoryGrows, FlowFrame DEF InPhase
  <2>5. CASE CopierThread(r)
    BY <2>1, <2>3, <2>5, CopierKeepsFlow
  <2>6. CASE UserThread(r)
    BY <2>1, <2>6, UserKeepsFlow
  <2>7. CASE OwnerThread(r)
    BY <2>1, <2>2, <2>7, OwnerKeepsFlow
  <2> QED BY <2>4, <2>5, <2>6, <2>7 DEF ReaderSteps
<1> QED BY <1>1, <1>2, AlwaysCopies, AlwaysRoomy, AlwaysInUse, AlwaysInPhase, PTL DEF Spec
-----------------------------------------------------------------------------
(* A RecordReaderZC in its life: finish() leaves it running, and only       *)
(* nextBatch() ends it, once it is drained.                                 *)
ZCInPhase(z) ==
  /\ life[z] = "live" => rdRunning[z]
  /\ finishing[z] => life[z] \notin {"new", "placed", "live"}
  /\ user[z] \in {"released", "checking", "fetching"} => batchCount[z] = 0

(* What its user has read, is reading and will be given next follow each    *)
(* other in the history without a gap.                                      *)
ZCFlow(z) ==
  /\ pinnedEnd[z] = cursor[z] + batchCount[z]
  /\ user[z] \notin {"idle", "holding"} => batchCount[z] = 0
  /\ user[z] = "holding" => Len(got[z]) = cursor[z]
  /\ user[z] # "holding" => Len(got[z]) = pinnedEnd[z]
  /\ Begins(got[z], history)

ZCDrained(z) ==
  "stop" \notin Controls[z] =>
    /\ life[z] # "stopping"
    /\ life[z] \in {"finishing", "ended"} /\ ~rdRunning[z] =>
         /\ user[z] \in {"idle", "checking"} /\ batchCount[z] = 0
         /\ cursor[z] >= finishTarget[z]

ZCReadersFlow ==
  \A z \in ZCReaders \cap (clients \ LateClients) :
    ZCInPhase(z) /\ ZCFlow(z) /\ ZCDrained(z)

LEMMA ZCUserKeepsFlow ==
  ASSUME Bounded, HistoryInRing, SpaceStaysFree, PinnedBatchIntact, NEW z \in ZCReaders,
         z \in clients \ LateClients, ZCFlow(z), ZCUserThread(z)
  PROVE  ZCFlow(z)'
<1> USE ZCTypes
<1>t. /\ DOMAIN batchCount = ZCReaders /\ DOMAIN batchSlot = ZCReaders
      /\ DOMAIN pinnedEnd = ZCReaders
      /\ DOMAIN cursor = Clients /\ DOMAIN user = Clients /\ DOMAIN got = Clients
  BY DEF Bounded, TypeOK, BufferTypeOK, ReaderTypeOK
<1>h. UNCHANGED history
  BY DEF ZCUserThread, ReaderZCUser, Release, ReleaseNotify, ZCWait, ZCSleep, Fetch, Pin,
     SkipOverrun, SkipNotify, Refetch, ReadBatch
<1>1. CASE Release(z)
  <2>1. /\ got' = got /\ pinnedEnd' = pinnedEnd /\ cursor'[z] = pinnedEnd[z]
        /\ batchCount'[z] = 0 /\ user[z] = "idle" /\ user'[z] \in {"checking", "released"}
    BY <1>1, <1>t DEF Release, UserAt, UserGoto
  <2> QED BY <1>h, <2>1 DEF ZCFlow
<1>2. CASE ReleaseNotify(z) \/ SkipNotify(z) \/ ZCWait(z)
  <2>1. /\ UNCHANGED <<got, pinnedEnd, cursor, batchCount>>
        /\ user[z] # "holding" /\ user'[z] # "holding"
        /\ batchCount[z] = 0
    BY <1>2, <1>t DEF ReleaseNotify, SkipNotify, ZCWait, UserAt, UserGoto, ZCFlow
  <2> QED BY <1>h, <2>1 DEF ZCFlow
<1>7. CASE ZCSleep(z)
  BY <1>7 DEF ZCSleep, ZCFlow
<1>3. ASSUME NEW n \in 1 .. ReaderBatch, Pin(z, n), user[z] \in {"fetching", "refetching"}
      PROVE  ZCFlow(z)'
  <2>1. /\ got' = got /\ cursor' = cursor /\ user'[z] = "holding"
        /\ batchCount'[z] = BatchRun(cursor[z], n)
        /\ pinnedEnd'[z] = cursor[z] + BatchRun(cursor[z], n)
    BY <1>3, <1>t DEF Pin, UserGoto
  <2>2. Len(got[z]) = cursor[z] /\ Begins(got[z], history)
    BY <1>3 DEF ZCFlow
  <2> QED BY <1>h, <2>1, <2>2 DEF ZCFlow
<1>4. CASE Fetch(z) \/ Refetch(z)
  <2>1. CASE \E n \in 1 .. ReaderBatch : Pin(z, n)
    BY <1>3, <1>4, <2>1 DEF Fetch, Refetch, UserAt
  <2>2. CASE ~ \E n \in 1 .. ReaderBatch : Pin(z, n)
    <3>1. /\ UNCHANGED <<got, pinnedEnd, cursor, batchCount>>
          /\ user[z] \in {"fetching", "refetching"} /\ user'[z] # "holding"
      BY <1>4, <1>t, <2>2 DEF Fetch, Refetch, UserAt, UserGoto
    <3> QED BY <1>h, <3>1 DEF ZCFlow
  <2> QED BY <2>1, <2>2
<1>5. ~ SkipOverrun(z)
  BY DEF SkipOverrun, UserAt, SpaceStaysFree
<1>6. CASE ReadBatch(z)
  <2>1. /\ got'[z] = got[z] \o BatchContent(z) /\ user[z] = "holding" /\ user'[z] = "idle"
        /\ UNCHANGED <<pinnedEnd, cursor, batchCount>>
    BY <1>6, <1>t DEF ReadBatch, UserAt, UserGoto
  <2>2. BatchContent(z) = SubSeq(history, cursor[z] + 1, cursor[z] + batchCount[z])
    BY DEF PinnedBatchIntact, PinnedIntact
  <2>3. PICK h \in Seq(Cell), g \in Seq(Cell), c \in Nat, b \in Nat :
           /\ h = history /\ g = got[z] /\ c = cursor[z] /\ b = batchCount[z]
           /\ Len(g) = c /\ c + b <= Len(h) /\ Begins(g, h) /\ pinnedEnd[z] = c + b
    <3>1. history \in Seq(Records) /\ Len(history) = totalWritten /\ got[z] \in Seq(Cell)
      BY DEF Bounded, TypeOK, BufferTypeOK, ReaderTypeOK, HistoryInRing
    <3>2. history \in Seq(Cell)
      <4>1. Records \subseteq Cell
        BY DEF Cell
      <4> QED BY <3>1, <4>1
    <3> QED BY <2>1, <3>1, <3>2 DEF ZCFlow
  <2>4. CASE b > 0
    <3>1. /\ Len(g \o SubSeq(h, c + 1, c + b)) = Len(g) + b
          /\ Prolongs(g \o SubSeq(h, c + 1, c + b), g, h, c, c + b)
      <4>1. c + b <= Len(h)
        BY <2>3
      <4> QED BY ONLY <2>4, <4>1, RunAppended, h \in Seq(Cell), g \in Seq(Cell),
                 c \in Nat, b \in Nat
    <3>2. got'[z] = g \o SubSeq(h, c + 1, c + b)
      BY <2>1, <2>2, <2>3
    <3>3. Len(got'[z]) = c + b /\ Begins(got'[z], h)
      BY <2>3, <3>1, <3>2 DEF Prolongs
    <3> QED BY <1>h, <2>1, <2>3, <3>3 DEF ZCFlow
  <2>5. CASE b = 0
    <3>1. BatchContent(z) = <<>>
      BY <2>3, <2>5 DEF BatchContent
    <3>2. g \o <<>> = g
      OBVIOUS
    <3>3. got'[z] = g
      BY <2>1, <2>3, <3>1, <3>2
    <3> QED BY <1>h, <2>1, <2>3, <2>5, <3>3 DEF ZCFlow
  <2> QED BY <2>3, <2>4, <2>5
<1> QED BY <1>1, <1>2, <1>4, <1>5, <1>6, <1>7 DEF ZCUserThread, ReaderZCUser

LEMMA ZCOwnerKeepsFlow ==
  ASSUME SpaceStaysFree, NEW z \in ZCReaders,
         z \in clients \ LateClients, ZCFlow(z), ZCOwnerThread(z)
  PROVE  ZCFlow(z)'
<1>1. ~ ZCPlace(z)
  BY Constants DEF ZCPlace, Place, SpaceStaysFree
<1>2. UNCHANGED <<history, cursor, got, user, zcVars>>
  BY <1>1 DEF ZCOwnerThread, ReaderZCControl, Membership, ZCStopReader, ZCFinish,
       ZCEndNotify, Register, DestroyEnded, Unregister, UnregisterNotify
<1> QED BY <1>2 DEF ZCFlow

LEMMA ZCStepsKeepPhase ==
  ASSUME Bounded, SpaceStaysFree, NEW z \in ZCReaders, z \in clients \ LateClients,
         ZCFlow(z), ZCInPhase(z), ZCDrained(z), InUse(z), ZCSteps(z)
  PROVE  ZCInPhase(z)' /\ ZCDrained(z)'
<1> USE ZCTypes
<1>t. /\ batchCount \in [ZCReaders -> 0 .. Capacity]
      /\ cursor \in [Clients -> Nat] /\ DOMAIN user = Clients
      /\ life \in [Clients -> Life] /\ rdRunning \in [Clients -> BOOLEAN]
      /\ finishing \in [Clients -> BOOLEAN] /\ finishTarget \in [Clients -> Nat]
  BY DEF Bounded, TypeOK, BufferTypeOK, ReaderTypeOK
<1>1. CASE Release(z)
  <2>1. /\ UNCHANGED <<life, rdRunning, finishing, finishTarget>>
        /\ cursor'[z] = pinnedEnd[z] /\ batchCount'[z] = 0
        /\ user'[z] = IF pinnedEnd[z] = cursor[z] THEN "checking" ELSE "released"
    BY <1>1, <1>t DEF Release, UserGoto
  <2>2. batchCount[z] = 0 => pinnedEnd[z] = cursor[z]
    BY DEF ZCFlow
  <2> QED BY <2>1, <2>2 DEF ZCInPhase, ZCDrained
<1>2. CASE ZCWait(z)
  <2>1. /\ UNCHANGED <<life, finishing, finishTarget, cursor, batchCount>>
        /\ user[z] = "checking" /\ user'[z] \in {"idle", "fetching", "checking"}
    BY <1>2, <1>t DEF ZCWait, UserAt, UserGoto
  <2>2. \/ rdRunning[z] /\ rdRunning'[z]
        \/ ~rdRunning[z] /\ ~rdRunning'[z] /\ user'[z] = "idle"
        \/ /\ rdRunning[z] /\ ~rdRunning'[z] /\ user'[z] = "idle"
           /\ finishing[z] /\ cursor[z] >= finishTarget[z]
    BY <1>2, <1>t DEF ZCWait, UserAt, UserGoto
  <2> QED BY <2>1, <2>2 DEF ZCInPhase, ZCDrained
<1>3. CASE ReleaseNotify(z) \/ ZCSleep(z) \/ Fetch(z) \/ SkipNotify(z) \/ Refetch(z)
           \/ ReadBatch(z)
  <2>1. /\ UNCHANGED <<life, rdRunning, finishing, finishTarget, cursor>>
        /\ \/ user[z] \notin {"idle", "checking"}
           \/ UNCHANGED <<user, batchCount>>
        /\ user'[z] \in {"released", "checking", "fetching"} =>
             user[z] \in {"released", "checking", "fetching"} /\ UNCHANGED batchCount
    BY <1>3, <1>t DEF ReleaseNotify, ZCSleep, Fetch, SkipNotify, Refetch, ReadBatch, Pin,
       UserAt, UserGoto
  <2> QED BY <2>1 DEF ZCInPhase, ZCDrained
<1>4. ~ SkipOverrun(z) /\ ~ ZCPlace(z)
  BY DEF SkipOverrun, ZCPlace, Place, UserAt, SpaceStaysFree
<1>5. CASE \E goal \in {"stopping", "closing"} : ZCStopReader(z, goal)
  <2>1. /\ UNCHANGED <<user, batchCount, finishing>>
        /\ life'[z] \in {"stopping", "closing"}
        /\ "stop" \notin Controls[z] => life'[z] # "stopping"
    BY <1>5, <1>t DEF ZCStopReader, MayEnd, SetLife
  <2> QED BY <2>1 DEF ZCInPhase, ZCDrained
<1>6. CASE ZCFinish(z)
  <2>1. /\ UNCHANGED <<user, batchCount, rdRunning>> /\ life[z] = "live"
        /\ life'[z] = "finishing"
    BY <1>6, <1>t DEF ZCFinish, MayEnd, SetLife
  <2> QED BY <2>1 DEF ZCInPhase, ZCDrained
<1>7. CASE ZCEndNotify(z)
  <2>1. /\ UNCHANGED <<user, batchCount, rdRunning, finishing, finishTarget, cursor>>
        /\ life[z] \in {"stopping", "finishing", "closing"}
        /\ life'[z] = IF life[z] = "closing" THEN "erasing" ELSE "ended"
    BY <1>7, <1>t DEF ZCEndNotify, SetLife
  <2> QED BY <2>1 DEF ZCInPhase, ZCDrained
<1>8. CASE Membership(z) /\ UNCHANGED zcVars
  <2>1. /\ UNCHANGED <<user, rdRunning, finishing, finishTarget, cursor>>
        /\ life'[z] \in {"live", "erasing", "erased", "gone"}
        /\ life'[z] = "live" => life[z] = "placed"
    BY <1>8, <1>t DEF Membership, Register, DestroyEnded, Unregister, UnregisterNotify, SetLife
  <2>2. life[z] # "placed"
    BY DEF SpaceStaysFree
  <2> QED BY <1>8, <2>1, <2>2 DEF ZCInPhase, ZCDrained
<1> QED BY <1>1, <1>2, <1>3, <1>4, <1>5, <1>6, <1>7, <1>8
       DEF ZCSteps, ZCUserThread, ZCOwnerThread, ReaderZCUser, ReaderZCControl

LEMMA AlwaysZCFlow ==
  ASSUME SingleBlockingWriter
  PROVE  Spec => [](Bounded /\ HistoryInRing /\ ZCReadersFlow)
<1>1. Init => ZCReadersFlow
  <2> SUFFICES ASSUME Init, NEW z \in ZCReaders, z \in clients \ LateClients
               PROVE  ZCInPhase(z) /\ ZCFlow(z) /\ ZCDrained(z)
    BY DEF ZCReadersFlow
  <2>1. z \in Clients
    BY Constants
  <2>2. /\ life[z] = "live" /\ rdRunning[z] = TRUE /\ finishing[z] = FALSE
        /\ user[z] = "idle" /\ batchCount[z] = 0 /\ pinnedEnd[z] = 0 /\ cursor[z] = 0
        /\ got[z] = <<>>
    BY <2>1 DEF Init, InitBuffer, InitReaderBase, InitReaderZC
  <2>3. Len(got[z]) = 0 /\ Begins(got[z], history)
    BY <2>2 DEF Begins
  <2> QED BY <2>2, <2>3 DEF ZCInPhase, ZCFlow, ZCDrained
<1>2. /\ Bounded /\ HistoryInRing /\ SpaceStaysFree /\ PinsInPlace /\ ClientsInUse
      /\ ZCReadersFlow /\ [Next]_vars
      => ZCReadersFlow'
  <2> SUFFICES ASSUME Bounded, HistoryInRing, SpaceStaysFree, PinsInPlace, ClientsInUse,
                      ZCReadersFlow, [Next]_vars,
                      NEW z \in ZCReaders, z \in (clients \ LateClients)'
               PROVE  (ZCInPhase(z) /\ ZCFlow(z) /\ ZCDrained(z))'
    BY DEF ZCReadersFlow
  <2>1. /\ z \in clients \ LateClients /\ z \in Clients
        /\ ZCInPhase(z) /\ ZCFlow(z) /\ ZCDrained(z)
    BY OnlyLateJoin, Constants DEF ZCReadersFlow
  <2>2. CASE ZCSteps(z)
    <3>1. PinnedBatchIntact /\ InUse(z)
      BY <2>1, PinsHold DEF ClientsInUse
    <3>2. ZCFlow(z)'
      BY <2>1, <2>2, <3>1, ZCUserKeepsFlow, ZCOwnerKeepsFlow DEF ZCSteps
    <3> QED BY <2>1, <2>2, <3>1, <3>2, ZCStepsKeepPhase
  <2>3. CASE ~ ZCSteps(z)
    <3>1. UNCHANGED ZCState(z) /\ HistoryKept
      BY <2>3, OthersKeepZCReader, HistoryGrows
    <3>2. Len(got[z]) <= totalWritten
      BY <2>1, ZCTypes DEF ZCFlow
    <3>3. Begins(got[z], history)'
      <4>1. PICK n \in Nat : n = Len(got[z]) /\ n <= totalWritten
        BY <3>2, ZCTypes DEF Bounded, TypeOK, ReaderTypeOK
      <4>2. \A i \in 1 .. n : got[z][i] = history[i] /\ history'[i] = history[i]
        BY <2>1, <3>1, <4>1, ZCTypes DEF ZCFlow, Begins, HistoryKept
      <4> QED BY <3>1, <4>1, <4>2 DEF Begins, ZCState
    <3> QED BY <2>1, <3>1, <3>3 DEF ZCState, ZCInPhase, ZCFlow, ZCDrained
  <2> QED BY <2>2, <2>3
<1> QED BY <1>1, <1>2, AlwaysInPlace, AlwaysInUse, PTL DEF Spec

LEMMA BeginningIsRun ==
  ASSUME NEW S, NEW s \in Seq(S), NEW h \in Seq(S), Len(s) <= Len(h), Begins(s, h)
  PROVE  s = SubSeq(h, 1, Len(s))
<1>1. PICK n \in Nat : n = Len(s) /\ n <= Len(h)
  OBVIOUS
<1>2. /\ SubSeq(h, 0 + 1, 0 + n) \in Seq(S) /\ Len(SubSeq(h, 0 + 1, 0 + n)) = n
      /\ \A i \in 1 .. n : SubSeq(h, 0 + 1, 0 + n)[i] = h[0 + i]
  <2>1. 0 \in Nat /\ 0 + n <= Len(h)
    BY <1>1
  <2> QED BY <2>1, RunPointwise
<1>3. PICK t \in Seq(S) :
           t = SubSeq(h, 1, n) /\ Len(t) = n /\ \A i \in 1 .. n : t[i] = h[i]
  <2>1. 0 + 1 = 1 /\ 0 + n = n /\ \A i \in 1 .. n : 0 + i = i
    OBVIOUS
  <2> QED BY <1>2, <2>1
<1>4. \A i \in 1 .. n : s[i] = t[i]
  BY <1>1, <1>3 DEF Begins
<1>5. s = t
  BY ONLY <1>1, <1>3, <1>4, s \in Seq(S), t \in Seq(S), n \in Nat
<1> QED BY <1>1, <1>3, <1>5

(* What the user of a reader that nobody passed has, and what is left for   *)
(* it in the active buffer, is the beginning of the history.                *)
LEMMA GotAndLeft ==
  ASSUME Bounded, HistoryInRing, NEW r \in Readers, BuffersInPhase(r), NEW p \in Nat,
         NEW e \in Nat, InFlow(r, p, e), NoneLeftOut(r, p, e)
  PROVE  got[r] \o InActive(r) = SubSeq(history, 1, e)
<1>1. PICK h \in Seq(Cell), g \in Seq(Cell), b \in Seq(Cell), a \in Nat, k \in Nat :
           /\ h = history /\ g = got[r] /\ b = buf[r][1 - bgBuf[r]]
           /\ a = activeIdx[r] /\ k = activeCount[r] - activeIdx[r]
           /\ a + k <= Len(b) /\ p + k = e /\ e <= Len(h) /\ p = Len(g)
  <2>1. /\ history \in Seq(Records) /\ Len(history) = totalWritten /\ got[r] \in Seq(Cell)
    BY ReaderTypes DEF Bounded, TypeOK, BufferTypeOK, ReaderTypeOK, HistoryInRing
  <2>2. history \in Seq(Cell)
    <3>1. Records \subseteq Cell
      BY DEF Cell
    <3> QED BY <2>1, <3>1
  <2>3. /\ buf[r][1 - bgBuf[r]] \in Seq(Cell) /\ Len(buf[r][1 - bgBuf[r]]) = ReaderBatch
    <3>1. buf[r][1 - bgBuf[r]] \in [1 .. ReaderBatch -> Cell] /\ ReaderBatch \in Nat
      BY ReaderTypes, Constants
    <3> QED BY <3>1
  <2>4. PICK k \in Nat : k = activeCount[r] - activeIdx[r] /\ activeIdx[r] + k = activeCount[r]
    BY ReaderTypes DEF BuffersInPhase
  <2>5. p + k = e /\ p = Len(got[r]) /\ e <= totalWritten
    BY <2>4, FlowRange DEF NoneLeftOut, Left
  <2>6. activeIdx[r] + k <= ReaderBatch
    BY <2>4, ReaderTypes
  <2> QED BY <2>1, <2>2, <2>3, <2>4, <2>5, <2>6, ReaderTypes
<1>2. Begins(g, h)
  BY <1>1 DEF NoneLeftOut, Begins
<1>3. InActive(r) = SubSeq(b, a + 1, a + k)
  <2>1. activeCount[r] = a + k
    BY <1>1, ReaderTypes
  <2> QED BY <1>1, <2>1 DEF InActive
<1>4. Agree(b, a, h, p, k)
  <2>1. PICK n \in Nat : n = activeCount[r] /\ n = a + k
    BY <1>1, ReaderTypes
  <2>2. ASSUME NEW i \in 1 .. k PROVE b[a + i] = h[p + i]
    <3>1. a + i \in a + 1 .. n /\ e - n + (a + i) = p + i
      <4>1. n = a + k /\ p + k = e
        BY <1>1, <2>1
      <4> QED BY <4>1
    <3>2. \A j \in a + 1 .. n : b[j] = h[e - n + j]
      BY <1>1, <2>1 DEF InFlow
    <3> QED BY <3>1, <3>2
  <2> QED BY <2>2 DEF Agree
<1>5. InActive(r) = SubSeq(h, p + 1, p + k)
  <2>1. a + k <= Len(b) /\ p + k <= Len(h)
    BY <1>1
  <2>2. SubSeq(b, a + 1, a + k) = SubSeq(h, p + 1, p + k)
    BY <1>4, <2>1, SameRun
  <2> QED BY <1>3, <2>2
<1>6. PICK s \in Seq(Cell) : s = g \o SubSeq(h, p + 1, p + k) /\ Len(s) = e /\ Begins(s, h)
  <2>1. CASE k > 0
    <3>1. p + k <= Len(h)
      BY <1>1
    <3>2. /\ Len(g \o SubSeq(h, p + 1, p + k)) = Len(g) + k
          /\ Prolongs(g \o SubSeq(h, p + 1, p + k), g, h, p, p + k)
      BY <2>1, <3>1, RunAppended
    <3>3. g \o SubSeq(h, p + 1, p + k) \in Seq(Cell)
      BY <3>1, RunPointwise, ConcatenationPointwise
    <3> QED BY <1>1, <1>2, <3>2, <3>3 DEF Prolongs
  <2>2. CASE k = 0
    <3>1. SubSeq(h, p + 1, p + k) = <<>>
      BY <1>1, <2>2
    <3>2. g \o <<>> = g
      OBVIOUS
    <3> QED BY <1>1, <1>2, <2>2, <3>1, <3>2
  <2>3. k > 0 \/ k = 0
    OBVIOUS
  <2> QED BY <2>1, <2>2, <2>3, Zenon
<1>7. s = SubSeq(h, 1, Len(s))
  <2>1. Len(s) <= Len(h)
    BY <1>1, <1>6
  <2> QED BY <1>6, <2>1, BeginningIsRun
<1> QED BY <1>1, <1>5, <1>6, <1>7

(* RecordReaderBase.h:106: after finish(), "every record already in the     *)
(* buffer at call time will be delivered", each once and in order, with a   *)
(* single blocking writer and a reader that was there from the start.       *)
THEOREM FinishedReadersAreDrained ==
  ASSUME SingleBlockingWriter
  PROVE  Spec => []FinishDrains
<1>1. /\ Bounded /\ HistoryInRing /\ ReadersInPhase /\ ReadersFlow /\ ZCReadersFlow
      => FinishDrains
  <2> SUFFICES ASSUME Bounded, HistoryInRing, ReadersInPhase, ReadersFlow, ZCReadersFlow,
                      NEW c \in clients \ LateClients,
                      life[c] \in {"finishing", "ended"}, finishing[c], ~rdRunning[c],
                      c \in ZCReaders => "stop" \notin Controls[c]
               PROVE  /\ cursor[c] >= finishTarget[c]
                      /\ got[c] \o InActive(c) = SubSeq(history, 1, cursor[c])
    BY DEF FinishDrains
  <2>1. CASE c \in Readers
    <3>1. InPhase(c) /\ ReaderFlow(c)
      BY <2>1 DEF ReadersInPhase, ReadersFlow
    <3>2. cursor[c] >= finishTarget[c] /\ copier[c] = "exited" /\ bgCount[c] = 0
      BY <3>1 DEF InPhase, LifeInPhase, BuffersInPhase
    <3>3. PICK p \in Nat, e \in Nat : InFlow(c, p, e) /\ NoneLeftOut(c, p, e)
      BY <3>1 DEF ReaderFlow, Undisturbed, FlowAt, NeverPassed
    <3>4. e = cursor[c]
      <4>1. e + bgCount[c] = cursor[c]
        BY <3>2, <3>3 DEF NoneLeftOut
      <4> QED BY <3>2, <4>1
    <3>5. got[c] \o InActive(c) = SubSeq(history, 1, e)
      BY <2>1, <3>1, <3>3, GotAndLeft DEF InPhase
    <3> QED BY <3>2, <3>4, <3>5
  <2>2. CASE c \in ZCReaders
    <3>1. ZCFlow(c) /\ ZCDrained(c)
      BY <2>2 DEF ZCReadersFlow
    <3>2. /\ user[c] \in {"idle", "checking"} /\ batchCount[c] = 0
          /\ cursor[c] >= finishTarget[c]
      BY <2>2, <3>1 DEF ZCDrained
    <3>3. Len(got[c]) = cursor[c] /\ Begins(got[c], history)
      <4>1. Len(got[c]) = pinnedEnd[c] /\ pinnedEnd[c] = cursor[c] + 0
        BY <3>1, <3>2 DEF ZCFlow
      <4> QED BY <2>2, <3>1, <4>1, ZCTypes DEF ZCFlow
    <3>4. PICK g \in Seq(Cell), h \in Seq(Cell) :
             g = got[c] /\ h = history /\ Len(g) <= Len(h)
      <4>1. history \in Seq(Records) /\ Len(history) = totalWritten /\ got[c] \in Seq(Cell)
        BY <2>2, ZCTypes DEF Bounded, TypeOK, BufferTypeOK, ReaderTypeOK, HistoryInRing
      <4>2. history \in Seq(Cell)
        <5>1. Records \subseteq Cell
          BY DEF Cell
        <5> QED BY <4>1, <5>1
      <4> QED BY <2>2, <3>3, <4>1, <4>2, ZCTypes
    <3>5. g = SubSeq(h, 1, Len(g))
      BY <3>3, <3>4, BeginningIsRun
    <3>6. InActive(c) = <<>> /\ g \o <<>> = g
      <4>1. c \notin Readers
        BY <2>2, StreamAssumption
      <4> QED BY <4>1 DEF InActive
    <3> QED BY <3>2, <3>3, <3>4, <3>5, <3>6
  <2>3. c \in Clients
    BY DEF Bounded, TypeOK, BufferTypeOK
  <2> QED BY <2>1, <2>2, <2>3, StreamAssumption
<1> QED BY <1>1, AlwaysFlow, AlwaysZCFlow, PTL
-----------------------------------------------------------------------------
(* Records are numbered by their writer; s are those of p after its k-th.   *)
Numbered(s, p, k) == \A i \in 1 .. Len(s) : s[i] = <<p, k + i>>

(* None of p after its h-th has been pushed. *)
Pushed(p, h) == \A i \in 1 .. Len(history) : history[i][1] = p => history[i][2] <= h

Distinct(s) == \A i, j \in 1 .. Len(s) : s[i] = s[j] => i = j

(* The buffers of a RecordWriter, and its worker. *)
BatchesInOrder(w, h) ==
  /\ pushPc[w] # "off" => worker[w] = "busy"
  /\ worker[w] = "busy" => hasWork[w]
  /\ Numbered(active[w], w, committed[w] - Len(active[w]))
  /\ h + Len(todo[w]) + Len(active[w]) <= committed[w]
  /\ hasWork[w] /\ pushPc[w] = "off" =>
       Numbered(bg[w], w, h) /\ h + Len(bg[w]) + Len(active[w]) <= committed[w]

(* What a writer has pushed, is pushing and has still to push follow each   *)
(* other; records are left out only when a push is aborted.                 *)
WriterFlow(p, h) ==
  /\ Pushed(p, h) /\ Numbered(todo[p], p, h) /\ h + Len(todo[p]) <= committed[p]
  /\ pushPc[p] \in {"off", "done"} => todo[p] = <<>>
  /\ p \in Writers => BatchesInOrder(p, h)
  /\ p \in ZCWriters => (api[p] \notin {"batch", "record"} => pushPc[p] = "off")

WritersFlow == \A p \in Producers : \E h \in Nat : WriterFlow(p, h)

LEMMA NumberedParts ==
  ASSUME NEW S, NEW s \in Seq(S), NEW p, NEW k \in Nat, Numbered(s, p, k),
         NEW n \in Nat, n <= Len(s)
  PROVE  /\ Numbered(SubSeq(s, 1, n), p, k) /\ Len(SubSeq(s, 1, n)) = n
         /\ SubSeq(s, 1, n) \in Seq(S)
         /\ Numbered(SubSeq(s, n + 1, Len(s)), p, k + n)
         /\ Len(SubSeq(s, n + 1, Len(s))) = Len(s) - n
<1>1. PICK len \in Nat, m \in Nat : len = Len(s) /\ m = len - n /\ n + m = len
  <2>1. Len(s) \in Nat /\ Len(s) - n \in Nat
    OBVIOUS
  <2> QED BY <2>1
<1>2. /\ SubSeq(s, 1, n) \in Seq(S) /\ Len(SubSeq(s, 1, n)) = n
      /\ \A i \in 1 .. n : SubSeq(s, 1, n)[i] = s[i]
  OBVIOUS
<1>3. /\ Len(SubSeq(s, n + 1, n + m)) = m
      /\ \A i \in 1 .. m : SubSeq(s, n + 1, n + m)[i] = s[n + i]
  <2>1. n + m <= Len(s)
    BY <1>1
  <2> QED BY <2>1, RunPointwise
<1>4. \A i \in 1 .. len : s[i] = <<p, k + i>>
  BY <1>1 DEF Numbered
<1>5. Numbered(SubSeq(s, 1, n), p, k)
  <2>1. \A i \in 1 .. n : i \in 1 .. len
    BY <1>1
  <2> QED BY <1>2, <1>4, <2>1 DEF Numbered
<1>6. Numbered(SubSeq(s, n + 1, n + m), p, k + n)
  <2>1. \A i \in 1 .. m : n + i \in 1 .. len /\ k + (n + i) = k + n + i
    BY <1>1
  <2>2. \A i \in 1 .. m : s[n + i] = <<p, k + n + i>>
    BY <1>4, <2>1
  <2> QED BY <1>3, <2>2 DEF Numbered
<1> QED BY <1>1, <1>2, <1>3, <1>5, <1>6

LEMMA NumberedTogether ==
  ASSUME NEW S, NEW s \in Seq(S), NEW t \in Seq(S), NEW p, NEW k \in Nat, NEW m \in Nat,
         Numbered(s, p, k), Numbered(t, p, m), m = k + Len(s)
  PROVE  Numbered(s \o t, p, k)
<1>1. PICK a \in Nat, b \in Nat : a = Len(s) /\ b = Len(t)
  OBVIOUS
<1>2. /\ Len(s \o t) = a + b
      /\ \A i \in 1 .. a : (s \o t)[i] = s[i]
      /\ \A i \in a + 1 .. a + b : (s \o t)[i] = t[i - a]
  BY <1>1, ConcatenationPointwise
<1>3. /\ \A i \in 1 .. a : s[i] = <<p, k + i>>
      /\ \A i \in 1 .. b : t[i] = <<p, m + i>>
  BY <1>1 DEF Numbered
<1>4. ASSUME NEW i \in 1 .. a + b PROVE (s \o t)[i] = <<p, k + i>>
  <2>1. CASE i \in 1 .. a
    BY <1>2, <1>3, <2>1
  <2>2. CASE i \in a + 1 .. a + b
    <3>1. i - a \in 1 .. b /\ m + (i - a) = k + i
      BY <1>1, <2>2
    <3> QED BY <1>2, <1>3, <2>2, <3>1
  <2>3. i \in 1 .. a \/ i \in a + 1 .. a + b
    OBVIOUS
  <2> QED BY <2>1, <2>2, <2>3
<1> QED BY <1>2, <1>4 DEF Numbered

(* A push appends records that were never pushed before. *)
LEMMA PushedAreNew ==
  ASSUME NEW s \in Seq(Records), NEW t \in Seq(Records), NEW p, NEW h \in Nat,
         history = s, Distinct(s), Pushed(p, h), Numbered(t, p, h)
  PROVE  Distinct(s \o t)
<1>1. PICK a \in Nat, b \in Nat : a = Len(s) /\ b = Len(t)
  OBVIOUS
<1>2. /\ Len(s \o t) = a + b
      /\ \A i \in 1 .. a : (s \o t)[i] = s[i]
      /\ \A i \in a + 1 .. a + b : (s \o t)[i] = t[i - a]
  BY <1>1, ConcatenationPointwise
<1>3. \A i \in 1 .. b : t[i] = <<p, h + i>>
  BY <1>1 DEF Numbered
<1>4. \A i \in 1 .. a : s[i][1] = p => s[i][2] <= h
  BY <1>1 DEF Pushed
<1>5. ASSUME NEW i \in 1 .. a, NEW j \in a + 1 .. a + b
      PROVE  (s \o t)[i] # (s \o t)[j]
  <2>1. PICK n \in 1 .. b : n = j - a
    OBVIOUS
  <2>2. (s \o t)[j] = <<p, h + n>>
    BY <1>2, <1>3, <2>1
  <2>3. s[i] # <<p, h + n>>
    <3>1. ASSUME s[i] = <<p, h + n>> PROVE FALSE
      <4>1. s[i][1] = p /\ s[i][2] = h + n
        BY <3>1
      <4>2. h + n <= h
        BY <1>4, <4>1
      <4> QED BY <4>2
    <3> QED BY <3>1
  <2> QED BY <1>2, <2>2, <2>3
<1>6. ASSUME NEW i \in a + 1 .. a + b, NEW j \in a + 1 .. a + b, (s \o t)[i] = (s \o t)[j]
      PROVE  i = j
  <2>1. PICK m \in 1 .. b, n \in 1 .. b : m = i - a /\ n = j - a
    <3>1. i - a \in 1 .. b /\ j - a \in 1 .. b
      OBVIOUS
    <3> QED BY <3>1
  <2>2. (s \o t)[i] = <<p, h + m>> /\ (s \o t)[j] = <<p, h + n>>
    BY <1>2, <1>3, <2>1
  <2>3. h + m = h + n
    <3>1. <<p, h + m>> = <<p, h + n>>
      BY <1>6, <2>2
    <3>2. <<p, h + m>>[2] = h + m /\ <<p, h + n>>[2] = h + n
      OBVIOUS
    <3> QED BY <3>1, <3>2, Zenon
  <2> QED BY <2>1, <2>3
<1>7. ASSUME NEW i \in 1 .. a, NEW j \in 1 .. a, (s \o t)[i] = (s \o t)[j]
      PROVE  i = j
  BY <1>1, <1>2, <1>7 DEF Distinct
<1>8. ASSUME NEW i \in 1 .. a + b, NEW j \in 1 .. a + b, (s \o t)[i] = (s \o t)[j]
      PROVE  i = j
  <2>1. /\ i \in 1 .. a \/ i \in a + 1 .. a + b
        /\ j \in 1 .. a \/ j \in a + 1 .. a + b
    OBVIOUS
  <2> QED BY <1>5, <1>6, <1>7, <1>8, <2>1
<1> QED BY <1>2, <1>8 DEF Distinct

(* What belongs to one writer. *)
WriterState(p) ==
  /\ UNCHANGED <<todo[p], pushPc[p], api[p], committed[p]>>
  /\ p \in Writers => UNCHANGED <<active[p], bg[p], hasWork[p], worker[p]>>

WriterSteps(p) ==
  \/ p \in Writers /\ (CallerThread(p) \/ WorkerThread(p))
  \/ p \in ZCWriters /\ (ZCCallerThread(p) \/ ZCStopThread(p))

LEMMA WriterTypes ==
  ASSUME Bounded
  PROVE  /\ todo \in [Producers -> Seq(Records)] /\ DOMAIN pushPc = Producers
         /\ DOMAIN api = Producers /\ committed \in [Producers -> Nat]
         /\ avail \in [Producers -> 0 .. Capacity]
         /\ active \in [Writers -> Seq(Records)] /\ bg \in [Writers -> Seq(Records)]
         /\ hasWork \in [Writers -> BOOLEAN] /\ DOMAIN worker = Writers
         /\ DOMAIN granted = Producers /\ DOMAIN running = Producers
  BY Constants DEF Bounded, TypeOK, WriterTypeOK

LEMMA OthersKeepWriter ==
  ASSUME Bounded, [Next]_vars, NEW p \in Producers, ~ WriterSteps(p)
  PROVE  WriterState(p)
<1> USE WriterTypes DEF WriterState
<1>1. ASSUME NEW w \in Writers \ {p}, CallerThread(w)
      PROVE  WriterState(p)
  BY <1>1, Constants, SMTT(20)
     DEF CallerThread, WriterCaller, NextBatch, CommitBatch, BeginFlush, EndFlush,
         ClearRunning, WakeWorker, JoinWorker, SwapBuffers, Woken
<1>2. ASSUME NEW w \in Writers \ {p}, WorkerThread(w)
      PROVE  WriterState(p)
  BY <1>2, Constants DEF WorkerThread, WriterWorker, WorkerCheck, WorkerSleep, WorkerPush, WorkerDone,
     StartPush, Claim, CheckSpace, AbortPush, Sleep, Push, LockForNotify, Notify
<1>3. ASSUME NEW w \in ZCWriters \ {p}, ZCCallerThread(w) \/ ZCStopThread(w)
      PROVE  WriterState(p)
  <2>1. UNCHANGED writerVars
    BY <1>3 DEF ZCCallerThread, ZCStopThread
  <2>2. UNCHANGED <<todo[p], pushPc[p], api[p], committed[p]>>
    BY <1>3, Constants DEF ZCCallerThread, ZCStopThread, WriterZCCaller, WriterZCStopper,
       ZCNextBatch, ZCCommit, ZCPush, ZCAbort, ZCDone, ZCStop, ZCStopNotify,
       StartPush, Claim, CheckSpace, AbortPush, Sleep, Push, LockForNotify, Notify
  <2> QED BY <2>1, <2>2
<1>4. CASE \/ \E r \in Readers : CopierThread(r) \/ UserThread(r) \/ OwnerThread(r)
           \/ \E z \in ZCReaders : ZCUserThread(z) \/ ZCOwnerThread(z)
  <2>1. WritersKeep
    BY <1>4 DEF CopierThread, UserThread, OwnerThread, ZCUserThread, ZCOwnerThread
  <2> QED BY <2>1 DEF WritersKeep
<1>5. CASE UNCHANGED vars
  BY <1>5 DEF vars
<1> QED BY <1>1, <1>2, <1>3, <1>4, <1>5 DEF Next, WriterSteps

LEMMA WriterFrame ==
  ASSUME NEW p \in Producers, NEW h \in Nat, WriterFlow(p, h), WriterState(p), Pushed(p, h)'
  PROVE  WriterFlow(p, h)'
  BY DEF WriterFlow, WriterState, BatchesInOrder

(* A step of the push loop other than a push. *)
LEMMA LoopGoesOn ==
  ASSUME Bounded, NEW p \in Producers, NEW h \in Nat, WriterFlow(p, h),
         UNCHANGED <<history, committed[p], api[p]>>,
         p \in Writers => UNCHANGED <<active[p], bg[p], hasWork[p], worker[p]>>,
         \/ todo'[p] = todo[p] /\ pushPc'[p] = pushPc[p]
         \/ /\ pushPc[p] # "off" /\ pushPc'[p] # "off"
            /\ \/ todo'[p] = <<>>
               \/ todo'[p] = todo[p] /\ pushPc'[p] # "done"
  PROVE  WriterFlow(p, h)'
<1>1. Pushed(p, h)'
  BY DEF WriterFlow, Pushed
<1>2. CASE todo'[p] = todo[p] /\ pushPc'[p] = pushPc[p]
  BY <1>1, <1>2 DEF WriterFlow, BatchesInOrder
<1>3. CASE pushPc[p] # "off" /\ pushPc'[p] # "off"
  <2>1. PICK c \in Nat, n \in Nat : c = committed[p] /\ n = Len(todo[p])
    <3>1. committed[p] \in Nat /\ todo[p] \in Seq(Records)
      BY WriterTypes
    <3>2. Len(todo[p]) \in Nat
      BY <3>1
    <3> QED BY <3>1, <3>2
  <2>2. Len(todo'[p]) \in Nat /\ Len(todo'[p]) <= n /\ Numbered(todo'[p], p, h)
    BY <1>3, <2>1 DEF WriterFlow, Numbered
  <2>3. h + Len(todo'[p]) <= committed[p]
    BY <2>1, <2>2 DEF WriterFlow
  <2>4. ASSUME p \in Writers PROVE h + Len(todo'[p]) + Len(active[p]) <= committed[p]
    <3>1. PICK a \in Nat : a = Len(active[p]) /\ h + n + a <= c
      <4>1. active[p] \in Seq(Records)
        BY <2>4, WriterTypes
      <4>2. Len(active[p]) \in Nat
        BY <4>1
      <4> QED BY <2>1, <2>4, <4>2 DEF WriterFlow, BatchesInOrder
    <3>2. PICK m \in Nat : m = Len(todo'[p]) /\ m <= n
      BY <2>2
    <3>3. h + m + a <= c
      <4>1. h + n + a <= c
        BY <3>1
      <4>2. m <= n
        BY <3>2
      <4> QED BY <4>1, <4>2
    <3> QED BY <2>1, <3>1, <3>2, <3>3
  <2>5. pushPc'[p] = "done" => todo'[p] = <<>>
    BY <1>3 DEF WriterFlow
  <2>6. p \in Writers => BatchesInOrder(p, h)'
    BY <1>3, <2>4 DEF WriterFlow, BatchesInOrder
  <2> QED BY <1>1, <1>3, <2>2, <2>3, <2>5, <2>6 DEF WriterFlow
<1> QED BY <1>2, <1>3

LEMMA PushedGrows ==
  ASSUME Bounded, HistoryInRing, NEW p \in Producers, NEW h \in Nat, Pushed(p, h),
         NEW q \in Producers, NEW k \in Nat, NEW t \in Seq(Records), Numbered(t, q, k),
         history' = history \o t,
         NEW g \in Nat, h <= g, p = q => k + Len(t) <= g
  PROVE  Pushed(p, g)'
<1>1. PICK s \in Seq(Records), a \in Nat, b \in Nat :
         s = history /\ a = Len(s) /\ b = Len(t)
  BY DEF HistoryInRing, Bounded, TypeOK, BufferTypeOK
<1>2. /\ Len(s \o t) = a + b
      /\ \A i \in 1 .. a : (s \o t)[i] = s[i]
      /\ \A i \in a + 1 .. a + b : (s \o t)[i] = t[i - a]
  BY <1>1, ConcatenationPointwise
<1>3. ASSUME NEW i \in 1 .. a + b, (s \o t)[i][1] = p PROVE (s \o t)[i][2] <= g
  <2>1. CASE i \in 1 .. a
    <3>1. s[i][1] = p /\ s[i] \in Records
      BY <1>1, <1>2, <1>3, <2>1
    <3>2. s[i][2] <= h
      BY <1>1, <2>1, <3>1 DEF Pushed
    <3>3. s[i][2] \in Nat
      BY <3>1 DEF Records
    <3>4. (s \o t)[i] = s[i]
      BY <1>2, <2>1
    <3>5. ASSUME NEW v \in Nat, v <= h PROVE v <= g
      BY <3>5
    <3>6. s[i][2] <= g
      BY <3>2, <3>3, <3>5
    <3> QED BY <3>4, <3>6
  <2>2. CASE i \in a + 1 .. a + b
    <3>1. PICK n \in 1 .. b : n = i - a
      <4>1. i - a \in 1 .. b
        BY <2>2
      <4> QED BY <4>1
    <3>2. (s \o t)[i] = <<q, k + n>>
      BY <1>1, <1>2, <2>2, <3>1 DEF Numbered
    <3>3. p = q /\ (s \o t)[i][2] = k + n
      BY <1>3, <3>2
    <3> QED BY <1>1, <3>3
  <2>3. i \in 1 .. a \/ i \in a + 1 .. a + b
    OBVIOUS
  <2> QED BY <2>1, <2>2, <2>3
<1> QED BY <1>1, <1>2, <1>3 DEF Pushed

LEMMA PushGoesOn ==
  ASSUME Bounded, HistoryInRing, NEW p \in Producers, NEW h \in Nat, WriterFlow(p, h), Push(p),
         UNCHANGED <<committed, api>>,
         p \in Writers => UNCHANGED <<active[p], bg[p], hasWork[p], worker[p]>>
  PROVE  \E g \in Nat : WriterFlow(p, g)'
<1>1. PICK k \in Nat, s \in Seq(Records), c \in Nat, n \in Nat :
         /\ k = ChunkSize(p) /\ s = todo[p] /\ k <= Len(s) /\ n = Len(s) /\ c = committed[p]
         /\ k <= n /\ h + n <= c
  <2>1. ChunkSize(p) \in Nat /\ ChunkSize(p) <= Len(todo[p])
    BY WriterTypes DEF ChunkSize, MinOf
  <2> QED BY <2>1, WriterTypes DEF WriterFlow
<1>2. /\ history' = history \o SubSeq(s, 1, k) /\ todo'[p] = SubSeq(s, k + 1, n)
      /\ pushPc[p] = "push" /\ pushPc'[p] = "lock"
  BY <1>1, WriterTypes DEF Push, PushRecords, At
<1>3. /\ Numbered(SubSeq(s, 1, k), p, h) /\ Len(SubSeq(s, 1, k)) = k
      /\ SubSeq(s, 1, k) \in Seq(Records)
      /\ Numbered(SubSeq(s, k + 1, n), p, h + k)
      /\ Len(SubSeq(s, k + 1, n)) = n - k
  <2>1. Numbered(s, p, h)
    BY <1>1 DEF WriterFlow
  <2>2. k <= Len(s)
    BY <1>1
  <2>3. /\ Numbered(SubSeq(s, 1, k), p, h) /\ Len(SubSeq(s, 1, k)) = k
        /\ SubSeq(s, 1, k) \in Seq(Records)
        /\ Numbered(SubSeq(s, k + 1, Len(s)), p, h + k)
        /\ Len(SubSeq(s, k + 1, Len(s))) = Len(s) - k
    BY ONLY <2>1, <2>2, NumberedParts, s \in Seq(Records), h \in Nat, k \in Nat
  <2>4. Len(s) = n
    BY <1>1
  <2> QED BY <2>3, <2>4
<1>4. PICK g \in Nat : g = h + k
  OBVIOUS
<1>5. Pushed(p, g)'
  <2>1. Pushed(p, h) /\ h <= g /\ h + k <= g
    BY <1>4 DEF WriterFlow
  <2>2. PICK t \in Seq(Records) :
           t = SubSeq(s, 1, k) /\ Numbered(t, p, h) /\ Len(t) = k /\ history' = history \o t
    BY <1>2, <1>3
  <2>3. h + Len(t) <= g
    BY <2>1, <2>2
  <2> QED BY <2>1, <2>2, <2>3, PushedGrows
<1>6. Numbered(todo'[p], p, g) /\ g + Len(todo'[p]) = h + n
  <2>1. g + (n - k) = h + n
    BY <1>1, <1>4
  <2> QED BY <1>2, <1>3, <1>4, <2>1
<1>7. p \in Writers => BatchesInOrder(p, g)'
  <2>1. ASSUME p \in Writers PROVE g + Len(todo'[p]) + Len(active[p]) <= committed[p]
    <3>1. PICK a \in Nat : a = Len(active[p]) /\ h + n + a <= c
      BY <1>1, <2>1, WriterTypes DEF WriterFlow, BatchesInOrder
    <3> QED BY <1>1, <1>6, <3>1
  <2> QED BY <1>2, <2>1 DEF WriterFlow, BatchesInOrder
<1>8. WriterFlow(p, g)'
  BY <1>1, <1>2, <1>5, <1>6, <1>7 DEF WriterFlow
<1> QED BY <1>8

(* The two writers differ in what api says of the loop. *)
LEMMA LoopStep ==
  ASSUME Bounded, HistoryInRing, NEW p \in Producers, NEW h \in Nat, WriterFlow(p, h),
         \/ Claim(p) \/ CheckSpace(p) \/ Sleep(p) \/ Push(p) \/ LockForNotify(p) \/ Notify(p),
         UNCHANGED <<committed, api>>,
         p \in Writers => UNCHANGED <<active[p], bg[p], hasWork[p], worker[p]>>
  PROVE  \E g \in Nat : WriterFlow(p, g)'
<1>1. CASE Push(p)
  BY <1>1, PushGoesOn
<1>2. CASE Claim(p) \/ CheckSpace(p) \/ Sleep(p) \/ LockForNotify(p) \/ Notify(p)
  <2>1. /\ UNCHANGED history
        /\ \/ todo'[p] = todo[p] /\ pushPc'[p] = pushPc[p]
           \/ /\ pushPc[p] # "off" /\ pushPc'[p] # "off"
              /\ \/ todo'[p] = <<>>
                 \/ todo'[p] = todo[p] /\ pushPc'[p] # "done"
    BY <1>2, WriterTypes DEF Claim, CheckSpace, Sleep, LockForNotify, Notify, AbortPush, At
  <2>2. WriterFlow(p, h)'
    BY <2>1, LoopGoesOn
  <2> QED BY <2>2
<1> QED BY <1>1, <1>2

(* swapBuffers(): the pushed, the pushing and the pending records of the    *)
(* last batch are behind those handed over.                                 *)
LEMMA SwapGoesOn ==
  ASSUME Bounded, NEW w \in Writers, NEW h \in Nat, WriterFlow(w, h), SwapBuffers(w),
         UNCHANGED <<history, todo, pushPc, committed>>
  PROVE  \E g \in Nat : WriterFlow(w, g)'
<1>1. w \in Producers /\ w \notin ZCWriters
  BY Constants
<1>2. /\ bg'[w] = active[w] /\ active'[w] = <<>> /\ hasWork'[w] = TRUE /\ hasWork[w] = FALSE
      /\ worker'[w] = "busy" => worker[w] = "busy"
  BY WriterTypes DEF SwapBuffers, Woken
<1>3. /\ worker[w] # "busy" /\ pushPc[w] = "off" /\ todo[w] = <<>>
      /\ Numbered(active[w], w, committed[w] - Len(active[w]))
      /\ h + Len(todo[w]) + Len(active[w]) <= committed[w] /\ Pushed(w, h)
  BY <1>1, <1>2 DEF WriterFlow, BatchesInOrder
<1>4. PICK a \in Nat, c \in Nat : a = Len(active[w]) /\ c = committed[w]
  <2>1. active[w] \in Seq(Records) /\ committed[w] \in Nat
    BY <1>1, WriterTypes
  <2>2. Len(active[w]) \in Nat
    BY <2>1
  <2> QED BY <2>1, <2>2
<1>5. h + 0 + a <= c
  <2>1. Len(todo[w]) = 0
    BY <1>3
  <2> QED BY <1>3, <1>4, <2>1
<1>6. PICK g \in Nat : g = c - a /\ h <= g /\ g + a = c
  <2>1. c - a \in Nat
    BY <1>5
  <2> QED BY <1>5, <2>1
<1>7. Pushed(w, g)'
  <2>1. ASSUME NEW i \in 1 .. Len(history), history[i][1] = w PROVE history[i][2] <= g
    <3>1. history[i][2] <= h /\ history[i] \in Records
      BY <1>3, <2>1 DEF Pushed, Bounded, TypeOK, BufferTypeOK
    <3>2. history[i][2] \in Nat
      BY <3>1 DEF Records
    <3> QED BY <1>6, <3>1, <3>2
  <2> QED BY <2>1 DEF Pushed
<1>8. Numbered(active[w], w, g)
  BY <1>3, <1>4, <1>6
<1>9. Numbered(<<>>, w, g) /\ Numbered(<<>>, w, c - 0) /\ Len(<<>>) = 0
  BY DEF Numbered
<1>10. g + 0 <= c /\ g + 0 + 0 <= c /\ g + a + 0 <= c
  BY <1>6
<1>11. BatchesInOrder(w, g)'
  <2>1. Numbered(active'[w], w, committed'[w] - Len(active'[w]))
    BY <1>2, <1>4, <1>9
  <2>2. g + Len(todo'[w]) + Len(active'[w]) <= committed'[w]
    BY <1>2, <1>3, <1>4, <1>9, <1>10
  <2>3. Numbered(bg'[w], w, g) /\ g + Len(bg'[w]) + Len(active'[w]) <= committed'[w]
    BY <1>2, <1>4, <1>8, <1>9, <1>10
  <2>4. pushPc'[w] = "off" /\ worker'[w] # "busy"
    BY <1>2, <1>3
  <2> QED BY <2>1, <2>2, <2>3, <2>4 DEF BatchesInOrder
<1>12. WriterFlow(w, g)'
  <2>1. todo'[w] = <<>> /\ g + Len(todo'[w]) <= committed'[w] /\ Numbered(todo'[w], w, g)
    BY <1>3, <1>4, <1>9, <1>10
  <2> QED BY <1>1, <1>7, <1>11, <2>1 DEF WriterFlow
<1> QED BY <1>12

LEMMA NewRecordsAre ==
  ASSUME Bounded, NEW p \in Producers, NEW k \in Nat, committed[p] + k <= MaxRecords
  PROVE  /\ Numbered(NewRecords(p, k), p, committed[p]) /\ Len(NewRecords(p, k)) = k
         /\ NewRecords(p, k) \in Seq(Records)
<1>1. committed[p] \in Nat /\ MaxRecords \in Nat
  BY Constants, WriterTypes
<1>2. \A i \in 1 .. k : <<p, committed[p] + i>> \in Records
  BY <1>1 DEF Records
<1>3. NewRecords(p, k) \in [1 .. k -> Records]
  BY <1>2 DEF NewRecords
<1>4. NewRecords(p, k) \in Seq(Records) /\ Len(NewRecords(p, k)) = k
  BY <1>3
<1>5. \A i \in 1 .. k : NewRecords(p, k)[i] = <<p, committed[p] + i>>
  BY DEF NewRecords
<1> QED BY <1>4, <1>5 DEF Numbered

LEMMA CommitGoesOn ==
  ASSUME Bounded, NEW w \in Writers, NEW h \in Nat, WriterFlow(w, h),
         NEW k \in Nat, CommitBatch(w, k)
  PROVE  WriterFlow(w, h)'
<1>1. w \in Producers /\ w \notin ZCWriters
  BY Constants
<1>2. /\ active'[w] = active[w] \o NewRecords(w, k) /\ committed'[w] = committed[w] + k
      /\ committed[w] + k <= MaxRecords
      /\ UNCHANGED <<history, todo, pushPc, bg, hasWork, worker>>
  BY <1>1, WriterTypes DEF CommitBatch
<1>3. PICK s \in Seq(Records), t \in Seq(Records), a \in Nat, c \in Nat, d \in Nat :
           /\ s = active[w] /\ t = NewRecords(w, k) /\ a = Len(s) /\ c = committed[w]
           /\ Len(t) = k /\ Numbered(t, w, c) /\ d = c - a /\ Numbered(s, w, d) /\ c = d + a
  <2>1. active[w] \in Seq(Records) /\ committed[w] \in Nat
    BY <1>1, WriterTypes
  <2>2. PICK a \in Nat, c \in Nat, n \in Nat :
             a = Len(active[w]) /\ c = committed[w] /\ n = Len(todo[w])
    <3>1. todo[w] \in Seq(Records)
      BY <1>1, WriterTypes
    <3>2. Len(active[w]) \in Nat /\ Len(todo[w]) \in Nat
      BY <2>1, <3>1
    <3> QED BY <2>1, <3>2
  <2>3. h + n + a <= c
    BY <1>1, <2>2 DEF WriterFlow, BatchesInOrder
  <2>4. c - a \in Nat /\ c = c - a + a
    BY <2>3
  <2>5. Numbered(active[w], w, c - a)
    BY <1>1, <2>2 DEF WriterFlow, BatchesInOrder
  <2>6. /\ Numbered(NewRecords(w, k), w, c) /\ Len(NewRecords(w, k)) = k
        /\ NewRecords(w, k) \in Seq(Records)
    BY <1>1, <1>2, <2>2, NewRecordsAre
  <2> QED BY <2>1, <2>2, <2>4, <2>5, <2>6
<1>4. Numbered(s \o t, w, d) /\ Len(s \o t) = a + k
  <2>1. c = d + Len(s)
    BY <1>3
  <2>2. Numbered(s \o t, w, d)
    BY ONLY <1>3, <2>1, NumberedTogether, s \in Seq(Records), t \in Seq(Records), d \in Nat,
            c \in Nat
  <2> QED BY <1>3, <2>2
<1>5. Numbered(active'[w], w, committed'[w] - Len(active'[w]))
  <2>1. c + k - (a + k) = d
    BY <1>3
  <2> QED BY <1>2, <1>3, <1>4, <2>1
<1>6. ASSUME NEW n \in Nat, h + n + Len(active[w]) <= committed[w]
      PROVE  h + n + Len(active'[w]) <= committed'[w]
  <2>1. h + n + a <= c
    BY <1>3, <1>6
  <2>2. h + n + (a + k) <= c + k
    BY <2>1
  <2> QED BY <1>2, <1>3, <1>4, <2>2
<1>7. Len(todo[w]) \in Nat /\ Len(bg[w]) \in Nat
  <2>1. todo[w] \in Seq(Records) /\ bg[w] \in Seq(Records)
    BY <1>1, WriterTypes
  <2> QED BY <2>1
<1>8. BatchesInOrder(w, h)'
  <2>1. h + Len(todo'[w]) + Len(active'[w]) <= committed'[w]
    BY <1>1, <1>2, <1>6, <1>7 DEF WriterFlow, BatchesInOrder
  <2>2. hasWork[w] /\ pushPc[w] = "off" =>
          Numbered(bg[w], w, h) /\ h + Len(bg[w]) + Len(active'[w]) <= committed'[w]
    BY <1>1, <1>6, <1>7 DEF WriterFlow, BatchesInOrder
  <2> QED BY <1>1, <1>2, <1>5, <2>1, <2>2 DEF WriterFlow, BatchesInOrder
<1>9. h + Len(todo'[w]) <= committed'[w]
  <2>1. PICK n \in Nat : n = Len(todo[w]) /\ h + n <= c
    BY <1>3, <1>7 DEF WriterFlow
  <2>2. h + n <= c + k
    BY <2>1
  <2> QED BY <1>2, <1>3, <2>1, <2>2
<1> QED BY <1>1, <1>2, <1>8, <1>9 DEF WriterFlow, Pushed

LEMMA CallerGoesOn ==
  ASSUME Bounded, NEW w \in Writers, NEW h \in Nat, WriterFlow(w, h), CallerThread(w)
  PROVE  \E g \in Nat : WriterFlow(w, g)'
<1>1. w \in Producers /\ w \notin ZCWriters
  BY Constants
<1>2. ASSUME SwapBuffers(w), UNCHANGED <<history, todo, pushPc, committed>>
      PROVE  \E g \in Nat : WriterFlow(w, g)'
  BY <1>2, SwapGoesOn
<1>3. ASSUME UNCHANGED <<history, todo, pushPc, committed, active, bg, hasWork>>,
             worker'[w] = "busy" <=> worker[w] = "busy"
      PROVE  \E g \in Nat : WriterFlow(w, g)'
  <2>1. WriterFlow(w, h)'
    BY <1>1, <1>3 DEF WriterFlow, BatchesInOrder, Pushed
  <2> QED BY <2>1
<1>4. CASE \E n \in 1 .. WriterBatch : NextBatch(w, n)
  BY <1>2, <1>3, <1>4 DEF NextBatch
<1>5. CASE \E goal \in {"flushing", "closing"} : BeginFlush(w, goal)
  BY <1>2, <1>3, <1>5 DEF BeginFlush
<1>6. ASSUME NEW k \in 0 .. WriterBatch, CommitBatch(w, k)
      PROVE  \E g \in Nat : WriterFlow(w, g)'
  <2>1. k \in Nat
    BY Constants
  <2>2. WriterFlow(w, h)'
    BY <1>6, <2>1, CommitGoesOn
  <2> QED BY <2>2
<1>7. CASE EndFlush(w) \/ ClearRunning(w) \/ JoinWorker(w)
  BY <1>3, <1>7 DEF EndFlush, ClearRunning, JoinWorker
<1>8. CASE WakeWorker(w)
  <2>1. worker'[w] = "busy" <=> worker[w] = "busy"
    BY <1>8, WriterTypes DEF WakeWorker, Woken
  <2> QED BY <1>3, <1>8, <2>1 DEF WakeWorker
<1> QED BY <1>4, <1>5, <1>6, <1>7, <1>8 DEF CallerThread, WriterCaller

LEMMA WorkerGoesOn ==
  ASSUME Bounded, HistoryInRing, NEW w \in Writers, NEW h \in Nat, WriterFlow(w, h),
         WorkerThread(w)
  PROVE  \E g \in Nat : WriterFlow(w, g)'
<1>1. w \in Producers /\ w \notin ZCWriters
  BY Constants
<1>2. CASE WorkerPush(w)
  <2>1. /\ UNCHANGED <<committed, api>>
        /\ UNCHANGED <<active[w], bg[w], hasWork[w], worker[w]>>
    BY <1>2 DEF WorkerPush
  <2> QED BY <1>1, <1>2, <2>1, LoopStep DEF WorkerPush
<1>3. CASE WorkerCheck(w)
  <2>1. /\ worker[w] = "loop"
        /\ UNCHANGED <<history, committed, active, bg, hasWork>>
    BY <1>3 DEF WorkerCheck
  <2>2. pushPc[w] = "off" /\ todo[w] = <<>>
    BY <1>1, <2>1 DEF WriterFlow, BatchesInOrder
  <2>3. CASE worker'[w] = "busy"
    <3>1. /\ hasWork[w] /\ todo'[w] = bg[w] /\ pushPc'[w] \in {"claim", "push"}
      BY <1>1, <1>3, <2>3, WriterTypes DEF WorkerCheck, StartPush
    <3>2. /\ Numbered(bg[w], w, h) /\ h + Len(bg[w]) + Len(active[w]) <= committed[w]
      BY <1>1, <2>2, <3>1 DEF WriterFlow, BatchesInOrder
    <3>3. h + Len(bg[w]) <= committed[w]
      <4>1. PICK b \in Nat, a \in Nat, c \in Nat :
               b = Len(bg[w]) /\ a = Len(active[w]) /\ c = committed[w]
        <5>1. bg[w] \in Seq(Records) /\ active[w] \in Seq(Records) /\ committed[w] \in Nat
          BY <1>1, WriterTypes
        <5>2. Len(bg[w]) \in Nat /\ Len(active[w]) \in Nat
          BY <5>1
        <5> QED BY <5>1, <5>2
      <4>2. h + b + a <= c
        BY <3>2, <4>1
      <4>3. h + b <= c
        BY <4>2
      <4> QED BY <4>1, <4>3
    <3>4. WriterFlow(w, h)'
      BY <1>1, <2>1, <2>3, <3>1, <3>2, <3>3 DEF WriterFlow, BatchesInOrder, Pushed
    <3> QED BY <3>4
  <2>4. CASE worker'[w] # "busy"
    <3>1. UNCHANGED <<todo, pushPc>>
      BY <1>3, <2>4, WriterTypes DEF WorkerCheck
    <3>2. WriterFlow(w, h)'
      BY <1>1, <2>1, <2>2, <2>4, <3>1 DEF WriterFlow, BatchesInOrder, Pushed
    <3> QED BY <3>2
  <2> QED BY <2>3, <2>4
<1>4. CASE WorkerSleep(w)
  <2>1. /\ UNCHANGED <<history, committed, active, bg, hasWork, todo, pushPc>>
        /\ worker[w] = "deciding" /\ worker'[w] = "asleep"
    BY <1>4, WriterTypes DEF WorkerSleep
  <2>2. WriterFlow(w, h)'
    BY <1>1, <2>1 DEF WriterFlow, BatchesInOrder, Pushed
  <2> QED BY <2>2
<1>5. CASE WorkerDone(w)
  <2>1. /\ UNCHANGED <<history, committed, active, todo>> /\ hasWork'[w] = FALSE
        /\ worker'[w] = "loop" /\ pushPc[w] = "done" /\ pushPc'[w] = "off"
    BY <1>1, <1>5, WriterTypes DEF WorkerDone, At
  <2>2. WriterFlow(w, h)'
    BY <1>1, <2>1 DEF WriterFlow, BatchesInOrder, Pushed
  <2> QED BY <2>2
<1> QED BY <1>2, <1>3, <1>4, <1>5 DEF WorkerThread, WriterWorker

LEMMA ZCWriterGoesOn ==
  ASSUME Bounded, HistoryInRing, NEW w \in ZCWriters, NEW h \in Nat, WriterFlow(w, h),
         ZCCallerThread(w) \/ ZCStopThread(w)
  PROVE  \E g \in Nat : WriterFlow(w, g)'
<1>1. w \in Producers /\ w \notin Writers
  BY Constants
<1>2. CASE ZCPush(w)
  BY <1>1, <1>2, LoopStep DEF ZCPush
<1>3. CASE \E n \in 1 .. WriterBatch : ZCNextBatch(w, n)
  <2>1. /\ UNCHANGED <<history, committed, todo, pushPc>>
        /\ api[w] \in {"idle", "filling"} /\ api'[w] = "filling"
    BY <1>1, <1>3, WriterTypes DEF ZCNextBatch
  <2>2. WriterFlow(w, h)'
    BY <1>1, <2>1 DEF WriterFlow, Pushed
  <2> QED BY <2>2
<1>4. ASSUME NEW k \in 1 .. WriterBatch, NEW kind \in {"batch", "record"}, ZCCommit(w, k, kind)
      PROVE  \E g \in Nat : WriterFlow(w, g)'
  <2>1. /\ api[w] = "filling" /\ committed[w] + k <= MaxRecords /\ UNCHANGED history
        /\ committed'[w] = committed[w] + k /\ todo'[w] = NewRecords(w, k)
        /\ pushPc'[w] \in {"claim", "push"} /\ api'[w] \in {"batch", "record"}
    BY <1>1, <1>4, WriterTypes DEF ZCCommit, StartPush
  <2>2. pushPc[w] = "off" /\ todo[w] = <<>>
    BY <2>1 DEF WriterFlow
  <2>3. k \in Nat /\ committed[w] \in Nat
    BY <1>1, WriterTypes, Constants
  <2>4. PICK c \in Nat : c = committed[w] /\ h <= c
    <3>1. Len(todo[w]) = 0
      BY <2>2
    <3>2. h + 0 <= committed[w]
      BY <3>1 DEF WriterFlow
    <3> QED BY <2>3, <3>2
  <2>5. Numbered(NewRecords(w, k), w, c) /\ Len(NewRecords(w, k)) = k
    BY <1>1, <2>1, <2>3, <2>4, NewRecordsAre
  <2>6. Pushed(w, c)'
    <3>1. ASSUME NEW i \in 1 .. Len(history), history[i][1] = w PROVE history[i][2] <= c
      <4>1. history[i][2] <= h /\ history[i] \in Records
        BY <3>1 DEF WriterFlow, Pushed, Bounded, TypeOK, BufferTypeOK
      <4>2. history[i][2] \in Nat
        BY <4>1 DEF Records
      <4> QED BY <2>4, <4>1, <4>2
    <3> QED BY <2>1, <3>1 DEF Pushed
  <2>7. c + k <= committed'[w]
    BY <2>1, <2>4
  <2>8. WriterFlow(w, c)'
    BY <1>1, <2>1, <2>5, <2>6, <2>7 DEF WriterFlow
  <2> QED BY <2>8
<1>5. CASE ZCAbort(w)
  <2>1. /\ UNCHANGED <<history, committed, api>>
        /\ todo'[w] = <<>> /\ pushPc'[w] = "done" /\ pushPc[w] # "off"
    BY <1>1, <1>5, WriterTypes DEF ZCAbort, AbortPush, ZCMayGoOn
  <2>2. WriterFlow(w, h)'
    BY <1>1, <2>1, LoopGoesOn
  <2> QED BY <2>2
<1>6. CASE ZCDone(w)
  <2>1. /\ UNCHANGED <<history, committed, todo>> /\ api'[w] = "idle"
        /\ pushPc[w] = "done" /\ pushPc'[w] = "off"
    BY <1>1, <1>6, WriterTypes DEF ZCDone, At
  <2>2. WriterFlow(w, h)'
    BY <1>1, <2>1 DEF WriterFlow, Pushed
  <2> QED BY <2>2
<1>7. CASE ZCStop(w) \/ ZCStopNotify(w)
  <2>1. UNCHANGED <<history, committed, todo, api, pushPc>>
    BY <1>7 DEF ZCStop, ZCStopNotify
  <2>2. WriterFlow(w, h)'
    BY <1>1, <2>1 DEF WriterFlow, Pushed
  <2> QED BY <2>2
<1> QED BY <1>2, <1>3, <1>4, <1>5, <1>6, <1>7
       DEF ZCCallerThread, ZCStopThread, WriterZCCaller, WriterZCStopper

(* The history after a step is the history before it, with records appended *)
(* that one producer had not pushed before.                                 *)
Appended(q, k, t) == Pushed(q, k) /\ Numbered(t, q, k) /\ history' = history \o t

LEMMA HistoryStep ==
  ASSUME Bounded, WritersFlow, [Next]_vars
  PROVE  \/ UNCHANGED history
         \/ \E q \in Producers, k \in Nat, t \in Seq(Records) :
              Push(q) /\ ReadersKeep /\ Appended(q, k, t)
<1>1. ASSUME NEW q \in Producers, Push(q)
      PROVE  \E k \in Nat, t \in Seq(Records) : Appended(q, k, t)
  <2>1. PICK k \in Nat : WriterFlow(q, k)
    BY DEF WritersFlow
  <2>2. todo[q] \in Seq(Records) /\ ChunkSize(q) \in Nat /\ ChunkSize(q) <= Len(todo[q])
    BY WriterTypes DEF ChunkSize, MinOf
  <2>3. Numbered(todo[q], q, k)
    BY <2>1 DEF WriterFlow
  <2>4. PICK s \in Seq(Records), n \in Nat : s = todo[q] /\ n = ChunkSize(q) /\ n <= Len(s)
    BY <2>2
  <2>5. Numbered(SubSeq(s, 1, n), q, k) /\ SubSeq(s, 1, n) \in Seq(Records)
    BY <2>3, <2>4, NumberedParts
  <2>6. history' = history \o SubSeq(s, 1, n)
    BY <1>1, <2>4 DEF Push, PushRecords
  <2> QED BY <2>1, <2>5, <2>6 DEF Appended, WriterFlow
<1> QED BY <1>1, OnlyPushWrites

LEMMA AlwaysWriters ==
  Spec => [](Bounded /\ HistoryInRing /\ WritersFlow /\ Distinct(history))
<1>1. Init => WritersFlow /\ Distinct(history)
  <2> SUFFICES ASSUME Init PROVE WritersFlow /\ Distinct(history)
    OBVIOUS
  <2>1. history = <<>>
    BY DEF Init, InitBuffer
  <2>2. Distinct(history) /\ \A p \in Producers : Pushed(p, 0)
    BY <2>1 DEF Distinct, Pushed
  <2>3. ASSUME NEW p \in Producers PROVE WriterFlow(p, 0)
    <3>1. todo[p] = <<>> /\ pushPc[p] = "off" /\ committed[p] = 0
      BY DEF Init, InitWriterBase
    <3>2. \A w \in Writers : active[w] = <<>> /\ hasWork[w] = FALSE /\ worker[w] = "loop"
      BY DEF Init, InitWriter
    <3>3. Numbered(<<>>, p, 0) /\ Len(<<>>) = 0 /\ 0 - 0 = 0 /\ 0 + 0 <= 0 /\ 0 + 0 + 0 <= 0
      BY DEF Numbered
    <3>4. p \in Writers => BatchesInOrder(p, 0)
      BY <3>1, <3>2, <3>3 DEF BatchesInOrder
    <3> QED BY <2>2, <3>1, <3>3, <3>4 DEF WriterFlow
  <2> QED BY <2>2, <2>3 DEF WritersFlow
<1>2. Bounded /\ HistoryInRing /\ WritersFlow /\ Distinct(history) /\ [Next]_vars
      => (Distinct(history))'
  <2> SUFFICES ASSUME Bounded, HistoryInRing, WritersFlow, Distinct(history), [Next]_vars
               PROVE  Distinct(history')
    BY DEF Distinct
  <2>1. ASSUME NEW q \in Producers, NEW k \in Nat, NEW t \in Seq(Records), Appended(q, k, t)
        PROVE  Distinct(history')
    <3>1. PICK s \in Seq(Records) : s = history
      BY DEF Bounded, TypeOK, BufferTypeOK
    <3>2. Distinct(s \o t)
      BY <2>1, <3>1, PushedAreNew DEF Appended
    <3> QED BY <2>1, <3>1, <3>2 DEF Appended
  <2>2. CASE UNCHANGED history
    BY <2>2 DEF Distinct
  <2> QED BY <2>1, <2>2, HistoryStep
<1>3. Bounded /\ HistoryInRing /\ WritersFlow /\ [Next]_vars => WritersFlow'
  <2> SUFFICES ASSUME Bounded, HistoryInRing, WritersFlow, [Next]_vars, NEW p \in Producers
               PROVE  \E g \in Nat : WriterFlow(p, g)'
    BY DEF WritersFlow
  <2>1. PICK h \in Nat : WriterFlow(p, h)
    BY DEF WritersFlow
  <2>2. CASE WriterSteps(p)
    BY <2>1, <2>2, CallerGoesOn, WorkerGoesOn, ZCWriterGoesOn DEF WriterSteps
  <2>3. CASE ~ WriterSteps(p)
    <3>1. WriterState(p)
      BY <2>3, OthersKeepWriter
    <3>2. CASE UNCHANGED history
      <4>1. Pushed(p, h)'
        BY <2>1, <3>2 DEF WriterFlow, Pushed
      <4> QED BY <2>1, <3>1, <4>1, WriterFrame
    <3>3. ASSUME NEW q \in Producers, NEW k \in Nat, NEW t \in Seq(Records),
                 Push(q), Appended(q, k, t)
          PROVE  \E g \in Nat : WriterFlow(p, g)'
      <4>1. p # q
        <5>1. ASSUME p = q PROVE FALSE
          <6>1. pushPc'[p] = "lock" /\ pushPc[p] = "push"
            BY <3>3, <5>1, WriterTypes DEF Push, At
          <6> QED BY <3>1, <6>1 DEF WriterState
        <5> QED BY <5>1
      <4>2. Pushed(p, h)'
        BY <2>1, <3>3, <4>1, PushedGrows DEF Appended, WriterFlow
      <4> QED BY <2>1, <3>1, <4>2, WriterFrame
    <3> QED BY <3>2, <3>3, HistoryStep
  <2> QED BY <2>2, <2>3
<1> QED BY <1>1, <1>2, <1>3, AlwaysHistory, PTL DEF Spec

LEMMA GuaranteedClients == Guaranteed \subseteq Clients
  BY Constants DEF Guaranteed

(* The place in the history of the last record a reader was given. *)
LEMMA PositionIs ==
  ASSUME NEW s \in Guaranteed, Distinct(history), NEW p \in Nat, NEW n \in Nat,
         n = Len(history), p <= n,
         got[s] = <<>> => p = 0,
         got[s] # <<>> => p > 0 /\ got[s][Len(got[s])] = history[p]
  PROVE  Abstract!Position(s) = p
<1>1. CASE got[s] = <<>>
  BY <1>1 DEF Abstract!Position
<1>2. CASE got[s] # <<>>
  <2>1. PICK x : x = got[s][Len(got[s])]
    OBVIOUS
  <2>2. p \in 1 .. n /\ history[p] = x
    BY <1>2, <2>1
  <2>3. \A i \in 1 .. n : history[i] = x => i = p
    BY <2>2 DEF Distinct
  <2>4. (CHOOSE i \in 1 .. n : history[i] = x) = p
    BY <2>2, <2>3
  <2>5. Abstract!Position(s) = CHOOSE i \in 1 .. n : history[i] = x
    BY <1>2, <2>1 DEF Abstract!Position
  <2> QED BY <2>4, <2>5
<1> QED BY <1>1, <1>2

(* Giving a reader the k records after position q, when it was at p. *)
LEMMA GivenIsDelivered ==
  ASSUME NEW s \in Guaranteed, NEW p \in Nat, NEW q \in Nat, NEW k \in Nat \ {0},
         NEW n \in Nat, n = Len(history), p <= q, q + k <= n,
         Abstract!Position(s) = p, q > p => Abstract!MaySkip(s),
         got \in [Clients -> Seq(Cell)],
         got' = [got EXCEPT ![s] = @ \o SubSeq(history, q + 1, q + k)],
         history' = history
  PROVE  Abstract!Deliver(s)
<1> DEFINE delivered == [c \in Guaranteed |-> got[c]]
<1>1. s \in Clients /\ Guaranteed \subseteq Clients
  BY GuaranteedClients
<1>2. /\ q - p \in 0 .. n - p /\ k \in 1 .. n - p - (q - p)
      /\ p + (q - p) + 1 = q + 1 /\ p + (q - p) + k = q + k
      /\ q - p > 0 => Abstract!MaySkip(s)
  OBVIOUS
<1>3. delivered' = [delivered EXCEPT ![s] = @ \o SubSeq(history, q + 1, q + k)]
  BY <1>1
<1>4. delivered' = [delivered EXCEPT ![s] =
        @ \o SubSeq(history, Abstract!Position(s) + (q - p) + 1,
                    Abstract!Position(s) + (q - p) + k)]
  BY <1>2, <1>3
<1>5. /\ q - p \in 0 .. Len(history) - Abstract!Position(s)
      /\ k \in 1 .. Len(history) - Abstract!Position(s) - (q - p)
  BY <1>2
<1> HIDE DEF delivered
<1>6. \E skip \in 0 .. Len(history) - Abstract!Position(s) :
        /\ skip > 0 => Abstract!MaySkip(s)
        /\ \E i \in 1 .. Len(history) - Abstract!Position(s) - skip :
             delivered' = [delivered EXCEPT ![s] =
               @ \o SubSeq(history, Abstract!Position(s) + skip + 1,
                           Abstract!Position(s) + skip + i)]
  <2> WITNESS q - p \in 0 .. Len(history) - Abstract!Position(s)
  <2>1. q - p > 0 => Abstract!MaySkip(s)
    BY <1>2
  <2>2. \E i \in 1 .. Len(history) - Abstract!Position(s) - (q - p) :
          delivered' = [delivered EXCEPT ![s] =
            @ \o SubSeq(history, Abstract!Position(s) + (q - p) + 1,
                        Abstract!Position(s) + (q - p) + i)]
    <3> WITNESS k \in 1 .. Len(history) - Abstract!Position(s) - (q - p)
    <3> QED BY <1>4
  <2> QED BY <2>1, <2>2
<1> QED BY ONLY <1>6, history' = history, Zenon DEF Abstract!Deliver, delivered

LEMMA OnlyUsersReceive ==
  ASSUME [Next]_vars
  PROVE  \/ UNCHANGED got
         \/ \E r \in Readers, m \in 1 .. ReaderBatch : TakeFromActive(r, m)
         \/ \E z \in ZCReaders : ReadBatch(z)
<1>1. CASE UNCHANGED vars
  BY <1>1 DEF vars
<1>2. ASSUME NEW w \in Writers, CallerThread(w) \/ WorkerThread(w)
      PROVE  UNCHANGED got
  BY <1>2 DEF CallerThread, WorkerThread, ReadersKeep
<1>3. ASSUME NEW w \in ZCWriters, ZCCallerThread(w) \/ ZCStopThread(w)
      PROVE  UNCHANGED got
  BY <1>3 DEF ZCCallerThread, ZCStopThread, ReadersKeep
<1>4. ASSUME NEW r \in Readers, CopierThread(r) PROVE UNCHANGED got
  BY <1>4 DEF CopierThread, Copier, WaitForData, SleepForData, TakeSnapshot, CopyRecords,
       AdvanceCursor, NotifySpace, OfferBatch
<1>5. ASSUME NEW r \in Readers, UserThread(r)
      PROVE  UNCHANGED got \/ \E m \in 1 .. ReaderBatch : TakeFromActive(r, m)
  BY <1>5 DEF UserThread, ReaderUser, BeginNextBatch, SwapActive
<1>6. ASSUME NEW r \in Readers, OwnerThread(r) PROVE UNCHANGED got
  BY <1>6 DEF OwnerThread, ReaderControl, Stop, StopNotify, Finish, JoinCopier, Place,
       Membership, Register, DestroyEnded, Unregister, UnregisterNotify
<1>7. ASSUME NEW z \in ZCReaders, ZCUserThread(z) PROVE UNCHANGED got \/ ReadBatch(z)
  BY <1>7 DEF ZCUserThread, ReaderZCUser, Release, ReleaseNotify, ZCWait, ZCSleep, Fetch, Pin,
       SkipOverrun, SkipNotify, Refetch
<1>8. ASSUME NEW z \in ZCReaders, ZCOwnerThread(z) PROVE UNCHANGED got
  BY <1>8 DEF ZCOwnerThread, ReaderZCControl, ZCStopReader, ZCFinish, ZCEndNotify, ZCPlace,
       Place, Membership, Register, DestroyEnded, Unregister, UnregisterNotify
<1> QED BY <1>1, <1>2, <1>3, <1>4, <1>5, <1>6, <1>7, <1>8 DEF Next

LEMMA PushIsAppend ==
  ASSUME Bounded, NEW q \in Producers, NEW k \in Nat, NEW t \in Seq(Records),
         Appended(q, k, t), (Distinct(history))', UNCHANGED got
  PROVE  Abstract!AppendRecords
<1>1. PICK h \in Seq(Records) : h = history
  BY DEF Bounded, TypeOK, BufferTypeOK
<1>2. /\ h \o t \in Seq(Records) /\ Len(h \o t) = Len(h) + Len(t)
      /\ \A i \in 1 .. Len(h) : (h \o t)[i] = h[i]
  BY ConcatenationPointwise
<1>3. PICK g \in Seq(Records) : g = h \o t
  BY <1>2
<1>4. Len(h) <= Len(g) /\ Begins(h, g)
  BY <1>2, <1>3 DEF Begins
<1>5. h = SubSeq(g, 1, Len(h))
  BY <1>4, BeginningIsRun
<1>6. history' = g
  BY <1>1, <1>3 DEF Appended
<1>7. Abstract!Extends(history, history')
  BY <1>1, <1>4, <1>5, <1>6 DEF Abstract!Extends
<1>8. \A i, j \in 1 .. Len(history') : history'[i] = history'[j] => i = j
  BY DEF Distinct
<1> QED BY <1>7, <1>8 DEF Abstract!AppendRecords

(* What a RecordReaderZC beside the only, blocking, writer may rely on. *)
ZCSafe == SingleBlockingWriter => PinnedBatchIntact /\ ZCReadersFlow

LEMMA AlwaysZCSafe == Spec => []ZCSafe
<1>1. CASE SingleBlockingWriter
  <2>1. Spec => []PinnedBatchIntact
    BY <1>1, PinnedMemoryIsSafe
  <2>2. Spec => [](Bounded /\ HistoryInRing /\ ZCReadersFlow)
    BY <1>1, AlwaysZCFlow
  <2>3. PinnedBatchIntact /\ ZCReadersFlow => ZCSafe
    BY DEF ZCSafe
  <2> QED BY <2>1, <2>2, <2>3, PTL
<1>2. CASE ~ SingleBlockingWriter
  <2>1. ZCSafe
    BY <1>2 DEF ZCSafe
  <2> QED BY <2>1, PTL
<1> QED BY <1>1, <1>2

LEMMA TakingDelivers ==
  ASSUME Bounded, HistoryInRing, Distinct(history), ReadersInPhase, ReadersFlow,
         NEW r \in Readers, "stop" \notin Controls[r],
         NEW m \in 1 .. ReaderBatch, TakeFromActive(r, m)
  PROVE  Abstract!Deliver(r)
<1>1. InPhase(r) /\ ReaderFlow(r) /\ r \in Clients
  BY Constants DEF ReadersInPhase, ReadersFlow
<1>2. Undisturbed(r)
  BY <1>1 DEF TakeFromActive, Usable, InPhase, LifeInPhase, Undisturbed
<1>3. PICK p \in Nat, e \in Nat : FlowAt(r, p, e)
  BY <1>1, <1>2 DEF ReaderFlow
<1>4a. PICK q \in Nat, k \in Nat \ {0} : Taken(r, p, q, k)
  BY <1>1, <1>3, TakenIsRun DEF InPhase
<1>4. /\ p <= q /\ q + k <= totalWritten
      /\ got' = [got EXCEPT ![r] = @ \o SubSeq(history, q + 1, q + k)]
      /\ NeverPassed(r) => q = p
  BY <1>4a DEF Taken
<1>5. PICK n \in Nat : n = Len(history) /\ n = totalWritten
  BY DEF Bounded, TypeOK, BufferTypeOK, HistoryInRing
<1>6. r \in Guaranteed
  BY DEF Guaranteed
<1>7. p <= n
  BY <1>4, <1>5
<1>8. /\ got[r] = <<>> => p = 0
      /\ got[r] # <<>> => p > 0 /\ got[r][Len(got[r])] = history[p]
  BY <1>3 DEF FlowAt, InFlow
<1>9. Abstract!Position(r) = p
  BY <1>5, <1>6, <1>7, <1>8, PositionIs
<1>10. q > p => Abstract!MaySkip(r)
  BY <1>4 DEF NeverPassed, Abstract!MaySkip
<1>11. got \in [Clients -> Seq(Cell)] /\ history' = history
  BY DEF Bounded, TypeOK, ReaderTypeOK, TakeFromActive
<1>12. q + k <= n
  BY <1>4, <1>5
<1> QED BY ONLY <1>4, <1>5, <1>6, <1>9, <1>10, <1>11, <1>12, GivenIsDelivered

LEMMA ReadingDelivers ==
  ASSUME Bounded, HistoryInRing, Distinct(history), ClientsInUse, ZCSafe,
         NEW z \in ZCReaders, ReadBatch(z), z \in Guaranteed
  PROVE  Abstract!Deliver(z) \/ UNCHANGED got
<1> USE ZCTypes
<1>1. SingleBlockingWriter /\ z \notin LateClients
  BY StreamAssumption DEF Guaranteed
<1>2. z \in clients
  BY DEF ReadBatch, UserAt, ClientsInUse, InUse, Usable
<1>3. /\ BatchContent(z) = SubSeq(history, cursor[z] + 1, cursor[z] + batchCount[z])
      /\ ZCFlow(z)
  BY <1>1, <1>2 DEF ZCSafe, PinnedBatchIntact, PinnedIntact, ZCReadersFlow
<1>4. PICK c \in Nat, b \in Nat, n \in Nat :
         /\ c = cursor[z] /\ b = batchCount[z] /\ n = Len(history) /\ n = totalWritten
         /\ Len(got[z]) = c /\ c + b <= n
  BY <1>3 DEF ReadBatch, UserAt, ZCFlow, Bounded, TypeOK, BufferTypeOK, HistoryInRing
<1>5. /\ got' = [got EXCEPT ![z] = @ \o SubSeq(history, c + 1, c + b)]
      /\ got \in [Clients -> Seq(Cell)] /\ history' = history
  BY <1>3, <1>4 DEF ReadBatch, Bounded, TypeOK, ReaderTypeOK
<1>6. CASE b = 0
  <2>1. SubSeq(history, c + 1, c + b) = <<>>
    BY <1>3, <1>4, <1>6 DEF BatchContent
  <2>2. PICK g \in Seq(Cell) : g = got[z] /\ g \o <<>> = g
    BY <1>5
  <2> QED BY <1>5, <2>1, <2>2
<1>7. CASE b > 0
  <2>1. /\ got[z] = <<>> => c = 0
        /\ got[z] # <<>> => c > 0 /\ got[z][Len(got[z])] = history[c]
    <3>1. PICK g \in Seq(Cell) : g = got[z] /\ Len(g) = c /\ Begins(g, history)
      BY <1>3, <1>4, <1>5 DEF ZCFlow
    <3> QED BY <3>1 DEF Begins
  <2>2. c <= n
    BY <1>4
  <2>3. Abstract!Position(z) = c
    BY <1>4, <2>1, <2>2, PositionIs
  <2>4. c <= c /\ (c > c => Abstract!MaySkip(z)) /\ b \in Nat \ {0}
    BY <1>7
  <2>5. Abstract!Deliver(z)
    BY ONLY <1>4, <1>5, <2>3, <2>4, GivenIsDelivered, z \in Guaranteed
  <2> QED BY <2>5
<1> QED BY <1>4, <1>6, <1>7

(* A reader of which nothing is promised: the abstract stream stutters. *)
LEMMA OthersAreNotSeen ==
  ASSUME Bounded, NEW z \in ZCReaders, ReadBatch(z), z \notin Guaranteed
  PROVE  UNCHANGED Abstract!streamVars
<1>1. \A c \in Guaranteed : got'[c] = got[c]
  BY GuaranteedClients DEF ReadBatch, Bounded, TypeOK, ReaderTypeOK
<1>2. history' = history
  BY DEF ReadBatch
<1> QED BY <1>1, <1>2 DEF Abstract!streamVars

LEMMA StreamStep ==
  ASSUME \A r \in Readers : "stop" \notin Controls[r],
         Bounded, HistoryInRing, WritersFlow, Distinct(history), (Distinct(history))',
         ReadersInPhase, ReadersFlow, ClientsInUse, ZCSafe, [Next]_vars
  PROVE  [Abstract!Next]_(Abstract!streamVars)
<1>1. ASSUME UNCHANGED got, UNCHANGED history
      PROVE  UNCHANGED Abstract!streamVars
  BY <1>1 DEF Abstract!streamVars
<1>2. CASE ~ UNCHANGED history
  <2>1. PICK q \in Producers, k \in Nat, t \in Seq(Records) :
             ReadersKeep /\ Appended(q, k, t)
    BY <1>2, HistoryStep
  <2>2. Abstract!AppendRecords
    BY <2>1, PushIsAppend DEF ReadersKeep
  <2> QED BY <2>2 DEF Abstract!Next
<1>3. CASE UNCHANGED history
  <2>1. ASSUME NEW r \in Readers, NEW m \in 1 .. ReaderBatch, TakeFromActive(r, m)
        PROVE  [Abstract!Next]_(Abstract!streamVars)
    <3>1. Abstract!Deliver(r)
      BY <2>1, TakingDelivers
    <3> QED BY <3>1 DEF Abstract!Next, Guaranteed
  <2>2. ASSUME NEW z \in ZCReaders, ReadBatch(z)
        PROVE  [Abstract!Next]_(Abstract!streamVars)
    <3>1. CASE z \in Guaranteed
      BY <1>1, <1>3, <2>2, <3>1, ReadingDelivers DEF Abstract!Next
    <3>2. CASE z \notin Guaranteed
      BY <2>2, <3>2, OthersAreNotSeen
    <3> QED BY <3>1, <3>2
  <2> QED BY <1>1, <1>3, <2>1, <2>2, OnlyUsersReceive
<1> QED BY <1>2, <1>3

(* The data path implements RecordStream, whatever threads and sizes there  *)
(* are: every reader is given the log's records in order and each once, and *)
(* by a single blocking writer none is left out.  The RecordReaders are not *)
(* stopped: what stop() leaves of a batch has no place in the promise (see  *)
(* StoppedReaderIsSilent).                                                  *)
THEOREM DataPathImplementsStream ==
  ASSUME \A r \in Readers : "stop" \notin Controls[r]
  PROVE  Spec => ImplementsStream
<1>1. Init => Abstract!Init
  <2> SUFFICES ASSUME Init PROVE Abstract!Init
    OBVIOUS
  <2>1. history = <<>> /\ \A c \in Guaranteed : got[c] = <<>>
    BY GuaranteedClients DEF Init, InitBuffer, InitReaderBase
  <2> QED BY <2>1 DEF Abstract!Init
<1>2. /\ Bounded /\ HistoryInRing /\ WritersFlow /\ Distinct(history)
      /\ (Distinct(history))' /\ ReadersInPhase /\ ReadersFlow /\ ClientsInUse /\ ZCSafe
      /\ [Next]_vars
      => [Abstract!Next]_(Abstract!streamVars)
  BY StreamStep
<1> QED BY <1>1, <1>2, AlwaysWriters, AlwaysFlow, AlwaysInUse, AlwaysZCSafe, PTL
       DEF Spec, ImplementsStream, Abstract!Spec
=============================================================================
