------------------------- MODULE CoordinationProofs -------------------------
(***************************************************************************)
(* How writers and readers hold and wake each other, for every capacity,   *)
(* batch size and set of writers and readers of both kinds.                *)
(*                                                                         *)
(* Back-pressure: a single blocking writer overwrites no record that a     *)
(* reader has still to read.  SpaceStaysFree is the inductive invariant:   *)
(* the space the writer has read can only grow before it pushes, as        *)
(* cursors only move forward.                                              *)
(*                                                                         *)
(* Registry: no writer calls a reader that has left the RecBuffer.         *)
(*                                                                         *)
(* Wake-ups: no writer and no reader sleeps through what it waits for.     *)
(* Waits says where a thread can be waiting; with it WakeupsOwed is        *)
(* inductive, for any number of writers of either policy.                  *)
(***************************************************************************)
EXTENDS StreamTypeProofs

USE DEF bufferVars, writerBaseVars, loopVars, writerVars, readerBaseVars, readerVars, zcVars

(* Steps that neither read the space nor push.                              *)
LEMMA SpaceFrame ==
  ASSUME Bounded, Bounded', SpaceStaysFree, totalWritten' = totalWritten,
         \A c \in Clients : life'[c] \in {"new", "placed"} => life[c] \in {"new", "placed"},
         \A c \in clients' \ LateClients :
           /\ c \in clients /\ cursor[c] <= cursor'[c]
           /\ user'[c] = "overrun" => user[c] = "overrun",
         \A p \in Producers :
           pushPc'[p] = "push" => pushPc[p] = "push" /\ avail'[p] = avail[p]
  PROVE  SpaceStaysFree'
<1>1. /\ clients \subseteq Clients /\ clients' \subseteq Clients /\ totalWritten \in Nat
      /\ cursor \in [Clients -> Nat] /\ cursor' \in [Clients -> Nat]
      /\ avail \in [Producers -> 0 .. Capacity]
  BY DEF Bounded, TypeOK, BufferTypeOK, WriterTypeOK
<1>2. ASSUME NEW c \in clients' \ LateClients
      PROVE  /\ totalWritten' - cursor'[c] <= Capacity
             /\ \A p \in Producers :
                  pushPc'[p] = "push" => totalWritten' + avail'[p] - cursor'[c] <= Capacity
             /\ c \in ZCReaders => user'[c] # "overrun"
  <2>1. /\ c \in clients \ LateClients /\ cursor[c] <= cursor'[c]
        /\ cursor[c] \in Nat /\ cursor'[c] \in Nat
        /\ user'[c] = "overrun" => user[c] = "overrun"
    BY <1>1
  <2>2. totalWritten' - cursor'[c] <= Capacity
    BY <1>1, <2>1, Constants DEF SpaceStaysFree
  <2>3. ASSUME NEW p \in Producers, pushPc'[p] = "push"
        PROVE  totalWritten' + avail'[p] - cursor'[c] <= Capacity
    <3>1. avail'[p] = avail[p] /\ totalWritten + avail[p] - cursor[c] <= Capacity
      BY <2>1, <2>3 DEF SpaceStaysFree
    <3>2. avail[p] \in Nat
      BY <1>1, Constants
    <3> QED BY <1>1, <2>1, <3>1, <3>2, Constants
  <2> QED BY <2>1, <2>2, <2>3 DEF SpaceStaysFree
<1>3. \A c \in Clients : life'[c] \in {"new", "placed"} => c \in LateClients
  BY DEF SpaceStaysFree
<1> QED BY <1>2, <1>3 DEF SpaceStaysFree

(* available = getAvailableWriteSpace(): the minimum is at most the cursor  *)
(* of every registered reader.                                              *)
LEMMA ClaimSpace ==
  ASSUME Bounded, Bounded', SpaceStaysFree, NEW p \in Producers, Claim(p), ReadersKeep
  PROVE  SpaceStaysFree'
<1>1. /\ UNCHANGED <<totalWritten, clients, cursor, life, user>>
      /\ avail' = [avail EXCEPT ![p] = AvailableWriteSpace]
      /\ pushPc' = [pushPc EXCEPT ![p] = IF AvailableWriteSpace = 0 THEN "full" ELSE "push"]
  BY DEF Claim, ReadersKeep
<1>2. /\ clients \subseteq Clients /\ totalWritten \in Nat /\ cursor \in [Clients -> Nat]
      /\ avail \in [Producers -> 0 .. Capacity] /\ pushPc \in [Producers -> PushPc]
  BY DEF Bounded, TypeOK, BufferTypeOK, WriterTypeOK
<1>3. ASSUME NEW c \in clients
      PROVE  AvailableWriteSpace # 0 => totalWritten + AvailableWriteSpace - cursor[c] <= Capacity
  <2>1. MinReadCursor \in Nat /\ MinReadCursor <= cursor[c]
    BY MinReadCursorType DEF Bounded, TypeOK
  <2>2. cursor[c] \in Nat /\ cursor[c] <= totalWritten
    BY <1>2 DEF Bounded, PositionsInRange
  <2> HIDE DEF MinReadCursor
  <2> QED BY <1>2, <2>1, <2>2, Constants DEF AvailableWriteSpace
<1>4. ASSUME NEW c \in clients \ LateClients, NEW q \in Producers, pushPc'[q] = "push"
      PROVE  totalWritten + avail'[q] - cursor[c] <= Capacity
  <2>1. CASE q = p
    <3>1. AvailableWriteSpace # 0
      BY <1>1, <1>2, <1>4, <2>1
    <3>2. avail'[q] = AvailableWriteSpace
      BY <1>1, <1>2, <2>1
    <3> HIDE DEF AvailableWriteSpace
    <3> QED BY <1>3, <3>1, <3>2
  <2>2. CASE q # p
    <3>1. pushPc[q] = "push" /\ avail'[q] = avail[q]
      BY <1>1, <1>2, <1>4, <2>2
    <3> QED BY <3>1 DEF SpaceStaysFree
  <2> QED BY <2>1, <2>2
<1> QED BY <1>1, <1>4 DEF SpaceStaysFree

(* push() of a blocking writer takes no more than it has found free.        *)
LEMMA PushSpace ==
  ASSUME SingleBlockingWriter, Bounded, Bounded', SpaceStaysFree,
         NEW p \in Producers, Push(p), ReadersKeep
  PROVE  SpaceStaysFree'
<1>1. /\ UNCHANGED <<clients, cursor, life, user>>
      /\ pushPc[p] = "push" /\ pushPc' = [pushPc EXCEPT ![p] = "lock"]
      /\ totalWritten' = totalWritten + Len(SubSeq(todo[p], 1, ChunkSize(p)))
  BY DEF Push, At, PushRecords, ReadersKeep
<1>2. totalWritten' = totalWritten + ChunkSize(p) /\ ChunkSize(p) \in Nat
  BY <1>1, ChunkType DEF Bounded
<1>3. ChunkSize(p) <= avail[p]
  BY ChunkType DEF SingleBlockingWriter, Bounded
<1>4. /\ clients \subseteq Clients /\ totalWritten \in Nat /\ cursor \in [Clients -> Nat]
      /\ avail[p] \in Nat /\ pushPc \in [Producers -> PushPc]
  BY Constants DEF Bounded, TypeOK, BufferTypeOK, WriterTypeOK
<1>5. \A q \in Producers : pushPc'[q] # "push"
  BY <1>1, <1>4 DEF SingleBlockingWriter
<1>6. ASSUME NEW c \in clients \ LateClients
      PROVE  totalWritten' - cursor[c] <= Capacity
  <2>1. totalWritten + avail[p] - cursor[c] <= Capacity /\ cursor[c] \in Nat
    BY <1>1, <1>4 DEF SpaceStaysFree
  <2> QED BY <1>2, <1>3, <1>4, <2>1, Constants
<1> QED BY <1>1, <1>5, <1>6 DEF SpaceStaysFree

(* The other steps of the push loop, and those of the writers' callers.     *)
LEMMA WritersSpace ==
  ASSUME SingleBlockingWriter, Bounded, Bounded', SpaceStaysFree,
         \/ \E w \in Writers : CallerThread(w) \/ WorkerThread(w)
         \/ \E w \in ZCWriters : ZCCallerThread(w) \/ ZCStopThread(w)
  PROVE  SpaceStaysFree'
<1>1. ReadersKeep
  BY DEF CallerThread, WorkerThread, ZCCallerThread, ZCStopThread
<1>2. CASE \E p \in Producers : Claim(p) \/ Push(p)
  BY <1>1, <1>2, ClaimSpace, PushSpace
<1>3. CASE ~ \E p \in Producers : Claim(p) \/ Push(p)
  <2>1. UNCHANGED <<totalWritten, clients, cursor>>
    BY <1>3, Constants
       DEF CallerThread, WorkerThread, ZCCallerThread, ZCStopThread,
         WriterCaller, WriterWorker, WriterZCCaller, WriterZCStopper,
         NextBatch, CommitBatch, BeginFlush, EndFlush, ClearRunning, WakeWorker, JoinWorker,
         WorkerCheck, WorkerSleep, WorkerPush, WorkerDone,
         ZCNextBatch, ZCCommit, ZCPush, ZCAbort, ZCDone, ZCStop, ZCStopNotify,
         CheckSpace, Sleep, LockForNotify, Notify
  <2>2. UNCHANGED avail
    BY <1>3, Constants
       DEF CallerThread, WorkerThread, ZCCallerThread, ZCStopThread,
         WriterCaller, WriterWorker, WriterZCCaller, WriterZCStopper,
         NextBatch, CommitBatch, BeginFlush, EndFlush, ClearRunning, WakeWorker, JoinWorker,
         WorkerCheck, WorkerSleep, WorkerPush, WorkerDone, StartPush, AbortPush,
         ZCNextBatch, ZCCommit, ZCPush, ZCAbort, ZCDone, ZCStop, ZCStopNotify,
         CheckSpace, Sleep, LockForNotify, Notify
  <2>3. \/ UNCHANGED pushPc
        \/ \E p \in Producers, s \in PushPc \ {"push"} : pushPc' = [pushPc EXCEPT ![p] = s]
    BY <1>3, Constants
       DEF CallerThread, WorkerThread, ZCCallerThread, ZCStopThread,
         WriterCaller, WriterWorker, WriterZCCaller, WriterZCStopper,
         NextBatch, CommitBatch, BeginFlush, EndFlush, ClearRunning, WakeWorker, JoinWorker,
         WorkerCheck, WorkerSleep, WorkerPush, WorkerDone, StartPush, AbortPush, PushPc,
         ZCNextBatch, ZCCommit, ZCPush, ZCAbort, ZCDone, ZCStop, ZCStopNotify,
         CheckSpace, Sleep, LockForNotify, Notify, SingleBlockingWriter
  <2>4. \A p \in Producers : pushPc'[p] = "push" => pushPc[p] = "push"
    BY <2>3 DEF Bounded, TypeOK, WriterTypeOK
  <2>5. /\ clients \subseteq Clients /\ cursor \in [Clients -> Nat]
    BY DEF Bounded, TypeOK, BufferTypeOK
  <2>6. \A c \in clients : cursor[c] <= cursor'[c]
    BY <2>1, <2>5
  <2> QED BY <1>1, <2>1, <2>2, <2>4, <2>6, SpaceFrame DEF ReadersKeep
<1> QED BY <1>2, <1>3

(* Joining and leaving the registry: only late readers join.                *)
LEMMA MembershipSpace ==
  ASSUME Bounded, Bounded', SpaceStaysFree, NEW c \in Clients, Membership(c),
         UNCHANGED <<avail, pushPc>>
  PROVE  SpaceStaysFree'
<1>1. totalWritten' = totalWritten /\ UNCHANGED <<cursor, user>>
  BY DEF Membership, Register, DestroyEnded, Unregister, UnregisterNotify
<1>2. /\ clients \subseteq Clients /\ cursor \in [Clients -> Nat] /\ life \in [Clients -> Life]
  BY DEF Bounded, TypeOK, BufferTypeOK, ReaderTypeOK
<1>3. \E s \in Life \ {"new", "placed"} : life' = [life EXCEPT ![c] = s]
  BY DEF Membership, Register, DestroyEnded, Unregister, UnregisterNotify, SetLife, Life
<1>4. \A d \in Clients : life'[d] \in {"new", "placed"} => life[d] \in {"new", "placed"}
  BY <1>2, <1>3
<1>5. clients' \ LateClients \subseteq clients
  <2>1. CASE Register(c)
    <3>1. clients' = clients \cup {c} /\ life[c] = "placed"
      BY <2>1 DEF Register, AddClient
    <3>2. c \in LateClients
      BY <3>1 DEF SpaceStaysFree
    <3> QED BY <3>1, <3>2
  <2>2. CASE clients' \subseteq clients
    BY <2>2
  <2> QED BY <2>1, <2>2 DEF Membership, DestroyEnded, Unregister, EraseClient,
             UnregisterNotify
<1>6. \A d \in clients : cursor[d] <= cursor'[d]
  BY <1>1, <1>2
<1> QED BY <1>1, <1>4, <1>5, <1>6, SpaceFrame

(* A reader's cursor never moves back, and a reader that is registered      *)
(* before the system starts is never overrun.                               *)
LEMMA ReadersSpace ==
  ASSUME Bounded, Bounded', SpaceStaysFree, NEW r \in Readers,
         CopierThread(r) \/ UserThread(r) \/ OwnerThread(r)
  PROVE  SpaceStaysFree'
<1>1. /\ totalWritten' = totalWritten /\ UNCHANGED <<avail, pushPc>>
      /\ r \in Clients /\ r \notin ZCReaders
  BY StreamAssumption DEF CopierThread, UserThread, OwnerThread, WritersKeep, Copier,
     ReaderUser,
     ReaderControl, Membership, WaitForData, SleepForData, TakeSnapshot, CopyRecords,
     AdvanceCursor, NotifySpace, OfferBatch, TakeFromActive, BeginNextBatch, SwapActive,
     Stop, StopNotify, Finish, JoinCopier, Place, Register, DestroyEnded, Unregister,
     UnregisterNotify
<1>2. /\ clients \subseteq Clients /\ cursor \in [Clients -> Nat]
      /\ life \in [Clients -> Life] /\ user' \in [Clients -> {"idle", "waiting", "taking",
            "released", "checking", "fetching", "overrun", "skipped", "refetching", "holding"}]
  BY DEF Bounded, TypeOK, BufferTypeOK, ReaderTypeOK
<1>3. CASE CopierThread(r) \/ UserThread(r)
  <2>1. UNCHANGED <<clients, life>>
    BY <1>3 DEF CopierThread, UserThread, Copier, ReaderUser, WaitForData, SleepForData,
       TakeSnapshot, CopyRecords, AdvanceCursor, NotifySpace, OfferBatch, TakeFromActive,
       BeginNextBatch, SwapActive
  <2>2. \A c \in Clients : cursor[c] <= cursor'[c]
    <3>1. CASE AdvanceCursor(r)
      <4>1. cursor' = [cursor EXCEPT ![r] = from[r] + count[r]] /\ cursor[r] <= from[r]
        BY <3>1 DEF AdvanceCursor, CopierAt, Bounded, PositionsInRange
      <4>2. from[r] \in Nat /\ count[r] \in Nat
        BY Constants DEF Bounded, TypeOK, ReaderTypeOK
      <4> QED BY <1>2, <4>1, <4>2
    <3>2. CASE UNCHANGED cursor
      BY <1>2, <3>2
    <3> QED BY <1>3, <3>1, <3>2 DEF CopierThread, UserThread, Copier, ReaderUser,
               WaitForData,
         SleepForData, TakeSnapshot, CopyRecords, NotifySpace, OfferBatch, TakeFromActive,
         BeginNextBatch, SwapActive
  <2>3. \E s \in {"idle", "waiting", "taking"} : user' = user \/ user' = [user EXCEPT ![r] = s]
    BY <1>3 DEF CopierThread, UserThread, Copier, ReaderUser, WaitForData, SleepForData,
       TakeSnapshot, CopyRecords, AdvanceCursor, NotifySpace, OfferBatch, TakeFromActive,
       BeginNextBatch, SwapActive
  <2>4. \A c \in Clients : user'[c] = "overrun" => user[c] = "overrun"
    BY <2>3 DEF Bounded, TypeOK, ReaderTypeOK
  <2> QED BY <1>1, <1>2, <2>1, <2>2, <2>4, SpaceFrame
<1>4. CASE ReaderControl(r)
  <2>1. UNCHANGED <<clients, cursor, user>>
    BY <1>4 DEF ReaderControl, Stop, StopNotify, Finish, JoinCopier
  <2>2. \E s \in Life \ {"new", "placed"} : life' = [life EXCEPT ![r] = s]
    BY <1>4 DEF ReaderControl, Stop, StopNotify, Finish, JoinCopier, SetLife, Life
  <2>3. \A c \in Clients : life'[c] \in {"new", "placed"} => life[c] \in {"new", "placed"}
    BY <1>2, <2>2
  <2> QED BY <1>1, <1>2, <2>1, <2>3, SpaceFrame
<1>5. CASE Place(r) /\ UNCHANGED readerVars
  <2>1. /\ UNCHANGED <<clients, user>> /\ life[r] = "new"
        /\ life' = [life EXCEPT ![r] = "placed"]
        /\ \A c \in Clients \ {r} : cursor'[c] = cursor[c]
    BY <1>2, <1>5 DEF Place, SetLife
  <2>2. r \in LateClients
    BY <1>1, <2>1 DEF SpaceStaysFree
  <2>3. \A c \in Clients : life'[c] \in {"new", "placed"} => life[c] \in {"new", "placed"}
    BY <1>2, <2>1
  <2>4. \A c \in clients \ LateClients : cursor[c] <= cursor'[c]
    BY <1>2, <2>1, <2>2
  <2> QED BY <1>1, <2>1, <2>3, <2>4, SpaceFrame
<1>6. CASE Membership(r)
  BY <1>1, <1>6, MembershipSpace
<1> QED BY <1>3, <1>4, <1>5, <1>6 DEF OwnerThread

(* Likewise for a RecordReaderZC; its second fetch cannot be reached.       *)
LEMMA ZCReadersSpace ==
  ASSUME Bounded, Bounded', SpaceStaysFree, NEW z \in ZCReaders,
         ZCUserThread(z) \/ ZCOwnerThread(z)
  PROVE  SpaceStaysFree'
<1>1. totalWritten' = totalWritten /\ UNCHANGED <<avail, pushPc>> /\ z \in Clients
  BY StreamAssumption DEF ZCUserThread, ZCOwnerThread, WritersKeep, ReaderZCUser,
     ReaderZCControl,
     Membership, Release, ReleaseNotify, ZCWait, ZCSleep, Fetch, Pin, SkipOverrun, SkipNotify,
     Refetch, ReadBatch, ZCStopReader, ZCFinish, ZCEndNotify, ZCPlace, Place, Register,
     DestroyEnded, Unregister, UnregisterNotify
<1>2. /\ clients \subseteq Clients /\ cursor \in [Clients -> Nat] /\ totalWritten \in Nat
      /\ life \in [Clients -> Life]
      /\ user \in [Clients -> {"idle", "waiting", "taking", "released", "checking", "fetching",
                               "overrun", "skipped", "refetching", "holding"}]
  BY DEF Bounded, TypeOK, BufferTypeOK, ReaderTypeOK
<1>3. CASE ZCUserThread(z)
  <2>1. UNCHANGED <<clients, life>>
    BY <1>3 DEF ZCUserThread, ReaderZCUser, Release, ReleaseNotify, ZCWait, ZCSleep, Fetch,
       Pin, SkipOverrun, SkipNotify, Refetch, ReadBatch
  <2>2. \A c \in clients \ LateClients : cursor[c] <= cursor'[c]
    <3>1. CASE Release(z)
      <4>1. cursor' = [cursor EXCEPT ![z] = pinnedEnd[z]] /\ cursor[z] <= pinnedEnd[z]
        BY <3>1 DEF Release, Bounded, PositionsInRange
      <4>2. pinnedEnd[z] \in Nat
        BY DEF Bounded, TypeOK, ReaderTypeOK
      <4> QED BY <1>2, <4>1, <4>2
    <3>2. CASE SkipOverrun(z)
      <4>1. user[z] = "overrun" /\ cursor' = [cursor EXCEPT ![z] = OldestCursor]
        BY <3>2 DEF SkipOverrun, UserAt
      <4>2. z \notin clients \ LateClients
        BY <4>1 DEF SpaceStaysFree
      <4> QED BY <1>2, <4>1, <4>2
    <3>3. CASE UNCHANGED cursor
      BY <1>2, <3>3
    <3> QED BY <1>3, <3>1, <3>2, <3>3 DEF ZCUserThread, ReaderZCUser, ReleaseNotify, ZCWait,
         ZCSleep, Fetch, Pin, SkipNotify, Refetch, ReadBatch
  <2>3. \A c \in clients \ LateClients : user'[c] = "overrun" => user[c] = "overrun"
    <3>1. CASE Fetch(z) /\ ~ Readable(cursor[z])
      <4>1. cursor[z] < totalWritten /\ ring.size = MinOf(totalWritten, Capacity)
        BY <3>1 DEF Fetch, UserAt, Bounded, PositionsInRange
      <4>2. z \notin clients \ LateClients
        <5>1. z \in clients \ LateClients => totalWritten - cursor[z] <= Capacity
          BY DEF SpaceStaysFree
        <5> QED BY <1>1, <1>2, <3>1, <4>1, <5>1, Constants DEF Readable, Lag, MinOf
      <4>3. \A c \in Clients \ {z} : user'[c] = user[c]
        BY <1>2, <3>1 DEF Fetch, Pin, UserGoto
      <4> QED BY <1>2, <4>2, <4>3
    <3>2. CASE Fetch(z) /\ Readable(cursor[z])
      <4>1. user' = [user EXCEPT ![z] = "holding"]
        BY <3>2 DEF Fetch, Pin, UserGoto
      <4> QED BY <1>2, <4>1
    <3>3. CASE ~ Fetch(z)
      <4>1. \/ user' = user
            \/ \E s \in {"idle", "checking", "released", "fetching", "skipped", "refetching",
                         "holding"} : user' = [user EXCEPT ![z] = s]
        BY <1>3, <3>3 DEF ZCUserThread, ReaderZCUser, Release, ReleaseNotify, ZCWait,
           ZCSleep,
           Pin, SkipOverrun, SkipNotify, Refetch, ReadBatch, UserGoto
      <4> QED BY <1>2, <4>1
    <3> QED BY <3>1, <3>2, <3>3
  <2> QED BY <1>1, <2>1, <2>2, <2>3, SpaceFrame
<1>4. CASE ReaderZCControl(z)
  <2>1. UNCHANGED <<clients, cursor, user>>
    BY <1>4 DEF ReaderZCControl, ZCStopReader, ZCFinish, ZCEndNotify
  <2>2. \E s \in Life \ {"new", "placed"} : life' = [life EXCEPT ![z] = s]
    BY <1>4 DEF ReaderZCControl, ZCStopReader, ZCFinish, ZCEndNotify, SetLife, Life
  <2>3. \A c \in Clients : life'[c] \in {"new", "placed"} => life[c] \in {"new", "placed"}
    BY <1>2, <2>2
  <2> QED BY <1>1, <1>2, <2>1, <2>3, SpaceFrame
<1>5. CASE ZCPlace(z)
  <2>1. /\ UNCHANGED <<clients, user>> /\ life[z] = "new"
        /\ life' = [life EXCEPT ![z] = "placed"]
        /\ \A c \in Clients \ {z} : cursor'[c] = cursor[c]
    BY <1>2, <1>5 DEF ZCPlace, Place, SetLife
  <2>2. z \in LateClients
    BY <1>1, <2>1 DEF SpaceStaysFree
  <2>3. \A c \in Clients : life'[c] \in {"new", "placed"} => life[c] \in {"new", "placed"}
    BY <1>2, <2>1
  <2>4. \A c \in clients \ LateClients : cursor[c] <= cursor'[c]
    BY <1>2, <2>1, <2>2
  <2> QED BY <1>1, <2>1, <2>3, <2>4, SpaceFrame
<1>6. CASE Membership(z)
  BY <1>1, <1>3, <1>6, MembershipSpace
<1> QED BY <1>3, <1>4, <1>5, <1>6 DEF ZCOwnerThread

(* At the start everything is free.                                         *)
LEMMA InitSpace == Init => SpaceStaysFree
  BY Constants DEF Init, InitBuffer, InitReaderBase, InitWriterBase, SpaceStaysFree

(* The two invariants hold together throughout.                             *)
LEMMA AlwaysSpace ==
  ASSUME SingleBlockingWriter
  PROVE  Spec => [](Bounded /\ SpaceStaysFree)
<1>1. Init => Bounded /\ SpaceStaysFree
  BY InitBounded, InitSpace
<1>2. Bounded /\ SpaceStaysFree /\ [Next]_vars => (Bounded /\ SpaceStaysFree)'
  <2> SUFFICES ASSUME Bounded, SpaceStaysFree, [Next]_vars PROVE (Bounded /\ SpaceStaysFree)'
    OBVIOUS
  <2>1. Bounded'
    BY NextBounded
  <2>2. CASE Next
    BY <2>1, <2>2, WritersSpace, ReadersSpace, ZCReadersSpace DEF Next
  <2>3. CASE UNCHANGED vars
    BY <2>1, <2>3 DEF vars, SpaceStaysFree
  <2> QED BY <2>1, <2>2, <2>3
<1> QED BY <1>1, <1>2, PTL DEF Spec

(* The space a blocking writer has read stays free until it is used.        *)
THEOREM SpaceIsStable ==
  ASSUME SingleBlockingWriter
  PROVE  Spec => []SpaceStaysFree
  BY AlwaysSpace, PTL

(* README, blockOnFull = true: "no data loss".  No record that a reader     *)
(* registered from the start has still to read is ever overwritten.         *)
THEOREM NoDataLoss ==
  ASSUME SingleBlockingWriter
  PROVE  Spec => []UnreadIsKept
<1>1. Bounded /\ SpaceStaysFree => UnreadIsKept
  <2> SUFFICES ASSUME Bounded, SpaceStaysFree, NEW c \in clients \ LateClients
               PROVE  OldestCursor <= cursor[c]
    BY DEF UnreadIsKept
  <2>1. totalWritten - cursor[c] <= Capacity
    BY DEF SpaceStaysFree, Bounded, TypeOK, BufferTypeOK
  <2>2. totalWritten \in Nat /\ cursor[c] \in Nat /\ ring.size = MinOf(totalWritten, Capacity)
    BY DEF Bounded, TypeOK, BufferTypeOK, PositionsInRange
  <2> QED BY <2>1, <2>2, Constants DEF OldestCursor, MinOf
<1> QED BY <1>1, AlwaysSpace, PTL
-----------------------------------------------------------------------------
(* The registry.                                                            *)

(* The registry starts with readers in use only.                            *)
LEMMA InitNoDangling == Init => NoDanglingClient
  BY Constants DEF Init, InitBuffer, InitReaderBase, NoDanglingClient

(* Steps of the writers: the only ones that call clients.                   *)
LEMMA WritersNoDangling ==
  ASSUME Bounded, NoDanglingClient,
         \/ \E w \in Writers : CallerThread(w) \/ WorkerThread(w)
         \/ \E w \in ZCWriters : ZCCallerThread(w) \/ ZCStopThread(w)
  PROVE  NoDanglingClient'
<1>1. UNCHANGED <<clients, life>>
  BY DEF CallerThread, WorkerThread, ZCCallerThread, ZCStopThread, ReadersKeep,
         WriterCaller, WriterWorker, WriterZCCaller, WriterZCStopper,
         NextBatch, CommitBatch, BeginFlush, EndFlush, ClearRunning, WakeWorker, JoinWorker,
         WorkerCheck, WorkerSleep, WorkerPush, WorkerDone,
         ZCNextBatch, ZCCommit, ZCPush, ZCAbort, ZCDone, ZCStop, ZCStopNotify,
         Claim, CheckSpace, Sleep, Push, LockForNotify, Notify
<1>2. \/ UNCHANGED pending
      \/ \E p \in Producers : pending' = [pending EXCEPT ![p] = clients]
      \/ \E p \in Producers, c \in Clients : pending' = [pending EXCEPT ![p] = @ \ {c}]
  BY Constants DEF CallerThread, WorkerThread, ZCCallerThread, ZCStopThread,
         WriterCaller, WriterWorker, WriterZCCaller, WriterZCStopper,
         NextBatch, CommitBatch, BeginFlush, EndFlush, ClearRunning, WakeWorker, JoinWorker,
         WorkerCheck, WorkerSleep, WorkerPush, WorkerDone,
         ZCNextBatch, ZCCommit, ZCPush, ZCAbort, ZCDone, ZCStop, ZCStopNotify,
         Claim, CheckSpace, Sleep, Push, LockForNotify, BeginNotify, Notify, NotifyClient
<1>3. pending \in [Producers -> SUBSET Clients]
  BY DEF Bounded, TypeOK, BufferTypeOK
<1> QED BY <1>1, <1>2, <1>3 DEF NoDanglingClient

(* Readers take themselves out of the registry only while no writer is      *)
(* calling clients, and into it only once they are placed.                  *)
LEMMA MembershipNoDangling ==
  ASSUME Bounded, NoDanglingClient, NEW c \in Clients, Membership(c)
  PROVE  NoDanglingClient'
<1> USE DEF Bounded, TypeOK, BufferTypeOK, ReaderTypeOK
<1>1. CASE Register(c)
  <2>1. /\ pending' = pending /\ clients' = clients \cup {c}
        /\ life' = [life EXCEPT ![c] = "live"]
    BY <1>1 DEF Register, AddClient, SetLife
  <2> QED BY <2>1 DEF NoDanglingClient
<1>2. CASE DestroyEnded(c)
  <2>1. /\ UNCHANGED <<pending, clients>> /\ life' = [life EXCEPT ![c] = "erasing"]
    BY <1>2 DEF DestroyEnded, SetLife
  <2> QED BY <2>1 DEF NoDanglingClient
<1>3. CASE Unregister(c)
  <2>1. /\ pending' = pending /\ \A p \in Producers : pending[p] = {}
        /\ clients' = clients \ {c}
        /\ life' = [life EXCEPT ![c] = "erased"]
    BY <1>3 DEF Unregister, EraseClient, SyncFree, SetLife
  <2> QED BY <2>1 DEF NoDanglingClient
<1>4. CASE UnregisterNotify(c)
  <2>1. /\ UNCHANGED <<pending, clients>> /\ life[c] = "erased"
        /\ life' = [life EXCEPT ![c] = "gone"]
    BY <1>4 DEF UnregisterNotify, SetLife
  <2> QED BY <2>1 DEF NoDanglingClient
<1> QED BY <1>1, <1>2, <1>3, <1>4 DEF Membership

(* The threads of a RecordReader: only its owner changes its registration.  *)
LEMMA ReadersNoDangling ==
  ASSUME Bounded, NoDanglingClient, NEW r \in Readers,
         CopierThread(r) \/ UserThread(r) \/ OwnerThread(r)
  PROVE  NoDanglingClient'
<1>1. r \in Clients
  BY Constants
<1>2. CASE CopierThread(r) \/ UserThread(r)
  <2>1. UNCHANGED <<pending, clients, life>>
    BY <1>2 DEF CopierThread, UserThread, Copier, ReaderUser, WaitForData, SleepForData,
       TakeSnapshot, CopyRecords, AdvanceCursor, NotifySpace, OfferBatch, TakeFromActive,
       BeginNextBatch, SwapActive
  <2> QED BY <2>1 DEF NoDanglingClient
<1>3. CASE ReaderControl(r)
  <2>1. /\ UNCHANGED <<pending, clients>> /\ life[r] \notin {"new", "placed"}
        /\ \E s \in Life \ {"new", "placed", "erased", "gone"} : SetLife(r, s)
    BY <1>3 DEF ReaderControl, Stop, StopNotify, Finish, JoinCopier, MayEnd, Life
  <2> QED BY <1>1, <2>1 DEF SetLife, NoDanglingClient, Bounded, TypeOK, ReaderTypeOK
<1>4. CASE Place(r)
  <2>1. /\ UNCHANGED <<pending, clients>> /\ life[r] = "new"
        /\ life' = [life EXCEPT ![r] = "placed"]
    BY <1>4 DEF Place, SetLife
  <2> QED BY <1>1, <2>1 DEF NoDanglingClient, Bounded, TypeOK, ReaderTypeOK
<1>5. CASE Membership(r)
  BY <1>1, <1>5, MembershipNoDangling
<1> QED BY <1>2, <1>3, <1>4, <1>5 DEF OwnerThread

(* The threads of a RecordReaderZC.                                         *)
LEMMA ZCReadersNoDangling ==
  ASSUME Bounded, NoDanglingClient, NEW z \in ZCReaders, ZCUserThread(z) \/ ZCOwnerThread(z)
  PROVE  NoDanglingClient'
<1>1. z \in Clients
  BY Constants
<1>2. CASE ZCUserThread(z)
  <2>1. UNCHANGED <<pending, clients, life>>
    BY <1>2 DEF ZCUserThread, ReaderZCUser, Release, ReleaseNotify, ZCWait, ZCSleep, Fetch,
       Pin, SkipOverrun, SkipNotify, Refetch, ReadBatch
  <2> QED BY <2>1 DEF NoDanglingClient
<1>3. CASE ReaderZCControl(z)
  <2>1. /\ UNCHANGED <<pending, clients>> /\ life[z] \notin {"new", "placed"}
        /\ \E s \in Life \ {"new", "placed", "erased", "gone"} : SetLife(z, s)
    BY <1>3 DEF ReaderZCControl, ZCStopReader, ZCFinish, ZCEndNotify, MayEnd, Life
  <2> QED BY <1>1, <2>1 DEF SetLife, NoDanglingClient, Bounded, TypeOK, ReaderTypeOK
<1>4. CASE ZCPlace(z)
  <2>1. /\ UNCHANGED <<pending, clients>> /\ life[z] = "new"
        /\ life' = [life EXCEPT ![z] = "placed"]
    BY <1>4 DEF ZCPlace, Place, SetLife
  <2> QED BY <1>1, <2>1 DEF NoDanglingClient, Bounded, TypeOK, ReaderTypeOK
<1>5. CASE Membership(z)
  BY <1>1, <1>5, MembershipNoDangling
<1> QED BY <1>2, <1>3, <1>4, <1>5 DEF ZCOwnerThread

(* No writer ever calls a reader that has left the registry.                *)
THEOREM NoCallAfterUnregister == Spec => []NoDanglingClient
<1>1. Bounded /\ NoDanglingClient /\ [Next]_vars => NoDanglingClient'
  <2> SUFFICES ASSUME Bounded, NoDanglingClient, [Next]_vars PROVE NoDanglingClient'
    OBVIOUS
  <2>1. CASE Next
    BY <2>1, WritersNoDangling, ReadersNoDangling, ZCReadersNoDangling DEF Next
  <2>2. CASE UNCHANGED vars
    BY <2>2 DEF vars, NoDanglingClient
  <2> QED BY <2>1, <2>2
<1> QED BY <1>1, InitNoDangling, AlwaysBounded, PTL DEF Spec

(* Wake-ups.  Where a thread waits, and what it has in hand meanwhile: a    *)
(* writer that waits for space is in waitForSpace(), and the push loop runs *)
(* only while there is a batch to push.                                     *)
WriterWaits(p) ==
  /\ spaceCv[p] # "awake" => pushPc[p] = "full"
  /\ p \in Writers /\ pushPc[p] # "off" => worker[p] = "busy" /\ hasWork[p]
  /\ p \in ZCWriters /\ pushPc[p] # "off" => api[p] \in {"batch", "record"}

(* A reader's thread waits for data in one place only, and not before the   *)
(* reader is registered; until then its cursor is at the oldest record.     *)
ReaderWaits(c) ==
  /\ life[c] \in {"new", "placed"} => dataCv[c] = "awake" /\ user[c] = "idle"
  /\ life[c] = "placed" => cursor[c] <= OldestCursor
  /\ c \in Readers /\ dataCv[c] # "awake" => copier[c] = "wait"
  /\ c \in ZCReaders /\ dataCv[c] # "awake" => user[c] = "checking"

Waits ==
  /\ \A p \in Producers : WriterWaits(p)
  /\ \A c \in Clients : ReaderWaits(c)

LEMMA InitWaits == Init => Waits
  BY Constants DEF Init, InitBuffer, InitWriterBase, InitReaderBase, Waits, WriterWaits,
       ReaderWaits

(* The oldest record only gets younger. *)
LEMMA OldestGrows ==
  ASSUME Bounded, Bounded', totalWritten <= totalWritten'
  PROVE  OldestCursor <= OldestCursor'
<1>1. PICK a \in Nat, b \in Nat, k \in Nat :
         /\ a = totalWritten /\ b = totalWritten' /\ k = Capacity /\ a <= b
         /\ ring.size = MinOf(a, k) /\ ring'.size = MinOf(b, k)
  BY Constants DEF Bounded, TypeOK, BufferTypeOK, PositionsInRange
<1>2. a - MinOf(a, k) <= b - MinOf(b, k)
  <2>1. a <= b
    BY <1>1
  <2>2. MinOf(a, k) = (IF a <= k THEN a ELSE k) /\ MinOf(b, k) = (IF b <= k THEN b ELSE k)
    BY DEF MinOf
  <2> QED BY ONLY <2>1, <2>2, a \in Nat, b \in Nat, k \in Nat
<1> QED BY <1>1, <1>2 DEF OldestCursor

LEMMA HeadNeverFalls ==
  ASSUME Bounded,
         \/ \E w \in Writers : CallerThread(w) \/ WorkerThread(w)
         \/ \E w \in ZCWriters : ZCCallerThread(w) \/ ZCStopThread(w)
  PROVE  totalWritten <= totalWritten'
<1>1. ASSUME NEW p \in Producers, Push(p) PROVE totalWritten <= totalWritten'
  <2>1. totalWritten' = totalWritten + ChunkSize(p) /\ ChunkSize(p) \in Nat
    BY <1>1, ChunkType DEF Bounded, Push, PushRecords
  <2> QED BY <2>1 DEF Bounded, TypeOK, BufferTypeOK
<1>2. CASE ~ \E p \in Producers : Push(p)
  <2>1. totalWritten' = totalWritten
    BY <1>2, Constants
       DEF CallerThread, WorkerThread, ZCCallerThread, ZCStopThread,
         WriterCaller, WriterWorker, WriterZCCaller, WriterZCStopper,
         NextBatch, CommitBatch, BeginFlush, EndFlush, ClearRunning, WakeWorker, JoinWorker,
         WorkerCheck, WorkerSleep, WorkerPush, WorkerDone,
         ZCNextBatch, ZCCommit, ZCPush, ZCAbort, ZCDone, ZCStop, ZCStopNotify,
         Claim, CheckSpace, Sleep, LockForNotify, Notify
  <2> QED BY <2>1 DEF Bounded, TypeOK, BufferTypeOK
<1> QED BY <1>1, <1>2

(* The steps of the writers keep what is waited for. *)
LEMMA WritersWait ==
  ASSUME Bounded, Bounded', Waits,
         \/ \E w \in Writers : CallerThread(w) \/ WorkerThread(w)
         \/ \E w \in ZCWriters : ZCCallerThread(w) \/ ZCStopThread(w)
  PROVE  Waits'
<1>t. /\ spaceCv \in [Producers -> CvState] /\ pushPc \in [Producers -> PushPc]
      /\ DOMAIN api = Producers /\ DOMAIN worker = Writers /\ hasWork \in [Writers -> BOOLEAN]
      /\ DOMAIN dataCv = Clients
      /\ Writers \subseteq Producers /\ ZCWriters \subseteq Producers
      /\ Writers \cap ZCWriters = {}
  BY Constants DEF Bounded, TypeOK, BufferTypeOK, WriterTypeOK
<1>1. ASSUME NEW c \in Clients PROVE ReaderWaits(c)'
  <2>1. /\ life'[c] = life[c] /\ user'[c] = user[c] /\ cursor'[c] = cursor[c]
        /\ copier' = copier
        /\ dataCv'[c] \in {dataCv[c], "awake"}
    BY <1>t DEF CallerThread, WorkerThread, ZCCallerThread, ZCStopThread, ReadersKeep,
         WriterCaller, WriterWorker, WriterZCCaller, WriterZCStopper,
         NextBatch, CommitBatch, BeginFlush, EndFlush, ClearRunning, WakeWorker, JoinWorker,
         WorkerCheck, WorkerSleep, WorkerPush, WorkerDone,
         ZCNextBatch, ZCCommit, ZCPush, ZCAbort, ZCDone, ZCStop, ZCStopNotify,
         Claim, CheckSpace, Sleep, Push, LockForNotify, Notify, NotifyClient
  <2>2. totalWritten <= totalWritten'
    BY HeadNeverFalls
  <2>3. /\ OldestCursor <= OldestCursor' /\ cursor[c] \in Nat
        /\ OldestCursor \in Int /\ OldestCursor' \in Int
    <3>1. OldestCursor \in Int /\ cursor[c] \in Nat
      BY OldestType DEF Bounded, TypeOK, BufferTypeOK
    <3>2. ring'.size \in Int /\ totalWritten' \in Int
      BY Constants DEF Bounded, TypeOK, BufferTypeOK, RingOf
    <3> QED BY <2>2, <3>1, <3>2, OldestGrows DEF OldestCursor
  <2> QED BY <2>1, <2>3 DEF Waits, ReaderWaits
<1>2. ASSUME NEW p \in Producers PROVE WriterWaits(p)'
  <2>1. WriterWaits(p)
    BY DEF Waits
  <2>2. ASSUME NEW w \in Writers, CallerThread(w) PROVE WriterWaits(p)'
    <3>1. /\ UNCHANGED <<spaceCv, pushPc>> /\ (p \in ZCWriters => api'[p] = api[p])
          /\ p \in Writers /\ worker[p] = "busy" => worker'[p] = "busy"
          /\ p \in Writers /\ hasWork[p] => hasWork'[p]
      BY <1>t, <2>2 DEF CallerThread, WriterCaller, NextBatch, CommitBatch, BeginFlush,
         SwapBuffers, Woken, EndFlush, ClearRunning, WakeWorker, JoinWorker
    <3> QED BY <1>t, <2>1, <2>2, <3>1 DEF WriterWaits
  <2>3. ASSUME NEW w \in Writers, WorkerThread(w) PROVE WriterWaits(p)'
    <3>1. CASE p # w
      <4>1. /\ spaceCv'[p] = spaceCv[p] /\ pushPc'[p] = pushPc[p] /\ api' = api
            /\ p \in Writers => worker'[p] = worker[p] /\ hasWork'[p] = hasWork[p]
        BY <1>t, <2>3, <3>1 DEF WorkerThread, WriterWorker, WorkerCheck, WorkerSleep,
           WorkerPush, WorkerDone, StartPush, Claim, CheckSpace, DecideToWait, AbortPush,
           Sleep, SleepForSpace, Push, LockForNotify, Notify
      <4> QED BY <2>1, <4>1 DEF WriterWaits
    <3>2. CASE p = w /\ WorkerPush(w)
      <4>1. /\ UNCHANGED <<worker, hasWork, api>>
            /\ \/ UNCHANGED <<spaceCv, pushPc>>
               \/ UNCHANGED spaceCv /\ pushPc[p] \notin {"off", "full"}
               \/ UNCHANGED spaceCv /\ spaceCv[p] = "awake" /\ pushPc[p] # "off"
               \/ UNCHANGED pushPc /\ pushPc[p] = "full"
        BY <1>t, <2>1, <3>2 DEF WorkerPush, Claim, CheckSpace, At, DecideToWait, AbortPush,
           Sleep, SleepForSpace, Push, LockForNotify, Notify, WriterWaits
      <4> QED BY <1>t, <2>1, <3>2, <4>1 DEF WriterWaits
    <3>3. CASE p = w /\ (WorkerCheck(w) \/ WorkerSleep(w) \/ WorkerDone(w))
      BY <1>t, <2>1, <3>3 DEF WorkerCheck, WorkerSleep, WorkerDone, StartPush, At, WriterWaits
    <3> QED BY <2>3, <3>1, <3>2, <3>3 DEF WorkerThread, WriterWorker
  <2>4. ASSUME NEW w \in ZCWriters, ZCCallerThread(w) PROVE WriterWaits(p)'
    <3>0. UNCHANGED <<worker, hasWork>>
      BY <2>4 DEF ZCCallerThread
    <3>1. CASE p # w
      <4>1. spaceCv'[p] = spaceCv[p] /\ pushPc'[p] = pushPc[p] /\ api'[p] = api[p]
        BY <1>t, <2>4, <3>1 DEF ZCCallerThread, WriterZCCaller, ZCNextBatch, ZCCommit,
           ZCPush, ZCAbort, ZCDone, StartPush, Claim, CheckSpace, DecideToWait, AbortPush,
           Sleep, SleepForSpace, Push, LockForNotify, Notify
      <4> QED BY <2>1, <3>0, <4>1 DEF WriterWaits
    <3>2. CASE p = w /\ ZCPush(w)
      <4>1. /\ api' = api
            /\ \/ UNCHANGED <<spaceCv, pushPc>>
               \/ UNCHANGED spaceCv /\ pushPc[p] \notin {"off", "full"}
               \/ UNCHANGED spaceCv /\ spaceCv[p] = "awake" /\ pushPc[p] # "off"
               \/ UNCHANGED pushPc /\ pushPc[p] = "full"
        BY <1>t, <2>1, <3>2 DEF ZCPush, Claim, CheckSpace, At, DecideToWait, AbortPush,
           Sleep, SleepForSpace, Push, LockForNotify, Notify, WriterWaits
      <4> QED BY <1>t, <2>1, <2>4, <3>0, <3>2, <4>1 DEF WriterWaits
    <3>3. CASE p = w /\ ~ ZCPush(w)
      <4>1. /\ UNCHANGED spaceCv /\ (spaceCv[p] # "awake" => pushPc'[p] = pushPc[p])
            /\ pushPc'[p] # "off" => api'[p] \in {"batch", "record"}
        BY <1>t, <2>1, <2>4, <3>3 DEF ZCCallerThread, WriterZCCaller, ZCNextBatch, ZCCommit,
           ZCAbort, ZCMayGoOn, ZCDone, StartPush, AbortPush, At, WriterWaits
      <4> QED BY <1>t, <2>1, <2>4, <3>3, <4>1 DEF WriterWaits
    <3> QED BY <3>1, <3>2, <3>3
  <2>5. ASSUME NEW w \in ZCWriters, ZCStopThread(w) PROVE WriterWaits(p)'
    <3>1. /\ UNCHANGED <<pushPc, api, worker, hasWork>>
          /\ spaceCv'[p] \in {spaceCv[p], "awake"}
      BY <2>5 DEF ZCStopThread, WriterZCStopper, ZCStop, ZCStopNotify, NotifyWriters
    <3> QED BY <2>1, <3>1 DEF WriterWaits
  <2> QED BY <2>2, <2>3, <2>4, <2>5
<1> QED BY <1>1, <1>2 DEF Waits

(* The threads of a RecordReader. *)
LEMMA ReadersWait ==
  ASSUME Bounded, Bounded', Waits, NEW r \in Readers,
         CopierThread(r) \/ UserThread(r) \/ OwnerThread(r)
  PROVE  Waits'
<1>t. /\ DOMAIN spaceCv = Producers /\ DOMAIN copier = Readers /\ DOMAIN dataCv = Clients
      /\ DOMAIN life = Clients /\ DOMAIN user = Clients /\ DOMAIN cursor = Clients
      /\ r \in Clients /\ r \notin ZCReaders /\ totalWritten \in Int /\ ring.size \in Int
  <2>1. ring.size \in 0 .. Capacity /\ Capacity \in Nat
    BY Constants, OldestType
  <2>2. r \in Clients /\ r \notin ZCReaders
    BY Constants
  <2>3. ring.size \in Int
    BY <2>1
  <2>4. /\ DOMAIN spaceCv = Producers /\ DOMAIN dataCv = Clients /\ DOMAIN cursor = Clients
        /\ totalWritten \in Int
    BY DEF Bounded, TypeOK, BufferTypeOK
  <2>5. DOMAIN copier = Readers /\ DOMAIN life = Clients /\ DOMAIN user = Clients
    BY DEF Bounded, TypeOK, ReaderTypeOK
  <2> QED BY <2>2, <2>3, <2>4, <2>5
<1>1. /\ UNCHANGED <<pushPc, api, worker, hasWork, totalWritten, ring>>
      /\ \A p \in Producers : spaceCv'[p] \in {spaceCv[p], "awake"}
      /\ \A c \in Clients \ {r} :
           /\ life'[c] = life[c] /\ user'[c] = user[c] /\ cursor'[c] = cursor[c]
           /\ dataCv'[c] = dataCv[c]
           /\ c \in Readers => copier'[c] = copier[c]
  BY <1>t DEF CopierThread, UserThread, OwnerThread, WritersKeep, Copier, ReaderUser,
     ReaderControl, Membership, WaitForData, SleepForData, TakeSnapshot, CopyRecords,
     AdvanceCursor, NotifySpace, NotifyWriters, OfferBatch, TakeFromActive, BeginNextBatch,
     SwapActive, Stop, StopNotify, Finish, JoinCopier, Place, Register, DestroyEnded,
     Unregister, UnregisterNotify, SetLife, WakeReader, Goto
<1>2. ASSUME NEW p \in Producers PROVE WriterWaits(p)'
  BY <1>1 DEF Waits, WriterWaits
<1>3. ASSUME NEW c \in Clients \ {r} PROVE ReaderWaits(c)'
  BY <1>1 DEF Waits, ReaderWaits, OldestCursor
<1>4. ReaderWaits(r)'
  <2> USE DEF ReaderWaits
  <2>1. ReaderWaits(r)
    BY <1>t DEF Waits
  <2>2. CASE CopierThread(r)
    <3>1. CASE WaitForData(r) \/ SleepForData(r)
      BY <1>t, <2>1, <3>1 DEF WaitForData, SleepForData, CopierAt, Goto
    <3>2. CASE TakeSnapshot(r) \/ CopyRecords(r) \/ NotifySpace(r) \/ OfferBatch(r)
      <4>1. UNCHANGED <<life, user, cursor, dataCv>> /\ copier[r] # "wait"
        BY <3>2 DEF TakeSnapshot, CopyRecords, NotifySpace, OfferBatch, CopierAt
      <4> QED BY <1>t, <1>1, <2>1, <4>1 DEF OldestCursor
    <3>3. CASE AdvanceCursor(r)
      <4>1. UNCHANGED <<life, user, dataCv>> /\ copier[r] # "wait"
        BY <3>3 DEF AdvanceCursor, CopierAt
      <4>2. life[r] # "placed"
        BY <4>1 DEF Bounded, PositionsInRange
      <4> QED BY <1>t, <2>1, <4>1, <4>2
    <3> QED BY <2>2, <3>1, <3>2, <3>3 DEF CopierThread, Copier
  <2>3. CASE UserThread(r)
    <3>1. /\ UNCHANGED <<life, cursor, copier>> /\ dataCv'[r] \in {dataCv[r], "awake"}
          /\ life[r] \notin {"new", "placed"}
      BY <1>t, <2>1, <2>3 DEF UserThread, ReaderUser, TakeFromActive, BeginNextBatch, SwapActive,
         Usable, WakeReader
    <3> QED BY <1>t, <2>1, <3>1
  <2>0. OwnerThread(r) => copier' = copier
    BY DEF OwnerThread, ReaderControl, Stop, StopNotify, Finish, JoinCopier
  <2>4. CASE OwnerThread(r) /\ ~ Register(r) /\ ~ Place(r)
    <3>0. ReaderControl(r) \/ DestroyEnded(r) \/ Unregister(r) \/ UnregisterNotify(r)
      BY <2>4 DEF OwnerThread, Membership
    <3>1. life'[r] \notin {"new", "placed"}
      BY <1>t, <3>0 DEF ReaderControl, Stop, StopNotify, Finish, JoinCopier, MayEnd, DestroyEnded,
         Unregister, UnregisterNotify, SetLife
    <3>2. dataCv'[r] \in {dataCv[r], "awake"} /\ UNCHANGED copier
      BY <1>t, <2>0, <2>4, <3>0 DEF ReaderControl, Stop, StopNotify, Finish, JoinCopier, DestroyEnded,
         Unregister, UnregisterNotify, WakeReader
    <3> QED BY <1>t, <2>1, <3>1, <3>2
  <2>5. CASE OwnerThread(r) /\ Register(r)
    <3>1. UNCHANGED <<user, cursor, dataCv, copier>> /\ life'[r] = "live"
      BY <1>t, <2>0, <2>5 DEF Register, SetLife
    <3> QED BY <1>t, <2>1, <3>1
  <2>6. CASE OwnerThread(r) /\ Place(r)
    <3>1. /\ UNCHANGED <<user, dataCv, copier>> /\ life[r] = "new" /\ life'[r] = "placed"
          /\ cursor'[r] <= OldestCursor
      <4>1. cursor'[r] = IF totalWritten > ring.size THEN OldestCursor ELSE 0
        BY <1>t, <2>6 DEF Place
      <4>2. cursor'[r] <= OldestCursor
        BY <4>1, OldestType
      <4> QED BY <1>t, <2>0, <2>6, <4>2 DEF Place, SetLife
    <3> QED BY <1>t, <1>1, <2>1, <3>1 DEF OldestCursor
  <2> QED BY <2>2, <2>3, <2>4, <2>5, <2>6 DEF OwnerThread, Membership
<1> QED BY <1>2, <1>3, <1>4 DEF Waits

(* The threads of a RecordReaderZC. *)
LEMMA ZCReadersWait ==
  ASSUME Bounded, Bounded', Waits, NEW z \in ZCReaders,
         ZCUserThread(z) \/ ZCOwnerThread(z)
  PROVE  Waits'
<1>t. /\ DOMAIN spaceCv = Producers /\ DOMAIN dataCv = Clients
      /\ DOMAIN life = Clients /\ DOMAIN user = Clients /\ DOMAIN cursor = Clients
      /\ z \in Clients /\ z \notin Readers /\ totalWritten \in Int /\ ring.size \in Int
  <2>1. ring.size \in 0 .. Capacity /\ Capacity \in Nat
    BY Constants, OldestType
  <2>2. z \in Clients /\ z \notin Readers
    BY Constants
  <2>3. /\ DOMAIN spaceCv = Producers /\ DOMAIN dataCv = Clients
        /\ DOMAIN cursor = Clients /\ totalWritten \in Int
    BY DEF Bounded, TypeOK, BufferTypeOK
  <2>4. DOMAIN life = Clients /\ DOMAIN user = Clients
    BY DEF Bounded, TypeOK, ReaderTypeOK
  <2> QED BY <2>1, <2>2, <2>3, <2>4
<1>1. /\ UNCHANGED <<pushPc, api, worker, hasWork, totalWritten, ring, copier>>
      /\ \A p \in Producers : spaceCv'[p] \in {spaceCv[p], "awake"}
      /\ \A c \in Clients \ {z} :
           /\ life'[c] = life[c] /\ user'[c] = user[c] /\ cursor'[c] = cursor[c]
           /\ dataCv'[c] = dataCv[c]
  BY <1>t DEF ZCUserThread, ZCOwnerThread, WritersKeep, ReaderZCUser, ReaderZCControl,
     Membership, Release, ReleaseNotify, ZCWait, ZCSleep, Fetch, Pin, SkipOverrun, SkipNotify,
     Refetch, ReadBatch, ZCStopReader, ZCFinish, ZCEndNotify, ZCPlace, Place, Register,
     DestroyEnded, Unregister, UnregisterNotify, NotifyWriters, SetLife, WakeReader, UserGoto
<1>2. ASSUME NEW p \in Producers PROVE WriterWaits(p)'
  BY <1>1 DEF Waits, WriterWaits
<1>3. ASSUME NEW c \in Clients \ {z} PROVE ReaderWaits(c)'
  BY <1>1 DEF Waits, ReaderWaits, OldestCursor
<1>4. ReaderWaits(z)'
  <2> USE DEF ReaderWaits
  <2>1. ReaderWaits(z)
    BY <1>t DEF Waits
  <2>2. CASE ZCUserThread(z)
    <3>1. CASE ZCWait(z) \/ ZCSleep(z)
      <4>1. /\ UNCHANGED <<life, cursor>>
            /\ user[z] = "checking"
            /\ dataCv'[z] # "awake" => user'[z] = "checking"
        BY <1>t, <2>1, <3>1 DEF ZCWait, ZCSleep, UserAt, UserGoto
      <4> QED BY <1>t, <2>1, <4>1
    <3>2. CASE \/ Release(z) \/ ReleaseNotify(z) \/ Fetch(z) \/ SkipOverrun(z)
               \/ SkipNotify(z) \/ Refetch(z) \/ ReadBatch(z)
      <4>1. /\ UNCHANGED <<life, dataCv>> /\ user[z] # "checking"
            /\ user[z] # "idle" \/ life[z] \notin {"new", "placed"}
        BY <3>2 DEF Release, ReleaseNotify, Fetch, Pin, SkipOverrun, SkipNotify, Refetch,
           ReadBatch, UserAt, Usable
      <4> QED BY <1>t, <2>1, <4>1
    <3> QED BY <2>2, <3>1, <3>2 DEF ZCUserThread, ReaderZCUser
  <2>4. CASE ZCOwnerThread(z) /\ ~ Register(z) /\ ~ ZCPlace(z)
    <3>0. ReaderZCControl(z) \/ DestroyEnded(z) \/ Unregister(z) \/ UnregisterNotify(z)
      BY <2>4 DEF ZCOwnerThread, Membership
    <3>1. life'[z] \notin {"new", "placed"}
      BY <1>t, <3>0 DEF ReaderZCControl, ZCStopReader, ZCFinish, ZCEndNotify, MayEnd,
         DestroyEnded, Unregister, UnregisterNotify, SetLife
    <3>2. dataCv'[z] \in {dataCv[z], "awake"} /\ UNCHANGED user
      BY <1>t, <3>0 DEF ReaderZCControl, ZCStopReader, ZCFinish, ZCEndNotify, DestroyEnded,
         Unregister, UnregisterNotify, WakeReader
    <3> QED BY <1>t, <2>1, <3>1, <3>2
  <2>5. CASE Register(z)
    <3>1. UNCHANGED <<user, cursor, dataCv>> /\ life'[z] = "live"
      BY <1>t, <2>5 DEF Register, SetLife
    <3> QED BY <1>t, <2>1, <3>1
  <2>6. CASE ZCPlace(z)
    <3>1. /\ UNCHANGED <<user, dataCv>> /\ life[z] = "new" /\ life'[z] = "placed"
          /\ cursor'[z] <= OldestCursor
      <4>1. cursor'[z] = IF totalWritten > ring.size THEN OldestCursor ELSE 0
        BY <1>t, <2>6 DEF ZCPlace, Place
      <4>2. cursor'[z] <= OldestCursor
        BY <4>1, OldestType
      <4> QED BY <1>t, <2>6, <4>2 DEF ZCPlace, Place, SetLife
    <3> QED BY <1>t, <1>1, <2>1, <3>1 DEF OldestCursor
  <2> QED BY <2>2, <2>4, <2>5, <2>6
<1> QED BY <1>2, <1>3, <1>4 DEF Waits

LEMMA AlwaysWaits == Spec => [](Bounded /\ Waits)
<1>1. Bounded /\ Waits /\ [Next]_vars => Waits'
  <2> SUFFICES ASSUME Bounded, Waits, [Next]_vars PROVE Waits'
    OBVIOUS
  <2>1. Bounded'
    BY NextBounded
  <2>2. CASE UNCHANGED vars
    BY <2>2 DEF vars, Waits, WriterWaits, ReaderWaits, OldestCursor
  <2> QED BY <2>1, <2>2, WritersWait, ReadersWait, ZCReadersWait DEF Next
<1> QED BY <1>1, InitWaits, AlwaysBounded, PTL DEF Spec

(* Some thread is about to call notifyWriters(). *)
OnTheWay ==
  \/ \E r \in Readers : copier[r] = "notify"
  \/ \E z \in ZCReaders : user[z] \in {"released", "skipped"}
  \/ \E c \in Clients : life[c] = "erased"
  \/ \E w \in ZCWriters : stopPc[w] = "notify"

LEMMA OnTheWayIsEnough ==
  ASSUME OnTheWay' \/ \A p \in Producers : spaceCv'[p] = "awake"
  PROVE  SpaceWakeupOwed'
  BY DEF OnTheWay, SpaceWakeupOwed

(* A step that gives no writer a reason to go on. *)
LEMMA QuietStep ==
  ASSUME SpaceWakeupOwed, OnTheWay => OnTheWay',
         AvailableWriteSpace' > 0 => AvailableWriteSpace > 0,
         \A p \in Producers :
           spaceCv'[p] # "awake" =>
             /\ running'[p] = running[p]
             /\ spaceCv[p] # "awake" \/ (AvailableWriteSpace = 0 /\ running[p])
  PROVE  SpaceWakeupOwed'
<1> SUFFICES ASSUME NEW p \in Producers, spaceCv'[p] # "awake",
                    AvailableWriteSpace' > 0 \/ ~running'[p]
             PROVE  OnTheWay'
  BY DEF SpaceWakeupOwed, OnTheWay
<1>1. AvailableWriteSpace > 0 \/ ~running[p]
  OBVIOUS
<1>2. spaceCv[p] # "awake"
  <2>1. CASE AvailableWriteSpace > 0
    BY <2>1
  <2>2. CASE ~running[p]
    BY <2>2
  <2> QED BY <1>1, <2>1, <2>2
<1>3. OnTheWay
  BY <1>1, <1>2 DEF SpaceWakeupOwed, OnTheWay
<1> QED BY <1>3

(* The free space does not grow while no registered cursor moves on. *)
LEMMA SpaceDoesNotGrow ==
  ASSUME Bounded, Bounded', totalWritten <= totalWritten', MinReadCursor' <= MinReadCursor
  PROVE  AvailableWriteSpace' > 0 => AvailableWriteSpace > 0
<1>1. PICK m \in Nat, n \in Nat, t \in Nat, u \in Nat, k \in Nat :
         /\ m = MinReadCursor /\ n = MinReadCursor' /\ t = totalWritten /\ u = totalWritten'
         /\ k = Capacity /\ k > 0 /\ t <= u /\ n <= m
  <2>1. MinReadCursor \in Nat /\ totalWritten \in Nat
    BY MinReadCursorType DEF Bounded, TypeOK, BufferTypeOK
  <2>2. (MinReadCursor \in Nat /\ totalWritten \in Nat)'
    <3>1. BufferTypeOK'
      BY DEF Bounded, TypeOK
    <3>2. (MinReadCursor \in Nat)'
      BY <3>1, MinReadCursorType, PTL
    <3> QED BY <3>1, <3>2 DEF BufferTypeOK
  <2> QED BY <2>1, <2>2, Constants
<1>2. AvailableWriteSpace = IF t < m THEN k ELSE IF t - m >= k THEN 0 ELSE k - (t - m)
  BY <1>1 DEF AvailableWriteSpace
<1>3. AvailableWriteSpace' = IF u < n THEN k ELSE IF u - n >= k THEN 0 ELSE k - (u - n)
  BY <1>1 DEF AvailableWriteSpace
<1>4. t <= u /\ n <= m /\ k > 0
  BY <1>1
<1> QED BY ONLY <1>2, <1>3, <1>4, m \in Nat, n \in Nat, t \in Nat, u \in Nat, k \in Nat

(* The slowest cursor is the same while none of the registered ones moves. *)
LEMMA MinStays ==
  ASSUME Bounded, Bounded', clients' = clients,
         \A c \in clients : cursor'[c] = cursor[c],
         phantom' \in {phantom, MinReadCursor}
  PROVE  MinReadCursor' = MinReadCursor
<1>1. CASE clients = {}
  BY <1>1 DEF MinReadCursor
<1>2. CASE clients # {}
  <2>1. BufferTypeOK /\ BufferTypeOK'
    BY DEF Bounded, TypeOK
  <2>2. PICK d \in clients :
             MinReadCursor = cursor[d] /\ \A c \in clients : cursor[d] <= cursor[c]
    BY <1>2, <2>1, MinReadCursorIs DEF SlowestIsMin
  <2>3. PICK e \in clients' :
             MinReadCursor' = cursor'[e] /\ \A c \in clients' : cursor'[e] <= cursor'[c]
    <3>1. SlowestIsMin'
      BY <2>1, MinReadCursorIs, PTL
    <3> HIDE DEF MinReadCursor
    <3> QED BY <1>2, <3>1 DEF SlowestIsMin
  <2>4. cursor[d] <= cursor[e] /\ cursor[e] <= cursor[d]
    BY <2>2, <2>3
  <2>5. cursor[d] \in Nat /\ cursor[e] \in Nat
    BY <2>1 DEF BufferTypeOK
  <2> QED BY <2>2, <2>3, <2>4, <2>5
<1> QED BY <1>1, <1>2

(* The writers' own steps: the space only shrinks; a writer decides to wait *)
(* on finding none, and is stopped by one who then wakes it.                *)
LEMMA WritersSpaceOwed ==
  ASSUME Bounded, Bounded', Waits, SpaceWakeupOwed,
         \/ \E w \in Writers : CallerThread(w) \/ WorkerThread(w)
         \/ \E w \in ZCWriters : ZCCallerThread(w) \/ ZCStopThread(w)
  PROVE  SpaceWakeupOwed'
<1>t. /\ spaceCv \in [Producers -> CvState] /\ pushPc \in [Producers -> PushPc]
      /\ DOMAIN running = Producers /\ hasWork \in [Writers -> BOOLEAN]
      /\ DOMAIN stopPc = ZCWriters
      /\ Writers \subseteq Producers /\ ZCWriters \subseteq Producers
      /\ Writers \cap ZCWriters = {}
  BY Constants DEF Bounded, TypeOK, BufferTypeOK, WriterTypeOK
<1>1. AvailableWriteSpace' > 0 => AvailableWriteSpace > 0
  <2>1. /\ clients' = clients /\ cursor' = cursor /\ phantom' \in {phantom, MinReadCursor}
    BY DEF CallerThread, WorkerThread, ZCCallerThread, ZCStopThread,
         WriterCaller, WriterWorker, WriterZCCaller, WriterZCStopper,
         NextBatch, CommitBatch, BeginFlush, EndFlush, ClearRunning, WakeWorker, JoinWorker,
         WorkerCheck, WorkerSleep, WorkerPush, WorkerDone,
         ZCNextBatch, ZCCommit, ZCPush, ZCAbort, ZCDone, ZCStop, ZCStopNotify,
         Claim, CheckSpace, Sleep, Push, LockForNotify, Notify, RememberMin
  <2>2. MinReadCursor' = MinReadCursor
    BY <2>1, MinStays
  <2>3. MinReadCursor \in Nat
    BY MinReadCursorType DEF Bounded, TypeOK
  <2>4. MinReadCursor' <= MinReadCursor
    <3> HIDE DEF MinReadCursor
    <3> QED BY <2>2, <2>3
  <2>5. totalWritten <= totalWritten'
    BY HeadNeverFalls
  <2> QED BY <2>4, <2>5, SpaceDoesNotGrow
<1>2. ReadersKeep
  BY DEF CallerThread, WorkerThread, ZCCallerThread, ZCStopThread
<1>3. CASE \E w \in ZCWriters : ZCStopNotify(w)
  <2>1. \A p \in Producers : spaceCv'[p] = "awake"
    BY <1>3 DEF ZCStopNotify, NotifyWriters
  <2> QED BY <2>1, OnTheWayIsEnough
<1>4. CASE \E w \in ZCWriters : ZCStop(w)
  <2>1. OnTheWay'
    BY <1>t, <1>4 DEF ZCStop, OnTheWay
  <2> QED BY <2>1, OnTheWayIsEnough
<1>5. CASE ~ \E w \in ZCWriters : ZCStopThread(w)
  <2>1. OnTheWay => OnTheWay'
    <3>1. UNCHANGED stopPc
      BY <1>5 DEF CallerThread, WorkerThread, ZCCallerThread, WriterZCCaller,
         ZCNextBatch, ZCCommit, ZCPush, ZCAbort, ZCDone
    <3> QED BY <1>2, <3>1 DEF OnTheWay, ReadersKeep
  <2>2. ASSUME NEW p \in Producers, spaceCv'[p] # "awake"
        PROVE  /\ running'[p] = running[p]
               /\ spaceCv[p] # "awake" \/ (AvailableWriteSpace = 0 /\ running[p])
    <3>1. ASSUME NEW w \in Writers, CallerThread(w)
          PROVE  UNCHANGED spaceCv /\ running'[p] = running[p]
      <4>1. UNCHANGED spaceCv
        BY <3>1 DEF CallerThread, WriterCaller, NextBatch, CommitBatch, BeginFlush, EndFlush,
           ClearRunning, WakeWorker, JoinWorker
      <4>2. CASE ClearRunning(w)
        <5>1. p # w
          BY <1>t, <2>2, <4>1, <4>2 DEF ClearRunning, Waits, WriterWaits
        <5> QED BY <4>1, <4>2, <5>1 DEF ClearRunning
      <4>3. CASE ~ ClearRunning(w)
        BY <3>1, <4>1, <4>3 DEF CallerThread, WriterCaller, NextBatch, CommitBatch, BeginFlush,
           EndFlush, WakeWorker, JoinWorker
      <4> QED BY <4>2, <4>3
    <3>2. ASSUME NEW w \in Producers,
                 Claim(w) \/ CheckSpace(w) \/ Sleep(w) \/ Push(w) \/ LockForNotify(w) \/ Notify(w)
          PROVE  spaceCv[p] # "awake" \/ (AvailableWriteSpace = 0 /\ running[p])
      <4> HIDE DEF AvailableWriteSpace
      <4> QED BY <1>t, <2>2, <3>2 DEF Claim, CheckSpace, DecideToWait, Sleep, SleepForSpace, Push,
                LockForNotify, Notify
    <3>3. ASSUME NEW w \in Writers, WorkerThread(w)
          PROVE  /\ running' = running
                 /\ spaceCv[p] # "awake" \/ (AvailableWriteSpace = 0 /\ running[p])
      <4>1. CASE WorkerPush(w)
        BY <1>t, <3>2, <4>1 DEF WorkerPush
      <4>2. CASE WorkerCheck(w) \/ WorkerSleep(w) \/ WorkerDone(w)
        BY <2>2, <4>2 DEF WorkerCheck, WorkerSleep, WorkerDone
      <4> QED BY <3>3, <4>1, <4>2 DEF WorkerThread, WriterWorker
    <3>4. ASSUME NEW w \in ZCWriters, ZCCallerThread(w)
          PROVE  /\ running' = running
                 /\ spaceCv[p] # "awake" \/ (AvailableWriteSpace = 0 /\ running[p])
      <4>1. CASE ZCPush(w)
        BY <1>t, <3>2, <4>1 DEF ZCPush
      <4>2. CASE ~ ZCPush(w)
        BY <2>2, <3>4, <4>2 DEF ZCCallerThread, WriterZCCaller, ZCNextBatch, ZCCommit, ZCAbort,
           ZCDone
      <4> QED BY <4>1, <4>2
    <3> QED BY <1>5, <2>2, <3>1, <3>3, <3>4
  <2> HIDE DEF AvailableWriteSpace
  <2> QED BY <1>1, <2>1, <2>2, QuietStep
<1>6. (\E w \in ZCWriters : ZCStopThread(w)) =>
        \E w \in ZCWriters : ZCStop(w) \/ ZCStopNotify(w)
  BY DEF ZCStopThread, WriterZCStopper
<1> QED BY <1>3, <1>4, <1>5, <1>6

(* A reader's step that neither moves a registered cursor nor wakes the     *)
(* writers.                                                                 *)
LEMMA ReaderQuiet ==
  ASSUME Bounded, Bounded', SpaceWakeupOwed, WritersKeep, OnTheWay => OnTheWay',
         UNCHANGED <<totalWritten, clients, phantom, spaceCv>>,
         \A c \in clients : cursor'[c] = cursor[c]
  PROVE  SpaceWakeupOwed'
<1>1. MinReadCursor' = MinReadCursor
  BY MinStays
<1>2. totalWritten \in Nat /\ MinReadCursor \in Nat
  BY MinReadCursorType DEF Bounded, TypeOK, BufferTypeOK
<1>3. AvailableWriteSpace' > 0 => AvailableWriteSpace > 0
  <2>1. MinReadCursor' <= MinReadCursor /\ totalWritten <= totalWritten'
    <3> HIDE DEF MinReadCursor
    <3> QED BY <1>1, <1>2
  <2> QED BY <2>1, SpaceDoesNotGrow
<1>4. \A p \in Producers : spaceCv'[p] # "awake" =>
        /\ running'[p] = running[p]
        /\ spaceCv[p] # "awake" \/ (AvailableWriteSpace = 0 /\ running[p])
  BY DEF WritersKeep
<1> HIDE DEF AvailableWriteSpace
<1> QED BY <1>3, <1>4, QuietStep

(* A reader that registers does not make space: its cursor was placed at    *)
(* the oldest record, or before what is the oldest by now.                  *)
LEMMA RegisterMakesNoSpace ==
  ASSUME Bounded, Bounded', Waits, NEW c \in Clients, Register(c)
  PROVE  AvailableWriteSpace' > 0 => AvailableWriteSpace > 0
<1>1. /\ clients' = clients \cup {c} /\ cursor' = cursor /\ totalWritten' = totalWritten
      /\ life[c] = "placed"
  BY DEF Register, AddClient
<1>2. totalWritten \in Nat /\ MinReadCursor \in Nat
  BY MinReadCursorType DEF Bounded, TypeOK, BufferTypeOK
<1>3. MinReadCursor' \in Nat /\ \A d \in clients' : MinReadCursor' <= cursor'[d]
  <2>1. BufferTypeOK'
    BY DEF Bounded, TypeOK
  <2>2. SlowestIsMin'
    BY <2>1, MinReadCursorIs, PTL
  <2>3. PICK e \in clients' :
             MinReadCursor' = cursor'[e] /\ \A d \in clients' : cursor'[e] <= cursor'[d]
    <3> HIDE DEF MinReadCursor
    <3> QED BY <1>1, <2>2 DEF SlowestIsMin
  <2>4. cursor'[e] \in Nat
    BY <2>1 DEF BufferTypeOK
  <2> HIDE DEF MinReadCursor
  <2> QED BY <2>3, <2>4
<1>4. cursor[c] \in Nat /\ clients \subseteq Clients
  BY DEF Bounded, TypeOK, BufferTypeOK
<1>5. CASE MinReadCursor' <= MinReadCursor
  <2>1. totalWritten <= totalWritten'
    BY <1>1, <1>2
  <2> QED BY <1>5, <2>1, SpaceDoesNotGrow
<1>6. CASE clients # {} /\ ~ (MinReadCursor' <= MinReadCursor)
  <2>1. PICK d \in clients : MinReadCursor = cursor[d]
    BY <1>6, MinReadCursorIs DEF Bounded, TypeOK, SlowestIsMin
  <2>2. MinReadCursor' <= cursor[d]
    BY <1>1, <1>3
  <2> HIDE DEF MinReadCursor
  <2> QED BY <1>6, <2>1, <2>2
<1>7. CASE clients = {} /\ ~ (MinReadCursor' <= MinReadCursor)
  <2>1. MinReadCursor' <= cursor[c]
    BY <1>1, <1>3
  <2>2. cursor[c] <= OldestCursor
    BY <1>1 DEF Waits, ReaderWaits
  <2>3. PICK t \in Nat, n \in Nat, o \in Nat, k \in Nat, m \in Nat :
           /\ t = totalWritten /\ n = MinReadCursor' /\ o = OldestCursor /\ k = Capacity
           /\ m = MinReadCursor /\ n <= o /\ ~ (n <= m) /\ o = t - MinOf(t, k)
    <3>1. OldestCursor \in Nat /\ OldestCursor = totalWritten - MinOf(totalWritten, Capacity)
      <4>1. OldestCursor \in Nat
        BY OldestType
      <4>2. ring.size = MinOf(totalWritten, Capacity)
        BY DEF Bounded, PositionsInRange
      <4> QED BY <4>1, <4>2 DEF OldestCursor
    <3>2. MinReadCursor' <= OldestCursor
      <4> HIDE DEF MinReadCursor, OldestCursor
      <4> QED BY <1>3, <1>4, <2>1, <2>2, <3>1
    <3>3. Capacity \in Nat
      BY Constants
    <3> HIDE DEF MinReadCursor, OldestCursor
    <3> QED BY <1>2, <1>3, <1>7, <3>1, <3>2, <3>3
  <2>4. MinOf(t, k) = (IF t <= k THEN t ELSE k)
    BY DEF MinOf
  <2>5. n <= o /\ ~ (n <= m) /\ o = t - MinOf(t, k)
    BY <2>3
  <2>6. ~ (t < n) /\ t - n >= k
    BY ONLY <2>4, <2>5, t \in Nat, n \in Nat, o \in Nat, k \in Nat, m \in Nat
  <2>7. AvailableWriteSpace' = 0
    <3>1. /\ totalWritten' = t /\ MinReadCursor' = n /\ Capacity = k
      BY <1>1, <2>3
    <3> HIDE DEF MinReadCursor
    <3> QED BY <2>6, <3>1 DEF AvailableWriteSpace
  <2> HIDE DEF AvailableWriteSpace
  <2> QED BY <2>7
<1> QED BY <1>5, <1>6, <1>7

(* Registration and its end. *)
LEMMA MembershipSpaceOwed ==
  ASSUME Bounded, Bounded', Waits, NoDanglingClient, SpaceWakeupOwed,
         NEW c \in Clients, Membership(c), WritersKeep,
         \A r \in Readers : copier'[r] = copier[r]
  PROVE  SpaceWakeupOwed'
<1>t. DOMAIN life = Clients /\ DOMAIN cursor = Clients
  BY DEF Bounded, TypeOK, BufferTypeOK, ReaderTypeOK
<1>1. CASE UnregisterNotify(c)
  <2>1. \A p \in Producers : spaceCv'[p] = "awake"
    BY <1>1 DEF UnregisterNotify, NotifyWriters
  <2> QED BY <2>1, OnTheWayIsEnough
<1>2. CASE Unregister(c)
  <2>1. OnTheWay'
    BY <1>t, <1>2 DEF Unregister, SetLife, OnTheWay
  <2> QED BY <2>1, OnTheWayIsEnough
<1>3. CASE Register(c) \/ DestroyEnded(c)
  <2>1. OnTheWay => OnTheWay'
    <3>1. \A d \in Clients : life[d] = "erased" => life'[d] = "erased"
      BY <1>t, <1>3 DEF Register, DestroyEnded, SetLife
    <3>2. UNCHANGED user
      BY <1>3 DEF Register, DestroyEnded
    <3> QED BY <3>1, <3>2 DEF OnTheWay, WritersKeep
  <2>2. CASE DestroyEnded(c)
    <3>1. /\ UNCHANGED <<totalWritten, clients, phantom, spaceCv>>
          /\ \A d \in clients : cursor'[d] = cursor[d]
      BY <2>2 DEF DestroyEnded
    <3> QED BY <2>1, <3>1, ReaderQuiet
  <2>3. CASE Register(c)
    <3>1. UNCHANGED spaceCv
      BY <2>3 DEF Register
    <3>2. AvailableWriteSpace' > 0 => AvailableWriteSpace > 0
      BY <2>3, RegisterMakesNoSpace
    <3>3. \A p \in Producers : spaceCv'[p] # "awake" =>
            /\ running'[p] = running[p]
            /\ spaceCv[p] # "awake" \/ (AvailableWriteSpace = 0 /\ running[p])
      BY <3>1 DEF WritersKeep
    <3> HIDE DEF AvailableWriteSpace
    <3> QED BY <2>1, <3>2, <3>3, QuietStep
  <2> QED BY <1>3, <2>2, <2>3
<1> QED BY <1>1, <1>2, <1>3 DEF Membership

(* The threads of a RecordReader. *)
LEMMA ReadersSpaceOwed ==
  ASSUME Bounded, Bounded', Waits, NoDanglingClient, SpaceWakeupOwed, NEW r \in Readers,
         CopierThread(r) \/ UserThread(r) \/ OwnerThread(r)
  PROVE  SpaceWakeupOwed'
<1>t. /\ DOMAIN life = Clients /\ DOMAIN cursor = Clients /\ DOMAIN copier = Readers
      /\ DOMAIN user = Clients
      /\ r \in Clients /\ Readers \cap ZCReaders = {} /\ WritersKeep
      /\ clients \subseteq Clients
  <2>1. DOMAIN life = Clients /\ DOMAIN copier = Readers /\ DOMAIN user = Clients
    BY DEF Bounded, TypeOK, ReaderTypeOK
  <2>2. DOMAIN cursor = Clients /\ clients \subseteq Clients
    BY DEF Bounded, TypeOK, BufferTypeOK
  <2>3. WritersKeep
    BY DEF CopierThread, UserThread, OwnerThread
  <2> QED BY <2>1, <2>2, <2>3, Constants
<1>1. CASE NotifySpace(r)
  <2>1. \A p \in Producers : spaceCv'[p] = "awake"
    BY <1>1 DEF NotifySpace, NotifyWriters
  <2> QED BY <2>1, OnTheWayIsEnough
<1>2. CASE AdvanceCursor(r)
  <2>1. OnTheWay'
    BY <1>t, <1>2 DEF AdvanceCursor, Goto, OnTheWay
  <2> QED BY <2>1, OnTheWayIsEnough
<1>3. CASE Membership(r) /\ UNCHANGED readerVars
  BY <1>t, <1>3, MembershipSpaceOwed
<1>4. CASE Place(r) /\ UNCHANGED readerVars
  <2>1. /\ UNCHANGED <<totalWritten, clients, phantom, spaceCv, user, copier>>
        /\ life[r] = "new" /\ \A c \in Clients \ {r} : cursor'[c] = cursor[c]
        /\ \A c \in Clients \ {r} : life'[c] = life[c]
    BY <1>t, <1>4 DEF Place, SetLife
  <2>2. \A c \in clients : cursor'[c] = cursor[c]
    BY <1>t, <2>1 DEF NoDanglingClient
  <2>3. OnTheWay => OnTheWay'
    BY <1>t, <2>1 DEF OnTheWay, WritersKeep
  <2> QED BY <1>t, <2>1, <2>2, <2>3, ReaderQuiet
<1>5. CASE ReaderControl(r)
  <2>1. UNCHANGED <<totalWritten, clients, phantom, spaceCv, cursor, user, copier>>
    BY <1>5 DEF ReaderControl, Stop, StopNotify, Finish, JoinCopier
  <2>2. \A c \in Clients : life[c] = "erased" => life'[c] = "erased"
    BY <1>t, <1>5 DEF ReaderControl, Stop, StopNotify, Finish, JoinCopier, MayEnd, SetLife
  <2>3. OnTheWay => OnTheWay'
    BY <1>t, <2>1, <2>2 DEF OnTheWay, WritersKeep
  <2> QED BY <1>t, <2>1, <2>3, ReaderQuiet
<1>6. CASE ReaderUser(r)
  <2>1. /\ UNCHANGED <<totalWritten, clients, phantom, spaceCv, cursor, life, copier>>
        /\ \A z \in ZCReaders : user'[z] = user[z]
    <3>1. \A z \in ZCReaders : z \in Clients /\ z # r
      BY <1>t, Constants
    <3>2. UNCHANGED <<totalWritten, clients, phantom, spaceCv, cursor, life, copier>>
      BY <1>6 DEF ReaderUser, TakeFromActive, BeginNextBatch, SwapActive
    <3>3. \A c \in Clients \ {r} : user'[c] = user[c]
      BY <1>t, <1>6 DEF ReaderUser, TakeFromActive, BeginNextBatch, SwapActive
    <3> QED BY <3>1, <3>2, <3>3
  <2>3. OnTheWay => OnTheWay'
    BY <1>t, <2>1 DEF OnTheWay, WritersKeep
  <2> QED BY <1>t, <2>1, <2>3, ReaderQuiet
<1>7. CASE WaitForData(r) \/ SleepForData(r) \/ TakeSnapshot(r) \/ CopyRecords(r) \/ OfferBatch(r)
  <2>1. /\ UNCHANGED <<totalWritten, clients, phantom, spaceCv, cursor, life, user>>
        /\ \A q \in Readers : copier[q] = "notify" => copier'[q] = "notify"
    BY <1>t, <1>7 DEF WaitForData, SleepForData, TakeSnapshot, CopyRecords, OfferBatch, CopierAt,
       Goto
  <2>3. OnTheWay => OnTheWay'
    BY <1>t, <2>1 DEF OnTheWay, WritersKeep
  <2> QED BY <1>t, <2>1, <2>3, ReaderQuiet
<1> QED BY <1>1, <1>2, <1>3, <1>4, <1>5, <1>6, <1>7
    DEF CopierThread, UserThread, OwnerThread, Copier

(* The threads of a RecordReaderZC. *)
LEMMA ZCReadersSpaceOwed ==
  ASSUME Bounded, Bounded', Waits, NoDanglingClient, SpaceWakeupOwed, NEW z \in ZCReaders,
         ZCUserThread(z) \/ ZCOwnerThread(z)
  PROVE  SpaceWakeupOwed'
<1>t. /\ DOMAIN life = Clients /\ DOMAIN cursor = Clients /\ DOMAIN user = Clients
      /\ z \in Clients /\ Readers \cap ZCReaders = {} /\ WritersKeep /\ UNCHANGED copier
      /\ clients \subseteq Clients
  <2>1. DOMAIN life = Clients /\ DOMAIN user = Clients
    BY DEF Bounded, TypeOK, ReaderTypeOK
  <2>2. DOMAIN cursor = Clients /\ clients \subseteq Clients
    BY DEF Bounded, TypeOK, BufferTypeOK
  <2>3. WritersKeep /\ UNCHANGED copier
    BY DEF ZCUserThread, ZCOwnerThread
  <2> QED BY <2>1, <2>2, <2>3, Constants
<1>1. CASE ReleaseNotify(z) \/ SkipNotify(z)
  <2>1. \A p \in Producers : spaceCv'[p] = "awake"
    BY <1>1 DEF ReleaseNotify, SkipNotify, NotifyWriters
  <2> QED BY <2>1, OnTheWayIsEnough
<1>2. CASE SkipOverrun(z) \/ (Release(z) /\ pinnedEnd[z] # cursor[z])
  <2>1. OnTheWay'
    BY <1>t, <1>2 DEF SkipOverrun, Release, UserGoto, OnTheWay
  <2> QED BY <2>1, OnTheWayIsEnough
<1>3. CASE Membership(z)
  BY <1>t, <1>3, MembershipSpaceOwed
<1>4. CASE ZCPlace(z)
  <2>1. /\ UNCHANGED <<totalWritten, clients, phantom, spaceCv, user>>
        /\ life[z] = "new" /\ \A c \in Clients \ {z} : cursor'[c] = cursor[c]
        /\ \A c \in Clients \ {z} : life'[c] = life[c]
    BY <1>t, <1>4 DEF ZCPlace, Place, SetLife
  <2>2. \A c \in clients : cursor'[c] = cursor[c]
    BY <1>t, <2>1 DEF NoDanglingClient
  <2>3. OnTheWay => OnTheWay'
    BY <1>t, <2>1 DEF OnTheWay, WritersKeep
  <2> QED BY <1>t, <2>1, <2>2, <2>3, ReaderQuiet
<1>5. CASE ReaderZCControl(z)
  <2>1. UNCHANGED <<totalWritten, clients, phantom, spaceCv, cursor, user>>
    BY <1>5 DEF ReaderZCControl, ZCStopReader, ZCFinish, ZCEndNotify
  <2>2. \A c \in Clients : life[c] = "erased" => life'[c] = "erased"
    BY <1>t, <1>5 DEF ReaderZCControl, ZCStopReader, ZCFinish, ZCEndNotify, MayEnd, SetLife
  <2>3. OnTheWay => OnTheWay'
    BY <1>t, <2>1, <2>2 DEF OnTheWay, WritersKeep
  <2> QED BY <1>t, <2>1, <2>3, ReaderQuiet
<1>6. CASE \/ Release(z) /\ pinnedEnd[z] = cursor[z]
           \/ ZCWait(z) \/ ZCSleep(z) \/ Fetch(z) \/ Refetch(z) \/ ReadBatch(z)
  <2>1. /\ UNCHANGED <<totalWritten, clients, phantom, spaceCv, life>>
        /\ \A c \in Clients : cursor'[c] = cursor[c]
    BY <1>t, <1>6 DEF Release, ZCWait, ZCSleep, Fetch, Refetch, ReadBatch, Pin
  <2>2. \A y \in ZCReaders : user[y] \in {"released", "skipped"} => user'[y] = user[y]
    <3>1. ZCReaders \subseteq Clients
      BY Constants
    <3>2. UNCHANGED user \/ user[z] \notin {"released", "skipped"}
      BY <1>6 DEF Release, ZCWait, ZCSleep, Fetch, Refetch, ReadBatch, UserAt
    <3>3. \A c \in Clients \ {z} : user'[c] = user[c]
      BY <1>t, <1>6 DEF Release, ZCWait, ZCSleep, Fetch, Refetch, ReadBatch, Pin, UserGoto
    <3> QED BY <3>1, <3>2, <3>3
  <2>3. OnTheWay => OnTheWay'
    BY <1>t, <2>1, <2>2 DEF OnTheWay, WritersKeep
  <2> QED BY <1>t, <2>1, <2>3, ReaderQuiet
<1> QED BY <1>1, <1>2, <1>3, <1>4, <1>5, <1>6 DEF ZCUserThread, ZCOwnerThread, ReaderZCUser

LEMMA InitSpaceOwed == Init => SpaceWakeupOwed
  BY DEF Init, InitBuffer, SpaceWakeupOwed

LEMMA AlwaysSpaceOwed == Spec => []SpaceWakeupOwed
<1>1. Bounded /\ Waits /\ NoDanglingClient /\ SpaceWakeupOwed /\ [Next]_vars => SpaceWakeupOwed'
  <2> SUFFICES ASSUME Bounded, Waits, NoDanglingClient, SpaceWakeupOwed, [Next]_vars
               PROVE SpaceWakeupOwed'
    OBVIOUS
  <2>1. Bounded'
    BY NextBounded
  <2>2. CASE UNCHANGED vars
    BY <2>2 DEF vars, SpaceWakeupOwed, AvailableWriteSpace, MinReadCursor
  <2> QED BY <2>1, <2>2, WritersSpaceOwed, ReadersSpaceOwed, ZCReadersSpaceOwed DEF Next
<1> QED BY <1>1, InitSpaceOwed, AlwaysWaits, NoCallAfterUnregister, PTL DEF Spec

(* Some thread is about to call notifyDataAvailable() of a client, or to    *)
(* wake it at its end.                                                      *)
Summoned(c) ==
  \/ \E p \in Producers : c \in pending[p] \/ pushPc[p] = "lock"
  \/ life[c] \in {"stopping", "finishing", "closing"}

(* What one client is owed. *)
DataOwed(c) == dataCv[c] # "awake" /\ CouldGoOn(c) => Summoned(c)

LEMMA DataOwedIsWakeup == DataWakeupOwed <=> \A c \in clients : DataOwed(c)
  BY DEF DataWakeupOwed, DataOwed, Summoned

(* A step that leaves a client alone but for waking it. *)
LEMMA ClientLeftAlone ==
  ASSUME NEW c \in Clients, DataOwed(c), totalWritten' = totalWritten,
         dataCv'[c] # "awake" => dataCv[c] # "awake",
         cursor'[c] = cursor[c], rdRunning'[c] = rdRunning[c],
         c \in Readers => bgFull'[c] = bgFull[c],
         finishing'[c] = finishing[c], finishTarget'[c] = finishTarget[c],
         dataCv'[c] # "awake" /\ Summoned(c) => Summoned(c)'
  PROVE  DataOwed(c)'
<1>1. CouldGoOn(c)' => CouldGoOn(c)
  BY DEF CouldGoOn, Lag
<1> HIDE DEF CouldGoOn
<1> QED BY <1>1 DEF DataOwed

(* The writers: every push is followed by a call of all the readers. *)
LEMMA WritersDataOwed ==
  ASSUME Bounded, Bounded', Waits, DataWakeupOwed,
         \/ \E w \in Writers : CallerThread(w) \/ WorkerThread(w)
         \/ \E w \in ZCWriters : ZCCallerThread(w) \/ ZCStopThread(w)
  PROVE  DataWakeupOwed'
<1>t. /\ DOMAIN pushPc = Producers /\ DOMAIN pending = Producers /\ DOMAIN dataCv = Clients
      /\ Writers \subseteq Producers /\ ZCWriters \subseteq Producers
      /\ clients \subseteq Clients
  <2>1. DOMAIN pushPc = Producers
    BY DEF Bounded, TypeOK, WriterTypeOK
  <2>2. DOMAIN pending = Producers /\ DOMAIN dataCv = Clients /\ clients \subseteq Clients
    BY DEF Bounded, TypeOK, BufferTypeOK
  <2> QED BY <2>1, <2>2, Constants
<1>1. CASE \E p \in Producers : Push(p)
  <2>1. PICK p \in Producers : pushPc'[p] = "lock" /\ clients' = clients
    BY <1>t, <1>1 DEF Push
  <2>2. \A c \in clients' : Summoned(c)'
    BY <2>1 DEF Summoned
  <2> QED BY <2>2 DEF DataWakeupOwed, Summoned
<1>2. CASE ~ \E p \in Producers : Push(p)
  <2> SUFFICES ASSUME NEW c \in clients' PROVE DataOwed(c)'
    BY DEF DataWakeupOwed, DataOwed, Summoned
  <2>1. ReadersKeep
    BY DEF CallerThread, WorkerThread, ZCCallerThread, ZCStopThread
  <2>2. UNCHANGED <<totalWritten, clients, cursor>> /\ dataCv'[c] \in {dataCv[c], "awake"}
    BY <1>t, <1>2 DEF CallerThread, WorkerThread, ZCCallerThread, ZCStopThread,
         WriterCaller, WriterWorker, WriterZCCaller, WriterZCStopper,
         NextBatch, CommitBatch, BeginFlush, EndFlush, ClearRunning, WakeWorker, JoinWorker,
         WorkerCheck, WorkerSleep, WorkerPush, WorkerDone,
         ZCNextBatch, ZCCommit, ZCPush, ZCAbort, ZCDone, ZCStop, ZCStopNotify,
         Claim, CheckSpace, Sleep, LockForNotify, Notify, NotifyClient
  <2>3. c \in clients /\ c \in Clients /\ DataOwed(c)
    BY <1>t, <2>2, DataOwedIsWakeup
  <2>4. ASSUME NEW p \in Producers, LockForNotify(p)
        PROVE  Summoned(c)'
    <3>1. pending'[p] = clients
      BY <1>t, <2>4 DEF LockForNotify, BeginNotify
    <3> QED BY <2>3, <3>1 DEF Summoned
  <2>5. ASSUME NEW p \in Producers,
               Claim(p) \/ CheckSpace(p) \/ Sleep(p) \/ Push(p) \/ LockForNotify(p) \/ Notify(p),
               dataCv'[c] # "awake", Summoned(c)
        PROVE  Summoned(c)'
    <3>1. CASE LockForNotify(p)
      BY <2>4, <3>1
    <3>2. CASE Notify(p)
      <4>1. PICK d \in Clients : NotifyClient(p, d)
        BY <3>2 DEF Notify
      <4>2. UNCHANGED pushPc /\ c # d
        BY <1>t, <2>3, <2>5, <3>2, <4>1 DEF Notify, NotifyClient
      <4>3. \A q \in Producers : c \in pending[q] => c \in pending'[q]
        BY <1>t, <4>1, <4>2 DEF NotifyClient
      <4> QED BY <2>1, <2>5, <4>2, <4>3 DEF Summoned, ReadersKeep
    <3>3. CASE Claim(p) \/ CheckSpace(p) \/ Sleep(p)
      <4>1. UNCHANGED pending /\ \A q \in Producers : pushPc[q] = "lock" => pushPc'[q] = "lock"
        BY <1>t, <3>3 DEF Claim, CheckSpace, AbortPush, Sleep, At
      <4> QED BY <2>1, <2>5, <4>1 DEF Summoned, ReadersKeep
    <3> QED BY <1>2, <2>5, <3>1, <3>2, <3>3
  <2>6. ASSUME UNCHANGED pending,
               \A q \in Producers : pushPc[q] = "lock" => pushPc'[q] = "lock",
               Summoned(c)
        PROVE  Summoned(c)'
    BY <2>1, <2>6 DEF Summoned, ReadersKeep
  <2>7. dataCv'[c] # "awake" /\ Summoned(c) => Summoned(c)'
    <3>1. ASSUME NEW w \in Writers, CallerThread(w)
          PROVE  Summoned(c) => Summoned(c)'
      <4>1. UNCHANGED <<pending, pushPc>>
        BY <3>1 DEF CallerThread, WriterCaller, NextBatch, CommitBatch, BeginFlush, EndFlush,
           ClearRunning, WakeWorker, JoinWorker
      <4> QED BY <2>6, <4>1
    <3>2. ASSUME NEW w \in Writers, WorkerThread(w)
          PROVE  dataCv'[c] # "awake" /\ Summoned(c) => Summoned(c)'
      <4>1. CASE WorkerPush(w)
        BY <1>t, <2>5, <4>1 DEF WorkerPush
      <4>2. CASE WorkerCheck(w) \/ WorkerSleep(w) \/ WorkerDone(w)
        <5>1. worker[w] = "loop" => pushPc[w] = "off"
          BY <1>t DEF Waits, WriterWaits
        <5>2. UNCHANGED pending /\ \A q \in Producers : pushPc[q] = "lock" => pushPc'[q] = "lock"
          BY <1>t, <4>2, <5>1 DEF WorkerCheck, WorkerSleep, WorkerDone, StartPush, At
        <5> QED BY <2>6, <5>2
      <4> QED BY <3>2, <4>1, <4>2 DEF WorkerThread, WriterWorker
    <3>3. ASSUME NEW w \in ZCWriters, ZCCallerThread(w)
          PROVE  dataCv'[c] # "awake" /\ Summoned(c) => Summoned(c)'
      <4>1. CASE ZCPush(w)
        BY <1>t, <2>5, <4>1 DEF ZCPush
      <4>2. CASE ~ ZCPush(w)
        <5>1. api[w] = "filling" => pushPc[w] = "off"
          BY <1>t DEF Waits, WriterWaits
        <5>2. UNCHANGED pending /\ \A q \in Producers : pushPc[q] = "lock" => pushPc'[q] = "lock"
          BY <1>t, <3>3, <4>2, <5>1 DEF ZCCallerThread, WriterZCCaller, ZCNextBatch, ZCCommit,
             ZCAbort, ZCMayGoOn, ZCDone, StartPush, AbortPush, At
        <5> QED BY <2>6, <5>2
      <4> QED BY <4>1, <4>2
    <3>4. ASSUME NEW w \in ZCWriters, ZCStopThread(w)
          PROVE  Summoned(c) => Summoned(c)'
      <4>1. UNCHANGED <<pending, pushPc>>
        BY <3>4 DEF ZCStopThread, WriterZCStopper, ZCStop, ZCStopNotify
      <4> QED BY <2>6, <4>1
    <3> QED BY <3>1, <3>2, <3>3, <3>4
  <2>8. /\ cursor'[c] = cursor[c] /\ rdRunning'[c] = rdRunning[c] /\ bgFull'[c] = bgFull[c]
        /\ finishing'[c] = finishing[c] /\ finishTarget'[c] = finishTarget[c]
        /\ totalWritten' = totalWritten /\ (dataCv'[c] # "awake" => dataCv[c] # "awake")
    BY <2>1, <2>2 DEF ReadersKeep
  <2> HIDE DEF DataOwed, Summoned
  <2> QED BY <2>3, <2>7, <2>8, ClientLeftAlone
<1> QED BY <1>1, <1>2

(* A reader's own threads leave the other readers alone. *)
OnlyTouches(c) ==
  /\ clients' \subseteq clients \cup {c} /\ totalWritten' = totalWritten
  /\ WritersKeep /\ pending' = pending
  /\ \A d \in Clients \ {c} :
       /\ dataCv'[d] = dataCv[d] /\ cursor'[d] = cursor[d] /\ life'[d] = life[d]
       /\ rdRunning'[d] = rdRunning[d] /\ (d \in Readers => bgFull'[d] = bgFull[d])
       /\ finishing'[d] = finishing[d] /\ finishTarget'[d] = finishTarget[d]

LEMMA TheOthersAreOwed ==
  ASSUME Bounded, Bounded', DataWakeupOwed, NEW c \in Clients, OnlyTouches(c),
         c \in clients' => DataOwed(c)'
  PROVE  DataWakeupOwed'
<1> SUFFICES ASSUME NEW d \in clients' PROVE DataOwed(d)'
  BY DEF DataWakeupOwed, DataOwed, Summoned
<1>1. CASE d # c
  <2>1. d \in clients /\ d \in Clients \ {c} /\ DataOwed(d)
    BY <1>1, DataOwedIsWakeup DEF OnlyTouches, Bounded, TypeOK, BufferTypeOK
  <2>2. Summoned(d) => Summoned(d)'
    BY <2>1 DEF Summoned, OnlyTouches, WritersKeep
  <2>3. /\ totalWritten' = totalWritten /\ dataCv'[d] = dataCv[d] /\ cursor'[d] = cursor[d]
        /\ rdRunning'[d] = rdRunning[d] /\ (d \in Readers => bgFull'[d] = bgFull[d])
        /\ finishing'[d] = finishing[d] /\ finishTarget'[d] = finishTarget[d]
    BY <2>1 DEF OnlyTouches
  <2> HIDE DEF Summoned, DataOwed
  <2> QED BY <2>1, <2>2, <2>3, ClientLeftAlone
<1> QED BY <1>1

LEMMA AwakeIsOwedNothing ==
  ASSUME NEW c \in Clients, dataCv'[c] = "awake"
  PROVE  DataOwed(c)'
  BY DEF DataOwed

(* Registration: before it the reader's thread is not waiting. *)
LEMMA MembershipDataOwed ==
  ASSUME Bounded, Bounded', Waits, DataWakeupOwed, NEW c \in Clients,
         Membership(c) \/ Place(c), WritersKeep, UNCHANGED bgFull
  PROVE  DataWakeupOwed'
<1>t. DOMAIN life = Clients /\ DOMAIN cursor = Clients /\ DOMAIN rdRunning = Clients
  BY DEF Bounded, TypeOK, BufferTypeOK, ReaderTypeOK
<1>1. OnlyTouches(c)
  BY <1>t DEF OnlyTouches, Membership, Place, Register, DestroyEnded, Unregister,
     UnregisterNotify, AddClient, EraseClient, SetLife
<1>2. ASSUME c \in clients' PROVE DataOwed(c)'
  <2>1. UNCHANGED dataCv
    BY DEF Membership, Place, Register, DestroyEnded, Unregister, UnregisterNotify
  <2>2. CASE Place(c) \/ Register(c)
    <3>1. dataCv[c] = "awake"
      BY <2>2 DEF Place, Register, Waits, ReaderWaits
    <3> QED BY <2>1, <3>1, AwakeIsOwedNothing
  <2>3. CASE DestroyEnded(c) \/ UnregisterNotify(c)
    <3>1. /\ UNCHANGED <<totalWritten, clients, cursor, rdRunning, finishing, finishTarget>>
          /\ life[c] \notin {"stopping", "finishing", "closing"}
      BY <2>3 DEF DestroyEnded, UnregisterNotify
    <3>2. c \in clients /\ DataOwed(c)
      BY <1>2, <3>1, DataOwedIsWakeup
    <3>3. Summoned(c) => Summoned(c)'
      BY <1>1, <3>1 DEF Summoned, OnlyTouches, WritersKeep
    <3> HIDE DEF Summoned, DataOwed
    <3> QED BY <2>1, <3>1, <3>2, <3>3, ClientLeftAlone
  <2>4. CASE Unregister(c)
    BY <1>2, <2>4 DEF Unregister, EraseClient
  <2> QED BY <2>2, <2>3, <2>4 DEF Membership
<1> HIDE DEF DataOwed, OnlyTouches
<1> QED BY <1>1, <1>2, TheOthersAreOwed

(* The threads of a RecordReader. *)
LEMMA ReadersDataOwed ==
  ASSUME Bounded, Bounded', Waits, DataWakeupOwed, NEW r \in Readers,
         CopierThread(r) \/ UserThread(r) \/ OwnerThread(r)
  PROVE  DataWakeupOwed'
<1>t. /\ DOMAIN life = Clients /\ DOMAIN cursor = Clients /\ DOMAIN rdRunning = Clients
      /\ DOMAIN finishing = Clients /\ DOMAIN finishTarget = Clients /\ DOMAIN dataCv = Clients
      /\ DOMAIN bgFull = Readers /\ r \in Clients
  <2>1. /\ DOMAIN life = Clients /\ DOMAIN rdRunning = Clients
        /\ DOMAIN finishing = Clients /\ DOMAIN finishTarget = Clients
        /\ DOMAIN bgFull = Readers
    BY DEF Bounded, TypeOK, ReaderTypeOK
  <2>2. DOMAIN cursor = Clients /\ DOMAIN dataCv = Clients
    BY DEF Bounded, TypeOK, BufferTypeOK
  <2> QED BY <2>1, <2>2, Constants
<1>w. WritersKeep
  BY DEF CopierThread, UserThread, OwnerThread
<1>1. CASE (Place(r) \/ Membership(r)) /\ UNCHANGED readerVars
  BY <1>t, <1>w, <1>1, MembershipDataOwed
<1>2. CASE Copier(r) \/ ReaderUser(r) \/ ReaderControl(r)
  <2>1. OnlyTouches(r)
    <3>1. UNCHANGED <<clients, totalWritten, pending>>
      BY <1>2 DEF Copier, ReaderUser, ReaderControl, WaitForData, SleepForData, TakeSnapshot,
         CopyRecords, AdvanceCursor, NotifySpace, OfferBatch, TakeFromActive, BeginNextBatch,
         SwapActive, Stop, StopNotify, Finish, JoinCopier
    <3>2. ASSUME NEW d \in Clients \ {r}
          PROVE  /\ dataCv'[d] = dataCv[d] /\ cursor'[d] = cursor[d] /\ life'[d] = life[d]
                 /\ rdRunning'[d] = rdRunning[d] /\ (d \in Readers => bgFull'[d] = bgFull[d])
                 /\ finishing'[d] = finishing[d] /\ finishTarget'[d] = finishTarget[d]
      BY <1>t, <1>2 DEF Copier, ReaderUser, ReaderControl, WaitForData, SleepForData,
         TakeSnapshot, CopyRecords, AdvanceCursor, NotifySpace, OfferBatch, TakeFromActive,
         BeginNextBatch, SwapActive, Stop, StopNotify, Finish, JoinCopier, SetLife, WakeReader
    <3> QED BY <1>w, <3>1, <3>2 DEF OnlyTouches
  <2>2. UNCHANGED <<totalWritten, clients>>
    BY <1>2 DEF Copier, ReaderUser, ReaderControl, WaitForData, SleepForData, TakeSnapshot,
       CopyRecords, AdvanceCursor, NotifySpace, OfferBatch, TakeFromActive, BeginNextBatch,
       SwapActive, Stop, StopNotify, Finish, JoinCopier
  <2>3. dataCv[r] # "awake" => copier[r] = "wait"
    BY <1>t DEF Waits, ReaderWaits
  <2>4. ASSUME r \in clients' PROVE DataOwed(r)'
    <3>0. r \in clients /\ DataOwed(r)
      BY <2>2, <2>4, DataOwedIsWakeup
    <3>1. CASE WaitForData(r)
      <4>1. dataCv'[r] # "awake" =>
              /\ rdRunning[r] /\ (bgFull[r] \/ ~ Drained(r)) /\ (bgFull[r] \/ ~ (Lag(cursor[r]) > 0))
              /\ UNCHANGED <<rdRunning, bgFull, cursor, finishing, finishTarget>>
        BY <1>t, <3>1 DEF WaitForData
      <4>2. dataCv'[r] # "awake" => ~ CouldGoOn(r)'
        BY <2>2, <4>1 DEF CouldGoOn, Drained, Lag
      <4> QED BY <4>2 DEF DataOwed
    <3>2. CASE \/ TakeSnapshot(r) \/ CopyRecords(r) \/ AdvanceCursor(r) \/ NotifySpace(r)
               \/ OfferBatch(r) \/ JoinCopier(r)
      <4>1. UNCHANGED dataCv /\ copier[r] # "wait"
        BY <3>2 DEF TakeSnapshot, CopyRecords, AdvanceCursor, NotifySpace, OfferBatch, JoinCopier,
           CopierAt
      <4> QED BY <1>t, <2>3, <4>1, AwakeIsOwedNothing
    <3>3. CASE SwapActive(r) \/ StopNotify(r) \/ Finish(r)
      <4>1. dataCv'[r] = "awake"
        BY <1>t, <3>3 DEF SwapActive, StopNotify, Finish, WakeReader
      <4> QED BY <1>t, <4>1, AwakeIsOwedNothing
    <3>4. CASE \E goal \in {"stopping", "closing"} : Stop(r, goal)
      <4>1. life'[r] \in {"stopping", "closing"}
        BY <1>t, <3>4 DEF Stop, SetLife
      <4> QED BY <4>1 DEF DataOwed, Summoned
    <3>5. CASE \/ SleepForData(r) \/ BeginNextBatch(r)
               \/ \E n \in 1 .. ReaderBatch : TakeFromActive(r, n)
      <4>1. /\ UNCHANGED <<cursor, rdRunning, bgFull, finishing, finishTarget, life>>
            /\ dataCv'[r] # "awake" => dataCv[r] # "awake"
        BY <1>t, <3>5 DEF SleepForData, BeginNextBatch, TakeFromActive
      <4>2. Summoned(r) => Summoned(r)'
        BY <2>1, <4>1 DEF Summoned, OnlyTouches, WritersKeep
      <4> HIDE DEF Summoned, DataOwed
      <4> QED BY <1>t, <2>2, <3>0, <4>1, <4>2, ClientLeftAlone
    <3> QED BY <1>2, <3>1, <3>2, <3>3, <3>4, <3>5 DEF Copier, ReaderUser, ReaderControl
  <2> HIDE DEF DataOwed, OnlyTouches
  <2> QED BY <1>t, <2>1, <2>4, TheOthersAreOwed
<1> QED BY <1>1, <1>2 DEF CopierThread, UserThread, OwnerThread

(* The threads of a RecordReaderZC. *)
LEMMA ZCReadersDataOwed ==
  ASSUME Bounded, Bounded', Waits, DataWakeupOwed, NEW z \in ZCReaders,
         ZCUserThread(z) \/ ZCOwnerThread(z)
  PROVE  DataWakeupOwed'
<1>t. /\ DOMAIN life = Clients /\ DOMAIN cursor = Clients /\ DOMAIN rdRunning = Clients
      /\ DOMAIN finishing = Clients /\ DOMAIN finishTarget = Clients /\ DOMAIN dataCv = Clients
      /\ z \in Clients /\ z \notin Readers
  <2>1. /\ DOMAIN life = Clients /\ DOMAIN rdRunning = Clients
        /\ DOMAIN finishing = Clients /\ DOMAIN finishTarget = Clients
    BY DEF Bounded, TypeOK, ReaderTypeOK
  <2>2. DOMAIN cursor = Clients /\ DOMAIN dataCv = Clients
    BY DEF Bounded, TypeOK, BufferTypeOK
  <2> QED BY <2>1, <2>2, Constants
<1>w. WritersKeep /\ UNCHANGED bgFull
  BY DEF ZCUserThread, ZCOwnerThread
<1>1. CASE ZCPlace(z) \/ Membership(z)
  BY <1>t, <1>w, <1>1, MembershipDataOwed DEF ZCPlace
<1>2. CASE ReaderZCUser(z) \/ ReaderZCControl(z)
  <2>2. UNCHANGED <<totalWritten, clients, pending>>
    BY <1>2 DEF ReaderZCUser, ReaderZCControl, Release, ReleaseNotify, ZCWait, ZCSleep, Fetch,
       Pin, SkipOverrun, SkipNotify, Refetch, ReadBatch, ZCStopReader, ZCFinish, ZCEndNotify
  <2>1. OnlyTouches(z)
    <3>2. ASSUME NEW d \in Clients \ {z}
          PROVE  /\ dataCv'[d] = dataCv[d] /\ cursor'[d] = cursor[d] /\ life'[d] = life[d]
                 /\ rdRunning'[d] = rdRunning[d]
                 /\ finishing'[d] = finishing[d] /\ finishTarget'[d] = finishTarget[d]
      BY <1>t, <1>2 DEF ReaderZCUser, ReaderZCControl, Release, ReleaseNotify, ZCWait, ZCSleep,
         Fetch, Pin, SkipOverrun, SkipNotify, Refetch, ReadBatch, ZCStopReader, ZCFinish,
         ZCEndNotify, SetLife, WakeReader
    <3> QED BY <1>w, <2>2, <3>2 DEF OnlyTouches
  <2>3. dataCv[z] # "awake" => user[z] = "checking"
    BY <1>t DEF Waits, ReaderWaits
  <2>4. ASSUME z \in clients' PROVE DataOwed(z)'
    <3>0. z \in clients /\ DataOwed(z)
      BY <2>2, <2>4, DataOwedIsWakeup
    <3>1. CASE ZCWait(z)
      <4>1. dataCv'[z] # "awake" =>
              /\ rdRunning[z] /\ ~ (finishing[z] /\ cursor[z] >= finishTarget[z])
              /\ ~ (Lag(cursor[z]) > 0)
              /\ UNCHANGED <<rdRunning, cursor, finishing, finishTarget>>
        BY <1>t, <3>1 DEF ZCWait
      <4>2. dataCv'[z] # "awake" => ~ CouldGoOn(z)'
        BY <2>2, <4>1 DEF CouldGoOn, Lag
      <4> QED BY <4>2 DEF DataOwed
    <3>2. CASE \/ Release(z) \/ ReleaseNotify(z) \/ Fetch(z) \/ SkipOverrun(z) \/ SkipNotify(z)
               \/ Refetch(z) \/ ReadBatch(z)
      <4>1. UNCHANGED dataCv /\ user[z] # "checking"
        BY <3>2 DEF Release, ReleaseNotify, Fetch, Pin, SkipOverrun, SkipNotify, Refetch,
           ReadBatch, UserAt
      <4> QED BY <1>t, <2>3, <4>1, AwakeIsOwedNothing
    <3>3. CASE ZCEndNotify(z)
      <4>1. dataCv'[z] = "awake"
        BY <1>t, <3>3 DEF ZCEndNotify, WakeReader
      <4> QED BY <1>t, <4>1, AwakeIsOwedNothing
    <3>4. CASE ZCFinish(z) \/ \E goal \in {"stopping", "closing"} : ZCStopReader(z, goal)
      <4>1. life'[z] \in {"stopping", "finishing", "closing"}
        BY <1>t, <3>4 DEF ZCFinish, ZCStopReader, SetLife
      <4> QED BY <4>1 DEF DataOwed, Summoned
    <3>5. CASE ZCSleep(z)
      <4>1. /\ UNCHANGED <<cursor, rdRunning, finishing, finishTarget, life>>
            /\ dataCv'[z] # "awake" => dataCv[z] # "awake"
        BY <1>t, <3>5 DEF ZCSleep
      <4>2. Summoned(z) => Summoned(z)'
        BY <2>1, <4>1 DEF Summoned, OnlyTouches, WritersKeep
      <4> HIDE DEF Summoned, DataOwed
      <4> QED BY <1>t, <2>2, <3>0, <4>1, <4>2, ClientLeftAlone
    <3> QED BY <1>2, <3>1, <3>2, <3>3, <3>4, <3>5 DEF ReaderZCUser, ReaderZCControl
  <2> HIDE DEF DataOwed, OnlyTouches
  <2> QED BY <1>t, <2>1, <2>4, TheOthersAreOwed
<1> QED BY <1>1, <1>2 DEF ZCUserThread, ZCOwnerThread

LEMMA InitDataOwed == Init => DataWakeupOwed
  BY Constants DEF Init, InitBuffer, DataWakeupOwed

(* A thread that sleeps although its condition has become true is always    *)
(* about to be woken: no notification is lost between a thread's check of   *)
(* its condition and its sleep, nor at a push, a registration or an end.    *)
THEOREM NoWakeupIsLost == Spec => []WakeupsOwed
<1>1. Bounded /\ Waits /\ DataWakeupOwed /\ [Next]_vars => DataWakeupOwed'
  <2> SUFFICES ASSUME Bounded, Waits, DataWakeupOwed, [Next]_vars PROVE DataWakeupOwed'
    OBVIOUS
  <2>1. Bounded'
    BY NextBounded
  <2>2. CASE UNCHANGED vars
    BY <2>2 DEF vars, DataWakeupOwed, CouldGoOn, Lag
  <2> QED BY <2>1, <2>2, WritersDataOwed, ReadersDataOwed, ZCReadersDataOwed DEF Next
<1>2. SpaceWakeupOwed /\ DataWakeupOwed => WakeupsOwed
  BY DEF WakeupsOwed
<1> QED BY <1>1, <1>2, InitDataOwed, AlwaysWaits, AlwaysSpaceOwed, PTL DEF Spec
=============================================================================
