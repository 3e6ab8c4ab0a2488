-------------------------- MODULE StreamProperties --------------------------
(***************************************************************************)
(* The properties of Stream.                                               *)
(***************************************************************************)
EXTENDS Stream

Records == Producers \X (1 .. MaxRecords)
Cell == Records \cup {NoRecord}

BufferTypeOK ==
  /\ ring \in RingOf(Capacity, Cell)
  /\ totalWritten \in Nat
  /\ history \in Seq(Records)
  /\ clients \subseteq Clients
  /\ cursor \in [Clients -> Nat]
  /\ phantom \in Nat
  /\ pending \in [Producers -> SUBSET Clients]
  /\ spaceCv \in [Producers -> CvState]
  /\ dataCv \in [Clients -> CvState]

WriterTypeOK ==
  /\ running \in [Producers -> BOOLEAN]
  /\ todo \in [Producers -> Seq(Records)]
  /\ avail \in [Producers -> 0 .. Capacity]
  /\ pushPc \in [Producers -> PushPc]
  /\ api \in [Producers -> {"idle", "filling", "flushing", "closing", "stopping",
                            "joining", "closed", "batch", "record"}]
  /\ granted \in [Producers -> 0 .. WriterBatch]
  /\ committed \in [Producers -> 0 .. MaxRecords]
  /\ active \in [Writers -> Seq(Records)]
  /\ bg \in [Writers -> Seq(Records)]
  /\ hasWork \in [Writers -> BOOLEAN]
  /\ worker \in [Writers -> {"loop", "busy", "deciding", "asleep", "exited"}]
  /\ stopPc \in [ZCWriters -> {"none", "notify", "done"}]

ReaderTypeOK ==
  /\ life \in [Clients -> Life]
  /\ rdRunning \in [Clients -> BOOLEAN]
  /\ finishing \in [Clients -> BOOLEAN]
  /\ finishTarget \in [Clients -> Nat]
  /\ user \in [Clients -> {"idle", "waiting", "taking", "released", "checking", "fetching",
                           "overrun", "skipped", "refetching", "holding"}]
  /\ got \in [Clients -> Seq(Cell)]
  /\ buf \in [Readers -> [{0, 1} -> [1 .. ReaderBatch -> Cell]]]
  /\ bgBuf \in [Readers -> {0, 1}]
  /\ bgCount \in [Readers -> 0 .. ReaderBatch]
  /\ bgFull \in [Readers -> BOOLEAN]
  /\ activeIdx \in [Readers -> 0 .. ReaderBatch]
  /\ activeCount \in [Readers -> 0 .. ReaderBatch]
  /\ copier \in [Readers -> {"wait", "snapshot", "copy", "advance", "notify", "publish",
                             "exited"}]
  /\ from \in [Readers -> Nat]
  /\ count \in [Readers -> 0 .. ReaderBatch]
  /\ pinnedEnd \in [ZCReaders -> Nat]
  /\ batchSlot \in [ZCReaders -> 0 .. Capacity - 1]
  /\ batchCount \in [ZCReaders -> 0 .. Capacity]

(* Every variable keeps its type: counts stay within the buffers they index.*)
TypeOK == BufferTypeOK /\ WriterTypeOK /\ ReaderTypeOK

(* No record that a registered reader has still to read is overwritten by a *)
(* blocking writer (README, blockOnFull = true: "no data loss").  Readers   *)
(* created while the writer runs are excepted: they can register between    *)
(* the writer's reading of the free space and its push.                     *)
UnreadIsKept == \A c \in clients \ LateClients : OldestCursor <= cursor[c]

(* The ring's size and every position a thread has noted lie within what    *)
(* has been written, and a writer is never granted slots past the end of    *)
(* its buffer.  All index arithmetic of the code is unsigned: one of these  *)
(* the wrong way round and a lag wraps to a number near 2^64.               *)
PositionsInRange ==
  /\ ring.size = MinOf(totalWritten, Capacity)
  /\ \A w \in Writers : Len(active[w]) + granted[w] <= WriterBatch
  /\ \A c \in Clients :
       /\ cursor[c] <= totalWritten
       /\ life[c] = "new" => user[c] = "idle"
  /\ \A r \in Readers :
       /\ copier[r] \in {"copy", "advance"} =>
            cursor[r] <= from[r] /\ from[r] + count[r] <= totalWritten
       /\ life[r] \in {"new", "placed"} => copier[r] = "wait"
  /\ \A z \in ZCReaders :
       /\ cursor[z] <= pinnedEnd[z] /\ pinnedEnd[z] <= totalWritten
       /\ user[z] \in {"fetching", "overrun"} => cursor[z] < totalWritten
       /\ batchSlot[z] + batchCount[z] <= Capacity

(* What a blocking writer has found free it may fill without overtaking a   *)
(* reader, however far the readers have moved on since; a RecordReaderZC    *)
(* therefore never finds itself overrun.                                    *)
SpaceStaysFree ==
  /\ \A c \in Clients : life[c] \in {"new", "placed"} => c \in LateClients
  /\ \A c \in clients \ LateClients :
       /\ totalWritten - cursor[c] <= Capacity
       /\ \A p \in Producers :
            pushPc[p] = "push" => totalWritten + avail[p] - cursor[c] <= Capacity
       /\ c \in ZCReaders => user[c] # "overrun"

(* The memory of a batch that a RecordReaderZC has handed out holds the     *)
(* records it held when it was handed out (RecordReaderZC.h:20-31): those   *)
(* from the reader's cursor on.                                             *)
PinnedIntact(Z) ==
  \A z \in Z \cap clients :
    BatchContent(z) = SubSeq(history, cursor[z] + 1, cursor[z] + batchCount[z])

(* A batch pinned by a reader that was there from the start never changes   *)
(* under its user while a blocking writer goes on.                          *)
PinnedBatchIntact == PinnedIntact(ZCReaders \ LateClients)

(* What the copying worker of a running reader offers its user is the run   *)
(* of records that ends at the reader's cursor, never a mixture of an older *)
(* and a newer state of the ring (README: "no torn records").               *)
CopiesAreFaithful ==
  \A r \in Readers :
    bgFull[r] /\ rdRunning[r] =>
      SubSeq(buf[r][bgBuf[r]], 1, bgCount[r])
        = SubSeq(history, cursor[r] - bgCount[r] + 1, cursor[r])

(* A writer never calls a reader that is unregistered, nor does the registry*)
(* keep one whose destructor has passed removeClient().                     *)
NoDanglingClient ==
  /\ \A p \in Producers : pending[p] \subseteq clients
  /\ \A c \in clients : life[c] \notin {"new", "placed", "erased", "gone"}

(* A writer waits although there is space (or it has been stopped) only     *)
(* while some thread is on its way to notifyWriters().                      *)
SpaceWakeupOwed ==
  \A p \in Producers :
    spaceCv[p] # "awake" /\ (AvailableWriteSpace > 0 \/ ~running[p]) =>
      \/ \E r \in Readers : copier[r] = "notify"
      \/ \E z \in ZCReaders : user[z] \in {"released", "skipped"}
      \/ \E c \in Clients : life[c] = "erased"
      \/ \E w \in ZCWriters : stopPc[w] = "notify"

(* Likewise a reader's thread waits although it could go on only while      *)
(* someone is on the way to wake it.                                        *)
CouldGoOn(c) ==
  \/ ~rdRunning[c]
  \/ /\ c \in Readers => ~bgFull[c]
     /\ Lag(cursor[c]) > 0 \/ (finishing[c] /\ cursor[c] >= finishTarget[c])

DataWakeupOwed ==
  \A c \in clients :
    dataCv[c] # "awake" /\ CouldGoOn(c) =>
      \/ \E p \in Producers : c \in pending[p] \/ pushPc[p] = "lock"
      \/ life[c] \in {"stopping", "finishing", "closing"}

(* No wake-up is lost in waitForSpace(), notifyDataAvailable(), stop() and  *)
(* finish(): a thread that sleeps although its condition has become true is *)
(* always about to be woken.                                                *)
WakeupsOwed == SpaceWakeupOwed /\ DataWakeupOwed

(* What is left for the user in the active buffer of a RecordReader. *)
InActive(c) ==
  IF c \in Readers
    THEN SubSeq(buf[c][1 - bgBuf[c]], activeIdx[c] + 1, activeCount[c])
    ELSE <<>>

(* finish() "guarantees that every record already in the buffer at call     *)
(* time will be delivered" (RecordReaderBase.h:106): once the reader has    *)
(* ended, its user has been given every record before the target, none      *)
(* missing and none twice, but for those in its active buffer, which the    *)
(* next calls of nextBatch() return.  finish() leaves a RecordReaderZC      *)
(* running, and a stop() that follows ends it before it is drained.         *)
FinishDrains ==
  \A c \in clients \ LateClients :
    /\ life[c] \in {"finishing", "ended"} /\ finishing[c] /\ ~rdRunning[c]
    /\ c \in ZCReaders => "stop" \notin Controls[c]
    =>
      /\ cursor[c] >= finishTarget[c]
      /\ got[c] \o InActive(c) = SubSeq(history, 1, cursor[c])
-----------------------------------------------------------------------------
SingleBlockingWriter == \E w \in Producers : Producers = {w} /\ Blocking = {w}

Guaranteed ==
  IF SingleBlockingWriter THEN Readers \cup (ZCReaders \ LateClients) ELSE Readers

Abstract == INSTANCE RecordStream
              WITH log <- history, delivered <- [c \in Guaranteed |-> got[c]],
                   Subscribers <- Guaranteed, LateSubscribers <- LateClients,
                   Lossless <- SingleBlockingWriter

(* The data path implements the abstract stream: every reader is given the  *)
(* records in order, each once, and with a single blocking writer all of    *)
(* them, but for a late reader, which the writer may pass once.  Excepted   *)
(* is a RecordReaderZC beside a non-blocking writer, for whose batches the  *)
(* README (line 44) gives no guarantee, or created late (see                *)
(* EveryPinnedBatchIntact).                                                 *)
ImplementsStream == Abstract!Spec

(* Every record pushed reaches every reader whose user keeps asking: no     *)
(* writer and reader wait for each other, and no wake-up is lost for good.  *)
EveryRecordArrives ==
  \A n \in 1 .. MaxRecords :
    Len(history) >= n ~> \A c \in Clients : Len(got[c]) >= n

(* flush() and the destructor of a RecordWriter return.                     *)
FlushReturns ==
  \A w \in Writers : api[w] \in {"flushing", "closing"} ~> api[w] \in {"idle", "closed"}

(* stop(), finish() and the destructor of a reader return, whatever point   *)
(* its worker, its user and the writers are at.                             *)
EndReturns ==
  \A c \in Clients :
    life[c] \in {"stopping", "finishing", "closing"} ~> life[c] \in {"ended", "gone"}

(* stop() of a RecordWriterZC ends a commit that waits for space even when  *)
(* the readers never move again (RecordWriterBase.h:128-132).               *)
StopUnblocks ==
  \A w \in ZCWriters : stopPc[w] = "done" ~> api[w] \in {"idle", "filling"}
-----------------------------------------------------------------------------
(* What the documentation says and the code does not do.                    *)

(* After stop() "subsequent nextBatch() calls return invalid batches"       *)
(* (RecordReaderBase.h:99).                                                 *)
StoppedReaderIsSilent ==
  [][\A r \in Readers :
       life[r] = "ended" /\ ~finishing[r] /\ user[r] = "idle" => got'[r] = got[r]]_vars

(* nextBatch() "blocks until at least one record is available or the reader *)
(* is stopped/finished" (RecordReaderBase.h:123): a batch without records   *)
(* says that the reader has ended.                                          *)
EmptyBatchMeansEnd ==
  [][\A z \in ZCReaders :
       user[z] \notin {"idle", "holding"} /\ user'[z] = "idle" => ~rdRunning'[z]]_vars

(* "Pinned memory cannot be overwritten": a batch is safe for every         *)
(* RecordReaderZC (RecordReaderZC.h:22), also one created late.             *)
EveryPinnedBatchIntact == PinnedIntact(ZCReaders)
=============================================================================
