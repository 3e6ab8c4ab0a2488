---------------------------- MODULE RecordReader ----------------------------
(***************************************************************************)
(* cyc::RecordReader: a worker thread copies records from the RecBuffer    *)
(* into the background buffer while the user reads the active one.         *)
(***************************************************************************)
EXTENDS RecordReaderBase

CONSTANT Readers \* the clients that are RecordReaders

ASSUME ReadersAssumption == Readers \subseteq Clients

VARIABLES
  buf,         \* m_bufferA and m_bufferB
  bgBuf,       \* which of the two m_bgBuf points to
  bgCount,     \* m_bgCount
  bgFull,      \* m_bgIsFull
  activeIdx,   \* m_activeIdx
  activeCount, \* m_activeCount
  copier,      \* where the worker thread is
  from, count  \* its local variables cursor and countToRead, 0 out of scope

readerVars == <<buf, bgBuf, bgCount, bgFull, activeIdx, activeCount, copier, from, count>>

InitReader ==
  /\ buf = [r \in Readers |-> [b \in {0, 1} |-> [i \in 1 .. ReaderBatch |-> NoRecord]]]
  /\ bgBuf = [r \in Readers |-> 1]
  /\ bgCount = [r \in Readers |-> 0]
  /\ bgFull = [r \in Readers |-> FALSE]
  /\ activeIdx = [r \in Readers |-> 0]
  /\ activeCount = [r \in Readers |-> 0]
  /\ copier = [r \in Readers |-> "wait"]
  /\ from = [r \in Readers |-> 0]
  /\ count = [r \in Readers |-> 0]

CopierAt(r, pc) == copier[r] = pc
Goto(r, pc) == copier' = [copier EXCEPT ![r] = pc]

(* The end of a round of the worker's loop: its locals go out of scope. *)
ForgetSnapshot(r) ==
  /\ from' = [from EXCEPT ![r] = 0]
  /\ count' = [count EXCEPT ![r] = 0]
-----------------------------------------------------------------------------
(* Mutant of Drained: the worker stops as soon as finish() is called. *)
DrainedAtOnce(r) == finishing[r]

(* workerLoop(): the loop condition and the wait on m_cv_worker. *)
Drained(r) == finishing[r] /\ cursor[r] >= finishTarget[r]

WaitForData(r) ==
  /\ CopierAt(r, "wait") /\ dataCv[r] = "awake"
  /\ life[r] \notin {"new", "placed"}
  /\ IF ~rdRunning[r] THEN Goto(r, "exited") /\ UNCHANGED <<dataCv, rdRunning>>
     ELSE IF ~bgFull[r] /\ Drained(r)
       THEN /\ Goto(r, "exited") /\ UNCHANGED dataCv
            /\ rdRunning' = [rdRunning EXCEPT ![r] = FALSE]
     ELSE IF ~bgFull[r] /\ Lag(cursor[r]) > 0
       THEN Goto(r, "snapshot") /\ UNCHANGED <<dataCv, rdRunning>>
     ELSE /\ dataCv' = [dataCv EXCEPT ![r] = "deciding"]
          /\ UNCHANGED <<copier, rdRunning>>
  /\ UNCHANGED <<ring, totalWritten, clients, cursor, phantom, pending, spaceCv, history,
                 life, finishing, finishTarget, user, got, buf, bgBuf, bgCount, bgFull,
                 activeIdx, activeCount, from, count>>

SleepForData(r) ==
  /\ dataCv[r] = "deciding"
  /\ dataCv' = [dataCv EXCEPT ![r] = "asleep"]
  /\ UNCHANGED <<ring, totalWritten, clients, cursor, phantom, pending, spaceCv, history,
                 readerBaseVars, readerVars>>

(* Mutant of TakeSnapshot: the capacity of the background buffer is ignored. *)
TakeSnapshotUncapped(r) ==
  /\ CopierAt(r, "snapshot")
  /\ LET start == IF Lag(cursor[r]) > ring.size THEN OldestCursor ELSE cursor[r]
     IN  /\ from' = [from EXCEPT ![r] = start]
         /\ count' = [count EXCEPT ![r] = Lag(start)]
  /\ Goto(r, "copy")
  /\ UNCHANGED <<bufferVars, readerBaseVars, buf, bgBuf, bgCount, bgFull, activeIdx,
                 activeCount>>

(* getTotalWrittenAndSize(): a reader that was overrun moves on to the      *)
(* oldest record left.                                                      *)
TakeSnapshot(r) ==
  /\ CopierAt(r, "snapshot")
  /\ LET start == IF Lag(cursor[r]) > ring.size THEN OldestCursor ELSE cursor[r]
     IN  /\ from' = [from EXCEPT ![r] = start]
         /\ count' = [count EXCEPT ![r] = MinOf(Lag(start), ReaderBatch)]
  /\ Goto(r, "copy")
  /\ UNCHANGED <<bufferVars, readerBaseVars, buf, bgBuf, bgCount, bgFull, activeIdx,
                 activeCount>>

(* Mutant of CopyRecords: the result of readFromGlobal() is not looked at. *)
CopyUnchecked(r) ==
  /\ CopierAt(r, "copy")
  /\ buf' = [buf EXCEPT ![r][bgBuf[r]] =
               [i \in 1 .. ReaderBatch |->
                  IF i <= count[r] THEN ReadFromGlobal(from[r], count[r])[i] ELSE @[i]]]
  /\ Goto(r, "advance")
  /\ UNCHANGED <<bufferVars, readerBaseVars, bgBuf, bgCount, bgFull, activeIdx, activeCount,
                 from, count>>

(* readFromGlobal(): nothing is copied when the writer has passed the       *)
(* cursor since the snapshot; the loop then starts over.                    *)
CopyRecords(r) ==
  /\ CopierAt(r, "copy")
  /\ IF Readable(from[r])
       THEN /\ buf' = [buf EXCEPT ![r][bgBuf[r]] =
                         [i \in 1 .. ReaderBatch |->
                            IF i <= count[r] THEN ReadFromGlobal(from[r], count[r])[i]
                            ELSE @[i]]]
            /\ Goto(r, "advance") /\ UNCHANGED <<from, count>>
       ELSE Goto(r, "wait") /\ ForgetSnapshot(r) /\ UNCHANGED buf
  /\ UNCHANGED <<bufferVars, readerBaseVars, bgBuf, bgCount, bgFull, activeIdx,
                 activeCount>>

(* Mutant of AdvanceCursor: from the cursor before the overrun was noticed. *)
AdvanceFromStale(r) ==
  /\ CopierAt(r, "advance")
  /\ cursor' = [cursor EXCEPT ![r] = @ + count[r]]
  /\ Goto(r, "notify")
  /\ UNCHANGED <<ring, totalWritten, clients, phantom, pending, spaceCv, dataCv, history,
                 readerBaseVars, buf, bgBuf, bgCount, bgFull, activeIdx, activeCount, from,
                 count>>

(* The cursor is published to the writers after the copy. *)
AdvanceCursor(r) ==
  /\ CopierAt(r, "advance")
  /\ cursor' = [cursor EXCEPT ![r] = from[r] + count[r]]
  /\ Goto(r, "notify")
  /\ UNCHANGED <<ring, totalWritten, clients, phantom, pending, spaceCv, dataCv, history,
                 readerBaseVars, buf, bgBuf, bgCount, bgFull, activeIdx, activeCount, from,
                 count>>

NotifySpace(r) ==
  /\ CopierAt(r, "notify")
  /\ NotifyWriters
  /\ Goto(r, "publish")
  /\ UNCHANGED <<ring, totalWritten, clients, cursor, phantom, pending, dataCv, history,
                 readerBaseVars, buf, bgBuf, bgCount, bgFull, activeIdx, activeCount, from,
                 count>>

(* The background buffer is offered to the user, under m_mtx. *)
OfferBatch(r) ==
  /\ CopierAt(r, "publish")
  /\ bgCount' = [bgCount EXCEPT ![r] = count[r]]
  /\ bgFull' = [bgFull EXCEPT ![r] = TRUE]
  /\ Goto(r, "wait") /\ ForgetSnapshot(r)
  /\ UNCHANGED <<bufferVars, readerBaseVars, buf, bgBuf, activeIdx, activeCount>>

Copier(r) ==
  \/ WaitForData(r) \/ SleepForData(r) \/ TakeSnapshot(r) \/ CopyRecords(r)
  \/ AdvanceCursor(r) \/ NotifySpace(r) \/ OfferBatch(r)
-----------------------------------------------------------------------------
(* nextBatch(n, true): up to n records of the active buffer, if it has some *)
(* left or has just been swapped in.                                        *)
TakeFromActive(r, n) ==
  LET k == MinOf(n, activeCount[r] - activeIdx[r])
  IN  /\ Usable(r) /\ user[r] \in {"idle", "taking"}
      /\ activeIdx[r] < activeCount[r]
      /\ got' = [got EXCEPT ![r] =
                   @ \o SubSeq(buf[r][1 - bgBuf[r]], activeIdx[r] + 1, activeIdx[r] + k)]
      /\ activeIdx' = [activeIdx EXCEPT ![r] = @ + k]
      /\ user' = [user EXCEPT ![r] = "idle"]
      /\ UNCHANGED <<bufferVars, life, rdRunning, finishing, finishTarget, buf, bgBuf,
                     bgCount, bgFull, activeCount, copier, from, count>>

(* On an empty active buffer it waits on m_cv_user for a full background    *)
(* buffer or the end of the reader ...                                      *)
BeginNextBatch(r) ==
  /\ Usable(r) /\ user[r] = "idle"
  /\ activeIdx[r] >= activeCount[r]
  /\ user' = [user EXCEPT ![r] = "waiting"]
  /\ UNCHANGED <<bufferVars, life, rdRunning, finishing, finishTarget, got, readerVars>>

(* ... and calls swapBuffers(), which wakes the worker.  A swap that brings *)
(* no records ends the call with an invalid batch.                          *)
SwapActive(r) ==
  /\ user[r] = "waiting"
  /\ bgFull[r] \/ ~rdRunning[r]
  /\ dataCv[r] # "deciding"
  /\ bgBuf' = [bgBuf EXCEPT ![r] = 1 - @]
  /\ activeCount' = [activeCount EXCEPT ![r] = bgCount[r]]
  /\ activeIdx' = [activeIdx EXCEPT ![r] = 0]
  /\ bgCount' = [bgCount EXCEPT ![r] = 0]
  /\ bgFull' = [bgFull EXCEPT ![r] = FALSE]
  /\ WakeReader(r)
  /\ user' = [user EXCEPT ![r] = IF bgCount[r] = 0 THEN "idle" ELSE "taking"]
  /\ UNCHANGED <<ring, totalWritten, clients, cursor, phantom, pending, spaceCv, history,
                 life, rdRunning, finishing, finishTarget, got, buf, copier, from, count>>

ReaderUser(r) ==
  \/ \E n \in 1 .. ReaderBatch : TakeFromActive(r, n)
  \/ BeginNextBatch(r) \/ SwapActive(r)
-----------------------------------------------------------------------------
(* stop(), called by itself or by the destructor: m_running is cleared      *)
(* first, without the mutex.                                                *)
Stop(r, goal) ==
  /\ MayEnd(r, goal) /\ rdRunning[r]
  /\ rdRunning' = [rdRunning EXCEPT ![r] = FALSE]
  /\ SetLife(r, goal)
  /\ UNCHANGED <<bufferVars, finishing, finishTarget, user, got, readerVars>>

(* Mutant of StopNotify: the mutex is not passed through. *)
StopNotifyUnlocked(r) ==
  /\ life[r] \in {"stopping", "closing"}
  /\ dataCv' = [dataCv EXCEPT ![r] = IF @ = "asleep" THEN "awake" ELSE @]
  /\ SetLife(r, IF life[r] = "closing" THEN "closeJoin" ELSE "joining")
  /\ UNCHANGED <<ring, totalWritten, clients, cursor, phantom, pending, spaceCv, history,
                 rdRunning, finishing, finishTarget, user, got, readerVars>>

(* Then the mutex is passed through and both threads are woken ... *)
StopNotify(r) ==
  /\ life[r] \in {"stopping", "closing"}
  /\ dataCv[r] # "deciding"
  /\ WakeReader(r)
  /\ SetLife(r, IF life[r] = "closing" THEN "closeJoin" ELSE "joining")
  /\ UNCHANGED <<ring, totalWritten, clients, cursor, phantom, pending, spaceCv, history,
                 rdRunning, finishing, finishTarget, user, got, readerVars>>

(* Mutant of Finish: the worker is not woken. *)
FinishSilently(r) ==
  /\ MayEnd(r, "finishing") /\ rdRunning[r]
  /\ finishing' = [finishing EXCEPT ![r] = TRUE]
  /\ finishTarget' = [finishTarget EXCEPT ![r] = totalWritten]
  /\ SetLife(r, "finishing")
  /\ UNCHANGED <<bufferVars, rdRunning, user, got, readerVars>>

(* finish(): the target is taken under the mutex and the worker woken ... *)
Finish(r) ==
  /\ MayEnd(r, "finishing") /\ rdRunning[r]
  /\ dataCv[r] # "deciding"
  /\ finishing' = [finishing EXCEPT ![r] = TRUE]
  /\ finishTarget' = [finishTarget EXCEPT ![r] = totalWritten]
  /\ WakeReader(r)
  /\ SetLife(r, "finishing")
  /\ UNCHANGED <<ring, totalWritten, clients, cursor, phantom, pending, spaceCv, history,
                 rdRunning, user, got, readerVars>>

(* ... and joined, as stop() and the destructor do. *)
JoinCopier(r) ==
  /\ life[r] \in {"finishing", "joining", "closeJoin"}
  /\ CopierAt(r, "exited")
  /\ rdRunning' = [rdRunning EXCEPT ![r] = FALSE]
  /\ SetLife(r, IF life[r] = "closeJoin" THEN "erasing" ELSE "ended")
  /\ UNCHANGED <<bufferVars, finishing, finishTarget, user, got, readerVars>>

ReaderControl(r) ==
  \/ \E goal \in {"stopping", "closing"} : Stop(r, goal)
  \/ StopNotify(r) \/ Finish(r) \/ JoinCopier(r)
=============================================================================
