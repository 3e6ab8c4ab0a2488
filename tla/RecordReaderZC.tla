--------------------------- MODULE RecordReaderZC ---------------------------
(***************************************************************************)
(* cyc::RecordReaderZC: no worker and no copy.  nextBatch() returns a      *)
(* pointer into the ring; the cursor stays on the batch's first record     *)
(* (the batch is pinned) until the next nextBatch() or release().          *)
(***************************************************************************)
EXTENDS RecordReaderBase

CONSTANT ZCReaders \* the clients that are RecordReaderZCs

ASSUME ZCReadersAssumption == ZCReaders \subseteq Clients

VARIABLES
  pinnedEnd,  \* m_pinnedEnd
  batchSlot,  \* the physical slot the user's batch starts at ...
  batchCount  \* ... and its length; 0 when the user holds no batch

zcVars == <<pinnedEnd, batchSlot, batchCount>>

InitReaderZC ==
  /\ pinnedEnd = [z \in ZCReaders |-> 0]
  /\ batchSlot = [z \in ZCReaders |-> 0]
  /\ batchCount = [z \in ZCReaders |-> 0]

UserAt(z, pc) == user[z] = pc
UserGoto(z, pc) == user' = [user EXCEPT ![z] = pc]
-----------------------------------------------------------------------------
(* init(): m_pinnedEnd starts at the cursor initBase() has placed. *)
ZCPlace(z) ==
  /\ Place(z)
  /\ pinnedEnd' = [pinnedEnd EXCEPT ![z] = cursor'[z]]
  /\ UNCHANGED <<batchSlot, batchCount>>

(* nextBatch() begins with release(): unpin by moving the cursor past the   *)
(* batch ...                                                                *)
Release(z) ==
  /\ Usable(z) /\ UserAt(z, "idle")
  /\ cursor' = [cursor EXCEPT ![z] = pinnedEnd[z]]
  /\ batchCount' = [batchCount EXCEPT ![z] = 0]
  /\ UserGoto(z, IF pinnedEnd[z] = cursor[z] THEN "checking" ELSE "released")
  /\ UNCHANGED <<ring, totalWritten, clients, phantom, pending, spaceCv, dataCv, history,
                 life, rdRunning, finishing, finishTarget, got, pinnedEnd, batchSlot>>

(* ... and tell the writers. *)
ReleaseNotify(z) ==
  /\ UserAt(z, "released")
  /\ NotifyWriters
  /\ UserGoto(z, "checking")
  /\ UNCHANGED <<ring, totalWritten, clients, cursor, phantom, pending, dataCv, history,
                 life, rdRunning, finishing, finishTarget, got, zcVars>>

(* The checks before, in and after the wait on m_cv.  A reader that has     *)
(* ended, or has reached its finish target, returns an invalid batch.       *)
ZCWait(z) ==
  /\ UserAt(z, "checking") /\ dataCv[z] = "awake"
  /\ LET drained == finishing[z] /\ cursor[z] >= finishTarget[z]
     IN  IF ~rdRunning[z] \/ drained
           THEN /\ rdRunning' = [rdRunning EXCEPT ![z] = FALSE]
                /\ UserGoto(z, "idle") /\ UNCHANGED dataCv
         ELSE IF Lag(cursor[z]) > 0
           THEN UserGoto(z, "fetching") /\ UNCHANGED <<dataCv, rdRunning>>
         ELSE /\ dataCv' = [dataCv EXCEPT ![z] = "deciding"]
              /\ UNCHANGED <<user, rdRunning>>
  /\ UNCHANGED <<ring, totalWritten, clients, cursor, phantom, pending, spaceCv, history,
                 life, finishing, finishTarget, got, zcVars>>

ZCSleep(z) ==
  /\ dataCv[z] = "deciding"
  /\ dataCv' = [dataCv EXCEPT ![z] = "asleep"]
  /\ UNCHANGED <<ring, totalWritten, clients, cursor, phantom, pending, spaceCv, history,
                 readerBaseVars, zcVars>>

(* Mutant of Pin: the end of the batch is not remembered. *)
PinWithoutEnd(z, n) ==
  /\ Readable(cursor[z])
  /\ batchSlot' = [batchSlot EXCEPT ![z] = BatchSlot(cursor[z])]
  /\ batchCount' = [batchCount EXCEPT ![z] = BatchRun(cursor[z], n)]
  /\ UserGoto(z, "holding")
  /\ UNCHANGED <<bufferVars, life, rdRunning, finishing, finishTarget, got, pinnedEnd>>

(* getBatchPtrFromGlobal(): the batch is pinned and returned. *)
Pin(z, n) ==
  /\ Readable(cursor[z])
  /\ batchSlot' = [batchSlot EXCEPT ![z] = BatchSlot(cursor[z])]
  /\ batchCount' = [batchCount EXCEPT ![z] = BatchRun(cursor[z], n)]
  /\ pinnedEnd' = [pinnedEnd EXCEPT ![z] = cursor[z] + BatchRun(cursor[z], n)]
  /\ UserGoto(z, "holding")
  /\ UNCHANGED <<bufferVars, life, rdRunning, finishing, finishTarget, got>>

Fetch(z) ==
  /\ UserAt(z, "fetching")
  /\ \/ \E n \in 1 .. ReaderBatch : Pin(z, n)
     \/ /\ ~Readable(cursor[z])
        /\ UserGoto(z, "overrun")
        /\ UNCHANGED <<bufferVars, life, rdRunning, finishing, finishTarget, got, zcVars>>

(* Overrun: the cursor skips to the oldest record, nothing is pinned ... *)
SkipOverrun(z) ==
  /\ UserAt(z, "overrun")
  /\ cursor' = [cursor EXCEPT ![z] = OldestCursor]
  /\ pinnedEnd' = [pinnedEnd EXCEPT ![z] = OldestCursor]
  /\ UserGoto(z, "skipped")
  /\ UNCHANGED <<ring, totalWritten, clients, phantom, pending, spaceCv, dataCv, history,
                 life, rdRunning, finishing, finishTarget, got, batchSlot, batchCount>>

SkipNotify(z) ==
  /\ UserAt(z, "skipped")
  /\ NotifyWriters
  /\ UserGoto(z, "refetching")
  /\ UNCHANGED <<ring, totalWritten, clients, cursor, phantom, pending, dataCv, history,
                 life, rdRunning, finishing, finishTarget, got, zcVars>>

(* ... and the second fetch is the last: overrun again, it returns an       *)
(* invalid batch.                                                           *)
Refetch(z) ==
  /\ UserAt(z, "refetching")
  /\ \/ \E n \in 1 .. ReaderBatch : Pin(z, n)
     \/ /\ ~Readable(cursor[z])
        /\ UserGoto(z, "idle")
        /\ UNCHANGED <<bufferVars, life, rdRunning, finishing, finishTarget, got, zcVars>>

(* The user reads the memory of its batch, then goes on. *)
BatchContent(z) ==
  [i \in 1 .. batchCount[z] |-> ring.array[batchSlot[z] + i - 1]]

ReadBatch(z) ==
  /\ UserAt(z, "holding")
  /\ got' = [got EXCEPT ![z] = @ \o BatchContent(z)]
  /\ UserGoto(z, "idle")
  /\ UNCHANGED <<bufferVars, life, rdRunning, finishing, finishTarget, zcVars>>

ReaderZCUser(z) ==
  \/ Release(z) \/ ReleaseNotify(z) \/ ZCWait(z) \/ ZCSleep(z)
  \/ Fetch(z) \/ SkipOverrun(z) \/ SkipNotify(z) \/ Refetch(z) \/ ReadBatch(z)
-----------------------------------------------------------------------------
(* stop(): m_running is cleared, then the waiting user is woken; the pinned *)
(* batch stays pinned.  Also called by the destructor.                      *)
ZCStopReader(z, goal) ==
  /\ MayEnd(z, goal) /\ rdRunning[z]
  /\ rdRunning' = [rdRunning EXCEPT ![z] = FALSE]
  /\ SetLife(z, goal)
  /\ UNCHANGED <<bufferVars, finishing, finishTarget, user, got, zcVars>>

(* finish(): the target is the write head of this moment. *)
ZCFinish(z) ==
  /\ MayEnd(z, "finishing")
  /\ finishing' = [finishing EXCEPT ![z] = TRUE]
  /\ finishTarget' = [finishTarget EXCEPT ![z] = totalWritten]
  /\ SetLife(z, "finishing")
  /\ UNCHANGED <<bufferVars, rdRunning, user, got, zcVars>>

(* Both pass through the mutex and wake the user. *)
ZCEndNotify(z) ==
  /\ life[z] \in {"stopping", "finishing", "closing"}
  /\ dataCv[z] # "deciding"
  /\ WakeReader(z)
  /\ SetLife(z, IF life[z] = "closing" THEN "erasing" ELSE "ended")
  /\ UNCHANGED <<ring, totalWritten, clients, cursor, phantom, pending, spaceCv, history,
                 rdRunning, finishing, finishTarget, user, got, zcVars>>

ReaderZCControl(z) ==
  \/ \E goal \in {"stopping", "closing"} : ZCStopReader(z, goal)
  \/ ZCFinish(z) \/ ZCEndNotify(z)
=============================================================================
