------------------------------ MODULE RecBuffer ------------------------------
(***************************************************************************)
(* cyc::RecBuffer (CycLib/Core/RecBuffer.cpp): the shared ring of records, *)
(* the registry of its readers and the two notifications, data towards the *)
(* readers and space towards the writers.                                  *)
(*                                                                         *)
(* This module has the state and the steps; the threads that take them are *)
(* in RecordWriter, RecordWriterZC, RecordReader and RecordReaderZC, and   *)
(* Stream puts all of them together.                                       *)
(*                                                                         *)
(* Locks.  m_dataRwMtx makes one step of a push and one of a read of the   *)
(* ring.  m_syncMtx is held over several steps only while a writer notifies*)
(* the readers one after the other (pending) and between the moment a      *)
(* writer finds waitForSpace's condition false and the moment it sleeps.   *)
(* The mutex of a reader's condition variable is likewise held between a   *)
(* false condition and the sleep.  These are the windows in which a        *)
(* notification can be lost, so they are states here.                      *)
(***************************************************************************)
EXTENDS CircularBuffer, FiniteSets

CONSTANTS Capacity,    \* records in the ring
          Producers,   \* every thread that pushes into the buffer
          Clients,     \* every reader object
          LateClients, \* the readers created while the system runs
          NoRecord     \* content of a slot never written

ASSUME BufferAssumption ==
  /\ Capacity \in Nat \ {0}
  /\ LateClients \subseteq Clients
  /\ IsFiniteSet(Clients)

VARIABLES
  ring,          \* m_impl, one array element per record
  totalWritten,  \* m_impl.m_totalWritten
  clients,       \* m_clients
  cursor,        \* getCursor() of every client: the first record it still needs
  phantom,       \* m_phantomReadCursor
  pending,       \* per producer: the clients notifyClients() has still to call
  spaceCv,       \* per producer: its thread in waitForSpace()
  dataCv,        \* per client: its thread in the wait for data
  history        \* every record ever pushed, in order (not in the code)

bufferVars ==
  <<ring, totalWritten, clients, cursor, phantom, pending, spaceCv, dataCv, history>>

(* A thread and a condition variable: not waiting, holding the mutex with a *)
(* condition found false, or asleep with the mutex released.                *)
CvState == {"awake", "deciding", "asleep"}

InitBuffer ==
  /\ ring = NewRing(Capacity, NoRecord)
  /\ totalWritten = 0
  /\ clients = Clients \ LateClients
  /\ cursor = [c \in Clients |-> 0]
  /\ phantom = 0
  /\ pending = [p \in Producers |-> {}]
  /\ spaceCv = [p \in Producers |-> "awake"]
  /\ dataCv = [c \in Clients |-> "awake"]
  /\ history = <<>>
-----------------------------------------------------------------------------
(* Nobody holds m_syncMtx. *)
SyncFree == \A p \in Producers : pending[p] = {} /\ spaceCv[p] # "deciding"

(* Mutant of MinReadCursor: the fastest reader paces the writer. *)
MaxReadCursor ==
  IF clients = {} THEN phantom
  ELSE CHOOSE m \in {cursor[c] : c \in clients} : \A c \in clients : m >= cursor[c]

(* calculateMinReadCursor_nolock: the smallest cursor of the registered     *)
(* clients or, with none, the one remembered from the last time.            *)
MinReadCursor ==
  IF clients = {} THEN phantom
  ELSE CHOOSE m \in {cursor[c] : c \in clients} : \A c \in clients : m <= cursor[c]

(* Mutant of AvailableWriteSpace: one record too many. *)
AvailableWriteSpacePlusOne ==
  IF totalWritten - MinReadCursor > Capacity THEN 0
  ELSE Capacity + 1 - (totalWritten - MinReadCursor)

(* getAvailableWriteSpace_nolock *)
AvailableWriteSpace ==
  IF totalWritten < MinReadCursor THEN Capacity
  ELSE IF totalWritten - MinReadCursor >= Capacity THEN 0
  ELSE Capacity - (totalWritten - MinReadCursor)

(* Computing the space remembers the minimum. *)
RememberMin == phantom' = MinReadCursor

(* Records that can still be read, and the relative index of a cursor. *)
Lag(c) == totalWritten - c
Readable(c) == Lag(c) # 0 /\ Lag(c) <= ring.size
RelativeIndex(c) == ring.size - Lag(c)

(* readFromGlobal: count records from a cursor, copied under the lock. *)
ReadFromGlobal(c, count) == PeekManyAt(ring, RelativeIndex(c), count)

(* getBatchPtrFromGlobal: the records from a cursor that lie in one piece,  *)
(* and the slot of the first of them.                                       *)
BatchSlot(c) == SlotOf(ring, RelativeIndex(c))
BatchRun(c, max) == MinOf(MinOf(max, Lag(c)), Capacity - BatchSlot(c))

(* Where a reader that fell behind resumes: the oldest record in the ring. *)
OldestCursor == totalWritten - ring.size
-----------------------------------------------------------------------------
(* push(), first half, under m_dataRwMtx. *)
PushRecords(recs) ==
  /\ ring' = PushMany(ring, recs)
  /\ totalWritten' = totalWritten + Len(recs)
  /\ history' = history \o recs

(* push(), second half: notifyClients() takes m_syncMtx ... *)
BeginNotify(p) ==
  /\ SyncFree
  /\ pending' = [pending EXCEPT ![p] = clients]

(* Mutant of NotifyClient: the client's mutex is not passed through, so a   *)
(* thread that has just found nothing to do goes to sleep all the same.     *)
NotifyClientUnlocked(p, c) ==
  /\ c \in pending[p]
  /\ dataCv' = [dataCv EXCEPT ![c] = IF @ = "asleep" THEN "awake" ELSE @]
  /\ pending' = [pending EXCEPT ![p] = @ \ {c}]

(* ... and calls notifyDataAvailable() of each client, which passes through *)
(* the client's mutex before it wakes the client's thread.                  *)
NotifyClient(p, c) ==
  /\ c \in pending[p]
  /\ dataCv[c] # "deciding"
  /\ dataCv' = [dataCv EXCEPT ![c] = "awake"]
  /\ pending' = [pending EXCEPT ![p] = @ \ {c}]

(* waitForSpace(): a false condition keeps m_syncMtx until the sleep. *)
DecideToWait(p) == spaceCv' = [spaceCv EXCEPT ![p] = "deciding"]

SleepForSpace(p) ==
  /\ spaceCv[p] = "deciding"
  /\ spaceCv' = [spaceCv EXCEPT ![p] = "asleep"]

(* Mutant of NotifyWriters: the same without m_syncMtx. *)
NotifyWritersUnlocked ==
  spaceCv' = [p \in Producers |-> IF spaceCv[p] = "asleep" THEN "awake" ELSE spaceCv[p]]

(* notifyWriters(): passes through m_syncMtx, then wakes every writer. *)
NotifyWriters ==
  /\ SyncFree
  /\ spaceCv' = [p \in Producers |-> "awake"]

(* Mutant of EraseClient: the registry changes while a writer walks it. *)
EraseClientUnlocked(c) == clients' = clients \ {c}

(* addClient(), and removeClient() up to its call of notifyWriters(). *)
AddClient(c) == SyncFree /\ clients' = clients \cup {c}
EraseClient(c) == SyncFree /\ clients' = clients \ {c}
=============================================================================
