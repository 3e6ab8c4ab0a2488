-------------------------- MODULE RecordReaderBase --------------------------
(***************************************************************************)
(* What RecordReader and RecordReaderZC share: registration with the       *)
(* RecBuffer, the life of the reader object, and what its user was given.  *)
(***************************************************************************)
EXTENDS RecBuffer

CONSTANTS ReaderBatch, \* m_capacity of a reader: records per batch
          Controls     \* per client: which of "stop", "finish", "destroy" are called

ASSUME ReaderAssumption ==
  /\ ReaderBatch \in Nat \ {0}
  /\ Controls \in [Clients -> SUBSET {"stop", "finish", "destroy"}]

VARIABLES
  life,         \* the object, and the thread that controls it
  rdRunning,    \* m_running
  finishing,    \* m_finishing
  finishTarget, \* m_finishTarget
  user,         \* where the caller of nextBatch() is
  got           \* the records delivered to the user, in order

readerBaseVars == <<life, rdRunning, finishing, finishTarget, user, got>>

(* new, placed: under construction; live: in use; stopping, finishing and   *)
(* joining: inside stop() or finish(), which leave it ended; closing and    *)
(* after: inside the destructor.                                            *)
Life == {"new", "placed", "live", "stopping", "finishing", "joining", "ended",
         "closing", "closeJoin", "erasing", "erased", "gone"}

InitReaderBase ==
  /\ life = [c \in Clients |-> IF c \in LateClients THEN "new" ELSE "live"]
  /\ rdRunning = [c \in Clients |-> c \notin LateClients]
  /\ finishing = [c \in Clients |-> FALSE]
  /\ finishTarget = [c \in Clients |-> 0]
  /\ user = [c \in Clients |-> "idle"]
  /\ got = [c \in Clients |-> <<>>]

SetLife(c, s) == life' = [life EXCEPT ![c] = s]
-----------------------------------------------------------------------------
(* initBase(): the cursor is placed on the oldest record of the ring ... *)
Place(c) ==
  /\ life[c] = "new"
  /\ rdRunning' = [rdRunning EXCEPT ![c] = TRUE]
  /\ cursor' = [cursor EXCEPT ![c] = IF totalWritten > ring.size THEN OldestCursor ELSE 0]
  /\ SetLife(c, "placed")
  /\ UNCHANGED <<ring, totalWritten, clients, phantom, pending, spaceCv, dataCv, history,
                 finishing, finishTarget, user, got>>

(* ... and only then is the reader registered. *)
Register(c) ==
  /\ life[c] = "placed"
  /\ AddClient(c)
  /\ SetLife(c, "live")
  /\ UNCHANGED <<ring, totalWritten, cursor, phantom, pending, spaceCv, dataCv, history,
                 rdRunning, finishing, finishTarget, user, got>>

(* Methods are called on an object that exists and is not being destroyed. *)
Usable(c) == life[c] \in {"live", "stopping", "finishing", "joining", "ended"}

(* When stop(), finish() or the destructor is entered.  finish() leaves a   *)
(* RecordReaderZC running, so that it can still be stopped; the destructor  *)
(* waits until no call of nextBatch() is under way.                         *)
MayEnd(c, goal) ==
  /\ life[c] = "live" \/ (life[c] = "ended" /\ goal # "finishing")
  /\ \/ goal = "stopping" /\ "stop" \in Controls[c]
     \/ goal = "finishing" /\ "finish" \in Controls[c]
     \/ goal = "closing" /\ "destroy" \in Controls[c] /\ user[c] = "idle"

(* The destructor of a reader that is no longer running goes straight to    *)
(* removeClient() ...                                                       *)
DestroyEnded(c) ==
  /\ "destroy" \in Controls[c] /\ life[c] = "ended" /\ ~rdRunning[c]
  /\ user[c] = "idle"
  /\ SetLife(c, "erasing")
  /\ UNCHANGED <<bufferVars, rdRunning, finishing, finishTarget, user, got>>

(* ... which erases the client under m_syncMtx ... *)
Unregister(c) ==
  /\ life[c] = "erasing"
  /\ EraseClient(c)
  /\ SetLife(c, "erased")
  /\ UNCHANGED <<ring, totalWritten, cursor, phantom, pending, spaceCv, dataCv, history,
                 rdRunning, finishing, finishTarget, user, got>>

(* ... and then wakes the writers. *)
UnregisterNotify(c) ==
  /\ life[c] = "erased"
  /\ NotifyWriters
  /\ SetLife(c, "gone")
  /\ UNCHANGED <<ring, totalWritten, clients, cursor, phantom, pending, dataCv, history,
                 rdRunning, finishing, finishTarget, user, got>>

Membership(c) ==
  Register(c) \/ DestroyEnded(c) \/ Unregister(c) \/ UnregisterNotify(c)

(* The reader's thread that waits for data is woken. *)
WakeReader(c) == dataCv' = [dataCv EXCEPT ![c] = "awake"]
=============================================================================
