-------------------------- MODULE RecordWriterBase --------------------------
(***************************************************************************)
(* What RecordWriter and RecordWriterZC share: the state of a writer       *)
(* object, the caller's thread, and the loop that moves records into the   *)
(* RecBuffer.  The loop is in the code twice, RecordWriter.cpp:211-249 on  *)
(* the worker thread and RecordWriterZC.cpp:86-103 on the caller's.        *)
(*                                                                         *)
(* A record is the pair <<writer, number>>; its fields do not matter here. *)
(***************************************************************************)
EXTENDS RecBuffer

CONSTANTS Blocking,    \* the producers created with blockOnFull = true
          WriterBatch, \* m_capacity of a writer: records per batch
          WriterCalls, \* which of "flush", "close" and "stop" are called
          MaxRecords   \* bound: records committed per writer

ASSUME WriterAssumption ==
  /\ Blocking \subseteq Producers
  /\ WriterBatch \in Nat \ {0}
  /\ WriterCalls \subseteq {"flush", "close", "stop"}
  /\ MaxRecords \in Nat

VARIABLES
  running,    \* m_running
  todo,       \* records of the batch being pushed that are not in the ring yet
  avail,      \* "available": the space the push loop has read, 0 when not in use
  pushPc,     \* where the push loop is
  api,        \* where the caller of the writer's methods is
  granted,    \* slots handed out by nextBatch() / nextRecord()
  committed   \* records committed so far

writerBaseVars == <<running, todo, avail, pushPc, api, granted, committed>>
loopVars == <<todo, avail, pushPc>>

PushPc == {"off", "claim", "full", "push", "lock", "done"}

InitWriterBase ==
  /\ running = [p \in Producers |-> TRUE]
  /\ todo = [p \in Producers |-> <<>>]
  /\ avail = [p \in Producers |-> 0]
  /\ pushPc = [p \in Producers |-> "off"]
  /\ api = [p \in Producers |-> "idle"]
  /\ granted = [p \in Producers |-> 0]
  /\ committed = [p \in Producers |-> 0]

(* The next k records of a writer. *)
NewRecords(p, k) == [i \in 1 .. k |-> <<p, committed[p] + i>>]
-----------------------------------------------------------------------------
(* A thread in the loop, done with the notifications of its last push. *)
At(p, pc) == pushPc[p] = pc /\ pending[p] = {}

(* Enter the loop with a non-empty batch. *)
StartPush(p, recs) ==
  /\ todo' = [todo EXCEPT ![p] = recs]
  /\ pushPc' = [pushPc EXCEPT ![p] = IF p \in Blocking THEN "claim" ELSE "push"]
  /\ UNCHANGED avail

(* Leave the loop with records unpushed. *)
AbortPush(p) ==
  /\ todo' = [todo EXCEPT ![p] = <<>>]
  /\ pushPc' = [pushPc EXCEPT ![p] = "done"]
  /\ UNCHANGED avail

(* available = getAvailableWriteSpace() *)
Claim(p) ==
  /\ At(p, "claim") /\ SyncFree
  /\ RememberMin
  /\ avail' = [avail EXCEPT ![p] = AvailableWriteSpace]
  /\ pushPc' = [pushPc EXCEPT ![p] = IF AvailableWriteSpace = 0 THEN "full" ELSE "push"]
  /\ UNCHANGED <<ring, totalWritten, clients, cursor, pending, spaceCv, dataCv, history, todo>>

(* waitForSpace(): the condition, with the stop condition of the callers;   *)
(* a stopped writer then leaves the loop.                                   *)
CheckSpace(p) ==
  /\ At(p, "full") /\ spaceCv[p] = "awake" /\ SyncFree
  /\ RememberMin
  /\ IF AvailableWriteSpace = 0 /\ running[p]
       THEN DecideToWait(p) /\ UNCHANGED loopVars
       ELSE /\ UNCHANGED spaceCv
            /\ IF running[p]
                 THEN pushPc' = [pushPc EXCEPT ![p] = "claim"] /\ UNCHANGED <<todo, avail>>
                 ELSE AbortPush(p)
  /\ UNCHANGED <<ring, totalWritten, clients, cursor, pending, dataCv, history>>

Sleep(p) ==
  /\ SleepForSpace(p)
  /\ UNCHANGED <<ring, totalWritten, clients, cursor, phantom, pending, dataCv, history,
                 loopVars>>

(* Mutant of ChunkSize: the whole batch, whatever space was found. *)
WholeBatch(p) == Len(todo[p])

(* push(): as much as was found free, or the whole batch without blocking.  *)
ChunkSize(p) ==
  IF p \in Blocking THEN MinOf(Len(todo[p]), avail[p]) ELSE Len(todo[p])

Push(p) ==
  /\ At(p, "push")
  /\ PushRecords(SubSeq(todo[p], 1, ChunkSize(p)))
  /\ todo' = [todo EXCEPT ![p] = SubSeq(@, ChunkSize(p) + 1, Len(@))]
  /\ avail' = [avail EXCEPT ![p] = 0]
  /\ pushPc' = [pushPc EXCEPT ![p] = "lock"]
  /\ UNCHANGED <<clients, cursor, phantom, pending, spaceCv, dataCv>>

(* push() goes on to notify; after that the loop goes round or ends. *)
LockForNotify(p) ==
  /\ pushPc[p] = "lock"
  /\ BeginNotify(p)
  /\ pushPc' = [pushPc EXCEPT ![p] = IF todo[p] = <<>> THEN "done" ELSE "claim"]
  /\ UNCHANGED <<ring, totalWritten, clients, cursor, phantom, spaceCv, dataCv, history,
                 todo, avail>>

Notify(p) ==
  /\ \E c \in Clients : NotifyClient(p, c)
  /\ UNCHANGED <<ring, totalWritten, clients, cursor, phantom, spaceCv, history, loopVars>>
=============================================================================
