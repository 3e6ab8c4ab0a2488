---------------------------- MODULE RecordWriter ----------------------------
(***************************************************************************)
(* cyc::RecordWriter: the caller fills the active buffer, a worker thread  *)
(* pushes the background buffer; swapBuffers exchanges the two when the    *)
(* worker has finished.  m_mtx protects the hand-over; the worker holds it *)
(* between a false wait condition and its sleep ("deciding").              *)
(***************************************************************************)
EXTENDS RecordWriterBase

CONSTANT Writers \* the producers that are RecordWriters

ASSUME WritersAssumption == Writers \subseteq Producers

VARIABLES
  active,   \* records committed in the active buffer: m_activeBuf[0 .. m_currentIdx)
  bg,       \* records in the background buffer: m_bgBuf[0 .. m_bgCount)
  hasWork,  \* m_hasWork
  worker    \* where the worker thread is

writerVars == <<active, bg, hasWork, worker>>

InitWriter ==
  /\ active = [w \in Writers |-> <<>>]
  /\ bg = [w \in Writers |-> <<>>]
  /\ hasWork = [w \in Writers |-> FALSE]
  /\ worker = [w \in Writers |-> "loop"]

(* m_cv.notify_*: a sleeping worker goes back to its wait condition. *)
Woken(w) == [worker EXCEPT ![w] = IF @ = "asleep" THEN "loop" ELSE @]
-----------------------------------------------------------------------------
(* swapBuffers(true): blocks while the worker is busy, and needs m_mtx. *)
SwapBuffers(w) ==
  /\ worker[w] # "deciding"
  /\ ~hasWork[w]
  /\ bg' = [bg EXCEPT ![w] = active[w]]
  /\ active' = [active EXCEPT ![w] = <<>>]
  /\ hasWork' = [hasWork EXCEPT ![w] = TRUE]
  /\ worker' = Woken(w)

(* Mutant of NextBatch: as many slots as asked for. *)
NextBatchUnbounded(w, n) ==
  /\ api[w] = "idle"
  /\ IF Len(active[w]) = WriterBatch THEN SwapBuffers(w) ELSE UNCHANGED writerVars
  /\ granted' = [granted EXCEPT ![w] = n]
  /\ api' = [api EXCEPT ![w] = "filling"]
  /\ UNCHANGED <<bufferVars, loopVars, running, committed>>

(* nextBatch(n, true); nextRecord() is the case n = 1. *)
NextBatch(w, n) ==
  /\ api[w] = "idle"
  /\ IF Len(active[w]) = WriterBatch THEN SwapBuffers(w) ELSE UNCHANGED writerVars
  /\ granted' = [granted EXCEPT ![w] = MinOf(n, WriterBatch - Len(active'[w]))]
  /\ api' = [api EXCEPT ![w] = "filling"]
  /\ UNCHANGED <<bufferVars, loopVars, running, committed>>

(* commitBatch(k), of at most the slots granted; commitRecord() for k = 1. *)
CommitBatch(w, k) ==
  /\ api[w] = "filling"
  /\ k <= granted[w] /\ committed[w] + k <= MaxRecords
  /\ active' = [active EXCEPT ![w] = @ \o NewRecords(w, k)]
  /\ committed' = [committed EXCEPT ![w] = @ + k]
  /\ granted' = [granted EXCEPT ![w] = 0]
  /\ api' = [api EXCEPT ![w] = "idle"]
  /\ UNCHANGED <<bufferVars, loopVars, running, bg, hasWork, worker>>

(* flush(), and the destructor's shutdownWorker() which begins with it:     *)
(* hand over what is pending, then wait for the worker.                     *)
BeginFlush(w, goal) ==
  /\ api[w] = "idle"
  /\ \/ goal = "flushing" /\ "flush" \in WriterCalls
     \/ goal = "closing" /\ "close" \in WriterCalls
  /\ IF active[w] # <<>> THEN SwapBuffers(w) ELSE UNCHANGED writerVars
  /\ api' = [api EXCEPT ![w] = goal]
  /\ UNCHANGED <<bufferVars, loopVars, running, granted, committed>>

EndFlush(w) ==
  /\ api[w] = "flushing"
  /\ ~hasWork[w]
  /\ api' = [api EXCEPT ![w] = "idle"]
  /\ UNCHANGED <<bufferVars, loopVars, running, granted, committed, writerVars>>

(* shutdownWorker(): once flushed, m_running is cleared without the mutex ...*)
ClearRunning(w) ==
  /\ api[w] = "closing"
  /\ ~hasWork[w]
  /\ running' = [running EXCEPT ![w] = FALSE]
  /\ api' = [api EXCEPT ![w] = "stopping"]
  /\ UNCHANGED <<bufferVars, loopVars, granted, committed, writerVars>>

(* ... the mutex is passed through, the worker woken ... *)
WakeWorker(w) ==
  /\ api[w] = "stopping"
  /\ worker[w] # "deciding"
  /\ worker' = Woken(w)
  /\ api' = [api EXCEPT ![w] = "joining"]
  /\ UNCHANGED <<bufferVars, loopVars, running, granted, committed, active, bg, hasWork>>

(* ... and joined. *)
JoinWorker(w) ==
  /\ api[w] = "joining"
  /\ worker[w] = "exited"
  /\ api' = [api EXCEPT ![w] = "closed"]
  /\ UNCHANGED <<bufferVars, loopVars, running, granted, committed, writerVars>>
-----------------------------------------------------------------------------
(* workerLoop(): the loop condition and the wait for work. *)
WorkerCheck(w) ==
  /\ worker[w] = "loop"
  /\ IF ~running[w]
       THEN worker' = [worker EXCEPT ![w] = "exited"] /\ UNCHANGED loopVars
     ELSE IF hasWork[w]
       THEN worker' = [worker EXCEPT ![w] = "busy"] /\ StartPush(w, bg[w])
     ELSE worker' = [worker EXCEPT ![w] = "deciding"] /\ UNCHANGED loopVars
  /\ UNCHANGED <<bufferVars, running, api, granted, committed, active, bg, hasWork>>

WorkerSleep(w) ==
  /\ worker[w] = "deciding"
  /\ worker' = [worker EXCEPT ![w] = "asleep"]
  /\ UNCHANGED <<bufferVars, writerBaseVars, active, bg, hasWork>>

(* The push loop on the worker thread. *)
WorkerPush(w) ==
  /\ Claim(w) \/ CheckSpace(w) \/ Sleep(w) \/ Push(w) \/ LockForNotify(w) \/ Notify(w)
  /\ UNCHANGED <<running, api, granted, committed, writerVars>>

(* Cleanup after the batch: the background buffer is free again. *)
WorkerDone(w) ==
  /\ At(w, "done")
  /\ hasWork' = [hasWork EXCEPT ![w] = FALSE]
  /\ bg' = [bg EXCEPT ![w] = <<>>]
  /\ worker' = [worker EXCEPT ![w] = "loop"]
  /\ pushPc' = [pushPc EXCEPT ![w] = "off"]
  /\ UNCHANGED <<bufferVars, todo, avail, running, api, granted, committed, active>>

WriterWorker(w) == WorkerCheck(w) \/ WorkerSleep(w) \/ WorkerPush(w) \/ WorkerDone(w)

WriterCaller(w) ==
  \/ \E n \in 1 .. WriterBatch : NextBatch(w, n)
  \/ \E k \in 0 .. WriterBatch : CommitBatch(w, k)
  \/ \E goal \in {"flushing", "closing"} : BeginFlush(w, goal)
  \/ EndFlush(w) \/ ClearRunning(w) \/ WakeWorker(w) \/ JoinWorker(w)
=============================================================================
