--------------------------- MODULE RecordWriterZC ---------------------------
(***************************************************************************)
(* cyc::RecordWriterZC: no worker, the caller's thread pushes its batch in *)
(* commitBatch().  stop() from another thread ends a blocked commit.       *)
(***************************************************************************)
EXTENDS RecordWriterBase

CONSTANT ZCWriters \* the producers that are RecordWriterZCs

ASSUME ZCWritersAssumption == ZCWriters \subseteq Producers

VARIABLE stopPc \* where the thread that calls stop() is

InitWriterZC == stopPc = [w \in ZCWriters |-> "none"]
-----------------------------------------------------------------------------
(* nextBatch(n) and nextRecord(), also again instead of a commit. *)
ZCNextBatch(w, n) ==
  /\ api[w] \in {"idle", "filling"}
  /\ granted' = [granted EXCEPT ![w] = MinOf(n, WriterBatch)]
  /\ api' = [api EXCEPT ![w] = "filling"]
  /\ UNCHANGED <<bufferVars, loopVars, running, committed, stopPc>>

(* commitBatch(k) and commitRecord() up to their push loop; committing no   *)
(* records does nothing at all.                                             *)
ZCCommit(w, k, kind) ==
  /\ api[w] = "filling"
  /\ k <= granted[w] /\ committed[w] + k <= MaxRecords
  /\ kind = "record" => k = 1
  /\ committed' = [committed EXCEPT ![w] = @ + k]
  /\ StartPush(w, NewRecords(w, k))
  /\ api' = [api EXCEPT ![w] = kind]
  /\ granted' = [granted EXCEPT ![w] = 0]
  /\ UNCHANGED <<bufferVars, running, stopPc>>

(* The loop checks m_running before it asks for space; commitRecord() also  *)
(* checks it before its push.  Notifications under way are finished first.  *)
ZCMayGoOn(w) ==
  \/ running[w] \/ pending[w] # {}
  \/ pushPc[w] = "push" /\ api[w] = "batch"
  \/ pushPc[w] \notin {"claim", "push"}

ZCPush(w) ==
  /\ ZCMayGoOn(w)
  /\ Claim(w) \/ CheckSpace(w) \/ Sleep(w) \/ Push(w) \/ LockForNotify(w) \/ Notify(w)
  /\ UNCHANGED <<running, api, granted, committed, stopPc>>

ZCAbort(w) ==
  /\ ~ZCMayGoOn(w)
  /\ AbortPush(w)
  /\ UNCHANGED <<bufferVars, running, api, granted, committed, stopPc>>

ZCDone(w) ==
  /\ At(w, "done")
  /\ pushPc' = [pushPc EXCEPT ![w] = "off"]
  /\ api' = [api EXCEPT ![w] = "idle"]
  /\ UNCHANGED <<bufferVars, todo, avail, running, granted, committed, stopPc>>
-----------------------------------------------------------------------------
(* stop(): m_running is cleared, then the writers are woken. *)
ZCStop(w) ==
  /\ "stop" \in WriterCalls /\ stopPc[w] = "none"
  /\ running' = [running EXCEPT ![w] = FALSE]
  /\ stopPc' = [stopPc EXCEPT ![w] = "notify"]
  /\ UNCHANGED <<bufferVars, loopVars, api, granted, committed>>

(* Mutant of ZCStopNotify: m_running is cleared, nobody is woken. *)
ZCStopQuiet(w) ==
  /\ stopPc[w] = "notify"
  /\ stopPc' = [stopPc EXCEPT ![w] = "done"]
  /\ UNCHANGED <<bufferVars, writerBaseVars>>

ZCStopNotify(w) ==
  /\ stopPc[w] = "notify"
  /\ NotifyWriters
  /\ stopPc' = [stopPc EXCEPT ![w] = "done"]
  /\ UNCHANGED <<ring, totalWritten, clients, cursor, phantom, pending, dataCv, history,
                 writerBaseVars>>

WriterZCCaller(w) ==
  \/ \E n \in 1 .. WriterBatch : ZCNextBatch(w, n)
  \/ \E k \in 1 .. WriterBatch, kind \in {"batch", "record"} : ZCCommit(w, k, kind)
  \/ ZCPush(w) \/ ZCAbort(w) \/ ZCDone(w)

WriterZCStopper(w) == ZCStop(w) \/ ZCStopNotify(w)
=============================================================================
