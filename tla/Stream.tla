------------------------------- MODULE Stream -------------------------------
(***************************************************************************)
(* The data path of CycFlow: writers of both kinds and readers of both     *)
(* kinds around one RecBuffer, every thread of theirs interleaved.         *)
(***************************************************************************)
EXTENDS RecordWriter, RecordWriterZC, RecordReader, RecordReaderZC

ASSUME StreamAssumption ==
  /\ Producers = Writers \cup ZCWriters /\ Writers \cap ZCWriters = {}
  /\ Clients = Readers \cup ZCReaders /\ Readers \cap ZCReaders = {}

vars == <<bufferVars, writerBaseVars, writerVars, stopPc, readerBaseVars, readerVars,
          zcVars>>

Init ==
  /\ InitBuffer /\ InitWriterBase /\ InitWriter /\ InitWriterZC
  /\ InitReaderBase /\ InitReader /\ InitReaderZC
-----------------------------------------------------------------------------
(* The threads.  A step of one leaves the private state of the others. *)
ReadersKeep == UNCHANGED <<readerBaseVars, readerVars, zcVars>>
WritersKeep == UNCHANGED <<writerBaseVars, writerVars, stopPc>>

CallerThread(w)   == WriterCaller(w) /\ UNCHANGED stopPc /\ ReadersKeep
WorkerThread(w)   == WriterWorker(w) /\ UNCHANGED stopPc /\ ReadersKeep
ZCCallerThread(w) == WriterZCCaller(w) /\ UNCHANGED writerVars /\ ReadersKeep
ZCStopThread(w)   == WriterZCStopper(w) /\ UNCHANGED writerVars /\ ReadersKeep

CopierThread(r)   == Copier(r) /\ UNCHANGED zcVars /\ WritersKeep
UserThread(r)     == ReaderUser(r) /\ UNCHANGED zcVars /\ WritersKeep
OwnerThread(r) ==
  /\ ReaderControl(r) \/ ((Place(r) \/ Membership(r)) /\ UNCHANGED readerVars)
  /\ UNCHANGED zcVars /\ WritersKeep

ZCUserThread(z)   == ReaderZCUser(z) /\ UNCHANGED readerVars /\ WritersKeep
ZCOwnerThread(z) ==
  /\ ReaderZCControl(z) \/ ZCPlace(z) \/ (Membership(z) /\ UNCHANGED zcVars)
  /\ UNCHANGED readerVars /\ WritersKeep

Next ==
  \/ \E w \in Writers : CallerThread(w) \/ WorkerThread(w)
  \/ \E w \in ZCWriters : ZCCallerThread(w) \/ ZCStopThread(w)
  \/ \E r \in Readers : CopierThread(r) \/ UserThread(r) \/ OwnerThread(r)
  \/ \E z \in ZCReaders : ZCUserThread(z) \/ ZCOwnerThread(z)

Spec == Init /\ [][Next]_vars

(* The scheduler runs every thread that can run.  Nothing makes a caller    *)
(* ask for another batch or an owner end a reader; users of readers keep    *)
(* calling nextBatch(), which is what a consumer's loop does.               *)
InCall(w) == api[w] \notin {"idle", "filling"} /\ CallerThread(w)
ZCInCall(w) == api[w] \in {"batch", "record"} /\ ZCCallerThread(w)
ZCInStop(w) == stopPc[w] = "notify" /\ ZCStopThread(w)

Ending == {"stopping", "finishing", "joining", "closing", "closeJoin", "erasing", "erased"}
InEnd(r) == life[r] \in Ending /\ OwnerThread(r)
ZCInEnd(z) == life[z] \in Ending /\ ZCOwnerThread(z)

Fairness ==
  /\ \A w \in Writers : WF_vars(WorkerThread(w)) /\ WF_vars(InCall(w))
  /\ \A w \in ZCWriters : WF_vars(ZCInCall(w)) /\ WF_vars(ZCInStop(w))
  /\ \A r \in Readers :
       WF_vars(CopierThread(r)) /\ WF_vars(UserThread(r)) /\ WF_vars(InEnd(r))
  /\ \A z \in ZCReaders : WF_vars(ZCUserThread(z)) /\ WF_vars(ZCInEnd(z))

FairSpec == Spec /\ Fairness
=============================================================================
