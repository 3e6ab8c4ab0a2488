------------------------------ MODULE Recording -----------------------------
(***************************************************************************)
(* A stream recorded to files and replayed: a source, a CbfWriter or       *)
(* CsvWriter with the threads that call it, the disk, a crash, and then a  *)
(* CbfReader or CbfView on one of the files.  Besides the files of the     *)
(* recorder there are archives, written section by section with CbfFile.   *)
(***************************************************************************)
EXTENDS RecordFiles, CbfReplay

CONSTANTS Archives       \* lengths of the data sections of the archives

ASSUME ArchivesAssumption == Archives \subseteq Seq(Nat)

VARIABLES crashed,       \* has the recording process died?
          play           \* [tool, file]: who reads what

NoPlay == [tool |-> "none", file |-> <<>>]

consumerVars == <<source, con, reader>>
fileVars     == <<disk, writer, clock, faults, reused>>
recorderVars == <<consumerVars, fileVars, crashed>>
replayVars   == <<prodVars, rd, view>>
recVars      == <<recorderVars, replayVars, play>>

(* The file that beginDataSection, writeRecord and endDataSection leave.    *)
Section(n, first) == <<Data(n)>> \o [i \in 1 .. n |-> Rec(first + i)]

(* A section begins with the record behind those of the sections before it. *)
Archive(lengths) ==
  LET upTo[k \in 0 .. Len(lengths)] ==
        IF k = 0 THEN <<Schema>>
        ELSE upTo[k - 1] \o Section(lengths[k], Len(upTo[k - 1]) - k)
  IN  upTo[Len(lengths)]

NoRecorder == [NewWriter EXCEPT !.format = "none"]

RecordingInit ==
  /\ InitConsumer /\ InitProducer /\ InitReplay
  /\ crashed = FALSE /\ play = NoPlay
  /\ clock = 1 /\ faults = 0 /\ reused = FALSE
  /\ \/ \E format \in {"cbf", "csv"} : InitFiles(format)
     \/ /\ \E lengths \in Archives : disk = [EmptyDisk EXCEPT ![0] = Archive(lengths)]
        /\ writer = NoRecorder

Recording == writer.format # "none"
Recorder  == Recording /\ ~crashed /\ con.caller \notin {"gone", "terminated"}
-----------------------------------------------------------------------------
RecorderWorker ==
  \/ (WorkerChecks \/ WorkerReads \/ WorkerLeaves) /\ UNCHANGED fileVars
  \/ WorkerGoes("starting", "loop") /\ OnConsumeStart
  \/ WorkerConsumes /\ ConsumeBatch
  \/ WorkerGoes("stopping", "ended") /\ OnConsumeStop

(* Bound: a writer that met a failure or has a limit is not started again. *)
ConsumerCalls ==
  /\ ConsumerUser /\ UNCHANGED fileVars
  /\ con'.starts > 1 => faults = 0 /\ writer.limit = 0

Records ==
  /\ Recorder
  /\ \/ SourcePushes /\ UNCHANGED fileVars
     \/ ConsumerCalls
     \/ RecorderWorker
     \/ (Restart \/ WriteFails) /\ UNCHANGED consumerVars
  /\ UNCHANGED <<crashed, replayVars, play>>

(* The process dies, or ends itself, and its objects with it: what the open *)
(* stream had not flushed may be lost, wholly or in part.                   *)
NoProcess == source' = 0 /\ con' = NewConsumer /\ reader' = NewReader

Crash ==
  /\ Recording /\ ~crashed /\ con.caller # "gone"
  /\ crashed' = TRUE
  /\ IF writer.file.open
       THEN \E rest \in Remains(Content(Io), writer.file.flushed) :
              disk' = [disk EXCEPT ![writer.file.name] = rest]
       ELSE UNCHANGED disk
  /\ writer' = [NewWriter EXCEPT !.format = writer.format]
  /\ NoProcess /\ UNCHANGED <<clock, faults, reused, replayVars, play>>

(* Later a file is read by another process: nothing of the recorder matters *)
(* any more.                                                                *)
Choose ==
  /\ play = NoPlay /\ ~Recorder /\ writer.format # "csv"
  /\ con.caller # "terminated"
  /\ \E name \in Names, tool \in {"reader", "viewer"} :
       /\ play' = [tool |-> tool, file |-> disk[name]]
       /\ view' = IF tool = "viewer" THEN [view EXCEPT !.pc = "headers"] ELSE view
  /\ NoProcess
  /\ disk' = EmptyDisk /\ writer' = NoRecorder
  /\ clock' = 1 /\ faults' = 0 /\ reused' = FALSE /\ crashed' = FALSE
  /\ UNCHANGED <<prodVars, rd>>

Replay(A) == play.tool = "reader" /\ A /\ UNCHANGED <<recorderVars, view, play>>

ReplayUser   == Replay(ProducerUser /\ UNCHANGED rd)
ReplayOpens  == Replay(\E a \in Askers : Opens(a, play.file))
ReplayWorker == Replay(Replays(play.file))

Shows == Views(play.file) /\ UNCHANGED <<recorderVars, prodVars, rd, play>>

RecordingNext == Records \/ Crash \/ Choose \/ ReplayUser \/ ReplayOpens \/ ReplayWorker \/ Shows

RecordingSpec == RecordingInit /\ [][RecordingNext]_recVars
-----------------------------------------------------------------------------
(* Threads run: a worker and a method that was called are not abandoned.    *)
(* Nobody has to push records, to call anything or to fail.  The hooks of    *)
(* the writers are total, so that a step of the consumer is one of Records.  *)
ReplayCallGoesOn == prod.caller # "idle" /\ ReplayUser

RecordingFair ==
  /\ RecordingSpec
  /\ WF_con(Recorder /\ CallSteps) /\ WF_con(Recorder /\ WorkerSteps)
  /\ WF_replayVars(ReplayCallGoesOn) /\ WF_replayVars(ReplayOpens) /\ WF_replayVars(ReplayWorker)
-----------------------------------------------------------------------------
(* Where the records stand in a file, and those of this run that are in     *)
(* some file (a record of an earlier run has number 0).                     *)
Rows(n) == {i \in DOMAIN disk[n] : disk[n][i].kind = "rec"}

Found == (UNION {{disk[n][i].val : i \in Rows(n)} : n \in Names}) \ {0}

(* What a rotation may not lose (CbfWriter.h:116-118): no record is in two  *)
(* files, and none out of order within a file; as long as no file that held *)
(* records was opened anew and the disk worked, the files hold every record *)
(* the worker has consumed, across rotations by restart() and by maxRecords *)
(* in every interleaving, and a crash costs at most the latest of them.     *)
RecordingIsExact ==
  Recording =>
    /\ \A n \in Names : \A i, j \in Rows(n) : i < j => disk[n][i].val < disk[n][j].val
    /\ \A n, m \in Names : \A i \in Rows(n), j \in Rows(m) :
         n # m => disk[n][i].val # disk[m][j].val
    /\ (~reused /\ faults = 0) =>
         \E last \in Found \cup {0} :
           /\ Found = 1 .. last
           /\ ~crashed => last = reader.cursor - Len(con.batch)

(* CsvWriter never mixes schemas in a file: rows stand below our header,    *)
(* which occurs once; nothing is added to a file with a foreign header; and *)
(* a row of an earlier run stays the first one of the base name, unless a   *)
(* rotation opens that name anew.                                           *)
CsvFilesAreUniform ==
  writer.format = "csv" =>
    /\ \A n \in Names : disk[n] # <<>> =>
         \/ disk[n] = <<Foreign, Foreign>>
         \/ /\ Head(disk[n]) = Header
            /\ \A i \in 2 .. Len(disk[n]) : disk[n][i].kind \in {"rec", "torn"}
    /\ \A n \in Names : \A i \in DOMAIN disk[n] : disk[n][i] = Rec(0) => n = 0 /\ i = 2

(* A replay delivers, in order, records of the file and nothing else, and   *)
(* at its end all of them if no section was left open or empty.  stop() in  *)
(* the middle of a replay is excepted: its flush runs beside the worker.    *)
ReplayIsFaithful ==
  (play.tool = "reader" /\ ~prod.interrupted) =>
     /\ IsPrefix(pushed \o active \o prod.batch, RecordsOf(play.file))
     /\ (prod.worker = "ended" /\ \A i \in DOMAIN SectionLengths(play.file) : SectionLengths(play.file)[i] > 0)
          => pushed = RecordsOf(play.file)

(* CbfView shows every whole record of a file with one data section, also   *)
(* of one whose recorder crashed before it could write the length.          *)
ViewerShowsAll ==
  (view.pc = "done" /\ Len(SectionLengths(play.file)) <= 1) => view.shown = RecordsOf(play.file)

(* initialize() may be entered by several threads: the buffer that          *)
(* getBuffer() hands out is the only one, and no worker runs without it.    *)
OneBuffer == buffers <= 1 /\ (prod.worker # "none" => buffers = 1)

(* A consumer that is started once never destroys a thread it has not       *)
(* joined, however stop(), finish() and the end of the reader interleave.   *)
StartedOnceIsSafe == con.caller = "terminated" => con.starts > 1

(* stop(), finish() and join() return, though each waits for a worker that  *)
(* may be waiting for records, and even if stop() is called during a replay. *)
InCall ==
  \/ con.caller \in {"stopReader", "stopJoin", "finishReader", "finishJoin"}
  \/ prod.caller \in {"flush", "join"}

CallsReturn == InCall ~> ~InCall

(* A replay comes to its end by itself: no file keeps the worker busy.      *)
ReplayEnds == (prod.worker = "starting") ~> (prod.worker = "ended")
=============================================================================
