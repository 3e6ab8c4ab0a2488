--------------------------- MODULE LifecycleProofs --------------------------
(***************************************************************************)
(* Recordings and replays: the life of the two thread objects,             *)
(* RecordConsumer and RecordProducer, what a recorder leaves on the disk,   *)
(* and what a CbfReader and CbfView make of it, for any number of records, *)
(* batch sizes, calls, failures, files, sections and askers.                *)
(*                                                                          *)
(* StartedOnceIsSafe is not inductive: whether a thread may be destroyed   *)
(* depends on who may end it.  In the first run of a consumer its reader   *)
(* ends only through stop() or finish(), so that an idle caller finds      *)
(* m_running set or the thread joined.                                      *)
(***************************************************************************)
EXTENDS Recording, TLAPS, WellFoundedInduction

CallerStates ==
  {"idle", "stopReader", "stopJoin", "finishReader", "finishJoin", "gone", "terminated"}

WorkerStates ==
  {"none", "starting", "loop", "reading", "consuming", "leaving", "stopping", "ended"}

ConsumerType ==
  /\ DOMAIN con = {"running", "worker", "joinable", "caller", "dying", "starts", "batch"}
  /\ con.running \in BOOLEAN /\ con.joinable \in BOOLEAN /\ con.dying \in BOOLEAN
  /\ con.worker \in WorkerStates /\ con.caller \in CallerStates
  /\ con.starts \in Nat
  /\ reader \in [cursor : Int, stopped : BOOLEAN, target : Int]
  /\ source \in Int

(* Nothing has asked the reader to end. *)
ReaderGoesOn == ~reader.stopped /\ reader.target = NoTarget

FirstRun ==
  con.starts <= 1 =>
    /\ con.caller # "terminated"
    /\ con.caller = "idle" => con.running \/ ~con.joinable
    /\ con.caller \in {"idle", "finishReader"} /\ con.running =>
         ReaderGoesOn /\ con.worker \notin {"leaving", "stopping", "ended"}
    /\ con.caller = "finishReader" => con.running
    /\ con.caller \in {"stopReader", "stopJoin"} => ~con.running

NotStarted ==
  con.starts = 0 => ~con.running /\ ~con.joinable /\ ReaderGoesOn /\ con.caller = "idle"

ConsumerInv == ConsumerType /\ FirstRun /\ NotStarted

LEMMA NewConsumerIsSafe ==
  ASSUME con = NewConsumer, reader = NewReader, source = 0
  PROVE  ConsumerInv
<1>1. con.starts = 0 /\ ~con.running /\ ~con.joinable /\ con.caller = "idle" /\ ReaderGoesOn
  BY DEF NewConsumer, NewReader, ReaderGoesOn
<1>2. ConsumerType
  BY DEF NewConsumer, NewReader, NoTarget, ConsumerType, CallerStates, WorkerStates
<1> QED BY <1>1, <1>2 DEF ConsumerInv, FirstRun, NotStarted

LEMMA ConsumerInit == RecordingInit => ConsumerInv
  BY NewConsumerIsSafe DEF RecordingInit, InitConsumer

LEMMA UserStep ==
  ASSUME ConsumerInv, ConsumerUser
  PROVE  ConsumerInv'
<1> USE DEF ConsumerInv, ConsumerType, FirstRun, NotStarted, ReaderGoesOn, NoTarget, CallerStates,
           WorkerStates
<1>1. CASE StartConsumer
  <2>1. CASE con.joinable
    BY <1>1, <2>1 DEF StartConsumer
  <2>2. CASE ~con.joinable
    <3>1. con' = [con EXCEPT !.running = TRUE, !.worker = "starting",
                             !.joinable = TRUE, !.starts = @ + 1]
          /\ UNCHANGED <<source, reader>> /\ con.caller = "idle"
      BY <1>1, <2>2 DEF StartConsumer
    <3>2. ConsumerType'
      BY <3>1
    <3>3. con'.running /\ con'.worker = "starting" /\ con'.caller = "idle"
          /\ con'.starts = con.starts + 1
      BY <3>1
    <3>4. con'.starts <= 1 => con.starts = 0
      BY <3>3
    <3> QED BY <3>1, <3>2, <3>3, <3>4
  <2> QED BY <2>1, <2>2
<1>2. CASE StopConsumer
  <2>1. PICK d \in BOOLEAN :
          con' = [con EXCEPT !.running = FALSE, !.caller = "stopReader", !.dying = d]
    BY <1>2 DEF StopConsumer
  <2> QED BY <1>2, <2>1 DEF StopConsumer
<1>3. CASE StopReader
  BY <1>3 DEF StopReader
<1>4. CASE StopJoin
  <2>1. con.caller = "stopJoin" /\ UNCHANGED <<source, reader>>
    BY <1>4 DEF StopJoin
  <2>2. CASE con.dying
    <3>1. con' = [con EXCEPT !.joinable = FALSE, !.caller = "gone"]
      BY <1>4, <2>2 DEF StopJoin, Destroyed
    <3> QED BY <2>1, <3>1
  <2>3. CASE ~con.dying
    <3>1. con' = [con EXCEPT !.joinable = FALSE, !.caller = "idle"]
      BY <1>4, <2>3 DEF StopJoin
    <3> QED BY <2>1, <3>1
  <2> QED BY <2>2, <2>3
<1>5. CASE DestroyConsumer
  BY <1>5 DEF DestroyConsumer, Destroyed
<1>6. CASE BeginFinish
  BY <1>6 DEF BeginFinish
<1>7. CASE FinishReader
  BY <1>7 DEF FinishReader
<1>8. CASE FinishJoin
  BY <1>8 DEF FinishJoin
<1> QED BY <1>1, <1>2, <1>3, <1>4, <1>5, <1>6, <1>7, <1>8 DEF ConsumerUser

LEMMA WorkerStep ==
  ASSUME ConsumerInv, WorkerSteps
  PROVE  ConsumerInv'
<1> USE DEF ConsumerInv, ConsumerType, FirstRun, NotStarted, ReaderGoesOn, NoTarget, CallerStates,
           WorkerStates
<1>1. CASE WorkerGoes("starting", "loop") \/ WorkerChecks
  BY <1>1 DEF WorkerGoes, WorkerChecks
<1>2. CASE WorkerReads
  <2>1. con.worker = "reading" /\ source' = source
    BY <1>2 DEF WorkerReads
  <2>2. CASE /\ reader.stopped \/ (reader.target # NoTarget /\ reader.cursor >= reader.target)
             /\ con' = [con EXCEPT !.worker = "leaving"]
             /\ UNCHANGED reader
    BY <2>1, <2>2
  <2>3. CASE \E n \in 1 .. Min({ReaderBatch, source - reader.cursor}) :
               /\ con' = [con EXCEPT !.worker = "consuming",
                                     !.batch = [i \in 1 .. n |-> reader.cursor + i]]
               /\ reader' = [reader EXCEPT !.cursor = @ + n]
    <3> DEFINE m == Min({ReaderBatch, source - reader.cursor})
    <3> HIDE DEF m
    <3>1. PICK n \in 1 .. m :
            /\ con' = [con EXCEPT !.worker = "consuming",
                                  !.batch = [i \in 1 .. n |-> reader.cursor + i]]
            /\ reader' = [reader EXCEPT !.cursor = @ + n]
      BY <2>3 DEF m
    <3>2. n \in Nat
      OBVIOUS
    <3>4. ConsumerType'
      BY <2>1, <3>1, <3>2
    <3>5. con'.worker = "consuming" /\ reader'.stopped = reader.stopped /\ reader'.target = reader.target
      BY <3>1
    <3>6. /\ con'.running = con.running /\ con'.joinable = con.joinable
          /\ con'.caller = con.caller /\ con'.starts = con.starts
      BY <3>1
    <3> QED BY <2>1, <3>4, <3>5, <3>6
  <2> QED BY <1>2, <2>2, <2>3 DEF WorkerReads
<1>3. CASE WorkerConsumes
  BY <1>3 DEF WorkerConsumes
<1>4. CASE WorkerLeaves
  BY <1>4 DEF WorkerLeaves
<1>5. CASE WorkerGoes("stopping", "ended")
  BY <1>5 DEF WorkerGoes
<1> QED BY <1>1, <1>2, <1>3, <1>4, <1>5 DEF WorkerSteps

(* What the recorder does to its consumer: a step of the user's thread or   *)
(* of the worker, a push into the source, nothing, or a new process.        *)
LEMMA ConsumerSteps ==
  ASSUME RecordingNext
  PROVE  \/ ConsumerUser \/ WorkerSteps \/ SourcePushes
         \/ NoProcess
         \/ UNCHANGED consumerVars
  BY DEF RecordingNext, Records, ConsumerCalls, RecorderWorker, WorkerSteps, Crash, Choose,
         ReplayUser, ReplayOpens, ReplayWorker, Replay, Shows, recorderVars

LEMMA ConsumerInvariant == RecordingSpec => []ConsumerInv
<1>1. ASSUME ConsumerInv, [RecordingNext]_recVars PROVE ConsumerInv'
  <2>1. CASE ConsumerUser
    BY <1>1, <2>1, UserStep
  <2>2. CASE WorkerSteps
    BY <1>1, <2>2, WorkerStep
  <2>3. CASE SourcePushes
    BY <1>1, <2>3 DEF SourcePushes, ConsumerInv, ConsumerType, FirstRun, NotStarted, ReaderGoesOn
  <2>4. CASE NoProcess
    <3>1. (con = NewConsumer /\ reader = NewReader /\ source = 0)'
      BY <2>4 DEF NoProcess, NewConsumer, NewReader
    <3> QED BY <3>1, NewConsumerIsSafe, PTL
  <2>5. CASE UNCHANGED consumerVars
    BY <1>1, <2>5 DEF consumerVars, ConsumerInv, ConsumerType, FirstRun, NotStarted, ReaderGoesOn
  <2>6. CASE UNCHANGED recVars
    BY <2>5, <2>6 DEF recVars, recorderVars
  <2> QED BY <1>1, <2>1, <2>2, <2>3, <2>4, <2>5, <2>6, ConsumerSteps
<1> QED BY <1>1, ConsumerInit, PTL DEF RecordingSpec

(* A consumer that is started once never destroys a thread it has not       *)
(* joined, however stop(), finish(), the destructor, the end of the reader  *)
(* and a crash interleave (RecordConsumer.cpp:20-90).                       *)
THEOREM ThreadsAreJoined == RecordingSpec => []StartedOnceIsSafe
<1>1. ConsumerInv => StartedOnceIsSafe
  BY DEF ConsumerInv, ConsumerType, FirstRun, StartedOnceIsSafe
<1> QED BY <1>1, ConsumerInvariant, PTL
-----------------------------------------------------------------------------
(* The buffer exists exactly when initialize() has succeeded, and only then *)
(* is there a worker.                                                        *)
BufferInv ==
  /\ "ready" \in DOMAIN prod /\ "worker" \in DOMAIN prod /\ prod.ready \in BOOLEAN
  /\ IF prod.ready THEN buffers = 1 ELSE buffers = 0 /\ prod.worker = "none"

(* Only a thread that holds the lock makes the buffer. *)
LEMMA InitializeStep ==
  ASSUME BufferInv, NEW a, NEW rule \in BOOLEAN, Initializes(a, rule)
  PROVE  BufferInv'
<1>1. /\ buffers' = IF ~prod.ready /\ rule THEN buffers + 1 ELSE buffers
      /\ prod' = [prod EXCEPT !.lock = "free", !.ready = @ \/ (~prod.ready /\ rule)]
  BY DEF Initializes
<1>2. /\ "ready" \in DOMAIN prod' /\ "worker" \in DOMAIN prod' /\ prod'.worker = prod.worker
      /\ prod'.ready = (prod.ready \/ (~prod.ready /\ rule))
  BY <1>1 DEF BufferInv
<1>3. CASE prod.ready
  BY <1>1, <1>2, <1>3 DEF BufferInv
<1>4. CASE ~prod.ready
  BY <1>1, <1>2, <1>4 DEF BufferInv
<1> QED BY <1>3, <1>4

(* Every other step of the object keeps "ready", and starts a worker only   *)
(* when it is set.                                                           *)
ProducerKeeps ==
  /\ buffers' = buffers /\ prod'.ready = prod.ready
  /\ "ready" \in DOMAIN prod' /\ "worker" \in DOMAIN prod'
  /\ prod'.worker # "none" => prod.worker # "none" \/ prod.ready

LEMMA UserKeeps ==
  ASSUME BufferInv, ProducerUser
  PROVE  ProducerKeeps
  BY DEF BufferInv, ProducerKeeps, ProducerUser, StartProducer, SpawnProducer, StopProducer,
         StopFlush, JoinProducer, Join, DestroyProducer, UserGoes, WriterRests

LEMMA ReplayKeeps ==
  ASSUME BufferInv, NEW content, Replays(content)
  PROVE  ProducerKeeps
  BY DEF BufferInv, ProducerKeeps, Replays, EndOfReplay, ReadBlock, OnProduceStop, Produces,
         ProducerWorker, ProducerChecks, ProducerGoes, NextBatch, Commit, CommitRacesFlush,
         WorkerFlush, WriterRests

LEMMA BufferInvariant == RecordingSpec => []BufferInv
<1>1. RecordingInit => BufferInv
  BY DEF RecordingInit, InitProducer, BufferInv
<1>2. ASSUME BufferInv, [RecordingNext]_recVars PROVE BufferInv'
  <2>1. CASE Records \/ Crash \/ Choose \/ Shows \/ UNCHANGED recVars
    BY <1>2, <2>1 DEF Records, Crash, Choose, Shows, replayVars, recVars, prodVars, BufferInv
  <2>2. CASE ReplayUser
    BY <1>2, <2>2, UserKeeps DEF ReplayUser, Replay, BufferInv, ProducerKeeps
  <2>3. CASE ReplayOpens
    BY <1>2, <2>3, InitializeStep
       DEF ReplayOpens, Replay, Opens, Asks, Locks, DefineRule, HasRule, WriterRests, BufferInv
  <2>4. CASE ReplayWorker
    BY <1>2, <2>4, ReplayKeeps DEF ReplayWorker, Replay, BufferInv, ProducerKeeps
  <2> QED BY <1>2, <2>1, <2>2, <2>3, <2>4 DEF RecordingNext
<1> QED BY <1>1, <1>2, PTL DEF RecordingSpec

(* However many threads enter initialize() at once, and however often the   *)
(* producer is started: one buffer is made, and no worker runs without it   *)
(* (RecordProducer.cpp:16-29).                                              *)
THEOREM BufferIsMadeOnce == RecordingSpec => []OneBuffer
<1>1. BufferInv => OneBuffer
  BY DEF BufferInv, OneBuffer
<1> QED BY <1>1, BufferInvariant, PTL
-----------------------------------------------------------------------------
(* What the writers leave on the disk.  RecordingIsExact and                *)
(* CsvFilesAreUniform are not inductive: which records a crash or a failing *)
(* disk takes with it depends on where the latest ones are, and whether a   *)
(* length is patched over a record depends on where the section that is     *)
(* open began.  FilesInv below says it of the state each hook works on, in  *)
(* terms of the items of the files: no record after the last one consumed,  *)
(* and those that are there in order (InOrder); while no file that held     *)
(* records was opened anew and the disk has worked, none missing (Complete) *)
(* and the latest ones in the file that is open (LatestIn); the header to   *)
(* be patched in its place, or every CSV file below our header (FormatOK).  *)
Kinds == {"schema", "data", "rec", "torn", "header", "foreign"}
Entry == [kind : Kinds, val : Nat]

FileType ==
  [open : BOOLEAN, good : BOOLEAN, name : Names, section : Nat, written : Nat, flushed : Nat]

IoType ==
  [disk : [Names -> Seq(Entry)], file : FileType, filename : Names, count : Nat,
   reused : BOOLEAN]

(* Item i of file n is record v. *)
IsRow(d, n, i, v) == i \in DOMAIN d[n] /\ d[n][i].kind = "rec" /\ d[n][i].val = v

(* No record after number k; records in order within a file, and none in    *)
(* two; one of an earlier run only at its place.                            *)
InOrder(d, k) ==
  /\ \A n \in Names : \A i, v \in Nat :
       IsRow(d, n, i, v) => v <= k /\ (v = 0 => n = 0 /\ i = 2)
  /\ \A n \in Names : \A i, j, u, v \in Nat :
       IsRow(d, n, i, u) /\ IsRow(d, n, j, v) /\ i < j => u < v
  /\ \A n, m \in Names : \A i, j, v \in Nat :
       IsRow(d, n, i, v) /\ IsRow(d, m, j, v) => n = m

(* Each of the first k records is in some file. *)
Complete(d, k) ==
  \A v \in 1 .. k : \E n \in Names : \E i \in Nat : IsRow(d, n, i, v)

(* The records in file f are the latest. *)
LatestIn(d, f) ==
  \A n \in Names \ {f} : \A i, j, u, v \in Nat :
    IsRow(d, n, i, u) /\ IsRow(d, f, j, v) => u < v

(* A file of a CsvWriter: rows below our header, or left alone. *)
Uniform(s) ==
  \/ s = <<>> \/ s = <<Foreign, Foreign>>
  \/ /\ s[1] = Header
     /\ \A i \in 2 .. Len(s) : s[i].kind \in {"rec", "torn"}

UnderOurHeader(s) == s # <<>> /\ s[1] = Header /\ \A i \in 2 .. Len(s) : s[i].kind \in {"rec", "torn"}

(* The header of the section that is open is where it will be patched. *)
FormatOK(format, io) ==
  \/ /\ format = "cbf"
     /\ LET file == io.file
        IN  file.open /\ file.good /\ file.section > 0 =>
              /\ file.section + 1 \in DOMAIN io.disk[file.name]
              /\ io.disk[file.name][file.section + 1].kind = "data"
  \/ /\ format = "csv" /\ io.file.section = 0
     /\ \A n \in Names : Uniform(io.disk[n])
     /\ io.file.open => UnderOurHeader(io.disk[io.file.name]) /\ io.file.flushed > 0

FilesOK(format, io, k) == io \in IoType /\ InOrder(io.disk, k) /\ FormatOK(format, io)

(* No record is missing, and a file that is open has the current name. *)
Gapless(io, k) ==
  /\ Complete(io.disk, k) /\ LatestIn(io.disk, io.filename)
  /\ io.file.open => io.file.name = io.filename
-----------------------------------------------------------------------------
LEMMA ItemIs ==
  ASSUME NEW kind, NEW val
  PROVE  /\ Item(kind, val).kind = kind /\ Item(kind, val).val = val
         /\ kind \in Kinds /\ val \in Nat => Item(kind, val) \in Entry
  BY DEF Item, Entry, Kinds

LEMMA EntryTypes ==
  /\ Schema \in Entry /\ Header \in Entry /\ Foreign \in Entry /\ Torn \in Entry
  /\ \A n \in Nat : Data(n) \in Entry /\ Rec(n) \in Entry
<1>1. Schema \in Entry /\ Header \in Entry /\ Foreign \in Entry /\ Torn \in Entry
  BY DEF Schema, Header, Foreign, Torn, Item, Entry, Kinds
<1>2. ASSUME NEW n \in Nat PROVE Data(n) \in Entry /\ Rec(n) \in Entry
  BY DEF Data, Rec, Item, Entry, Kinds
<1> QED BY <1>1, <1>2

LEMMA EntryKinds ==
  /\ Schema.kind = "schema" /\ Header.kind = "header" /\ Foreign.kind = "foreign"
  /\ Torn.kind = "torn"
  /\ \A n : Data(n).kind = "data" /\ Rec(n).kind = "rec" /\ Rec(n).val = n
  BY ItemIs DEF Schema, Header, Foreign, Torn, Data, Rec

SameRows(d, e) ==
  \A n \in Names : \A i, v \in Nat : IsRow(e, n, i, v) <=> IsRow(d, n, i, v)

NoRows(d, f) == \A i, v \in Nat : ~ IsRow(d, f, i, v)

(* e is d without the records of file f. *)
RowsDropped(d, e, f) ==
  \A n \in Names : \A i, v \in Nat : IsRow(e, n, i, v) <=> n # f /\ IsRow(d, n, i, v)

LEMMA SameRowsInOrder ==
  ASSUME NEW d, NEW e, NEW k \in Nat, SameRows(d, e), InOrder(d, k)
  PROVE  InOrder(e, k)
<1> HIDE DEF IsRow
<1> QED BY DEF SameRows, InOrder

LEMMA RowsDroppedInOrder ==
  ASSUME NEW d, NEW e, NEW f \in Names, NEW k \in Nat, RowsDropped(d, e, f), InOrder(d, k)
  PROVE  InOrder(e, k)
  BY DEF RowsDropped, InOrder

LEMMA SameRowsGapless ==
  ASSUME NEW d, NEW e, NEW k \in Nat, NEW f \in Names, SameRows(d, e),
         Complete(d, k), LatestIn(d, f)
  PROVE  Complete(e, k) /\ LatestIn(e, f)
<1>1. Complete(e, k)
  BY DEF SameRows, Complete
<1>2. LatestIn(e, f)
  BY DEF SameRows, LatestIn
<1> QED BY <1>1, <1>2

(* Dropping a file that held nothing loses nothing, and makes it the latest.*)
LEMMA RowsDroppedGapless ==
  ASSUME NEW d, NEW e, NEW k \in Nat, NEW f \in Names, RowsDropped(d, e, f),
         Complete(d, k), NoRows(d, f)
  PROVE  Complete(e, k) /\ LatestIn(e, f)
<1>1. Complete(e, k)
  BY DEF RowsDropped, Complete, NoRows
<1>2. LatestIn(e, f)
  BY DEF RowsDropped, LatestIn
<1> QED BY <1>1, <1>2
-----------------------------------------------------------------------------
(* The length patched into the header of the section touches no record.     *)
(* Writing the length of the section into its header. *)
LEMMA PatchIs ==
  ASSUME NEW io \in IoType, NEW q,
         io.file.section + 1 \in DOMAIN io.disk[io.file.name],
         io.disk[io.file.name][io.file.section + 1].kind = "data",
         q = [io EXCEPT !.disk[io.file.name][io.file.section + 1] = Data(io.file.written),
                        !.file.flushed = Len(Content(io))]
  PROVE  /\ q \in IoType /\ SameRows(io.disk, q.disk)
         /\ q.filename = io.filename /\ q.reused = io.reused
         /\ q.file = [io.file EXCEPT !.flushed = Len(Content(io))]
<1> DEFINE d == io.disk
           f == io.file
           m == f.name
           s == d[m]
           e == [s EXCEPT ![f.section + 1] = Data(f.written)]
<1>1. /\ d \in [Names -> Seq(Entry)] /\ f \in FileType /\ m \in Names /\ s \in Seq(Entry)
      /\ f.section \in Nat /\ f.written \in Nat /\ Len(s) \in Nat
      /\ io.filename \in Names /\ io.count \in Nat /\ io.reused \in BOOLEAN
  BY DEF IoType, FileType
<1>2. e \in Seq(Entry) /\ Len(e) = Len(s)
  <2>1. PICK x \in Entry, c \in DOMAIN s : x = Data(f.written) /\ c = f.section + 1
    BY <1>1, EntryTypes
  <2> HIDE DEF s
  <2>2. s \in Seq(Entry)
    BY <1>1
  <2>3. [s EXCEPT ![c] = x] \in Seq(Entry)
    BY ONLY <2>2, x \in Entry, c \in DOMAIN s
  <2>4. Len([s EXCEPT ![c] = x]) = Len(s)
    BY ONLY <2>2
  <2> QED BY <2>1, <2>3, <2>4
<1>3. q.disk = [d EXCEPT ![m] = e] /\ q.file = [f EXCEPT !.flushed = Len(s)]
      /\ q.filename = io.filename /\ q.count = io.count /\ q.reused = io.reused
  BY DEF IoType, Content
<1>4. q \in IoType
  <2>1. q.disk \in [Names -> Seq(Entry)]
    BY <1>1, <1>2, <1>3
  <2>2. q.file \in FileType
    <3>1. PICK g \in FileType, l \in Nat : g = f /\ l = Len(s)
      BY <1>1
    <3>2. [g EXCEPT !.flushed = l] \in FileType
      BY DEF FileType
    <3> QED BY <1>3, <3>1, <3>2
  <2>3. q = [disk |-> q.disk, file |-> q.file, filename |-> q.filename, count |-> q.count,
             reused |-> q.reused]
    BY DEF IoType
  <2> QED BY <1>1, <1>3, <2>1, <2>2, <2>3 DEF IoType
<1>5. SameRows(d, q.disk)
  <2> SUFFICES ASSUME NEW n \in Names, NEW i \in Nat, NEW v \in Nat
               PROVE  IsRow(q.disk, n, i, v) <=> IsRow(d, n, i, v)
    BY DEF SameRows
  <2>1. CASE n # m
    BY <1>1, <1>3, <2>1 DEF IsRow
  <2>2. CASE n = m
    <3>1. q.disk[n] = e /\ DOMAIN e = DOMAIN s
      BY <1>1, <1>2, <1>3, <2>2
    <3>2. CASE i = f.section + 1
      <4>1. e[i] = Data(f.written) /\ s[i].kind = "data"
        BY <1>1, <3>2
      <4>2. e[i].kind # "rec" /\ s[i].kind # "rec"
        BY <4>1, EntryKinds
      <4> HIDE DEF e, s
      <4> QED BY <3>1, <4>2, <2>2 DEF IsRow, s
    <3>3. CASE i # f.section + 1
      <4>1. i \in DOMAIN s => e[i] = s[i]
        BY <1>1, <3>3
      <4> HIDE DEF e, s
      <4> QED BY <3>1, <4>1, <2>2 DEF IsRow, s
    <3> QED BY <3>2, <3>3
  <2> QED BY <2>1, <2>2
<1> QED BY <1>3, <1>4, <1>5 DEF Content
-----------------------------------------------------------------------------
(* Closing a file, as endDataSection and the end of the stream do it.       *)
(* Replacing the stream, or the name. *)
LEMMA FileReplaced ==
  ASSUME NEW io \in IoType, NEW g \in FileType, NEW q, q = [io EXCEPT !.file = g]
  PROVE  /\ q \in IoType /\ q.disk = io.disk /\ q.file = g
         /\ q.filename = io.filename /\ q.reused = io.reused
  BY DEF IoType

LEMMA FileUpdates ==
  ASSUME NEW f \in FileType
  PROVE  /\ [f EXCEPT !.open = FALSE] \in FileType
         /\ [f EXCEPT !.section = 0, !.written = 0] \in FileType
         /\ [[f EXCEPT !.section = 0, !.written = 0] EXCEPT !.open = FALSE] \in FileType
         /\ \A n \in Nat : [f EXCEPT !.flushed = n] \in FileType
  BY DEF FileType

(* The end of a file: its rows stay. *)
Ended(format, io, q) ==
  /\ q \in IoType /\ SameRows(io.disk, q.disk) /\ ~ q.file.open
  /\ q.filename = io.filename /\ q.reused = io.reused
  /\ format = "csv" => q.disk = io.disk /\ q.file.section = 0

LEMMA CloseFileIs ==
  ASSUME NEW format \in {"cbf", "csv"}, NEW io \in IoType, FormatOK(format, io)
  PROVE  Ended(format, io, CloseFile(io))
<1> DEFINE f == io.file
<1>1. f \in FileType /\ f.open \in BOOLEAN /\ f.section \in Nat
  BY DEF IoType, FileType
<1>2. CASE ~ f.open \/ f.section = 0
  <2> DEFINE g == [f EXCEPT !.open = FALSE]
  <2>1. CloseFile(io) = [io EXCEPT !.file = g]
    <3>1. EndDataSection(io) = io
      BY <1>1, <1>2 DEF EndDataSection
    <3> QED BY <3>1 DEF CloseFile
  <2>2. g \in FileType /\ ~ g.open /\ g.section = f.section
    BY <1>1, FileUpdates DEF FileType
  <2>3. format = "csv" => f.section = 0
    BY DEF FormatOK
  <2> HIDE DEF g
  <2>4. /\ CloseFile(io) \in IoType /\ CloseFile(io).disk = io.disk /\ CloseFile(io).file = g
        /\ CloseFile(io).filename = io.filename /\ CloseFile(io).reused = io.reused
    BY <2>1, <2>2, FileReplaced
  <2>5. SameRows(io.disk, CloseFile(io).disk)
    BY <2>4 DEF SameRows
  <2> QED BY <2>2, <2>3, <2>4, <2>5 DEF Ended
<1>3. CASE f.open /\ f.section # 0
  <2> DEFINE patched == IF f.good
                          THEN [io EXCEPT !.disk[f.name][f.section + 1] = Data(f.written),
                                          !.file.flushed = Len(Content(io))]
                          ELSE io
             g == [[patched.file EXCEPT !.section = 0, !.written = 0] EXCEPT !.open = FALSE]
  <2>1. format = "cbf"
    BY <1>3 DEF FormatOK
  <2>2. /\ patched \in IoType /\ SameRows(io.disk, patched.disk)
        /\ patched.filename = io.filename /\ patched.reused = io.reused
    <3>1. CASE f.good
      <4>1. /\ f.section + 1 \in DOMAIN io.disk[f.name]
            /\ io.disk[f.name][f.section + 1].kind = "data"
        BY <1>1, <1>3, <2>1, <3>1 DEF FormatOK
      <4> QED BY <3>1, <4>1, PatchIs
    <3>2. CASE ~ f.good
      BY <3>2 DEF SameRows
    <3> QED BY <3>1, <3>2
  <2>3. CloseFile(io) = [patched EXCEPT !.file = g]
    <3>1. EndDataSection(io) = [patched EXCEPT !.file.section = 0, !.file.written = 0]
      BY <1>1, <1>3 DEF EndDataSection
    <3>2. patched.file \in FileType
      BY <2>2 DEF IoType
    <3> HIDE DEF patched
    <3> QED BY <2>2, <3>1, <3>2 DEF CloseFile, IoType
  <2> HIDE DEF patched
  <2>4. patched.file \in FileType
    BY <2>2 DEF IoType
  <2>5. g \in FileType /\ ~ g.open
    BY <2>4, FileUpdates DEF FileType
  <2> HIDE DEF g
  <2> QED BY <2>1, <2>2, <2>3, <2>5, FileReplaced DEF Ended
<1> QED BY <1>1, <1>2, <1>3

LEMMA CloseStreamIs ==
  ASSUME writer.format \in {"cbf", "csv"}, NEW io \in IoType, FormatOK(writer.format, io)
  PROVE  Ended(writer.format, io, CloseStream(io))
<1>1. CASE writer.format = "cbf"
  BY <1>1, CloseFileIs DEF CloseStream
<1>2. CASE writer.format = "csv"
  <2> DEFINE g == [io.file EXCEPT !.open = FALSE]
  <2>1. CloseStream(io) = [io EXCEPT !.file = g]
    BY <1>2 DEF CloseStream
  <2>2. io.file \in FileType /\ io.file.section = 0
    BY <1>2 DEF FormatOK, IoType
  <2>3. g \in FileType /\ ~ g.open /\ g.section = 0
    BY <2>2, FileUpdates DEF FileType
  <2> HIDE DEF g
  <2>4. /\ CloseStream(io) \in IoType /\ CloseStream(io).disk = io.disk
        /\ CloseStream(io).file = g /\ CloseStream(io).filename = io.filename
        /\ CloseStream(io).reused = io.reused
    BY <2>1, <2>3, FileReplaced
  <2>5. SameRows(io.disk, CloseStream(io).disk)
    BY <2>4 DEF SameRows
  <2> QED BY <2>3, <2>4, <2>5 DEF Ended
<1> QED BY <1>1, <1>2

(* A file that has ended is in order. *)
LEMMA EndedOK ==
  ASSUME NEW format \in {"cbf", "csv"}, NEW io, NEW k \in Nat, FilesOK(format, io, k), NEW q,
         Ended(format, io, q)
  PROVE  FilesOK(format, q, k)
<1>1. q \in IoType /\ InOrder(q.disk, k)
  BY SameRowsInOrder DEF Ended, FilesOK
<1>2. FormatOK(format, q)
  BY DEF Ended, FilesOK, FormatOK
<1> QED BY <1>1, <1>2 DEF FilesOK
-----------------------------------------------------------------------------
(* Opening a file anew drops what it held.                                  *)
LEMMA PutIs ==
  ASSUME NEW io \in IoType, NEW s \in Seq(Entry), io.file.good
  PROVE  /\ Put(io, s) \in IoType /\ Put(io, s).file = io.file
         /\ Put(io, s).filename = io.filename /\ Put(io, s).reused = io.reused
         /\ Put(io, s).disk = [io.disk EXCEPT ![io.file.name] = io.disk[io.file.name] \o s]
<1> DEFINE q == Put(io, s)
<1>1. q = [io EXCEPT !.disk = [io.disk EXCEPT ![io.file.name] = io.disk[io.file.name] \o s]]
  BY DEF Put
<1>2. /\ io.disk \in [Names -> Seq(Entry)] /\ io.file.name \in Names
      /\ io.disk[io.file.name] \in Seq(Entry)
  BY DEF IoType, FileType
<1>3. [io.disk EXCEPT ![io.file.name] = io.disk[io.file.name] \o s] \in [Names -> Seq(Entry)]
  BY <1>2
<1> QED BY <1>1, <1>3 DEF IoType

(* A file that has been opened: its old content is gone, and remembered if  *)
(* it held records.                                                         *)
Truncated(io, o, s) ==
  /\ o \in IoType /\ RowsDropped(io.disk, o.disk, io.filename)
  /\ o.file.open /\ o.file.good /\ o.file.name = io.filename /\ o.filename = io.filename
  /\ o.disk[io.filename] = s
  /\ ~ o.reused => ~ io.reused /\ NoRows(io.disk, io.filename)

LEMMA OpenNewIs ==
  ASSUME NEW format \in {"cbf", "csv"}, NEW io \in IoType, FormatOK(format, io)
  PROVE  /\ Truncated(io, OpenNew(io, TRUE), <<>>)
         /\ format = "csv" =>
              /\ OpenNew(io, TRUE).disk = [io.disk EXCEPT ![io.filename] = <<>>]
              /\ OpenNew(io, TRUE).file.section = 0
<1> DEFINE fn == io.filename
           c == CloseFile(io)
           h == HoldsRecords(io, fn)
           g == [c.file EXCEPT !.open = TRUE, !.good = TRUE, !.name = fn, !.flushed = 0]
           e == [c.disk EXCEPT ![fn] = <<>>]
           o == OpenNew(io, TRUE)
<1>1. Ended(format, io, c)
  BY CloseFileIs
<1>2. c \in IoType /\ fn \in Names /\ c.file \in FileType /\ c.disk \in [Names -> Seq(Entry)]
      /\ c.reused = io.reused /\ c.filename = fn /\ io.reused \in BOOLEAN /\ c.count \in Nat
      /\ io.disk \in [Names -> Seq(Entry)]
  BY <1>1 DEF Ended, IoType
<1>h. h \in BOOLEAN
  BY DEF HoldsRecords
<1>3. o = [c EXCEPT !.disk = e, !.file = g, !.reused = c.reused \/ h]
  <2>1. OpenForWriting(io, fn)
          = [c EXCEPT !.disk[fn] = <<>>, !.file.open = TRUE, !.file.good = TRUE,
                      !.file.name = fn, !.file.flushed = 0]
    BY DEF OpenForWriting
  <2>2. OpenForWriting(io, fn) = [c EXCEPT !.disk = e, !.file = g]
    <3> HIDE DEF c
    <3> QED BY <1>2, <2>1 DEF IoType
  <2> HIDE DEF c, e, g
  <2>3. o = [OpenForWriting(io, fn) EXCEPT !.reused = OpenForWriting(io, fn).reused \/ h]
    BY DEF OpenNew
  <2> HIDE DEF o, h
  <2> QED BY <1>2, <2>2, <2>3 DEF IoType
<1> HIDE DEF c, o, h
<1>4. g \in FileType /\ g.open /\ g.good /\ g.name = fn /\ g.section = c.file.section
  BY <1>2 DEF FileType
<1>5. e \in [Names -> Seq(Entry)]
  BY <1>2
<1>6. o.disk = e /\ o.file = g /\ o.filename = fn /\ o.reused = (io.reused \/ h) /\ o.count = c.count
  BY <1>2, <1>3 DEF IoType
<1>7. o \in IoType
  <2> HIDE DEF e, g
  <2> QED BY <1>2, <1>3, <1>4, <1>5, <1>h DEF IoType
<1>8. RowsDropped(io.disk, e, fn)
  <2> SUFFICES ASSUME NEW n \in Names, NEW i \in Nat, NEW v \in Nat
               PROVE  IsRow(e, n, i, v) <=> n # fn /\ IsRow(io.disk, n, i, v)
    BY DEF RowsDropped
  <2>1. IsRow(c.disk, n, i, v) <=> IsRow(io.disk, n, i, v)
    BY <1>1 DEF Ended, SameRows
  <2>2. CASE n = fn
    BY <1>2, <2>2 DEF IsRow
  <2>3. CASE n # fn
    BY <1>2, <2>1, <2>3 DEF IsRow
  <2> QED BY <2>2, <2>3
<1>9. ~ h => NoRows(io.disk, fn)
  BY DEF h, HoldsRecords, NoRows, IsRow
<1>10. format = "csv" => c.disk = io.disk /\ c.file.section = 0
  BY <1>1 DEF Ended
<1>11. e[fn] = <<>>
  BY <1>2
<1> QED BY <1>2, <1>4, <1>6, <1>7, <1>8, <1>9, <1>10, <1>11 DEF Truncated, o

(* A file of which the head has been written. *)
LEMMA HeadWritten ==
  ASSUME NEW io \in IoType, NEW o, NEW s \in Seq(Entry), Truncated(io, o, s), NEW t \in Seq(Entry),
         \A i \in DOMAIN t : t[i].kind # "rec"
  PROVE  Truncated(io, Put(o, t), s \o t) /\ Put(o, t).file = o.file
<1> DEFINE q == Put(o, t)
           fn == io.filename
<1>1. /\ q \in IoType /\ q.file = o.file /\ q.filename = o.filename /\ q.reused = o.reused
      /\ q.disk = [o.disk EXCEPT ![fn] = s \o t]
  <2>1. o \in IoType /\ o.file.good /\ o.file.name = fn /\ o.disk[fn] = s
    BY DEF Truncated
  <2>2. /\ q \in IoType /\ q.file = o.file /\ q.filename = o.filename /\ q.reused = o.reused
        /\ q.disk = [o.disk EXCEPT ![o.file.name] = o.disk[o.file.name] \o t]
    BY <2>1, PutIs
  <2> QED BY <2>1, <2>2
<1>2. fn \in Names /\ o.disk \in [Names -> Seq(Entry)] /\ o.disk[fn] = s
  BY DEF Truncated, IoType
<1> HIDE DEF q
<1>3. RowsDropped(io.disk, q.disk, fn)
  <2> SUFFICES ASSUME NEW n \in Names, NEW i \in Nat, NEW v \in Nat
               PROVE  IsRow(q.disk, n, i, v) <=> n # fn /\ IsRow(io.disk, n, i, v)
    BY DEF RowsDropped
  <2>1. IsRow(o.disk, n, i, v) <=> n # fn /\ IsRow(io.disk, n, i, v)
    BY DEF Truncated, RowsDropped
  <2>2. CASE n = fn
    <3>1. q.disk[n] = s \o t /\ ~ IsRow(o.disk, n, i, v)
      BY <1>1, <1>2, <2>1, <2>2
    <3>2. i \in DOMAIN s => ~ (s[i].kind = "rec" /\ s[i].val = v)
      BY <1>2, <2>2, <3>1 DEF IsRow
    <3>3. i \in DOMAIN (s \o t) => (i \in DOMAIN s /\ (s \o t)[i] = s[i])
                                   \/ (i - Len(s) \in DOMAIN t /\ (s \o t)[i] = t[i - Len(s)])
      OBVIOUS
    <3> QED BY <2>2, <3>1, <3>2, <3>3 DEF IsRow
  <2>3. CASE n # fn
    <3>1. q.disk[n] = o.disk[n]
      BY <1>1, <1>2, <2>3
    <3> QED BY <2>1, <2>3, <3>1 DEF IsRow
  <2> QED BY <2>2, <2>3
<1>4. q.disk[fn] = s \o t
  BY <1>1, <1>2
<1> QED BY <1>1, <1>3, <1>4 DEF Truncated, q
-----------------------------------------------------------------------------
(* The new files of openAndWriteSchema and of CsvWriter::rotateFile.        *)
LEMMA StreamAdjusted ==
  ASSUME NEW io \in IoType, NEW p, NEW s, Truncated(io, p, s),
         NEW g \in FileType, g.open, g.good, g.name = p.file.name,
         NEW o, o = [p EXCEPT !.file = g]
  PROVE  Truncated(io, o, s) /\ o.disk = p.disk /\ o.file = g
<1>1. p \in IoType
  BY DEF Truncated
<1>2. o \in IoType /\ o.disk = p.disk /\ o.file = g /\ o.filename = p.filename
      /\ o.reused = p.reused
  BY <1>1, FileReplaced
<1> QED BY <1>2 DEF Truncated

LEMMA OpenCbfIs ==
  ASSUME NEW io, NEW k \in Nat, FilesOK("cbf", io, k)
  PROVE  /\ FilesOK("cbf", OpenCbf(io, TRUE), k)
         /\ \E s : Truncated(io, OpenCbf(io, TRUE), s)
<1> DEFINE first  == <<Schema>>
           second == <<Data(0)>>
           s == first \o second
           n == OpenNew(io, TRUE)
           w == Put(n, first)
           p == Put(w, second)
           g == [p.file EXCEPT !.section = 1, !.written = 0]
           o == OpenCbf(io, TRUE)
<1>1. io \in IoType /\ FormatOK("cbf", io) /\ InOrder(io.disk, k)
  BY DEF FilesOK
<1>2. Truncated(io, n, <<>>)
  BY <1>1, OpenNewIs
<1>3. /\ first \in Seq(Entry) /\ second \in Seq(Entry) /\ <<>> \in Seq(Entry)
      /\ <<>> \o first = first /\ Len(first) = 1
      /\ \A i \in DOMAIN first : first[i].kind # "rec"
      /\ \A i \in DOMAIN second : second[i].kind # "rec"
      /\ Len(s) = 2 /\ s[2].kind = "data" /\ 2 \in DOMAIN s
  BY EntryTypes, EntryKinds
<1> HIDE DEF first, second
<1>4. Truncated(io, w, first)
  BY <1>1, <1>2, <1>3, HeadWritten
<1>5. Truncated(io, p, s)
  BY <1>1, <1>3, <1>4, HeadWritten
<1>6. p.file \in FileType /\ p.file.open /\ p.file.good /\ p \in IoType
  BY <1>5 DEF Truncated, IoType
<1>7. g \in FileType /\ g.open /\ g.good /\ g.name = p.file.name /\ g.section = 1
  BY <1>6 DEF FileType
<1>8. o = [p EXCEPT !.file = g]
  <2>1. n.file.open /\ w.disk[w.file.name] = first
    BY <1>2, <1>4 DEF Truncated
  <2>2. WriteSchema(n) = w
    BY DEF WriteSchema, first
  <2>3. o = BeginDataSection(w)
    BY <2>1, <2>2 DEF OpenCbf
  <2>4. Len(Content(w)) = 1
    BY <1>3, <2>1 DEF Content
  <2>5. o = [p EXCEPT !.file.section = 1, !.file.written = 0]
    BY <2>3, <2>4 DEF BeginDataSection, second
  <2> HIDE DEF p, o
  <2> QED BY <1>6, <2>5 DEF IoType
<1> HIDE DEF n, w, p, g, o
<1>9. Truncated(io, o, s) /\ o.file = g
  BY <1>1, <1>5, <1>7, <1>8, StreamAdjusted
<1>11. FormatOK("cbf", o)
  <2>1. o.disk[o.file.name] = s /\ o.file.section + 1 = 2
    BY <1>7, <1>9 DEF Truncated
  <2> QED BY <1>3, <2>1 DEF FormatOK
<1>12. InOrder(o.disk, k)
  BY <1>1, <1>9, RowsDroppedInOrder DEF Truncated, IoType
<1> QED BY <1>9, <1>11, <1>12 DEF FilesOK, Truncated, o

LEMMA OpenCsvIs ==
  ASSUME NEW io, NEW k \in Nat, FilesOK("csv", io, k)
  PROVE  /\ FilesOK("csv", OpenCsv(io, TRUE), k)
         /\ \E s : Truncated(io, OpenCsv(io, TRUE), s)
<1> DEFINE head == <<Header>>
           n == OpenNew(io, TRUE)
           p == Put(n, head)
           g == [p.file EXCEPT !.flushed = 1]
           o == OpenCsv(io, TRUE)
           fn == io.filename
<1>1. io \in IoType /\ FormatOK("csv", io) /\ InOrder(io.disk, k)
  BY DEF FilesOK
<1>2. Truncated(io, n, <<>>) /\ n.disk = [io.disk EXCEPT ![fn] = <<>>] /\ n.file.section = 0
  BY <1>1, OpenNewIs
<1>3. /\ head \in Seq(Entry) /\ <<>> \in Seq(Entry) /\ <<>> \o head = head
      /\ \A i \in DOMAIN head : head[i].kind # "rec"
      /\ UnderOurHeader(head) /\ Uniform(head)
  BY EntryTypes, EntryKinds DEF UnderOurHeader, Uniform
<1> HIDE DEF head
<1>4. Truncated(io, p, head) /\ p.file = n.file
  <2>1. Truncated(io, p, <<>> \o head) /\ p.file = n.file
    BY <1>1, <1>2, <1>3, HeadWritten
  <2> QED BY <1>3, <2>1
<1>5. /\ n \in IoType /\ n.file.good /\ n.file.name = fn
      /\ p.disk = [n.disk EXCEPT ![fn] = n.disk[fn] \o head]
  <2>1. n \in IoType /\ n.file.good /\ n.file.name = fn
    BY <1>2 DEF Truncated
  <2>2. p.disk = [n.disk EXCEPT ![n.file.name] = n.disk[n.file.name] \o head]
    BY <1>3, <2>1, PutIs
  <2> QED BY <2>1, <2>2
<1>6. p.file \in FileType /\ p.file.open /\ p.file.good /\ p \in IoType
  BY <1>4 DEF Truncated, IoType
<1>7. g \in FileType /\ g.open /\ g.good /\ g.name = p.file.name /\ g.flushed = 1 /\ g.section = 0
  BY <1>2, <1>4, <1>6 DEF FileType
<1>8. o = [p EXCEPT !.file = g]
  <2>1. n.file.open
    BY <1>2 DEF Truncated
  <2> QED BY <2>1 DEF OpenCsv, head
<1> HIDE DEF n, p, g, o
<1>9. Truncated(io, o, head) /\ o.file = g /\ o.disk = p.disk
  BY <1>1, <1>4, <1>7, <1>8, StreamAdjusted
<1>11. ASSUME NEW m \in Names PROVE Uniform(o.disk[m])
  <2>1. CASE m = fn
    BY <1>3, <1>9, <2>1 DEF Truncated
  <2>2. CASE m # fn
    <3>1. io.disk \in [Names -> Seq(Entry)]
      BY <1>1 DEF IoType
    <3>2. o.disk[m] = io.disk[m]
      BY <1>2, <1>5, <1>9, <2>2, <3>1
    <3> QED BY <1>1, <3>2 DEF FormatOK
  <2> QED BY <2>1, <2>2
<1>12. FormatOK("csv", o)
  <2>1. o.disk[o.file.name] = head
    BY <1>9 DEF Truncated
  <2> QED BY <1>3, <1>7, <1>9, <1>11, <2>1 DEF FormatOK
<1>13. InOrder(o.disk, k)
  BY <1>1, <1>9, RowsDroppedInOrder DEF Truncated, IoType
<1> QED BY <1>9, <1>12, <1>13 DEF FilesOK, Truncated, o

LEMMA NotOpened ==
  ASSUME NEW format \in {"cbf", "csv"}, NEW io, NEW k \in Nat, FilesOK(format, io, k)
  PROVE  /\ Ended(format, io, OpenCbf(io, FALSE)) /\ Ended(format, io, OpenCsv(io, FALSE))
         /\ FilesOK(format, OpenCbf(io, FALSE), k) /\ FilesOK(format, OpenCsv(io, FALSE), k)
<1>1. io \in IoType /\ FormatOK(format, io)
  BY DEF FilesOK
<1>2. Ended(format, io, CloseFile(io))
  BY <1>1, CloseFileIs
<1>3. OpenCbf(io, FALSE) = CloseFile(io) /\ OpenCsv(io, FALSE) = CloseFile(io)
  BY <1>2 DEF OpenCbf, OpenCsv, OpenNew, Ended
<1> QED BY <1>2, <1>3, EndedOK
-----------------------------------------------------------------------------
(* A change of the file: setupFile and rotateFile.                          *)
LEMMA ZeroIsName == 0 \in Names /\ 1 \in Names
  BY FilesAssumption DEF Names

LEMMA Renamed ==
  ASSUME NEW format, NEW io, NEW k \in Nat, FilesOK(format, io, k), NEW f \in Names
  PROVE  LET q == [io EXCEPT !.filename = f]
         IN  /\ FilesOK(format, q, k) /\ q.filename = f
             /\ q.disk = io.disk /\ q.file = io.file /\ q.reused = io.reused
<1> DEFINE q == [io EXCEPT !.filename = f]
<1>1. io \in IoType
  BY DEF FilesOK
<1>2. q \in IoType /\ q.filename = f /\ q.disk = io.disk /\ q.file = io.file /\ q.reused = io.reused
  BY <1>1 DEF IoType
<1> HIDE DEF q
<1>3. FilesOK(format, q, k)
  BY <1>2 DEF FilesOK, FormatOK
<1> QED BY <1>2, <1>3 DEF q

LEMMA Recounted ==
  ASSUME NEW format, NEW io, NEW k \in Nat, FilesOK(format, io, k), NEW n \in Nat
  PROVE  LET q == [io EXCEPT !.count = n]
         IN  /\ FilesOK(format, q, k) /\ q.filename = io.filename
             /\ q.disk = io.disk /\ q.file = io.file /\ q.reused = io.reused
<1> DEFINE q == [io EXCEPT !.count = n]
<1>1. io \in IoType
  BY DEF FilesOK
<1>2. /\ q \in IoType /\ q.filename = io.filename /\ q.disk = io.disk /\ q.file = io.file
      /\ q.reused = io.reused
  BY <1>1 DEF IoType
<1> HIDE DEF q
<1>3. FilesOK(format, q, k)
  BY <1>2 DEF FilesOK, FormatOK
<1> QED BY <1>2, <1>3 DEF q

(* What a hook that was not refused a file does to a recording without gaps.*)
GoesOn(io, q, k) ==
  ~ q.reused =>
    /\ ~ io.reused
    /\ Gapless(io, k) => q.file.open /\ q.file.good /\ Gapless(q, k)

LEMMA OpenedGoesOn ==
  ASSUME NEW io \in IoType, NEW o, NEW s, Truncated(io, o, s), NEW k \in Nat, ~ o.reused
  PROVE  /\ ~ io.reused /\ o.file.open /\ o.file.good
         /\ Complete(io.disk, k) => Gapless(o, k)
<1>1. /\ o.file.open /\ o.file.good /\ o.file.name = io.filename /\ o.filename = io.filename
      /\ RowsDropped(io.disk, o.disk, io.filename) /\ io.filename \in Names
      /\ ~ io.reused /\ NoRows(io.disk, io.filename)
  BY DEF Truncated, IoType
<1>2. ASSUME Complete(io.disk, k) PROVE Gapless(o, k)
  <2>1. Complete(o.disk, k) /\ LatestIn(o.disk, io.filename)
    BY <1>1, <1>2, RowsDroppedGapless
  <2> QED BY <1>1, <2>1 DEF Gapless
<1> QED BY <1>1, <1>2

(* The stream that setupFile opens to append. *)
LEMMA AppendingFile ==
  ASSUME NEW n \in Names, NEW l \in Nat
  PROVE  LET g == [ClosedFile EXCEPT !.open = TRUE, !.name = n, !.flushed = l]
         IN  /\ g \in FileType /\ g.open /\ g.good /\ g.name = n /\ g.section = 0
             /\ g.flushed = l
<1> DEFINE g == [ClosedFile EXCEPT !.open = TRUE, !.name = n, !.flushed = l]
<1>1. ClosedFile \in FileType /\ ClosedFile.good /\ ClosedFile.section = 0
  BY ZeroIsName DEF ClosedFile, FileType
<1>2. g \in FileType
  BY <1>1 DEF FileType
<1>3. g.open /\ g.good /\ g.name = n /\ g.section = 0 /\ g.flushed = l
  BY <1>1 DEF FileType
<1> QED BY <1>2, <1>3

(* setupFile() of a CsvWriter. *)
LEMMA SetupCsvIs ==
  ASSUME NEW io, NEW k \in Nat, FilesOK("csv", io, k), NEW opens \in BOOLEAN, NEW stamp \in Names
  PROVE  /\ FilesOK("csv", SetupCsv(io, opens, stamp), k)
         /\ opens => GoesOn(io, SetupCsv(io, opens, stamp), k)
<1> DEFINE content == io.disk[io.filename]
           q == SetupCsv(io, opens, stamp)
<1>1. io \in IoType /\ InOrder(io.disk, k) /\ FormatOK("csv", io) /\ io.filename \in Names
      /\ content \in Seq(Entry)
  BY DEF FilesOK, IoType
<1>2. ASSUME NEW i, FilesOK("csv", i, k), i.disk = io.disk, i.reused = io.reused,
             q = OpenCsv(i, opens)
      PROVE  FilesOK("csv", q, k) /\ (opens => GoesOn(io, q, k))
  <2>1. CASE opens
    <3>1. FilesOK("csv", q, k)
      BY <1>2, <2>1, OpenCsvIs
    <3>2. PICK s : Truncated(i, q, s)
      BY <1>2, <2>1, OpenCsvIs
    <3>3. i \in IoType
      BY <1>2 DEF FilesOK
    <3>4. ~ q.reused => /\ ~ i.reused /\ q.file.open /\ q.file.good
                        /\ Complete(i.disk, k) => Gapless(q, k)
      BY <3>2, <3>3, OpenedGoesOn
    <3>5. Gapless(io, k) => Complete(i.disk, k)
      BY <1>2 DEF Gapless
    <3> QED BY <1>2, <3>1, <3>4, <3>5 DEF GoesOn
  <2>2. CASE ~ opens
    BY <1>2, <2>2, NotOpened
  <2> QED BY <2>1, <2>2
<1>3. CASE content = <<>>
  BY <1>2, <1>3 DEF SetupCsv
<1>4. CASE content # <<>> /\ Head(content) = Header
  <2>1. CASE ~ opens
    BY <1>4, <2>1 DEF SetupCsv
  <2>2. CASE opens
    <3> DEFINE g == [ClosedFile EXCEPT !.open = TRUE, !.name = io.filename,
                                       !.flushed = Len(content)]
    <3>1. /\ g \in FileType /\ g.open /\ g.good /\ g.name = io.filename /\ g.section = 0
          /\ g.flushed = Len(content)
      <4>1. io.filename \in Names /\ Len(content) \in Nat
        BY <1>1
      <4> QED BY ONLY <4>1, AppendingFile
    <3>2. q = [io EXCEPT !.file = g]
      BY <1>4, <2>2 DEF SetupCsv
    <3> HIDE DEF g, q
    <3>3. q \in IoType /\ q.disk = io.disk /\ q.file = g /\ q.filename = io.filename
          /\ q.reused = io.reused
      BY <1>1, <3>1, <3>2, FileReplaced
    <3>4. UnderOurHeader(content) /\ Len(content) > 0
      <4>1. Uniform(content)
        BY <1>1 DEF FormatOK
      <4>2. Foreign # Header
        BY EntryKinds
      <4>3. content[1] = Header /\ Len(content) > 0
        BY <1>1, <1>4
      <4>4. content # <<Foreign, Foreign>>
        BY <4>2, <4>3
      <4> QED BY <1>4, <4>1, <4>3, <4>4 DEF Uniform, UnderOurHeader
    <3>5. FormatOK("csv", q)
      BY <1>1, <3>1, <3>3, <3>4 DEF FormatOK
    <3>6. GoesOn(io, q, k)
      BY <3>1, <3>3 DEF GoesOn, Gapless
    <3>7. FilesOK("csv", q, k)
      BY <1>1, <3>3, <3>5 DEF FilesOK
    <3> QED BY <3>6, <3>7 DEF q
  <2> QED BY <2>1, <2>2
<1>5. CASE content # <<>> /\ Head(content) # Header
  <2> DEFINE i == [io EXCEPT !.filename = stamp]
  <2>1. q = OpenCsv(i, opens)
    BY <1>5 DEF SetupCsv
  <2>2. FilesOK("csv", i, k) /\ i.disk = io.disk /\ i.reused = io.reused
    BY Renamed
  <2> HIDE DEF i, q
  <2>3. FilesOK("csv", q, k) /\ (opens => GoesOn(io, q, k))
    BY <1>2, <2>1, <2>2
  <2> QED BY <2>3 DEF q
<1> QED BY <1>3, <1>4, <1>5

(* rotateFile() of both writers. *)
LEMMA RotateIs ==
  ASSUME writer.format \in {"cbf", "csv"}, NEW io, NEW k \in Nat, FilesOK(writer.format, io, k),
         NEW opens \in BOOLEAN, NEW stamp \in Names
  PROVE  /\ FilesOK(writer.format, Rotate(io, opens, stamp), k)
         /\ opens => GoesOn(io, Rotate(io, opens, stamp), k)
<1> DEFINE c == CloseStream(io)
           f == IF writer.suffix THEN stamp ELSE 0
           r == [c EXCEPT !.filename = f]
           o == IF writer.format = "cbf" THEN OpenCbf(r, opens) ELSE OpenCsv(r, opens)
           q == Rotate(io, opens, stamp)
<1>1. io \in IoType /\ FormatOK(writer.format, io)
  BY DEF FilesOK
<1>2. Ended(writer.format, io, c) /\ FilesOK(writer.format, c, k)
  BY <1>1, CloseStreamIs, EndedOK
<1>3. f \in Names
  BY ZeroIsName
<1>4. q = [o EXCEPT !.count = 0]
  BY DEF Rotate
<1> HIDE DEF c, f
<1>5. FilesOK(writer.format, r, k) /\ r.disk = c.disk /\ r.reused = c.reused
  BY <1>2, <1>3, Renamed
<1> HIDE DEF r
<1>6. FilesOK(writer.format, o, k) /\ (opens => \E s : Truncated(r, o, s))
  <2>1. CASE opens /\ writer.format = "cbf"
    BY <1>5, <2>1, OpenCbfIs
  <2>2. CASE opens /\ writer.format = "csv"
    BY <1>5, <2>2, OpenCsvIs
  <2>3. CASE ~ opens
    BY <1>5, <2>3, NotOpened
  <2> QED BY <2>1, <2>2, <2>3
<1> HIDE DEF o, q
<1>7. /\ FilesOK(writer.format, q, k) /\ q.filename = o.filename /\ q.disk = o.disk
      /\ q.file = o.file /\ q.reused = o.reused
  BY <1>4, <1>6, Recounted
<1>8. ASSUME opens PROVE GoesOn(io, q, k)
  <2>1. PICK s : Truncated(r, o, s)
    BY <1>6, <1>8
  <2>2. r \in IoType
    BY <1>5 DEF FilesOK
  <2>3. ~ o.reused => /\ ~ r.reused /\ o.file.open /\ o.file.good
                      /\ Complete(r.disk, k) => Gapless(o, k)
    BY <2>1, <2>2, OpenedGoesOn
  <2>4. Gapless(io, k) => Complete(r.disk, k)
    BY <1>2, <1>5, SameRowsGapless DEF Gapless, Ended, SameRows, Complete
  <2>5. Gapless(o, k) => Gapless(q, k)
    BY <1>7 DEF Gapless
  <2>6. r.reused = io.reused
    BY <1>2, <1>5 DEF Ended
  <2> QED BY <1>7, <2>3, <2>4, <2>5, <2>6 DEF GoesOn
<1> QED BY <1>7, <1>8 DEF q
-----------------------------------------------------------------------------
(* The records of a batch, the n that follow number k.                      *)
(* The records of a batch after record k. *)
IsBatch(ids, k, n) == ids = [i \in 1 .. n |-> k + i]

LEMMA RecsAre ==
  ASSUME NEW k \in Nat, NEW n \in Nat, NEW ids, IsBatch(ids, k, n)
  PROVE  /\ Recs(ids) \in Seq(Entry) /\ Len(Recs(ids)) = n /\ Len(ids) = n
         /\ \A i \in 1 .. n : Recs(ids)[i].kind = "rec" /\ Recs(ids)[i].val = k + i
<1>1. DOMAIN ids = 1 .. n /\ Len(ids) = n /\ \A i \in 1 .. n : ids[i] = k + i /\ ids[i] \in Nat
  BY DEF IsBatch
<1>2. Recs(ids) = [i \in 1 .. n |-> Rec(ids[i])]
  BY <1>1 DEF Recs
<1>3. \A i \in 1 .. n : Rec(ids[i]) \in Entry /\ Rec(ids[i]).kind = "rec"
                        /\ Rec(ids[i]).val = ids[i]
  BY <1>1, EntryTypes, EntryKinds
<1>4. Recs(ids) \in [1 .. n -> Entry]
  BY <1>2, <1>3
<1> QED BY <1>1, <1>2, <1>3, <1>4

(* e is d with the records k+1 .. k+n at the end of file f. *)
RowsAdded(d, e, f, a, k, n) ==
  \A m \in Names : \A i, v \in Nat :
    IsRow(e, m, i, v) <=>
      IsRow(d, m, i, v) \/ (m = f /\ \E j \in 1 .. n : i = a + j /\ v = k + j)

RowsUpTo(d, f, a) == \A i, v \in Nat : IsRow(d, f, i, v) => i <= a

LEMMA AddedInOrder ==
  ASSUME NEW d, NEW e, NEW f \in Names, NEW a \in Nat, NEW k \in Nat, NEW n \in Nat,
         RowsAdded(d, e, f, a, k, n), RowsUpTo(d, f, a), InOrder(d, k)
  PROVE  InOrder(e, k + n)
<1>1. ASSUME NEW m \in Names, NEW i \in Nat, NEW v \in Nat, IsRow(e, m, i, v)
      PROVE  v <= k + n /\ (v = 0 => m = 0 /\ i = 2)
  <2>1. CASE IsRow(d, m, i, v)
    BY <2>1 DEF InOrder
  <2>2. CASE \E j \in 1 .. n : i = a + j /\ v = k + j
    BY <2>2
  <2> QED BY <1>1, <2>1, <2>2 DEF RowsAdded
<1>2. ASSUME NEW m \in Names, NEW i \in Nat, NEW j \in Nat, NEW u \in Nat, NEW v \in Nat,
             IsRow(e, m, i, u), IsRow(e, m, j, v), i < j
      PROVE  u < v
  <2>1. IsRow(d, m, i, u) \/ (m = f /\ \E x \in 1 .. n : i = a + x /\ u = k + x)
    BY <1>2 DEF RowsAdded
  <2>2. IsRow(d, m, j, v) \/ (m = f /\ \E x \in 1 .. n : j = a + x /\ v = k + x)
    BY <1>2 DEF RowsAdded
  <2>3. CASE IsRow(d, m, i, u) /\ IsRow(d, m, j, v)
    BY <1>2, <2>3 DEF InOrder
  <2>4. CASE IsRow(d, m, i, u) /\ ~ IsRow(d, m, j, v)
    <3>1. u <= k
      BY <2>4 DEF InOrder
    <3> QED BY <2>2, <2>4, <3>1
  <2>5. CASE ~ IsRow(d, m, i, u) /\ IsRow(d, m, j, v)
    <3>1. m = f /\ i > a
      BY <2>1, <2>5
    <3>2. j <= a
      BY <2>5, <3>1 DEF RowsUpTo
    <3> QED BY <1>2, <3>1, <3>2
  <2>6. CASE ~ IsRow(d, m, i, u) /\ ~ IsRow(d, m, j, v)
    <3>1. PICK x \in 1 .. n : i = a + x /\ u = k + x
      BY <2>1, <2>6
    <3>2. PICK y \in 1 .. n : j = a + y /\ v = k + y
      BY <2>2, <2>6
    <3> QED BY <1>2, <3>1, <3>2
  <2> QED BY <2>3, <2>4, <2>5, <2>6
<1>3. ASSUME NEW m \in Names, NEW l \in Names, NEW i \in Nat, NEW j \in Nat, NEW v \in Nat,
             IsRow(e, m, i, v), IsRow(e, l, j, v)
      PROVE  m = l
  <2>1. IsRow(d, m, i, v) \/ (m = f /\ v > k)
    BY <1>3 DEF RowsAdded
  <2>2. IsRow(d, l, j, v) \/ (l = f /\ v > k)
    BY <1>3 DEF RowsAdded
  <2>3. (IsRow(d, m, i, v) \/ IsRow(d, l, j, v)) => ~ (v > k)
    BY DEF InOrder
  <2>4. IsRow(d, m, i, v) /\ IsRow(d, l, j, v) => m = l
    BY DEF InOrder
  <2> QED BY <2>1, <2>2, <2>3, <2>4
<1> QED BY <1>1, <1>2, <1>3 DEF InOrder

LEMMA AddedGapless ==
  ASSUME NEW d, NEW e, NEW f \in Names, NEW a \in Nat, NEW k \in Nat, NEW n \in Nat,
         RowsAdded(d, e, f, a, k, n), InOrder(d, k), Complete(d, k), LatestIn(d, f)
  PROVE  Complete(e, k + n) /\ LatestIn(e, f)
<1>1. ASSUME NEW v \in 1 .. k + n
      PROVE  \E m \in Names : \E i \in Nat : IsRow(e, m, i, v)
  <2>1. CASE v <= k
    <3>1. PICK m \in Names, i \in Nat : IsRow(d, m, i, v)
      BY <2>1 DEF Complete
    <3> QED BY <3>1 DEF RowsAdded
  <2>2. CASE v > k
    <3>1. PICK j \in 1 .. n : v = k + j
      <4>1. v - k \in 1 .. n
        BY <2>2
      <4> QED BY <4>1
    <3>2. a + j \in Nat
      BY <3>1
    <3>3. IsRow(e, f, a + j, v)
      BY <3>1, <3>2 DEF RowsAdded
    <3> QED BY <3>2, <3>3
  <2> QED BY <2>1, <2>2
<1>2. ASSUME NEW m \in Names \ {f}, NEW i \in Nat, NEW j \in Nat, NEW u \in Nat, NEW v \in Nat,
             IsRow(e, m, i, u), IsRow(e, f, j, v)
      PROVE  u < v
  <2>1. IsRow(d, m, i, u) /\ u <= k
    BY <1>2 DEF RowsAdded, InOrder
  <2>2. IsRow(d, f, j, v) \/ v > k
    BY <1>2 DEF RowsAdded
  <2> QED BY <2>1, <2>2 DEF LatestIn
<1> QED BY <1>1, <1>2 DEF Complete, LatestIn

LEMMA LaterIsFine ==
  ASSUME NEW format, NEW io, NEW k \in Nat, NEW n \in Nat, FilesOK(format, io, k)
  PROVE  FilesOK(format, io, k + n)
<1>1. InOrder(io.disk, k + n)
  BY DEF FilesOK, InOrder
<1> QED BY <1>1 DEF FilesOK
-----------------------------------------------------------------------------
(* Writing a batch.                                                         *)
(* What t adds to s, whose length is a. *)
Joined(u, s, t, a, b) ==
  /\ Len(u) = a + b /\ DOMAIN s = 1 .. a /\ DOMAIN u = 1 .. a + b
  /\ \A i \in 1 .. a : u[i] = s[i]
  /\ \A i \in a + 1 .. a + b : u[i] = t[i - a]

LEMMA Joins ==
  ASSUME NEW s \in Seq(Entry), NEW t \in Seq(Entry), NEW a \in Nat, NEW b \in Nat,
         a = Len(s), b = Len(t)
  PROVE  Joined(s \o t, s, t, a, b)
  BY DEF Joined

(* The first n items of t are the records after number k. *)
AreRecs(t, k, n) == \A i \in 1 .. n : t[i].kind = "rec" /\ t[i].val = k + i

LEMMA AppendedRows ==
  ASSUME NEW d \in [Names -> Seq(Entry)], NEW f \in Names, NEW s \in Seq(Entry), s = d[f],
         NEW a \in Nat, NEW k \in Nat, NEW n \in Nat, NEW t, NEW u, Joined(u, s, t, a, n),
         AreRecs(t, k, n)
  PROVE  RowsAdded(d, [d EXCEPT ![f] = u], f, a, k, n)
<1> DEFINE e == [d EXCEPT ![f] = u]
<1> SUFFICES ASSUME NEW m \in Names, NEW i \in Nat, NEW v \in Nat
             PROVE  IsRow(e, m, i, v) <=>
                      IsRow(d, m, i, v) \/ (m = f /\ \E j \in 1 .. n : i = a + j /\ v = k + j)
  BY DEF RowsAdded
<1>1. e[f] = u /\ (m # f => e[m] = d[m])
  OBVIOUS
<1> HIDE DEF e
<1>2. CASE m # f
  BY <1>1, <1>2 DEF IsRow
<1>3. CASE m = f
  <2>1. IsRow(e, m, i, v) <=> i \in 1 .. a + n /\ u[i].kind = "rec" /\ u[i].val = v
    BY <1>1, <1>3 DEF IsRow, Joined
  <2>2. IsRow(d, m, i, v) <=> i \in 1 .. a /\ s[i].kind = "rec" /\ s[i].val = v
    BY <1>3 DEF IsRow, Joined
  <2>3. CASE i \in 1 .. a
    <3>1. u[i] = s[i] /\ i \in 1 .. a + n /\ ~ \E j \in 1 .. n : i = a + j
      BY <2>3 DEF Joined
    <3> QED BY <2>1, <2>2, <2>3, <3>1
  <2>4. CASE i \in a + 1 .. a + n
    <3>1. PICK x \in 1 .. n : x = i - a /\ i = a + x
      <4>1. i - a \in 1 .. n /\ i = a + (i - a)
        BY <2>4
      <4> QED BY <4>1
    <3>2. u[i] = t[x]
      BY <2>4, <3>1 DEF Joined
    <3>3. u[i].kind = "rec" /\ u[i].val = k + x
      BY <3>2 DEF AreRecs
    <3>4. i \in 1 .. a + n /\ i \notin 1 .. a /\ \A j \in 1 .. n : i = a + j => j = x
      BY <2>4, <3>1
    <3> QED BY <1>3, <2>1, <2>2, <3>1, <3>3, <3>4
  <2>5. CASE i \notin 1 .. a + n
    <3>1. i \notin 1 .. a /\ ~ \E j \in 1 .. n : i = a + j
      BY <2>5
    <3> QED BY <2>1, <2>2, <2>5, <3>1
  <2>6. i \in 1 .. a \/ i \in a + 1 .. a + n \/ i \notin 1 .. a + n
    OBVIOUS
  <2> QED BY <2>3, <2>4, <2>5, <2>6
<1> QED BY <1>2, <1>3 DEF e

LEMMA AppendedUnderHeader ==
  ASSUME NEW s, UnderOurHeader(s), NEW a \in Nat, a > 0, a = Len(s), NEW n \in Nat, NEW t,
         NEW u \in Seq(Entry), Joined(u, s, t, a, n), \A i \in 1 .. n : t[i].kind = "rec"
  PROVE  UnderOurHeader(u)
<1>1. Len(u) = a + n /\ u[1] = Header
  BY DEF UnderOurHeader, Joined
<1>2. ASSUME NEW i \in 2 .. a + n PROVE u[i].kind \in {"rec", "torn"}
  <2>1. CASE i <= a
    <3>1. i \in 2 .. a /\ u[i] = s[i]
      BY <2>1 DEF Joined
    <3> QED BY <3>1 DEF UnderOurHeader
  <2>2. CASE i > a
    <3>1. i \in a + 1 .. a + n /\ i - a \in 1 .. n
      BY <2>2
    <3>2. u[i] = t[i - a]
      BY <3>1 DEF Joined
    <3> QED BY <3>1, <3>2
  <2> QED BY <2>1, <2>2
<1> QED BY <1>1, <1>2 DEF UnderOurHeader

LEMMA PutRecordsIs ==
  ASSUME NEW format, NEW io, NEW k \in Nat, FilesOK(format, io, k), io.file.open, io.file.good,
         NEW n \in Nat, NEW ids, IsBatch(ids, k, n)
  PROVE  /\ FilesOK(format, Put(io, Recs(ids)), k + n)
         /\ Put(io, Recs(ids)).file = io.file /\ Put(io, Recs(ids)).reused = io.reused
         /\ Gapless(io, k) => Gapless(Put(io, Recs(ids)), k + n)
<1>1. PICK t \in Seq(Entry) :
        t = Recs(ids) /\ Len(t) = n
        /\ \A i \in 1 .. n : t[i].kind = "rec" /\ t[i].val = k + i
  BY RecsAre
<1>2. PICK d \in [Names -> Seq(Entry)], f \in Names, sec \in Nat :
        d = io.disk /\ f = io.file.name /\ sec = io.file.section /\ InOrder(d, k)
  BY DEF FilesOK, IoType, FileType
<1>3. PICK s \in Seq(Entry), a \in Nat, u \in Seq(Entry) :
        s = d[f] /\ a = Len(s) /\ u = s \o t /\ Joined(u, s, t, a, n)
  <2>1. d[f] \in Seq(Entry) /\ Len(d[f]) \in Nat /\ d[f] \o t \in Seq(Entry)
    OBVIOUS
  <2> QED BY <1>1, <2>1, Joins
<1> DEFINE p == Put(io, t)
           e == [d EXCEPT ![f] = u]
<1>4. /\ p \in IoType /\ p.file = io.file /\ p.filename = io.filename /\ p.reused = io.reused
      /\ p.disk = e
  <2>1. io \in IoType
    BY DEF FilesOK
  <2> QED BY <1>2, <1>3, <2>1, PutIs
<1> HIDE DEF p
<1>5. RowsAdded(d, e, f, a, k, n)
  <2>1. AreRecs(t, k, n)
    BY <1>1 DEF AreRecs
  <2> QED BY ONLY <1>3, <2>1, AppendedRows, k \in Nat, n \in Nat
<1>6. RowsUpTo(d, f, a)
  BY <1>3 DEF RowsUpTo, IsRow
<1>7. e[f] = u /\ \A m \in Names \ {f} : e[m] = d[m]
  OBVIOUS
<1> HIDE DEF e
<1>8. InOrder(e, k + n)
  BY <1>2, <1>5, <1>6, AddedInOrder
<1>9. ASSUME format = "cbf" PROVE FormatOK(format, p)
  <2>1. sec > 0 => sec + 1 \in DOMAIN s /\ s[sec + 1].kind = "data"
    BY <1>2, <1>3, <1>9 DEF FilesOK, FormatOK
  <2>2. sec > 0 => sec + 1 \in DOMAIN u /\ u[sec + 1] = s[sec + 1]
    BY <1>3, <2>1 DEF Joined
  <2> QED BY <1>2, <1>4, <1>7, <1>9, <2>1, <2>2 DEF FormatOK
<1>10. ASSUME format = "csv" PROVE FormatOK(format, p)
  <2>1. UnderOurHeader(s) /\ io.file.flushed > 0 /\ sec = 0 /\ \A m \in Names : Uniform(d[m])
    BY <1>2, <1>3, <1>10 DEF FilesOK, FormatOK
  <2>2. a > 0
    BY <1>3, <2>1 DEF UnderOurHeader
  <2>3. UnderOurHeader(u)
    BY <1>1, <1>3, <2>1, <2>2, AppendedUnderHeader
  <2>4. \A m \in Names : Uniform(e[m])
    <3>1. Uniform(u)
      BY <2>3 DEF UnderOurHeader, Uniform
    <3> QED BY <1>7, <2>1, <3>1
  <2> QED BY <1>2, <1>4, <1>7, <1>10, <2>1, <2>3, <2>4 DEF FormatOK
<1>11. FormatOK(format, p)
  BY <1>9, <1>10 DEF FilesOK, FormatOK
<1>12. ASSUME Gapless(io, k) PROVE Gapless(p, k + n)
  <2>1. f = io.filename /\ Complete(d, k) /\ LatestIn(d, f)
    BY <1>2, <1>12 DEF Gapless
  <2>2. Complete(e, k + n) /\ LatestIn(e, f)
    BY <1>2, <1>5, <2>1, AddedGapless
  <2> QED BY <1>2, <1>4, <2>1, <2>2 DEF Gapless
<1> QED BY <1>1, <1>4, <1>8, <1>11, <1>12 DEF FilesOK, p

(* The records of a batch, and what is counted with them. *)
LEMMA WrittenIs ==
  ASSUME writer.format \in {"cbf", "csv"}, NEW io, NEW k \in Nat, FilesOK(writer.format, io, k),
         Accepts(io), NEW n \in Nat, NEW ids, IsBatch(ids, k, n)
  PROVE  /\ FilesOK(writer.format, Written(io, ids), k + n)
         /\ Written(io, ids).reused = io.reused
         /\ io.file.good /\ Gapless(io, k) =>
              /\ Written(io, ids).file.open /\ Written(io, ids).file.good
              /\ Gapless(Written(io, ids), k + n)
<1> DEFINE p == Put(io, Recs(ids))
           w == IF writer.format = "cbf" THEN WriteRecords(io, ids) ELSE p
           c == IF writer.limit > 0 THEN w.count + Len(ids) ELSE w.count
           q == Written(io, ids)
<1>1. io.file.open /\ (writer.format = "csv" => io.file.good) /\ io \in IoType
  BY DEF Accepts, FilesOK
<1>2. /\ FilesOK(writer.format, p, k + n) /\ p.file = io.file /\ p.reused = io.reused
      /\ io.file.good /\ Gapless(io, k) => Gapless(p, k + n)
  <2>1. CASE io.file.good
    BY <1>1, <2>1, PutRecordsIs
  <2>2. CASE ~ io.file.good
    <3>1. p = io
      BY <2>2 DEF Put
    <3> QED BY <2>2, <3>1, LaterIsFine
  <2> QED BY <2>1, <2>2
<1>3. Len(ids) = n
  BY RecsAre
<1>4. /\ FilesOK(writer.format, w, k + n) /\ w.reused = p.reused /\ w.disk = p.disk
      /\ w.file.open = p.file.open /\ w.file.good = p.file.good /\ w.filename = p.filename
      /\ w.file.name = p.file.name
  <2>1. CASE writer.format = "csv"
    BY <1>2, <2>1
  <2>2. CASE writer.format = "cbf"
    <3> DEFINE g == [p.file EXCEPT !.written = p.file.written + n]
    <3>1. p \in IoType /\ p.file \in FileType
      BY <1>2 DEF FilesOK, IoType
    <3>2. w = [p EXCEPT !.file = g]
      BY <1>3, <2>2 DEF WriteRecords
    <3>3. /\ g \in FileType /\ g.open = p.file.open /\ g.good = p.file.good
          /\ g.section = p.file.section /\ g.name = p.file.name
      BY <3>1 DEF FileType
    <3> HIDE DEF p, g, w
    <3>4. /\ w \in IoType /\ w.disk = p.disk /\ w.file = g /\ w.filename = p.filename
          /\ w.reused = p.reused
      BY <3>1, <3>2, <3>3, FileReplaced
    <3>5. FormatOK("cbf", w)
      BY <1>2, <2>2, <3>3, <3>4 DEF FilesOK, FormatOK
    <3> QED BY <1>2, <2>2, <3>3, <3>4, <3>5 DEF FilesOK
  <2> QED BY <2>1, <2>2
<1>5. c \in Nat
  BY <1>3, <1>4 DEF FilesOK, IoType
<1>6. q = [w EXCEPT !.count = c]
  BY DEF Written
<1> HIDE DEF p, w, c, q
<1>7. /\ FilesOK(writer.format, q, k + n) /\ q.filename = w.filename /\ q.disk = w.disk
      /\ q.file = w.file /\ q.reused = w.reused
  BY <1>4, <1>5, <1>6, Recounted
<1>8. Gapless(p, k + n) => Gapless(q, k + n)
  BY <1>4, <1>7 DEF Gapless
<1> QED BY <1>1, <1>2, <1>4, <1>7, <1>8 DEF q
-----------------------------------------------------------------------------
(* What is left of a file whose end is lost.                                *)
(* e is d with file f cut off after item n. *)
RowsCut(d, e, f, n) ==
  \A m \in Names : \A i, v \in Nat :
    IsRow(e, m, i, v) <=> IsRow(d, m, i, v) /\ (m = f => i <= n)

(* Some record is in a file; and with each record those before it are.      *)
Held(d, v) == \E m \in Names : \E i \in Nat : IsRow(d, m, i, v)

NoGap(d) == \A u, v \in Nat : 0 < u /\ u <= v /\ Held(d, v) => Held(d, u)

LEMMA CutInOrder ==
  ASSUME NEW d, NEW e, NEW f \in Names, NEW n \in Nat, NEW k \in Nat, RowsCut(d, e, f, n),
         InOrder(d, k)
  PROVE  InOrder(e, k)
  BY DEF RowsCut, InOrder

LEMMA GaplessHasNoGap ==
  ASSUME NEW d, NEW k \in Nat, InOrder(d, k), Complete(d, k)
  PROVE  NoGap(d)
<1> SUFFICES ASSUME NEW u \in Nat, NEW v \in Nat, 0 < u, u <= v, Held(d, v) PROVE Held(d, u)
  BY DEF NoGap
<1>1. v <= k
  BY DEF Held, InOrder
<1>2. u \in 1 .. k
  BY <1>1
<1> QED BY <1>2 DEF Complete, Held

LEMMA CutHasNoGap ==
  ASSUME NEW d, NEW e, NEW f \in Names, NEW n \in Nat, NEW k \in Nat, RowsCut(d, e, f, n),
         InOrder(d, k), Complete(d, k), LatestIn(d, f)
  PROVE  NoGap(e)
<1> SUFFICES ASSUME NEW u \in Nat, NEW v \in Nat, 0 < u, u <= v, Held(e, v) PROVE Held(e, u)
  BY DEF NoGap
<1>1. PICK m \in Names, i \in Nat : IsRow(e, m, i, v)
  BY DEF Held
<1>2. IsRow(d, m, i, v) /\ (m = f => i <= n) /\ v <= k
  BY <1>1 DEF RowsCut, InOrder
<1>3. PICK l \in Names, j \in Nat : IsRow(d, l, j, u)
  <2>1. u \in 1 .. k
    BY <1>2
  <2> QED BY <2>1 DEF Complete
<1>4. CASE l # f
  <2>1. IsRow(e, l, j, u)
    BY <1>3, <1>4 DEF RowsCut
  <2> QED BY <2>1 DEF Held
<1>5. CASE l = f /\ m # f
  <2>1. v < u
    BY <1>2, <1>3, <1>5 DEF LatestIn
  <2> QED BY <2>1
<1>6. CASE l = f /\ m = f
  <2>1. j <= i
    <3>1. i < j => v < u
      BY <1>2, <1>3, <1>6 DEF InOrder
    <3> QED BY <3>1
  <2>2. j <= n
    BY <1>2, <1>6, <2>1
  <2>3. IsRow(e, l, j, u)
    BY <1>3, <2>2 DEF RowsCut
  <2> QED BY <2>3 DEF Held
<1> QED BY <1>4, <1>5, <1>6

LEMMA RemainsAre ==
  ASSUME NEW s \in Seq(Entry), NEW fl \in Nat, NEW rest \in Remains(s, fl)
  PROVE  /\ rest \in Seq(Entry)
         /\ \E n \in Nat :
              /\ fl <= n /\ n <= Len(s)
              /\ \/ rest = SubSeq(s, 1, n)
                 \/ rest = Append(SubSeq(s, 1, n), Torn)
<1>1. PICK n \in fl .. Len(s) : rest = SubSeq(s, 1, n) \/ rest = Append(SubSeq(s, 1, n), Torn)
  BY DEF Remains
<1>2. n \in Nat /\ n <= Len(s) /\ fl <= n
  OBVIOUS
<1>3. SubSeq(s, 1, n) \in Seq(Entry)
  BY <1>2
<1>4. Append(SubSeq(s, 1, n), Torn) \in Seq(Entry)
  BY <1>3, EntryTypes
<1> QED BY <1>1, <1>2, <1>3, <1>4

(* What is left of s after item n. *)
CutTo(rest, s, n) ==
  /\ \A i \in 1 .. n : i \in DOMAIN rest /\ rest[i] = s[i]
  /\ \A i \in DOMAIN rest : i \in 1 .. n \/ (i = n + 1 /\ rest[i] = Torn)

LEMMA RemainsCut ==
  ASSUME NEW s \in Seq(Entry), NEW n \in Nat, n <= Len(s), NEW rest,
         rest = SubSeq(s, 1, n) \/ rest = Append(SubSeq(s, 1, n), Torn)
  PROVE  CutTo(rest, s, n)
<1> DEFINE p == SubSeq(s, 1, n)
<1>1. p \in Seq(Entry) /\ Len(p) = n /\ \A i \in 1 .. n : p[i] = s[i]
  OBVIOUS
<1> HIDE DEF p
<1>2. CASE rest = p
  BY <1>1, <1>2 DEF CutTo
<1>3. CASE rest = Append(p, Torn)
  <2>1. Len(rest) = n + 1 /\ rest \in Seq(Entry) /\ rest[n + 1] = Torn
        /\ \A i \in 1 .. n : rest[i] = p[i]
    BY <1>1, <1>3, EntryTypes
  <2> QED BY <1>1, <2>1 DEF CutTo
<1> QED BY <1>2, <1>3 DEF p

LEMMA CutRows ==
  ASSUME NEW d \in [Names -> Seq(Entry)], NEW f \in Names, NEW n \in Nat, n <= Len(d[f]),
         NEW rest, CutTo(rest, d[f], n)
  PROVE  RowsCut(d, [d EXCEPT ![f] = rest], f, n)
<1> DEFINE e == [d EXCEPT ![f] = rest]
<1> SUFFICES ASSUME NEW m \in Names, NEW i \in Nat, NEW v \in Nat
             PROVE  IsRow(e, m, i, v) <=> IsRow(d, m, i, v) /\ (m = f => i <= n)
  BY DEF RowsCut
<1>1. e[f] = rest /\ (m # f => e[m] = d[m])
  OBVIOUS
<1> HIDE DEF e
<1>2. CASE m # f
  BY <1>1, <1>2 DEF IsRow
<1>3. CASE m = f
  <2>1. CASE i \in 1 .. n
    <3>1. i \in DOMAIN d[f] /\ i \in DOMAIN rest /\ rest[i] = d[f][i] /\ i <= n
      BY <2>1 DEF CutTo
    <3> QED BY <1>1, <1>3, <3>1 DEF IsRow
  <2>2. CASE i \notin 1 .. n
    <3>1. ~ IsRow(e, m, i, v)
      BY <1>1, <1>3, <2>2, EntryKinds DEF IsRow, CutTo
    <3>2. ~ (IsRow(d, m, i, v) /\ i <= n)
      BY <1>3, <2>2 DEF IsRow
    <3> QED BY <1>3, <3>1, <3>2
  <2> QED BY <2>1, <2>2
<1> QED BY <1>2, <1>3 DEF e

LEMMA CutUnderHeader ==
  ASSUME NEW s \in Seq(Entry), NEW n \in Nat, 0 < n, n <= Len(s), NEW rest \in Seq(Entry),
         CutTo(rest, s, n), UnderOurHeader(s)
  PROVE  UnderOurHeader(rest)
<1>1. rest # <<>> /\ rest[1] = Header
  BY DEF CutTo, UnderOurHeader
<1>2. ASSUME NEW i \in 2 .. Len(rest) PROVE rest[i].kind \in {"rec", "torn"}
  <2>1. i \in DOMAIN rest
    OBVIOUS
  <2>2. CASE i \in 1 .. n
    <3>1. rest[i] = s[i] /\ i \in 2 .. Len(s)
      BY <2>2 DEF CutTo
    <3> QED BY <3>1 DEF UnderOurHeader
  <2>3. CASE rest[i] = Torn
    BY <2>3, EntryKinds
  <2> QED BY <2>1, <2>2, <2>3 DEF CutTo
<1> QED BY <1>1, <1>2 DEF UnderOurHeader
-----------------------------------------------------------------------------
(* The inductive invariant: the recorder while it lives, the disk after a   *)
(* crash.                                                                   *)
WriterType ==
  writer \in [format : {"cbf", "csv"}, suffix : BOOLEAN, limit : Nat, filename : Names,
              count : Nat, restart : BOOLEAN, file : FileType]

(* The batch the worker is consuming is the last one that was read.         *)
BatchOK ==
  /\ reader.cursor \in Nat
  /\ IF con.worker = "consuming"
       THEN \E n \in Nat : n <= reader.cursor /\ IsBatch(con.batch, reader.cursor - n, n)
       ELSE con.batch = <<>>
  /\ ~ con.joinable => con.worker \in {"none", "ended"}

Consumed == reader.cursor - Len(con.batch)

InFiles == con.worker \in {"loop", "reading", "consuming", "leaving", "stopping"}

Clean == ~ reused /\ faults = 0

RecorderInv ==
  /\ FilesOK(writer.format, Io, Consumed)
  /\ Clean => Gapless(Io, Consumed) /\ (InFiles => writer.file.open /\ writer.file.good)

CrashedInv ==
  /\ disk \in [Names -> Seq(Entry)]
  /\ \E k \in Nat : InOrder(disk, k)
  /\ Clean => NoGap(disk)
  /\ writer.format = "csv" => \A n \in Names : Uniform(disk[n])

FilesInv ==
  Recording =>
    /\ WriterType /\ BatchOK /\ clock \in Nat \ {0} /\ faults \in Nat
    /\ IF crashed THEN CrashedInv ELSE RecorderInv

(* The last step of a hook. *)
LEMMA BecomesIs ==
  ASSUME WriterType, NEW q \in IoType, NEW b \in BOOLEAN, Becomes(q, b)
  PROVE  /\ WriterType' /\ Io' = q /\ writer'.format = writer.format
         /\ writer'.file = q.file /\ reused' = q.reused
<1>1. /\ disk' = q.disk /\ reused' = q.reused
      /\ writer' = [writer EXCEPT !.file = q.file, !.filename = q.filename,
                                  !.count = q.count, !.restart = b]
  BY DEF Becomes
<1>2. q.file \in FileType /\ q.filename \in Names /\ q.count \in Nat
  BY DEF IoType
<1>3. /\ writer'.file = q.file /\ writer'.filename = q.filename /\ writer'.count = q.count
      /\ writer'.format = writer.format
  BY <1>1 DEF WriterType
<1>4. WriterType'
  BY <1>1, <1>2 DEF WriterType
<1>5. q = [disk |-> q.disk, file |-> q.file, filename |-> q.filename, count |-> q.count,
           reused |-> q.reused]
  BY DEF IoType
<1>6. Io' = q
  BY <1>1, <1>3, <1>5 DEF Io
<1> QED BY <1>1, <1>3, <1>4, <1>6

LEMMA StampsAre ==
  ASSUME NEW now \in Nat \ {0}, NEW stamp \in StampsFrom(now)
  PROVE  stamp \in Names /\ stamp \in Nat \ {0}
<1> DEFINE top == Min({now + 1, MaxStamp})
<1>1. top \in Int /\ top <= MaxStamp
  <2>1. MaxStamp \in Nat
    BY FilesAssumption
  <2>2. \E x \in {now + 1, MaxStamp} : \A y \in {now + 1, MaxStamp} : x <= y
    BY <2>1
  <2>3. top \in {now + 1, MaxStamp} /\ \A y \in {now + 1, MaxStamp} : top <= y
    BY <2>2 DEF Min
  <2> QED BY <2>1, <2>3
<1> HIDE DEF top
<1>2. stamp \in now .. top
  BY DEF StampsFrom, top
<1> QED BY <1>1, <1>2, FilesAssumption DEF Names

(* A hook that leaves the recorder as it should be. *)
LEMMA HookKeeps ==
  ASSUME WriterType, RecorderInv, NEW q, NEW b \in BOOLEAN, Becomes(q, b),
         NEW k \in Nat, FilesOK(writer.format, q, k), Consumed' = k,
         faults \in Nat, faults' \in Nat,
         Clean' => Gapless(q, k) /\ (InFiles' => q.file.open /\ q.file.good)
  PROVE  WriterType' /\ RecorderInv'
<1>1. q \in IoType
  BY DEF FilesOK
<1>2. /\ WriterType' /\ Io' = q /\ writer'.format = writer.format /\ writer'.file = q.file
      /\ reused' = q.reused
  BY <1>1, BecomesIs
<1>3. FilesOK(writer'.format, Io', Consumed')
  BY <1>2
<1> QED BY <1>2, <1>3 DEF RecorderInv

(* Steps of the consumer without a hook. *)
LEMMA ConsumerKeeps ==
  ASSUME ConsumerType, BatchOK,
         ConsumerUser \/ SourcePushes \/ WorkerChecks \/ WorkerReads \/ WorkerLeaves
  PROVE  BatchOK' /\ Consumed' = Consumed /\ (InFiles' => InFiles)
<1>1. CASE ConsumerUser
  <2>1. reader'.cursor = reader.cursor /\ con'.batch = con.batch
    BY <1>1 DEF ConsumerType, ConsumerUser, StartConsumer, StopConsumer, StopReader, StopJoin,
       DestroyConsumer, BeginFinish, FinishReader, FinishJoin, Destroyed
  <2>2. \/ con'.worker = con.worker /\ (~ con'.joinable => ~ con.joinable \/ con.worker = "ended")
        \/ con'.worker = "starting" /\ con'.joinable /\ ~ con.joinable
    BY <1>1 DEF ConsumerType, ConsumerUser, StartConsumer, StopConsumer, StopReader, StopJoin,
       DestroyConsumer, BeginFinish, FinishReader, FinishJoin, Destroyed
  <2> QED BY <2>1, <2>2 DEF BatchOK, Consumed, InFiles
<1>2. CASE SourcePushes
  BY <1>2 DEF SourcePushes, BatchOK, Consumed, InFiles
<1>3. CASE WorkerChecks \/ WorkerLeaves
  <2>1. /\ con.worker \in {"loop", "leaving"} /\ con'.worker \in {"reading", "leaving", "stopping"}
        /\ con'.batch = con.batch /\ con'.joinable = con.joinable /\ UNCHANGED reader
    BY <1>3 DEF ConsumerType, WorkerChecks, WorkerLeaves, WorkerGoes
  <2>2. con.batch = <<>> /\ con'.batch = <<>> /\ reader'.cursor = reader.cursor /\ con.joinable
    BY <2>1 DEF BatchOK
  <2>3. BatchOK'
    BY <2>1, <2>2 DEF BatchOK
  <2>4. InFiles /\ Consumed' = Consumed
    BY <2>1, <2>2 DEF Consumed, InFiles
  <2> QED BY <2>3, <2>4
<1>4. CASE WorkerReads
  <2>1. /\ con.worker = "reading" /\ con.batch = <<>> /\ con'.joinable = con.joinable /\ con.joinable
    BY <1>4 DEF ConsumerType, WorkerReads, BatchOK
  <2>2. CASE con'.worker = "leaving" /\ con'.batch = con.batch /\ UNCHANGED reader
    BY <2>1, <2>2 DEF BatchOK, Consumed, InFiles
  <2>3. ASSUME NEW n \in Nat, con'.worker = "consuming", reader'.cursor = reader.cursor + n,
               con'.batch = [i \in 1 .. n |-> reader.cursor + i]
        PROVE  BatchOK' /\ Consumed' = Consumed /\ (InFiles' => InFiles)
    <3>1. reader.cursor \in Nat
      BY DEF BatchOK
    <3>2. Len(con'.batch) = n /\ Len(con.batch) = 0
      BY <2>1, <2>3
    <3>3. reader'.cursor - n = reader.cursor /\ n <= reader'.cursor /\ reader'.cursor \in Nat
      BY <2>3, <3>1
    <3>4. IsBatch(con'.batch, reader'.cursor - n, n)
      BY <2>3, <3>3 DEF IsBatch
    <3>5. BatchOK'
      BY <2>1, <2>3, <3>3, <3>4 DEF BatchOK
    <3>6. Consumed' = Consumed
      BY <3>1, <3>2, <3>3 DEF Consumed
    <3> QED BY <2>1, <3>5, <3>6 DEF InFiles
  <2>4. CASE \E n \in 1 .. Min({ReaderBatch, source - reader.cursor}) :
               /\ con' = [con EXCEPT !.worker = "consuming",
                                     !.batch = [i \in 1 .. n |-> reader.cursor + i]]
               /\ reader' = [reader EXCEPT !.cursor = @ + n]
    <3> DEFINE m == Min({ReaderBatch, source - reader.cursor})
    <3> HIDE DEF m
    <3>1. PICK n \in 1 .. m :
            /\ con' = [con EXCEPT !.worker = "consuming",
                                  !.batch = [i \in 1 .. n |-> reader.cursor + i]]
            /\ reader' = [reader EXCEPT !.cursor = @ + n]
      BY <2>4 DEF m
    <3>2. n \in Nat
      OBVIOUS
    <3>3. con'.worker = "consuming" /\ con'.batch = [i \in 1 .. n |-> reader.cursor + i]
          /\ reader'.cursor = reader.cursor + n
      BY <3>1 DEF ConsumerType
    <3> QED BY <2>3, <3>2, <3>3
  <2>5. CASE con' = [con EXCEPT !.worker = "leaving"] /\ UNCHANGED reader
    BY <2>2, <2>5 DEF ConsumerType
  <2> QED BY <1>4, <2>4, <2>5 DEF WorkerReads
<1> QED BY <1>1, <1>2, <1>3, <1>4

LEMMA OpenedIs ==
  ASSUME faults \in Nat, NEW opens \in BOOLEAN, Opened(opens)
  PROVE  faults' \in Nat /\ (faults' = 0 => faults = 0 /\ opens)
  BY DEF Opened

(* onConsumeStart opens the first file. *)
LEMMA StartHook ==
  ASSUME ConsumerType, WriterType, BatchOK, RecorderInv, clock \in Nat \ {0}, faults \in Nat,
         WorkerGoes("starting", "loop"), OnConsumeStart
  PROVE  WriterType' /\ BatchOK' /\ RecorderInv' /\ clock' \in Nat \ {0} /\ faults' \in Nat
<1>1. PICK opens \in Outcomes, stamp \in StampsFrom(clock) :
        /\ Becomes(IF writer.format = "cbf" THEN OpenCbf(Io, opens) ELSE SetupCsv(Io, opens, stamp),
                   writer.restart)
        /\ clock' = stamp /\ Opened(opens)
  BY DEF OnConsumeStart
<1> DEFINE q == IF writer.format = "cbf" THEN OpenCbf(Io, opens) ELSE SetupCsv(Io, opens, stamp)
           k == Consumed
<1>2. opens \in BOOLEAN /\ stamp \in Names /\ stamp \in Nat \ {0}
  BY StampsAre DEF Outcomes
<1>3. con.worker = "starting" /\ con'.worker = "loop" /\ con'.batch = con.batch
      /\ con'.joinable = con.joinable /\ UNCHANGED reader
  BY DEF ConsumerType, WorkerGoes
<1>4. BatchOK' /\ Consumed' = k /\ k \in Nat
  BY <1>3 DEF BatchOK, Consumed
<1>5. FilesOK(writer.format, Io, k) /\ writer.format \in {"cbf", "csv"} /\ writer.restart \in BOOLEAN
  BY DEF RecorderInv, WriterType
<1> HIDE DEF k
<1>6. FilesOK(writer.format, q, k) /\ (opens => GoesOn(Io, q, k))
  <2>1. CASE writer.format = "csv"
    BY <1>2, <1>4, <1>5, <2>1, SetupCsvIs
  <2>2. CASE writer.format = "cbf" /\ opens
    <3>1. FilesOK("cbf", q, k) /\ \E s : Truncated(Io, q, s)
      BY <1>4, <1>5, <2>2, OpenCbfIs
    <3>2. PICK s : Truncated(Io, q, s)
      BY <3>1
    <3>3. Io \in IoType
      BY <1>5 DEF FilesOK
    <3>4. ~ q.reused => /\ ~ Io.reused /\ q.file.open /\ q.file.good
                        /\ Complete(Io.disk, k) => Gapless(q, k)
      BY <1>4, <3>2, <3>3, OpenedGoesOn
    <3> QED BY <2>2, <3>1, <3>4 DEF GoesOn, Gapless
  <2>3. CASE writer.format = "cbf" /\ ~ opens
    <3>1. opens = FALSE
      BY <1>2, <2>3
    <3>2. q = OpenCbf(Io, FALSE)
      BY <2>3, <3>1
    <3>3. FilesOK("cbf", OpenCbf(Io, FALSE), k)
      BY <1>4, <1>5, <2>3, NotOpened
    <3> QED BY <2>3, <3>2, <3>3
  <2> QED BY <1>2, <1>5, <2>1, <2>2, <2>3
<1>7. Becomes(q, writer.restart) /\ Opened(opens) /\ clock' = stamp
  BY <1>1
<1> HIDE DEF q
<1>8. q \in IoType /\ reused' = q.reused /\ Io.reused = reused
  BY <1>6, <1>7 DEF FilesOK, Becomes, Io
<1>9. faults' \in Nat /\ (faults' = 0 => faults = 0 /\ opens)
  BY <1>2, <1>7, OpenedIs
<1>10. Clean' => Gapless(q, k) /\ q.file.open /\ q.file.good
  <2> SUFFICES ASSUME Clean' PROVE Gapless(q, k) /\ q.file.open /\ q.file.good
    OBVIOUS
  <2>1. ~ q.reused /\ opens /\ faults = 0
    BY <1>8, <1>9 DEF Clean
  <2>2. Clean /\ (Gapless(Io, k) => q.file.open /\ q.file.good /\ Gapless(q, k))
    BY <1>6, <1>8, <2>1 DEF GoesOn, Clean
  <2> QED BY <2>2 DEF RecorderInv, k
<1>11. WriterType' /\ RecorderInv'
  BY <1>4, <1>5, <1>6, <1>7, <1>9, <1>10, HookKeeps
<1> QED BY <1>2, <1>4, <1>7, <1>9, <1>11

(* A rotation that was asked for or is due, and a batch that is written or  *)
(* dropped.                                                                 *)
LEMMA RotationIs ==
  ASSUME writer.format \in {"cbf", "csv"}, NEW io, NEW k \in Nat, FilesOK(writer.format, io, k),
         NEW opens \in BOOLEAN, NEW stamp \in Names, NEW asked \in BOOLEAN,
         NEW q, q = IF asked THEN Rotate(io, opens, stamp) ELSE io
  PROVE  /\ FilesOK(writer.format, q, k)
         /\ (asked => opens) /\ ~ q.reused =>
              /\ ~ io.reused
              /\ Gapless(io, k) /\ io.file.open /\ io.file.good =>
                   q.file.open /\ q.file.good /\ Gapless(q, k)
<1>1. CASE asked
  <2>1. q = Rotate(io, opens, stamp)
    BY <1>1
  <2>2. FilesOK(writer.format, Rotate(io, opens, stamp), k)
        /\ (opens => GoesOn(io, Rotate(io, opens, stamp), k))
    BY RotateIs
  <2> QED BY <1>1, <2>1, <2>2 DEF GoesOn
<1>2. CASE ~ asked
  BY <1>2
<1> QED BY <1>1, <1>2

LEMMA ConsumingIs ==
  ASSUME writer.format \in {"cbf", "csv"}, NEW io, NEW k \in Nat, FilesOK(writer.format, io, k),
         NEW n \in Nat, NEW ids, IsBatch(ids, k, n),
         NEW q, q = IF Accepts(io) THEN Written(io, ids) ELSE io
  PROVE  /\ FilesOK(writer.format, q, k + n)
         /\ ~ q.reused => ~ io.reused
         /\ Gapless(io, k) /\ io.file.open /\ io.file.good =>
              q.file.open /\ q.file.good /\ Gapless(q, k + n)
<1>1. CASE Accepts(io)
  <2>1. q = Written(io, ids)
    BY <1>1
  <2> QED BY <1>1, <2>1, WrittenIs
<1>2. CASE ~ Accepts(io)
  <2>1. q = io
    BY <1>2
  <2>2. FilesOK(writer.format, q, k + n)
    BY <2>1, LaterIsFine
  <2>3. ~ (io.file.open /\ io.file.good)
    BY <1>2 DEF Accepts
  <2> QED BY <2>1, <2>2, <2>3
<1> QED BY <1>1, <1>2

LEMMA StampedLater ==
  ASSUME NEW now \in Nat \ {0}, NEW first \in StampsFrom(now), NEW second \in StampsFrom(first)
  PROVE  /\ first \in Names /\ first \in Nat \ {0}
         /\ second \in Names /\ second \in Nat \ {0}
<1>1. first \in Names /\ first \in Nat \ {0}
  BY StampsAre
<1>2. second \in Names /\ second \in Nat \ {0}
  BY <1>1, StampsAre
<1> QED BY <1>1, <1>2

(* consumeBatch. *)
LEMMA ConsumeHook ==
  ASSUME ConsumerType, WriterType, BatchOK, RecorderInv, clock \in Nat \ {0}, faults \in Nat,
         WorkerConsumes, ConsumeBatch
  PROVE  WriterType' /\ BatchOK' /\ RecorderInv' /\ clock' \in Nat \ {0} /\ faults' \in Nat
<1>1. PICK opens \in Outcomes, opensNext \in Outcomes, first \in StampsFrom(clock) :
        \E second \in StampsFrom(first) :
          LET ready == IF writer.restart THEN Rotate(Io, opens, first) ELSE Io
              more  == IF Accepts(ready) THEN Written(ready, con.batch) ELSE ready
              full  == Accepts(ready) /\ IsFull(more)
          IN  /\ Becomes(IF full THEN Rotate(more, opensNext, second) ELSE more, FALSE)
              /\ clock' = IF full THEN second ELSE IF writer.restart THEN first ELSE clock
              /\ Opened((writer.restart => opens) /\ (full => opensNext))
  BY DEF ConsumeBatch
<1> DEFINE ready == IF writer.restart THEN Rotate(Io, opens, first) ELSE Io
           more  == IF Accepts(ready) THEN Written(ready, con.batch) ELSE ready
           full  == Accepts(ready) /\ IsFull(more)
<1>2. PICK second \in StampsFrom(first) :
        /\ Becomes(IF full THEN Rotate(more, opensNext, second) ELSE more, FALSE)
        /\ clock' = IF full THEN second ELSE IF writer.restart THEN first ELSE clock
        /\ Opened((writer.restart => opens) /\ (full => opensNext))
  BY <1>1
<1> DEFINE q == IF full THEN Rotate(more, opensNext, second) ELSE more
           b == con.batch
<1>3. /\ first \in Names /\ first \in Nat \ {0} /\ second \in Names /\ second \in Nat \ {0}
      /\ opens \in BOOLEAN /\ opensNext \in BOOLEAN
  BY StampedLater DEF Outcomes
<1>4. con.worker = "consuming" /\ con'.worker = "loop" /\ con'.batch = <<>>
      /\ con'.joinable = con.joinable /\ UNCHANGED reader
  BY DEF ConsumerType, WorkerConsumes
<1>5. PICK n \in Nat : n <= reader.cursor /\ IsBatch(b, reader.cursor - n, n)
  BY <1>4 DEF BatchOK
<1> DEFINE k == reader.cursor - n
<1>6. k \in Nat /\ reader.cursor \in Nat /\ k + n = reader.cursor
  BY <1>5 DEF BatchOK
<1>7. Len(b) = n
  BY <1>5 DEF IsBatch
<1>8. Consumed = k
  BY <1>7 DEF Consumed
<1>9. BatchOK' /\ Consumed' = k + n
  <2>1. con'.worker # "consuming" /\ reader'.cursor \in Nat /\ Len(con'.batch) = 0
        /\ reader'.cursor = reader.cursor
    BY <1>4, <1>6
  <2>2. Consumed' = k + n
    BY <1>6, <2>1 DEF Consumed
  <2>3. con'.joinable
    BY <1>4 DEF BatchOK
  <2> QED BY <1>4, <2>1, <2>2, <2>3 DEF BatchOK
<1> HIDE DEF k
<1>10. FilesOK(writer.format, Io, k) /\ writer.format \in {"cbf", "csv"} /\ writer.restart \in BOOLEAN
  BY <1>8 DEF RecorderInv, WriterType
<1>11. /\ FilesOK(writer.format, ready, k)
       /\ (writer.restart => opens) /\ ~ ready.reused =>
            /\ ~ Io.reused
            /\ Gapless(Io, k) /\ Io.file.open /\ Io.file.good =>
                 ready.file.open /\ ready.file.good /\ Gapless(ready, k)
  BY <1>3, <1>6, <1>10, RotationIs
<1> HIDE DEF ready
<1>12. /\ FilesOK(writer.format, more, k + n)
       /\ ~ more.reused => ~ ready.reused
       /\ Gapless(ready, k) /\ ready.file.open /\ ready.file.good =>
            more.file.open /\ more.file.good /\ Gapless(more, k + n)
  BY <1>5, <1>6, <1>10, <1>11, ConsumingIs DEF k
<1> HIDE DEF more
<1>13. full \in BOOLEAN
  BY DEF Accepts
<1> HIDE DEF full
<1>14. /\ FilesOK(writer.format, q, k + n)
       /\ (full => opensNext) /\ ~ q.reused =>
            /\ ~ more.reused
            /\ Gapless(more, k + n) /\ more.file.open /\ more.file.good =>
                 q.file.open /\ q.file.good /\ Gapless(q, k + n)
  BY <1>3, <1>6, <1>10, <1>12, <1>13, RotationIs
<1> DEFINE fine == (writer.restart => opens) /\ (full => opensNext)
<1>15. Becomes(q, FALSE) /\ Opened(fine) /\ fine \in BOOLEAN
  BY <1>2
<1>16. clock' \in Nat \ {0}
  BY <1>2, <1>3
<1> HIDE DEF q
<1>17. q \in IoType /\ reused' = q.reused
  BY <1>14, <1>15 DEF FilesOK, Becomes
<1>18. faults' \in Nat /\ (faults' = 0 => faults = 0 /\ fine)
  <2> HIDE DEF fine
  <2> QED BY <1>15, OpenedIs
<1>19. Clean' => Gapless(q, k + n) /\ q.file.open /\ q.file.good
  <2> SUFFICES ASSUME Clean' PROVE Gapless(q, k + n) /\ q.file.open /\ q.file.good
    OBVIOUS
  <2>1. ~ q.reused /\ fine /\ faults = 0
    BY <1>17, <1>18 DEF Clean
  <2>2. ~ more.reused /\ ~ ready.reused /\ ~ Io.reused
    BY <1>11, <1>12, <1>14, <2>1
  <2>3. Clean /\ Io.file = writer.file
    BY <2>1, <2>2 DEF Clean, Io
  <2>4. Gapless(Io, k) /\ Io.file.open /\ Io.file.good
    BY <1>4, <1>8, <2>3 DEF RecorderInv, InFiles
  <2> QED BY <1>11, <1>12, <1>14, <2>1, <2>2, <2>4
<1>20. k + n \in Nat /\ writer'.restart = writer'.restart
  BY <1>6
<1>21. WriterType' /\ RecorderInv'
  BY <1>9, <1>14, <1>15, <1>18, <1>19, <1>20, HookKeeps
<1> QED BY <1>9, <1>16, <1>18, <1>21

(* onConsumeStop closes the file: nothing more is written. *)
LEMMA StopHook ==
  ASSUME ConsumerType, WriterType, BatchOK, RecorderInv, clock \in Nat \ {0}, faults \in Nat,
         WorkerGoes("stopping", "ended"), OnConsumeStop
  PROVE  WriterType' /\ BatchOK' /\ RecorderInv' /\ clock' \in Nat \ {0} /\ faults' \in Nat
<1> DEFINE q == CloseStream(Io)
           k == Consumed
<1>1. con.worker = "stopping" /\ con'.worker = "ended" /\ con'.batch = con.batch
      /\ con'.joinable = con.joinable /\ UNCHANGED reader
  BY DEF ConsumerType, WorkerGoes
<1>2. BatchOK' /\ Consumed' = k /\ k \in Nat
  BY <1>1 DEF BatchOK, Consumed
<1>3. FilesOK(writer.format, Io, k) /\ writer.format \in {"cbf", "csv"} /\ writer.restart \in BOOLEAN
      /\ Io.disk = disk /\ Io.reused = reused /\ Io.filename = writer.filename
  BY DEF RecorderInv, WriterType, Io
<1> HIDE DEF k
<1>4. Ended(writer.format, Io, q)
  BY <1>3, CloseStreamIs DEF FilesOK
<1>5. Becomes(q, writer.restart) /\ UNCHANGED <<clock, faults>>
  BY DEF OnConsumeStop
<1> HIDE DEF q
<1>6. FilesOK(writer.format, q, k)
  BY <1>2, <1>3, <1>4, EndedOK
<1>7. ~ InFiles'
  BY <1>1 DEF InFiles
<1>8. Clean' => Gapless(q, k)
  <2> SUFFICES ASSUME Clean' PROVE Gapless(q, k)
    OBVIOUS
  <2>1. reused' = q.reused /\ q.reused = Io.reused /\ ~ q.file.open /\ q.filename = Io.filename
        /\ SameRows(Io.disk, q.disk) /\ q \in IoType
    BY <1>4, <1>5 DEF Ended, Becomes
  <2>2. Clean
    BY <1>3, <1>5, <2>1 DEF Clean
  <2>3. Complete(Io.disk, k) /\ LatestIn(Io.disk, Io.filename)
    BY <2>2 DEF RecorderInv, Gapless, k
  <2>4. Io.filename \in Names
    BY <1>3 DEF FilesOK, IoType
  <2>5. Complete(q.disk, k) /\ LatestIn(q.disk, Io.filename)
    BY <1>2, <2>1, <2>3, <2>4, SameRowsGapless
  <2> QED BY <2>1, <2>5 DEF Gapless
<1>9. WriterType' /\ RecorderInv'
  BY <1>2, <1>3, <1>5, <1>6, <1>7, <1>8, HookKeeps
<1> QED BY <1>2, <1>5, <1>9

LEMMA ConsumedIs ==
  ASSUME BatchOK
  PROVE  Consumed \in Nat
<1>1. CASE con.worker = "consuming"
  <2>1. PICK n \in Nat : n <= reader.cursor /\ IsBatch(con.batch, reader.cursor - n, n)
    BY <1>1 DEF BatchOK
  <2>2. Len(con.batch) = n
    BY <2>1 DEF IsBatch
  <2> QED BY <2>1, <2>2 DEF BatchOK, Consumed
<1>2. CASE con.worker # "consuming"
  BY <1>2 DEF BatchOK, Consumed
<1> QED BY <1>1, <1>2

(* What is left of the open file when the disk or the process fails.        *)
LEMMA CutIs ==
  ASSUME WriterType, RecorderInv, NEW k \in Nat, k = Consumed, writer.file.open,
         NEW rest \in Remains(Content(Io), writer.file.flushed),
         NEW e, e = [disk EXCEPT ![writer.file.name] = rest]
  PROVE  /\ e \in [Names -> Seq(Entry)] /\ InOrder(e, k) /\ (Clean => NoGap(e))
         /\ writer.format = "csv" =>
              UnderOurHeader(e[writer.file.name]) /\ \A n \in Names : Uniform(e[n])
<1> DEFINE f == writer.file.name
           s == disk[f]
<1>1. /\ FilesOK(writer.format, Io, k) /\ Io.disk = disk /\ Io.file = writer.file
      /\ Io.filename = writer.filename
  BY DEF RecorderInv, Io
<1>2. disk \in [Names -> Seq(Entry)] /\ f \in Names /\ writer.file.flushed \in Nat /\ InOrder(disk, k)
  BY <1>1 DEF FilesOK, IoType, WriterType, FileType
<1>3. s \in Seq(Entry) /\ Content(Io) = s
  BY <1>1, <1>2 DEF Content
<1> HIDE DEF f, s
<1>4. PICK n \in Nat : /\ writer.file.flushed <= n /\ n <= Len(s)
                       /\ rest = SubSeq(s, 1, n) \/ rest = Append(SubSeq(s, 1, n), Torn)
  BY <1>2, <1>3, RemainsAre
<1>5. rest \in Seq(Entry)
  BY <1>2, <1>3, RemainsAre
<1>6. CutTo(rest, s, n)
  BY <1>3, <1>4, RemainsCut
<1>7. e = [disk EXCEPT ![f] = rest] /\ s = disk[f]
  BY DEF f, s
<1>8. e \in [Names -> Seq(Entry)] /\ e[f] = rest /\ \A m \in Names \ {f} : e[m] = disk[m]
  BY <1>2, <1>5, <1>7
<1>9. RowsCut(disk, e, f, n)
  <2>1. n <= Len(disk[f]) /\ CutTo(rest, disk[f], n)
    BY <1>4, <1>6, <1>7
  <2>2. RowsCut(disk, [disk EXCEPT ![f] = rest], f, n)
    BY ONLY <1>2, <2>1, CutRows, n \in Nat
  <2> QED BY <1>7, <2>2
<1>10. InOrder(e, k)
  BY <1>2, <1>9, CutInOrder
<1>11. ASSUME Clean PROVE NoGap(e)
  <2>1. Complete(disk, k) /\ LatestIn(disk, f)
    BY <1>1, <1>11 DEF RecorderInv, Gapless, f
  <2> QED BY <1>2, <1>9, <2>1, CutHasNoGap
<1>12. ASSUME writer.format = "csv"
       PROVE  UnderOurHeader(e[f]) /\ \A m \in Names : Uniform(e[m])
  <2>1. UnderOurHeader(s) /\ writer.file.flushed > 0 /\ \A m \in Names : Uniform(disk[m])
    BY <1>1, <1>7, <1>12 DEF FilesOK, FormatOK, f
  <2>2. 0 < n
    BY <1>2, <1>4, <2>1
  <2>3. UnderOurHeader(rest)
    BY <1>3, <1>4, <1>5, <1>6, <2>1, <2>2, CutUnderHeader
  <2>4. Uniform(rest)
    BY <2>3 DEF UnderOurHeader, Uniform
  <2> QED BY <1>8, <2>1, <2>3, <2>4
<1> QED BY <1>8, <1>10, <1>11, <1>12 DEF f

(* A disk that is full does the same to a recorder that lives on. *)
LEMMA WriteFailsKeeps ==
  ASSUME WriterType, BatchOK, RecorderInv, clock \in Nat \ {0}, faults \in Nat,
         WriteFails, UNCHANGED consumerVars
  PROVE  WriterType' /\ BatchOK' /\ RecorderInv' /\ clock' \in Nat \ {0} /\ faults' \in Nat
<1> DEFINE k == Consumed
           f == writer.file.name
<1>1. BatchOK' /\ Consumed' = k /\ (InFiles' <=> InFiles)
  BY DEF consumerVars, BatchOK, Consumed, InFiles
<1>2. k \in Nat
  BY ConsumedIs
<1> HIDE DEF k
<1>3. /\ writer.file.open /\ writer' = [writer EXCEPT !.file.good = FALSE]
      /\ faults' = faults + 1 /\ UNCHANGED <<clock, reused>>
      /\ \E rest \in Remains(Content(Io), writer.file.flushed) : disk' = [disk EXCEPT ![f] = rest]
  BY DEF WriteFails
<1>4. /\ disk' \in [Names -> Seq(Entry)] /\ InOrder(disk', k)
      /\ writer.format = "csv" => UnderOurHeader(disk'[f]) /\ \A n \in Names : Uniform(disk'[n])
  BY <1>2, <1>3, CutIs DEF k
<1>5. writer.file \in FileType /\ [writer.file EXCEPT !.good = FALSE] \in FileType
  BY DEF WriterType, FileType
<1>6. /\ writer'.file = [writer.file EXCEPT !.good = FALSE]
      /\ writer'.filename = writer.filename /\ writer'.count = writer.count
      /\ writer'.format = writer.format
  BY <1>3 DEF WriterType
<1>7. WriterType'
  BY <1>3, <1>5 DEF WriterType
<1>8. Io' \in IoType
  <2>1. Io' = [disk |-> disk', file |-> writer'.file, filename |-> writer'.filename,
               count |-> writer'.count, reused |-> reused']
    BY DEF Io
  <2>2. Io \in IoType
    BY DEF RecorderInv, FilesOK
  <2>3. reused \in BOOLEAN /\ writer.filename \in Names /\ writer.count \in Nat
    BY <2>2 DEF IoType, Io
  <2> QED BY <1>3, <1>4, <1>5, <1>6, <2>1, <2>3 DEF IoType
<1>9. Io'.disk = disk' /\ Io'.file = writer'.file
  BY DEF Io
<1>10. FormatOK(writer'.format, Io')
  <2>1. ~ writer'.file.good /\ writer'.file.section = writer.file.section /\ writer'.file.name = f
        /\ writer'.file.flushed = writer.file.flushed
    BY <1>5, <1>6 DEF FileType
  <2>2. CASE writer.format = "cbf"
    BY <1>6, <1>9, <2>1, <2>2 DEF FormatOK
  <2>3. CASE writer.format = "csv"
    <3>1. Io.file.section = 0 /\ (Io.file.open => Io.file.flushed > 0) /\ Io.file = writer.file
      BY <2>3 DEF RecorderInv, FilesOK, FormatOK, Io
    <3> QED BY <1>3, <1>4, <1>6, <1>9, <2>1, <2>3, <3>1 DEF FormatOK
  <2> QED BY <2>2, <2>3 DEF WriterType
<1>11. FilesOK(writer'.format, Io', Consumed')
  BY <1>1, <1>4, <1>8, <1>9, <1>10 DEF FilesOK
<1>12. ~ Clean'
  BY <1>3 DEF Clean
<1> QED BY <1>1, <1>3, <1>7, <1>11, <1>12 DEF RecorderInv

LEMMA RestartKeeps ==
  ASSUME WriterType, BatchOK, RecorderInv, clock \in Nat \ {0}, faults \in Nat,
         Restart, UNCHANGED consumerVars
  PROVE  WriterType' /\ BatchOK' /\ RecorderInv' /\ clock' \in Nat \ {0} /\ faults' \in Nat
<1>1. BatchOK' /\ Consumed' = Consumed /\ (InFiles' <=> InFiles)
  BY DEF consumerVars, BatchOK, Consumed, InFiles
<1>2. writer' = [writer EXCEPT !.restart = TRUE] /\ UNCHANGED <<disk, clock, faults, reused>>
  BY DEF Restart
<1>3. /\ writer'.file = writer.file /\ writer'.filename = writer.filename
      /\ writer'.count = writer.count /\ writer'.format = writer.format
  BY <1>2 DEF WriterType
<1>4. WriterType'
  BY <1>2 DEF WriterType
<1>5. Io' = Io /\ (Clean' <=> Clean)
  BY <1>2, <1>3 DEF Io, Clean
<1> QED BY <1>1, <1>2, <1>3, <1>4, <1>5 DEF RecorderInv

LEMMA StayingKeeps ==
  ASSUME WriterType, RecorderInv, clock \in Nat \ {0}, faults \in Nat,
         UNCHANGED fileVars, Consumed' = Consumed, InFiles' => InFiles
  PROVE  WriterType' /\ RecorderInv' /\ clock' \in Nat \ {0} /\ faults' \in Nat
<1>1. Io' = Io /\ (Clean' <=> Clean) /\ WriterType' /\ writer' = writer
  BY DEF fileVars, Io, Clean, WriterType
<1> QED BY <1>1 DEF RecorderInv, fileVars

(* A crash loses at most the end of the file that is open. *)
LEMMA CrashKeeps ==
  ASSUME FilesInv, Crash
  PROVE  FilesInv'
<1>1. Recording /\ ~ crashed /\ crashed'
  BY DEF Crash
<1>2. WriterType /\ BatchOK /\ clock \in Nat \ {0} /\ faults \in Nat /\ RecorderInv
  BY <1>1 DEF FilesInv
<1> DEFINE k == Consumed
<1>3. k \in Nat
  BY <1>2, ConsumedIs
<1> HIDE DEF k
<1>4. writer' = [NewWriter EXCEPT !.format = writer.format] /\ UNCHANGED <<clock, faults, reused>>
      /\ con' = NewConsumer /\ reader' = NewReader
  BY DEF Crash, NoProcess
<1>5. writer'.format = writer.format /\ writer.format \in {"cbf", "csv"} /\ WriterType'
  BY <1>2, <1>4, ZeroIsName DEF WriterType, NewWriter, ClosedFile, FileType
<1>6. BatchOK'
  BY <1>4 DEF BatchOK, NewConsumer, NewReader
<1>7. /\ disk' \in [Names -> Seq(Entry)] /\ InOrder(disk', k) /\ (Clean => NoGap(disk'))
      /\ writer.format = "csv" => \A n \in Names : Uniform(disk'[n])
  <2>1. CASE writer.file.open
    <3>1. PICK rest \in Remains(Content(Io), writer.file.flushed) :
            disk' = [disk EXCEPT ![writer.file.name] = rest]
      BY <2>1 DEF Crash
    <3> QED BY <1>2, <1>3, <2>1, <3>1, CutIs DEF k
  <2>2. CASE ~ writer.file.open
    <3>1. disk' = disk
      BY <2>2 DEF Crash
    <3>2. FilesOK(writer.format, Io, k) /\ Io.disk = disk
      BY <1>2 DEF RecorderInv, Io, k
    <3>3. disk \in [Names -> Seq(Entry)] /\ InOrder(disk, k)
      BY <3>2 DEF FilesOK, IoType
    <3>4. Clean => NoGap(disk)
      <4>1. Clean => Complete(disk, k)
        BY <1>2, <3>2 DEF RecorderInv, Gapless, k
      <4> QED BY <1>3, <3>3, <4>1, GaplessHasNoGap
    <3>5. writer.format = "csv" => \A n \in Names : Uniform(disk[n])
      BY <3>2 DEF FilesOK, FormatOK
    <3> QED BY <3>1, <3>3, <3>4, <3>5
  <2> QED BY <2>1, <2>2
<1>8. Clean' <=> Clean
  BY <1>4 DEF Clean
<1>9. CrashedInv'
  BY <1>3, <1>5, <1>7, <1>8 DEF CrashedInv
<1> QED BY <1>1, <1>2, <1>4, <1>5, <1>6, <1>9 DEF FilesInv

(* A step of the recorder that lives. *)
LEMMA RecordsKeep ==
  ASSUME ConsumerType, FilesInv, Records
  PROVE  FilesInv'
<1>1. Recording /\ ~ crashed /\ crashed' = crashed
  BY DEF Records, Recorder
<1>2. WriterType /\ BatchOK /\ RecorderInv /\ clock \in Nat \ {0} /\ faults \in Nat
  BY <1>1 DEF FilesInv
<1>3. WriterType' /\ BatchOK' /\ RecorderInv' /\ clock' \in Nat \ {0} /\ faults' \in Nat
  <2>1. CASE /\ ConsumerUser \/ SourcePushes \/ WorkerChecks \/ WorkerReads \/ WorkerLeaves
             /\ UNCHANGED fileVars
    <3>1. BatchOK' /\ Consumed' = Consumed /\ (InFiles' => InFiles)
      BY <1>2, <2>1, ConsumerKeeps
    <3> QED BY <1>2, <2>1, <3>1, StayingKeeps
  <2>2. CASE WorkerGoes("starting", "loop") /\ OnConsumeStart
    BY <1>2, <2>2, StartHook
  <2>3. CASE WorkerConsumes /\ ConsumeBatch
    BY <1>2, <2>3, ConsumeHook
  <2>4. CASE WorkerGoes("stopping", "ended") /\ OnConsumeStop
    BY <1>2, <2>4, StopHook
  <2>5. CASE Restart /\ UNCHANGED consumerVars
    BY <1>2, <2>5, RestartKeeps
  <2>6. CASE WriteFails /\ UNCHANGED consumerVars
    BY <1>2, <2>6, WriteFailsKeeps
  <2> QED BY <2>1, <2>2, <2>3, <2>4, <2>5, <2>6 DEF Records, ConsumerCalls, RecorderWorker
<1> QED BY <1>1, <1>3 DEF FilesInv

(* init(): an empty disk, or a base name with rows of an earlier run. *)
LEMMA FirstFiles ==
  ASSUME NEW format \in {"cbf", "csv"}, InitFiles(format), clock = 1, faults = 0, reused = FALSE,
         con = NewConsumer, reader = NewReader
  PROVE  WriterType /\ BatchOK /\ RecorderInv /\ clock \in Nat \ {0} /\ faults \in Nat
<1>1. PICK suffix \in BOOLEAN, limit \in 0 .. MaxPerFile :
        /\ \E former \in FormerContents(format, suffix) : disk = [EmptyDisk EXCEPT ![0] = former]
        /\ writer = [NewWriter EXCEPT !.format = format, !.suffix = suffix, !.limit = limit,
                                      !.filename = IF suffix THEN 1 ELSE 0]
  BY DEF InitFiles
<1>2. PICK former \in FormerContents(format, suffix) : disk = [EmptyDisk EXCEPT ![0] = former]
  BY <1>1
<1>3. BatchOK /\ Consumed = 0 /\ ~ InFiles
  BY DEF NewConsumer, NewReader, BatchOK, Consumed, InFiles
<1>4. limit \in Nat
  BY FilesAssumption
<1>5. /\ WriterType /\ writer.format = format /\ ~ writer.file.open /\ writer.file.section = 0
      /\ writer.filename \in {0, 1} /\ (writer.filename = 1 => suffix)
  <2>1. ClosedFile \in FileType /\ ~ ClosedFile.open /\ ClosedFile.section = 0
    BY ZeroIsName DEF ClosedFile, FileType
  <2>2. writer = [format |-> format, suffix |-> suffix, limit |-> limit,
                  filename |-> IF suffix THEN 1 ELSE 0, count |-> 0, restart |-> FALSE,
                  file |-> ClosedFile]
    BY <1>1 DEF NewWriter
  <2>3. WriterType
    BY <1>4, <2>1, <2>2, ZeroIsName DEF WriterType
  <2> QED BY <2>1, <2>2, <2>3
<1>6. /\ former \in Seq(Entry) /\ Uniform(former)
      /\ former = <<>> \/ (~ suffix /\ former = <<Header, Rec(0)>>) \/ former = <<Foreign, Foreign>>
  <2>1. Header \in Entry /\ Foreign \in Entry /\ Rec(0) \in Entry /\ Rec(0).kind = "rec"
    BY EntryTypes, EntryKinds
  <2>2. former = <<>> \/ (~ suffix /\ former = <<Header, Rec(0)>>) \/ former = <<Foreign, Foreign>>
    BY DEF FormerContents
  <2>3. former \in Seq(Entry)
    <3>1. <<>> \in Seq(Entry) /\ <<Foreign, Foreign>> \in Seq(Entry)
      BY <2>1
    <3>2. <<Header, Rec(0)>> \in Seq(Entry)
      BY ONLY <2>1
    <3> QED BY <2>2, <3>1, <3>2
  <2>4. Uniform(former)
    BY <2>1, <2>2 DEF Uniform
  <2> QED BY <2>2, <2>3, <2>4
<1>7. /\ disk \in [Names -> Seq(Entry)] /\ disk[0] = former
      /\ \A n \in Names \ {0} : disk[n] = <<>>
  BY <1>2, <1>6, ZeroIsName DEF EmptyDisk
<1>8. \A n \in Names : \A i, v \in Nat :
        IsRow(disk, n, i, v) => n = 0 /\ i = 2 /\ v = 0 /\ ~ suffix
  <2> SUFFICES ASSUME NEW n \in Names, NEW i \in Nat, NEW v \in Nat, IsRow(disk, n, i, v)
               PROVE  n = 0 /\ i = 2 /\ v = 0 /\ ~ suffix
    OBVIOUS
  <2>1. n = 0 /\ i \in DOMAIN former /\ former[i].kind = "rec" /\ former[i].val = v
    BY <1>7 DEF IsRow
  <2>2. CASE former = <<>>
    BY <2>1, <2>2
  <2>3. CASE former = <<Foreign, Foreign>>
    BY <2>1, <2>3, EntryKinds
  <2>4. CASE ~ suffix /\ former = <<Header, Rec(0)>>
    BY <2>1, <2>4, EntryKinds
  <2> QED BY <1>6, <2>2, <2>3, <2>4
<1>9. InOrder(disk, 0) /\ Complete(disk, 0) /\ LatestIn(disk, writer.filename)
  <2>1. InOrder(disk, 0)
    BY <1>8 DEF InOrder
  <2>2. Complete(disk, 0)
    BY DEF Complete
  <2>3. LatestIn(disk, writer.filename)
    BY <1>5, <1>8 DEF LatestIn
  <2> QED BY <2>1, <2>2, <2>3
<1>10. /\ Io.disk = disk /\ Io.file = writer.file /\ Io.filename = writer.filename
       /\ Io \in IoType
  BY <1>5, <1>7 DEF Io, IoType, WriterType
<1>11. FormatOK(writer.format, Io)
  <2>1. \A n \in Names : Uniform(disk[n])
    BY <1>6, <1>7 DEF Uniform
  <2> QED BY <1>5, <1>10, <2>1 DEF FormatOK
<1>12. RecorderInv
  BY <1>3, <1>5, <1>9, <1>10, <1>11 DEF RecorderInv, FilesOK, Gapless
<1> QED BY <1>3, <1>5, <1>12

LEMMA FilesInvariant == RecordingSpec => []FilesInv
<1>1. RecordingInit => FilesInv
  <2> SUFFICES ASSUME RecordingInit, Recording PROVE FilesInv
    BY DEF FilesInv
  <2>1. /\ clock = 1 /\ faults = 0 /\ reused = FALSE /\ con = NewConsumer /\ reader = NewReader
        /\ ~ crashed
    BY DEF RecordingInit, InitConsumer
  <2>2. PICK format \in {"cbf", "csv"} : InitFiles(format)
    BY DEF RecordingInit, Recording, NoRecorder, NewWriter
  <2> QED BY <2>1, <2>2, FirstFiles DEF FilesInv
<1>2. ASSUME FilesInv, ConsumerInv, [RecordingNext]_recVars PROVE FilesInv'
  <2>1. CASE Records
    BY <1>2, <2>1, RecordsKeep DEF ConsumerInv
  <2>2. CASE Crash
    BY <1>2, <2>2, CrashKeeps
  <2>3. CASE Choose
    BY <2>3 DEF Choose, FilesInv, Recording, NoRecorder, NewWriter
  <2>4. CASE UNCHANGED recorderVars
    <3>1. UNCHANGED <<con, reader, disk, writer, clock, faults, reused, crashed>>
      BY <2>4 DEF recorderVars, consumerVars, fileVars
    <3>2. (WriterType' <=> WriterType) /\ (BatchOK' <=> BatchOK) /\ Io' = Io
          /\ (InFiles' <=> InFiles) /\ Consumed' = Consumed /\ (Clean' <=> Clean)
      BY <3>1 DEF WriterType, BatchOK, Io, InFiles, Consumed, Clean
    <3>3. (RecorderInv' <=> RecorderInv) /\ (CrashedInv' <=> CrashedInv) /\ (Recording' <=> Recording)
      BY <3>1, <3>2 DEF RecorderInv, CrashedInv, Recording
    <3> QED BY <1>2, <3>1, <3>2, <3>3 DEF FilesInv
  <2>5. CASE ReplayUser \/ ReplayOpens \/ ReplayWorker \/ Shows \/ UNCHANGED recVars
    BY <2>4, <2>5 DEF ReplayUser, ReplayOpens, ReplayWorker, Replay, Shows, recVars
  <2> QED BY <1>2, <2>1, <2>2, <2>3, <2>5 DEF RecordingNext
<1> QED BY <1>1, <1>2, ConsumerInvariant, PTL DEF RecordingSpec
-----------------------------------------------------------------------------
(* From the items of the files to what the two properties say of them.      *)
(* What holds of the disk in every state of a recording. *)
DiskOK(k) ==
  /\ k \in Nat /\ disk \in [Names -> Seq(Entry)] /\ InOrder(disk, k)
  /\ writer.format = "csv" => \A n \in Names : Uniform(disk[n])
  /\ Clean => IF crashed THEN NoGap(disk) ELSE Complete(disk, k) /\ k = Consumed

LEMMA DiskIs ==
  ASSUME FilesInv, Recording
  PROVE  \E k \in Nat : DiskOK(k)
<1>1. CASE crashed
  <2>1. CrashedInv
    BY <1>1 DEF FilesInv
  <2>2. PICK k \in Nat : InOrder(disk, k)
    BY <2>1 DEF CrashedInv
  <2>3. DiskOK(k)
    BY <1>1, <2>1, <2>2 DEF CrashedInv, DiskOK
  <2> QED BY <2>3
<1>2. CASE ~ crashed
  <2>1. RecorderInv /\ BatchOK
    BY <1>2 DEF FilesInv
  <2>2. Consumed \in Nat
    BY <2>1, ConsumedIs
  <2>3. Io.disk = disk
    BY DEF Io
  <2>4. DiskOK(Consumed)
    BY <1>2, <2>1, <2>2, <2>3 DEF RecorderInv, FilesOK, IoType, FormatOK, Gapless, DiskOK
  <2> QED BY <2>2, <2>4
<1> QED BY <1>1, <1>2

LEMMA UniformFiles ==
  ASSUME NEW k, DiskOK(k)
  PROVE  CsvFilesAreUniform
<1> SUFFICES ASSUME writer.format = "csv"
             PROVE  /\ \A n \in Names : disk[n] # <<>> =>
                         \/ disk[n] = <<Foreign, Foreign>>
                         \/ /\ Head(disk[n]) = Header
                            /\ \A i \in 2 .. Len(disk[n]) : disk[n][i].kind \in {"rec", "torn"}
                    /\ \A n \in Names : \A i \in DOMAIN disk[n] :
                         disk[n][i] = Rec(0) => n = 0 /\ i = 2
  BY DEF CsvFilesAreUniform
<1>1. ASSUME NEW n \in Names, disk[n] # <<>>
      PROVE  \/ disk[n] = <<Foreign, Foreign>>
             \/ /\ Head(disk[n]) = Header
                /\ \A i \in 2 .. Len(disk[n]) : disk[n][i].kind \in {"rec", "torn"}
  <2>1. Uniform(disk[n]) /\ disk[n] \in Seq(Entry)
    BY DEF DiskOK
  <2>2. Head(disk[n]) = disk[n][1]
    BY <1>1, <2>1
  <2> QED BY <1>1, <2>1, <2>2 DEF Uniform
<1>2. ASSUME NEW n \in Names, NEW i \in DOMAIN disk[n], disk[n][i] = Rec(0)
      PROVE  n = 0 /\ i = 2
  <2>1. i \in Nat
    BY DEF DiskOK
  <2>2. IsRow(disk, n, i, 0)
    BY <1>2, EntryKinds DEF IsRow
  <2> QED BY <2>1, <2>2 DEF DiskOK, InOrder
<1> QED BY <1>1, <1>2

LEMMA RowIs ==
  ASSUME disk \in [Names -> Seq(Entry)], NEW n \in Names, NEW i \in Rows(n)
  PROVE  i \in Nat /\ disk[n][i].val \in Nat /\ IsRow(disk, n, i, disk[n][i].val)
<1>1. i \in DOMAIN disk[n] /\ disk[n] \in Seq(Entry) /\ disk[n][i].kind = "rec"
  BY DEF Rows
<1>2. i \in Nat /\ disk[n][i] \in Entry
  BY <1>1
<1> QED BY <1>1, <1>2 DEF IsRow, Entry

LEMMA FoundIs ==
  ASSUME disk \in [Names -> Seq(Entry)], NEW v
  PROVE  v \in Found <=> v \in Nat \ {0} /\ Held(disk, v)
<1>1. ASSUME v \in Found PROVE v \in Nat \ {0} /\ Held(disk, v)
  <2>1. PICK n \in Names : v \in {disk[n][i].val : i \in Rows(n)}
    BY <1>1 DEF Found
  <2>2. PICK i \in Rows(n) : v = disk[n][i].val
    BY <2>1
  <2>3. i \in Nat /\ v \in Nat /\ IsRow(disk, n, i, v)
    BY <2>2, RowIs
  <2> QED BY <1>1, <2>3 DEF Held, Found
<1>2. ASSUME v \in Nat \ {0}, Held(disk, v) PROVE v \in Found
  <2>1. PICK n \in Names, i \in Nat : IsRow(disk, n, i, v)
    BY <1>2 DEF Held
  <2>2. i \in Rows(n) /\ disk[n][i].val = v
    BY <2>1 DEF IsRow, Rows
  <2>3. v \in {disk[n][j].val : j \in Rows(n)}
    BY <2>2
  <2> QED BY <1>2, <2>3 DEF Found
<1> QED BY <1>1, <1>2

LEMMA LeastNat ==
  ASSUME NEW T \in SUBSET Nat, T # {}
  PROVE  \E x \in T : \A y \in T : x <= y
<1> DEFINE R == OpToRel(<, Nat)
<1>1. IsWellFoundedOn(R, Nat)
  BY NatLessThanWellFounded, Zenon
<1>2. PICK x \in T : \A y \in T : ~ (<<y, x>> \in R)
  <2> HIDE DEF R
  <2> QED BY <1>1, WFMin, Zenon
<1>3. \A y \in T : x <= y
  <2> TAKE y \in T
  <2>1. x \in Nat /\ y \in Nat
    OBVIOUS
  <2>2. ~ (y < x)
    BY <1>2, <2>1 DEF OpToRel
  <2> QED BY <2>1, <2>2
<1> QED BY <1>2, <1>3

(* Record v is in some file, and none after it. *)
IsLast(d, v) == (v = 0 \/ Held(d, v)) /\ \A u \in Nat : Held(d, u) => u <= v

LEMMA SomeLast ==
  ASSUME NEW d, NEW k \in Nat, InOrder(d, k)
  PROVE  \E v \in Nat : IsLast(d, v)
<1> DEFINE Above(x) == \A u \in Nat : Held(d, u) => u <= x
           T == {x \in Nat : Above(x)}
<1>1. Above(k)
  BY DEF Held, InOrder
<1>2. T \in SUBSET Nat /\ T # {}
  BY <1>1
<1>3. PICK v \in T : \A y \in T : v <= y
  <2> HIDE DEF T
  <2> QED BY <1>2, LeastNat
<1>4. v \in Nat /\ Above(v)
  BY <1>3
<1>5. ASSUME v # 0, ~ Held(d, v) PROVE FALSE
  <2>1. v - 1 \in Nat /\ ~ (v <= v - 1)
    BY <1>4, <1>5
  <2>2. Above(v - 1)
    <3> SUFFICES ASSUME NEW u \in Nat, Held(d, u) PROVE u <= v - 1
      OBVIOUS
    <3>1. u <= v /\ u # v
      BY <1>4, <1>5
    <3> QED BY <1>4, <3>1
  <2>3. v - 1 \in T
    BY <2>1, <2>2
  <2> QED BY <1>3, <2>1, <2>3
<1> QED BY <1>4, <1>5 DEF IsLast

LEMMA FoundUpTo ==
  ASSUME disk \in [Names -> Seq(Entry)], NoGap(disk), NEW last \in Nat, IsLast(disk, last)
  PROVE  Found = 1 .. last /\ last \in Found \cup {0}
<1>1. ASSUME NEW v \in Found PROVE v \in 1 .. last
  <2>1. v \in Nat \ {0} /\ Held(disk, v)
    BY FoundIs
  <2>2. v <= last
    BY <2>1 DEF IsLast
  <2> QED BY <2>1, <2>2
<1>2. ASSUME NEW v \in 1 .. last PROVE v \in Found
  <2>1. v \in Nat \ {0} /\ 0 < v /\ v <= last
    OBVIOUS
  <2>2. last # 0
    BY <2>1
  <2>3. Held(disk, last)
    BY <2>2 DEF IsLast
  <2>4. Held(disk, v)
    BY <2>1, <2>3 DEF NoGap
  <2> QED BY <2>1, <2>4, FoundIs
<1>3. last \in Found \cup {0}
  BY <1>2
<1> QED BY <1>1, <1>2, <1>3

LEMMA ExactFiles ==
  ASSUME NEW k, DiskOK(k)
  PROVE  RecordingIsExact
<1> USE DEF DiskOK
<1>1. ASSUME NEW n \in Names, NEW i \in Rows(n), NEW j \in Rows(n), i < j
      PROVE  disk[n][i].val < disk[n][j].val
  BY <1>1, RowIs DEF InOrder
<1>2. ASSUME NEW n \in Names, NEW m \in Names, NEW i \in Rows(n), NEW j \in Rows(m), n # m
      PROVE  disk[n][i].val # disk[m][j].val
  BY <1>2, RowIs DEF InOrder
<1>3. ASSUME ~ reused, faults = 0
      PROVE  \E last \in Found \cup {0} : Found = 1 .. last /\ (~ crashed => last = Consumed)
  <2>1. Clean
    BY <1>3 DEF Clean
  <2>2. CASE crashed
    <3>1. PICK last \in Nat : IsLast(disk, last)
      BY SomeLast
    <3> QED BY <2>1, <2>2, <3>1, FoundUpTo
  <2>3. CASE ~ crashed
    <3>1. Complete(disk, k) /\ k = Consumed
      BY <2>1, <2>3
    <3>2. NoGap(disk)
      BY <3>1, GaplessHasNoGap
    <3>3. IsLast(disk, k)
      <4>1. \A u \in Nat : Held(disk, u) => u <= k
        BY DEF Held, InOrder
      <4>2. k # 0 => Held(disk, k)
        <5>1. k # 0 => k \in 1 .. k
          OBVIOUS
        <5> QED BY <3>1, <5>1 DEF Complete, Held
      <4> QED BY <4>1, <4>2 DEF IsLast
    <3> QED BY <3>1, <3>2, <3>3, FoundUpTo
  <2> QED BY <2>2, <2>3
<1> QED BY <1>1, <1>2, <1>3 DEF RecordingIsExact, Consumed

(* Whatever restart(), maxRecords, stop(), finish(), a failing disk and a   *)
(* crash do to each other: no record is written twice or out of order, and  *)
(* while no file that held records was opened anew and the disk worked, the *)
(* files hold exactly the records consumed, after a crash all of them up to *)
(* some record (CbfWriter.cpp:30-88, CsvWriter.cpp:26-97).                  *)
THEOREM RecordingsAreExact == RecordingSpec => []RecordingIsExact
<1>1. FilesInv => RecordingIsExact
  <2>1. ~ Recording => RecordingIsExact
    BY DEF RecordingIsExact
  <2> QED BY <2>1, DiskIs, ExactFiles
<1> QED BY <1>1, FilesInvariant, PTL

(* A CSV file has one schema: rows stand below our header, nothing is added *)
(* to a foreign file, and a row of an earlier run is where it was or gone,  *)
(* whatever rotations, the disk and a crash do (CsvWriter.cpp:47-62,        *)
(* 135-168).                                                                *)
THEOREM CsvFilesStayUniform == RecordingSpec => []CsvFilesAreUniform
<1>1. FilesInv => CsvFilesAreUniform
  <2>1. ~ Recording => CsvFilesAreUniform
    BY DEF Recording, CsvFilesAreUniform
  <2>2. ASSUME FilesInv, Recording PROVE CsvFilesAreUniform
    BY <2>2, DiskIs, UniformFiles
  <2> QED BY <2>1, <2>2
<1> QED BY <1>1, FilesInvariant, PTL
-----------------------------------------------------------------------------
(* What a reader finds.  ReplayIsFaithful and ViewerShowsAll speak of a     *)
(* file somebody else has written and left in any of the ways above, and    *)
(* CbfReader believes the lengths in it.  What carries them is the shape of *)
(* the files: while its length is not patched a file is Raw, one header of  *)
(* length 0 and records behind it, whatever a crash or the disk cuts off;   *)
(* patched, or written section by section, it is Readable: a header counts  *)
(* no more records than stand between it and the next one.                  *)
Whole(c) == \A i \in DOMAIN c : c[i] # Torn

(* A file whose length has not been patched: written so far, or cut off.    *)
Raw(c) ==
  \A i \in DOMAIN c :
    /\ i = 1 => c[i] \in {Schema, Torn}
    /\ i = 2 => c[i] \in {Data(0), Torn}
    /\ i > 2 => c[i].kind = "rec" \/ c[i] = Torn
    /\ c[i] = Torn => i = Len(c)

(* The next section, if there is one, begins behind item i. *)
SectionEnds(c, i) == i + 1 \in DOMAIN c => c[i + 1].kind = "data" \/ c[i + 1] = Torn

(* The records a header counts, before the next header or the end. *)
Counted(c, i, n) ==
  /\ \A j \in 1 .. n : i + j \in DOMAIN c /\ c[i + j].kind = "rec"
  /\ SectionEnds(c, i + n)

Readable(c) ==
  \A i \in DOMAIN c :
    /\ i = 1 => c[i] \in {Schema, Torn}
    /\ i = 2 => c[i].kind = "data" \/ c[i] = Torn
    /\ i > 2 => c[i].kind \in {"data", "rec"} \/ c[i] = Torn
    /\ c[i] = Torn => i = Len(c)
    /\ c[i].kind = "data" /\ c[i].val > 0 => Counted(c, i, c[i].val)

LEMMA Kindly ==
  /\ Schema # Torn /\ \A n : Data(n) # Torn /\ Data(n) # Schema /\ Data(n).val = n
  /\ \A x : x.kind = "rec" => x # Torn /\ x # Schema /\ \A n : x # Data(n)
  /\ \A x : x.kind = "data" => x # Torn /\ x # Schema
<1>1. Schema.kind = "schema" /\ Torn.kind = "torn" /\ \A n : Data(n).kind = "data" /\ Data(n).val = n
  BY EntryKinds, ItemIs DEF Data
<1> QED BY <1>1

LEMMA RawIsReadable ==
  ASSUME NEW c \in Seq(Entry), Raw(c)
  PROVE  Readable(c)
<1> SUFFICES ASSUME NEW i \in DOMAIN c
             PROVE  /\ i = 1 => c[i] \in {Schema, Torn}
                    /\ i = 2 => c[i].kind = "data" \/ c[i] = Torn
                    /\ i > 2 => c[i].kind \in {"data", "rec"} \/ c[i] = Torn
                    /\ c[i] = Torn => i = Len(c)
                    /\ c[i].kind = "data" /\ c[i].val > 0 => Counted(c, i, c[i].val)
  BY DEF Readable
<1>1. i \in Nat /\ i >= 1
  OBVIOUS
<1>2. /\ i = 1 => c[i] \in {Schema, Torn}
      /\ i = 2 => c[i] \in {Data(0), Torn}
      /\ i > 2 => c[i].kind = "rec" \/ c[i] = Torn
      /\ c[i] = Torn => i = Len(c)
  BY DEF Raw
<1>3. Data(0).kind = "data" /\ Data(0).val = 0 /\ Schema.kind = "schema" /\ Torn.kind = "torn"
  BY EntryKinds, Kindly
<1>4. c[i].kind = "data" => c[i].val = 0
  BY <1>1, <1>2, <1>3
<1> QED BY <1>1, <1>2, <1>3, <1>4

LEMMA PatchedIsReadable ==
  ASSUME NEW c \in Seq(Entry), Raw(c), Whole(c), NEW w \in Nat, Len(c) = 2 + w,
         NEW d, d = [c EXCEPT ![2] = Data(w)]
  PROVE  Readable(d)
<1>1. DOMAIN d = 1 .. 2 + w /\ DOMAIN c = 1 .. 2 + w /\ Len(d) = 2 + w
      /\ d[2] = Data(w) /\ \A i \in DOMAIN d : i # 2 => d[i] = c[i]
  OBVIOUS
<1>2. c[1] = Schema /\ \A i \in DOMAIN c : i > 2 => c[i].kind = "rec"
  <2>1. 1 \in DOMAIN c
    BY <1>1
  <2> QED BY <2>1 DEF Raw, Whole
<1> SUFFICES ASSUME NEW i \in DOMAIN d
             PROVE  /\ i = 1 => d[i] \in {Schema, Torn}
                    /\ i = 2 => d[i].kind = "data" \/ d[i] = Torn
                    /\ i > 2 => d[i].kind \in {"data", "rec"} \/ d[i] = Torn
                    /\ d[i] = Torn => i = Len(d)
                    /\ d[i].kind = "data" /\ d[i].val > 0 => Counted(d, i, d[i].val)
  BY DEF Readable
<1>3. i \in Nat /\ i >= 1
  BY <1>1
<1>4. CASE i = 2
  <2>1. d[i].kind = "data" /\ d[i].val = w /\ d[i] # Torn
    BY <1>1, <1>4, EntryKinds, Kindly
  <2>2. Counted(d, 2, w)
    <3>1. ASSUME NEW j \in 1 .. w PROVE 2 + j \in DOMAIN d /\ d[2 + j].kind = "rec"
      <4> DEFINE m == 2 + j
      <4>1. m \in DOMAIN d /\ m # 2 /\ m \in DOMAIN c /\ m > 2
        BY <1>1
      <4> HIDE DEF m
      <4>2. d[m].kind = "rec"
        BY <1>1, <1>2, <4>1
      <4> QED BY <4>1, <4>2 DEF m
    <3>2. SectionEnds(d, 2 + w)
      BY <1>1 DEF SectionEnds
    <3> QED BY <3>1, <3>2 DEF Counted
  <2> QED BY <1>4, <2>1, <2>2
<1>5. CASE i = 1
  <2>1. d[i] = Schema
    BY <1>1, <1>2, <1>5
  <2> QED BY <1>5, <2>1, EntryKinds, Kindly
<1>6. CASE i > 2
  <2>1. d[i].kind = "rec"
    BY <1>1, <1>2, <1>6
  <2> QED BY <1>6, <2>1, Kindly
<1> QED BY <1>3, <1>4, <1>5, <1>6

LEMMA RemainsAreRaw ==
  ASSUME NEW s \in Seq(Entry), Raw(s), NEW fl \in Nat, NEW rest \in Remains(s, fl)
  PROVE  rest \in Seq(Entry) /\ Raw(rest)
<1>1. rest \in Seq(Entry)
  BY RemainsAre
<1>2. PICK n \in fl .. Len(s) :
        rest = SubSeq(s, 1, n) \/ (n <= Len(s) - 1 /\ rest = Append(SubSeq(s, 1, n), Torn))
  BY DEF Remains
<1> DEFINE p == SubSeq(s, 1, n)
<1>3. n \in Nat /\ n <= Len(s) /\ Len(s) \in Nat
  BY <1>2
<1>4. p \in Seq(Entry) /\ Len(p) = n /\ \A i \in 1 .. n : p[i] = s[i]
  BY <1>3
<1> HIDE DEF p
<1>5. Raw(p)
  <2> SUFFICES ASSUME NEW i \in DOMAIN p
               PROVE  /\ i = 1 => p[i] \in {Schema, Torn}
                      /\ i = 2 => p[i] \in {Data(0), Torn}
                      /\ i > 2 => p[i].kind = "rec" \/ p[i] = Torn
                      /\ p[i] = Torn => i = Len(p)
    BY DEF Raw
  <2>1. i \in 1 .. n /\ i \in DOMAIN s /\ p[i] = s[i]
    BY <1>3, <1>4
  <2>2. i = Len(s) => n = i
    BY <1>3, <2>1
  <2> QED BY <1>4, <2>1, <2>2 DEF Raw
<1>6. CASE rest = p
  BY <1>1, <1>5, <1>6
<1>7. CASE n <= Len(s) - 1 /\ rest = Append(p, Torn)
  <2>1. Len(rest) = n + 1 /\ rest[n + 1] = Torn /\ \A i \in 1 .. n : rest[i] = p[i]
    BY <1>4, <1>7, EntryTypes
  <2> SUFFICES ASSUME NEW i \in DOMAIN rest
               PROVE  /\ i = 1 => rest[i] \in {Schema, Torn}
                      /\ i = 2 => rest[i] \in {Data(0), Torn}
                      /\ i > 2 => rest[i].kind = "rec" \/ rest[i] = Torn
                      /\ rest[i] = Torn => i = Len(rest)
    BY <1>1 DEF Raw
  <2>2. i \in 1 .. n \/ i = n + 1
    BY <1>1, <1>3, <2>1
  <2>3. CASE i = n + 1
    BY <2>1, <2>3
  <2>4. CASE i \in 1 .. n
    <3>1. i \in DOMAIN s /\ rest[i] = s[i] /\ i # Len(s)
      BY <1>3, <1>4, <1>7, <2>1, <2>4
    <3> QED BY <3>1 DEF Raw
  <2> QED BY <2>2, <2>3, <2>4
<1> QED BY <1>2, <1>6, <1>7 DEF p
-----------------------------------------------------------------------------
(* ... and what each operator on the disk does to them.                     *)
CbfShape(io) ==
  /\ \A n \in Names : Readable(io.disk[n])
  /\ io.file.open =>
       /\ Raw(io.disk[io.file.name])
       /\ io.file.good =>
            /\ io.file.section = 1 /\ Whole(io.disk[io.file.name])
            /\ Len(io.disk[io.file.name]) = 2 + io.file.written

LEMMA CloseFileShape ==
  ASSUME NEW io \in IoType, CbfShape(io), NEW q, q = CloseFile(io)
  PROVE  /\ ~ q.file.open /\ q.disk \in [Names -> Seq(Entry)]
         /\ \A n \in Names : Readable(q.disk[n])
<1> DEFINE f == io.file
           s == io.disk[f.name]
<1>1. /\ f \in FileType /\ f.open \in BOOLEAN /\ f.section \in Nat /\ f.good \in BOOLEAN
      /\ f.name \in Names /\ f.written \in Nat /\ io.disk \in [Names -> Seq(Entry)]
      /\ s \in Seq(Entry)
  BY DEF IoType, FileType
<1>2. CASE ~ f.open \/ f.section = 0
  <2>1. q = [io EXCEPT !.file.open = FALSE]
    <3>1. EndDataSection(io) = io
      BY <1>1, <1>2 DEF EndDataSection
    <3> QED BY <3>1 DEF CloseFile
  <2>2. q.disk = io.disk /\ ~ q.file.open
    BY <1>1, <2>1 DEF IoType, FileType
  <2> QED BY <1>1, <2>2 DEF CbfShape
<1>3. CASE f.open /\ f.section # 0 /\ ~ f.good
  <2>1. q = [[io EXCEPT !.file.section = 0, !.file.written = 0] EXCEPT !.file.open = FALSE]
    <3>1. EndDataSection(io) = [io EXCEPT !.file.section = 0, !.file.written = 0]
      BY <1>1, <1>3 DEF EndDataSection
    <3> QED BY <3>1 DEF CloseFile
  <2>2. q.disk = io.disk /\ ~ q.file.open
    BY <1>1, <2>1, ZenonT(60) DEF IoType, FileType
  <2> QED BY <1>1, <2>2 DEF CbfShape
<1>4. CASE f.open /\ f.section # 0 /\ f.good
  <2> DEFINE w == f.written
             e == [s EXCEPT ![2] = Data(w)]
             p == [io EXCEPT !.disk[f.name][2] = Data(w), !.file.flushed = Len(s)]
  <2>1. f.section = 1 /\ Raw(s) /\ Whole(s) /\ Len(s) = 2 + w
    BY <1>4 DEF CbfShape
  <2>2. p.disk = [io.disk EXCEPT ![f.name] = e] /\ p.file = [f EXCEPT !.flushed = Len(s)]
        /\ DOMAIN p = {"disk", "file", "filename", "count", "reused"}
    BY <1>1 DEF IoType
  <2>3. q = [[p EXCEPT !.file.section = 0, !.file.written = 0] EXCEPT !.file.open = FALSE]
    <3>1. EndDataSection(io) = [p EXCEPT !.file.section = 0, !.file.written = 0]
      BY <1>1, <1>4, <2>1 DEF EndDataSection, Content
    <3> HIDE DEF p
    <3> QED BY <3>1 DEF CloseFile
  <2>4. q.disk = [io.disk EXCEPT ![f.name] = e] /\ ~ q.file.open
    <3>1. "file" \in DOMAIN p /\ "disk" \in DOMAIN p /\ "open" \in DOMAIN p.file
      BY <1>1, <2>2 DEF FileType
    <3> HIDE DEF p, e, s, f
    <3>2. q.disk = p.disk
      BY <2>3, <3>1
    <3>3. ~ q.file.open
      BY <2>3, <3>1, ZenonT(60)
    <3> QED BY <2>2, <3>2, <3>3
  <2>5. e \in Seq(Entry)
    <3>1. PICK x \in Entry : x = Data(w)
      BY <1>1, EntryTypes
    <3>2. 2 \in 1 .. Len(s)
      BY <1>1, <2>1
    <3> HIDE DEF s
    <3>3. [s EXCEPT ![2] = x] \in Seq(Entry)
      BY ONLY <1>1, <3>2, x \in Entry
    <3> QED BY <3>1, <3>3
  <2>6. Readable(e)
    <3> HIDE DEF s, w
    <3> QED BY <1>1, <2>1, PatchedIsReadable DEF w
  <2> HIDE DEF e
  <2>7. \A n \in Names : q.disk[n] = IF n = f.name THEN e ELSE io.disk[n]
    BY <1>1, <2>4
  <2>8. q.disk \in [Names -> Seq(Entry)]
    BY <1>1, <2>4, <2>5
  <2> QED BY <2>4, <2>6, <2>7, <2>8 DEF CbfShape
<1> QED BY <1>1, <1>2, <1>3, <1>4

LEMMA NewFileIsRaw ==
  LET s == <<Schema>> \o <<Data(0)>>
  IN  s \in Seq(Entry) /\ Raw(s) /\ Whole(s) /\ Len(s) = 2
<1> DEFINE s == <<Schema>> \o <<Data(0)>>
<1>1. s \in Seq(Entry) /\ Len(s) = 2 /\ s[1] = Schema /\ s[2] = Data(0)
  BY EntryTypes
<1>2. Schema # Torn /\ Data(0) # Torn
  BY Kindly
<1> HIDE DEF s
<1>3. \A i \in DOMAIN s : i = 1 \/ i = 2
  BY <1>1
<1> QED BY <1>1, <1>2, <1>3 DEF Raw, Whole, s

LEMMA OpenCbfShape ==
  ASSUME NEW io \in IoType, CbfShape(io), NEW opens \in BOOLEAN, NEW q, q = OpenCbf(io, opens),
         q \in IoType
  PROVE  CbfShape(q)
<1> DEFINE c == CloseFile(io)
           fn == io.filename
<1>1. /\ ~ c.file.open /\ c.disk \in [Names -> Seq(Entry)]
      /\ \A n \in Names : Readable(c.disk[n])
  BY CloseFileShape
<1>2. CASE ~ opens
  <2>1. q = c
    BY <1>1, <1>2 DEF OpenCbf, OpenNew
  <2> QED BY <1>1, <2>1 DEF CbfShape
<1>3. CASE opens
  <2> DEFINE n == OpenNew(io, TRUE)
             o == OpenForWriting(io, fn)
             w == Put(n, <<Schema>>)
             p == Put(w, <<Data(0)>>)
             s == <<Schema>> \o <<Data(0)>>
             g == [n.file EXCEPT !.section = 1, !.written = 0]
  <2>1. fn \in Names
    BY DEF IoType
  <2>c. /\ DOMAIN c = {"disk", "file", "filename", "count", "reused"}
        /\ DOMAIN c.file = {"open", "good", "name", "section", "written", "flushed"}
    <3>1. DOMAIN io = {"disk", "file", "filename", "count", "reused"}
          /\ DOMAIN io.file = {"open", "good", "name", "section", "written", "flushed"}
      BY DEF IoType, FileType
    <3>2. DOMAIN EndDataSection(io) = DOMAIN io /\ DOMAIN EndDataSection(io).file = DOMAIN io.file
      BY <3>1 DEF EndDataSection
    <3> HIDE DEF c
    <3>3. c = [EndDataSection(io) EXCEPT !.file.open = FALSE]
      BY DEF c, CloseFile
    <3> QED BY <3>1, <3>2, <3>3
  <2>2. /\ n.file.open /\ n.file.good /\ n.file.name = fn
        /\ n.disk = [c.disk EXCEPT ![fn] = <<>>]
        /\ DOMAIN n = DOMAIN c /\ DOMAIN n.file = DOMAIN c.file
    <3>1. o = [c EXCEPT !.disk[fn] = <<>>, !.file.open = TRUE, !.file.good = TRUE,
                        !.file.name = fn, !.file.flushed = 0]
      BY DEF OpenForWriting
    <3> HIDE DEF c, o
    <3>2. n = [o EXCEPT !.reused = @ \/ HoldsRecords(io, fn)]
      BY DEF OpenNew, o
    <3> HIDE DEF n
    <3>3. /\ o.file.open /\ o.file.good /\ o.file.name = fn
          /\ o.disk = [c.disk EXCEPT ![fn] = <<>>]
          /\ DOMAIN o = DOMAIN c /\ DOMAIN o.file = DOMAIN c.file
      BY <2>c, <3>1
    <3>4. n.file = o.file /\ n.disk = o.disk /\ DOMAIN n = DOMAIN o
      BY <2>c, <3>2, <3>3
    <3> QED BY <3>3, <3>4
  <2>3. n.disk[fn] = <<>> /\ \A m \in Names \ {fn} : n.disk[m] = c.disk[m]
    BY <1>1, <2>1, <2>2
  <2>4. n.disk \in [Names -> Seq(Entry)]
    <3> HIDE DEF n, c
    <3>1. <<>> \in Seq(Entry)
      OBVIOUS
    <3> QED BY <1>1, <2>1, <2>2, <3>1
  <2> HIDE DEF n
  <2>5. w = [n EXCEPT !.disk[fn] = <<Schema>>]
    <3>1. w = [n EXCEPT !.disk[n.file.name] = @ \o <<Schema>>]
      BY <2>2 DEF Put
    <3>2. n.disk[fn] \o <<Schema>> = <<Schema>>
      BY <2>3
    <3> QED BY <2>2, <3>1, <3>2
  <2>6. w.file = n.file /\ w.disk = [n.disk EXCEPT ![fn] = <<Schema>>] /\ DOMAIN w = DOMAIN n
    BY <2>2, <2>c, <2>5
  <2> HIDE DEF w
  <2>7. p = [w EXCEPT !.disk[fn] = s]
    <3>1. w.disk[fn] = <<Schema>>
      BY <2>1, <2>4, <2>6
    <3> QED BY <2>2, <2>6, <3>1 DEF Put
  <2>8. p.file = n.file /\ p.disk = [w.disk EXCEPT ![fn] = s] /\ DOMAIN p = DOMAIN n
    <3> HIDE DEF p, s
    <3> QED BY <2>2, <2>c, <2>6, <2>7
  <2>9. q = [p EXCEPT !.file.section = 1, !.file.written = 0]
    <3>1. q = BeginDataSection(w)
      BY <1>3, <2>2 DEF OpenCbf, WriteSchema, n, w
    <3>2. w.disk[w.file.name] = <<Schema>>
      BY <2>1, <2>2, <2>4, <2>6
    <3>3. Len(Content(w)) = 1
      BY <3>2 DEF Content
    <3> QED BY <3>1, <3>3 DEF BeginDataSection
  <2> HIDE DEF p
  <2>10. q.disk = p.disk /\ q.file = [n.file EXCEPT !.section = 1, !.written = 0]
    BY <2>2, <2>c, <2>8, <2>9
  <2>11. s \in Seq(Entry) /\ Raw(s) /\ Whole(s) /\ Len(s) = 2
    BY NewFileIsRaw
  <2> HIDE DEF s
  <2>12. \A m \in Names : q.disk[m] = IF m = fn THEN s ELSE c.disk[m]
    BY <2>1, <2>3, <2>4, <2>6, <2>8, <2>10
  <2>13. q.file.open /\ q.file.good /\ q.file.name = fn /\ q.file.section = 1 /\ q.file.written = 0
    BY <2>2, <2>c, <2>10
  <2> HIDE DEF c
  <2>14. Readable(s)
    BY <2>11, RawIsReadable
  <2> QED BY <1>1, <2>1, <2>11, <2>12, <2>13, <2>14 DEF CbfShape
<1> QED BY <1>2, <1>3
-----------------------------------------------------------------------------
LEMMA RecordsAppended ==
  ASSUME NEW c \in Seq(Entry), Raw(c), Whole(c), 2 <= Len(c),
         NEW t \in Seq(Entry), \A i \in DOMAIN t : t[i].kind = "rec",
         NEW d, d = c \o t
  PROVE  d \in Seq(Entry) /\ Raw(d) /\ Whole(d) /\ Len(d) = Len(c) + Len(t)
<1>1. d \in Seq(Entry) /\ Len(d) = Len(c) + Len(t) /\ Len(c) \in Nat /\ Len(t) \in Nat
  OBVIOUS
<1>2. \A i \in DOMAIN d : \/ i \in DOMAIN c /\ d[i] = c[i]
                          \/ i - Len(c) \in DOMAIN t /\ d[i] = t[i - Len(c)]
  OBVIOUS
<1> HIDE DEF Raw, Whole
<1>3. ASSUME NEW i \in DOMAIN d
      PROVE  /\ i = 1 => d[i] \in {Schema, Torn}
             /\ i = 2 => d[i] \in {Data(0), Torn}
             /\ i > 2 => d[i].kind = "rec" \/ d[i] = Torn
             /\ d[i] # Torn
  <2>1. i \in Nat /\ (i <= 2 => i \in DOMAIN c)
    BY <1>1
  <2>2. CASE i \in DOMAIN c /\ d[i] = c[i]
    <3>1. c[i] # Torn
      BY <2>2 DEF Whole
    <3> QED BY <2>2, <3>1 DEF Raw
  <2>3. CASE i - Len(c) \in DOMAIN t /\ d[i] = t[i - Len(c)]
    <3>1. i > 2 /\ d[i].kind = "rec"
      BY <1>1, <2>1, <2>3
    <3> QED BY <3>1, Kindly
  <2> QED BY <1>2, <2>2, <2>3
<1> QED BY <1>1, <1>3 DEF Raw, Whole

LEMMA WrittenShape ==
  ASSUME writer.format = "cbf", NEW io \in IoType, CbfShape(io), Accepts(io),
         NEW k \in Nat, NEW n \in Nat, NEW ids, IsBatch(ids, k, n), NEW q, q = Written(io, ids)
  PROVE  CbfShape(q)
<1> DEFINE p == Put(io, Recs(ids))
           w == WriteRecords(io, ids)
           f == io.file
           s == io.disk[f.name]
<1>1. /\ f \in FileType /\ f.open /\ f.good \in BOOLEAN /\ f.name \in Names /\ f.written \in Nat
      /\ io.disk \in [Names -> Seq(Entry)] /\ s \in Seq(Entry) /\ io.count \in Nat
  BY DEF IoType, FileType, Accepts
<1>2. PICK t \in Seq(Entry) : t = Recs(ids) /\ Len(t) = n /\ Len(ids) = n /\ \A i \in DOMAIN t : t[i].kind = "rec"
  BY RecsAre
<1>3. /\ p.file = f /\ DOMAIN p = DOMAIN io
      /\ f.good => p.disk = [io.disk EXCEPT ![f.name] = s \o t]
      /\ ~ f.good => p.disk = io.disk
  <2>1. "disk" \in DOMAIN io /\ "file" \in DOMAIN io
    BY DEF IoType
  <2> HIDE DEF f
  <2>2. p = IF f.good THEN [io EXCEPT !.disk[f.name] = @ \o t] ELSE io
    BY <1>2 DEF Put, f
  <2> QED BY <2>1, <2>2 DEF f
<1>4. q.disk = p.disk /\ q.file = [f EXCEPT !.written = f.written + n]
  <2>1. "disk" \in DOMAIN io /\ "file" \in DOMAIN io /\ "written" \in DOMAIN f
    BY DEF IoType, FileType
  <2>2. w = [p EXCEPT !.file.written = @ + Len(ids)]
    BY DEF WriteRecords
  <2> HIDE DEF p, w
  <2>3. w.disk = p.disk /\ w.file = [f EXCEPT !.written = f.written + n] /\ DOMAIN w = DOMAIN p
    BY <1>2, <1>3, <2>1, <2>2
  <2>4. q = [w EXCEPT !.count = IF writer.limit > 0 THEN @ + Len(ids) ELSE @]
    BY DEF Written, w
  <2> QED BY <1>3, <2>1, <2>3, <2>4
<1> HIDE DEF p
<1>5. q.file.open /\ q.file.good = f.good /\ q.file.name = f.name /\ q.file.section = f.section
      /\ q.file.written = f.written + n
  BY <1>1, <1>4 DEF FileType
<1>6. CASE ~ f.good
  BY <1>1, <1>3, <1>4, <1>5, <1>6 DEF CbfShape
<1>7. CASE f.good
  <2>1. f.section = 1 /\ Raw(s) /\ Whole(s) /\ Len(s) = 2 + f.written
    BY <1>1, <1>7 DEF CbfShape
  <2> DEFINE d == s \o t
  <2>2. d \in Seq(Entry) /\ Raw(d) /\ Whole(d) /\ Len(d) = Len(s) + n
    <3> HIDE DEF s
    <3>1. 2 <= Len(s)
      BY <1>1, <2>1
    <3> QED BY <1>1, <1>2, <2>1, <3>1, RecordsAppended, ZenonT(60)
  <2>3. q.disk = [io.disk EXCEPT ![f.name] = d]
    BY <1>3, <1>4, <1>7
  <2> HIDE DEF d
  <2>5. \A m \in Names : q.disk[m] = IF m = f.name THEN d ELSE io.disk[m]
    BY <1>1, <2>3
  <2>4. Readable(d) /\ Len(d) = 2 + (f.written + n)
    BY <1>1, <2>1, <2>2, RawIsReadable
  <2> QED BY <1>1, <1>5, <2>1, <2>2, <2>4, <2>5 DEF CbfShape
<1> QED BY <1>1, <1>6, <1>7

LEMMA RotateShape ==
  ASSUME writer.format = "cbf", NEW io, NEW k \in Nat, FilesOK("cbf", io, k), CbfShape(io),
         NEW opens \in BOOLEAN, NEW stamp \in Names, NEW q, q = Rotate(io, opens, stamp)
  PROVE  CbfShape(q)
<1> DEFINE c == CloseFile(io)
           f == IF writer.suffix THEN stamp ELSE 0
           r == [c EXCEPT !.filename = f]
           o == OpenCbf(r, opens)
<1>1. io \in IoType /\ FormatOK("cbf", io)
  BY DEF FilesOK
<1>2. Ended("cbf", io, c) /\ FilesOK("cbf", c, k)
  BY <1>1, CloseFileIs, EndedOK
<1>3. f \in Names
  BY ZeroIsName
<1>4. q = [o EXCEPT !.count = 0]
  BY DEF Rotate, CloseStream
<1>5. CbfShape(c)
  BY <1>1, CloseFileShape DEF CbfShape
<1> HIDE DEF c, f
<1>6. FilesOK("cbf", r, k) /\ r.disk = c.disk /\ r.file = c.file
  BY <1>2, <1>3, Renamed
<1>7. CbfShape(r) /\ r \in IoType
  BY <1>5, <1>6 DEF CbfShape, FilesOK
<1> HIDE DEF r
<1>8. FilesOK("cbf", o, k)
  <2>1. CASE opens
    BY <1>6, <2>1, OpenCbfIs
  <2>2. CASE ~ opens
    BY <1>6, <2>2, NotOpened
  <2> QED BY <2>1, <2>2
<1>9. o \in IoType
  BY <1>8 DEF FilesOK
<1>10. CbfShape(o)
  BY <1>7, <1>9, OpenCbfShape
<1> HIDE DEF o
<1>11. q.disk = o.disk /\ q.file = o.file
  BY <1>4, <1>9 DEF IoType
<1> QED BY <1>10, <1>11 DEF CbfShape
-----------------------------------------------------------------------------
(* The shape of what is on the disk, whoever wrote it, and of what is read. *)
ReadableFiles == \A n \in Names : disk[n] \in Seq(Entry) /\ Readable(disk[n])

ShapeInv ==
  /\ writer.format = "cbf" => IF crashed THEN ReadableFiles ELSE CbfShape(Io)
  /\ writer.format = "none" => ReadableFiles
  /\ play.file \in Seq(Entry) /\ Readable(play.file)

LEMMA HookShape ==
  ASSUME WriterType, NEW q \in IoType, NEW b \in BOOLEAN, Becomes(q, b), CbfShape(q)
  PROVE  CbfShape(Io')
  BY BecomesIs

LEMMA StartShape ==
  ASSUME WriterType, RecorderInv, CbfShape(Io), writer.format = "cbf", BatchOK,
         clock \in Nat \ {0}, OnConsumeStart
  PROVE  CbfShape(Io')
<1>1. PICK opens \in Outcomes, stamp \in StampsFrom(clock) :
        Becomes(OpenCbf(Io, opens), writer.restart)
  BY DEF OnConsumeStart
<1> DEFINE q == OpenCbf(Io, opens)
           k == Consumed
<1>2. opens \in BOOLEAN /\ k \in Nat
  BY ConsumedIs DEF Outcomes
<1>3. FilesOK("cbf", Io, k) /\ writer.restart \in BOOLEAN
  BY DEF RecorderInv, WriterType
<1> HIDE DEF k
<1>4. FilesOK("cbf", q, k)
  <2>1. CASE opens
    BY <1>2, <1>3, <2>1, OpenCbfIs
  <2>2. CASE ~ opens
    BY <1>2, <1>3, <2>2, NotOpened
  <2> QED BY <2>1, <2>2
<1>5. Io \in IoType /\ q \in IoType
  BY <1>3, <1>4 DEF FilesOK
<1>6. CbfShape(q)
  BY <1>2, <1>5, OpenCbfShape
<1> HIDE DEF q
<1> QED BY <1>1, <1>3, <1>5, <1>6, HookShape DEF q

LEMMA StopShape ==
  ASSUME WriterType, RecorderInv, CbfShape(Io), writer.format = "cbf", OnConsumeStop
  PROVE  CbfShape(Io')
<1> DEFINE q == CloseFile(Io)
<1>1. Becomes(q, writer.restart) /\ writer.restart \in BOOLEAN
  BY DEF OnConsumeStop, CloseStream, WriterType
<1>2. Io \in IoType /\ FormatOK("cbf", Io)
  BY DEF RecorderInv, FilesOK
<1>3. q \in IoType
  BY <1>2, CloseFileIs DEF Ended
<1>4. CbfShape(q)
  BY <1>2, CloseFileShape DEF CbfShape
<1> HIDE DEF q
<1> QED BY <1>1, <1>3, <1>4, HookShape

LEMMA ConsumeShape ==
  ASSUME WriterType, RecorderInv, CbfShape(Io), writer.format = "cbf", BatchOK,
         clock \in Nat \ {0}, con.worker = "consuming", ConsumeBatch
  PROVE  CbfShape(Io')
<1>1. PICK opens \in Outcomes, opensNext \in Outcomes, first \in StampsFrom(clock) :
        \E second \in StampsFrom(first) :
          LET ready == IF writer.restart THEN Rotate(Io, opens, first) ELSE Io
              more  == IF Accepts(ready) THEN Written(ready, con.batch) ELSE ready
              full  == Accepts(ready) /\ IsFull(more)
          IN  /\ Becomes(IF full THEN Rotate(more, opensNext, second) ELSE more, FALSE)
              /\ clock' = IF full THEN second ELSE IF writer.restart THEN first ELSE clock
              /\ Opened((writer.restart => opens) /\ (full => opensNext))
  BY DEF ConsumeBatch
<1> DEFINE ready == IF writer.restart THEN Rotate(Io, opens, first) ELSE Io
           more  == IF Accepts(ready) THEN Written(ready, con.batch) ELSE ready
           full  == Accepts(ready) /\ IsFull(more)
<1>2. PICK second \in StampsFrom(first) :
        Becomes(IF full THEN Rotate(more, opensNext, second) ELSE more, FALSE)
  BY <1>1
<1> DEFINE q == IF full THEN Rotate(more, opensNext, second) ELSE more
<1>3. /\ first \in Names /\ second \in Names /\ opens \in BOOLEAN /\ opensNext \in BOOLEAN
  BY StampedLater DEF Outcomes
<1>5. PICK n \in Nat : n <= reader.cursor /\ IsBatch(con.batch, reader.cursor - n, n)
  BY DEF BatchOK
<1> DEFINE k == reader.cursor - n
<1>6. k \in Nat /\ Len(con.batch) = n
  BY <1>5 DEF BatchOK, IsBatch
<1>7. Consumed = k /\ k + n \in Nat
  BY <1>6 DEF Consumed
<1>8. IsBatch(con.batch, k, n)
  BY <1>5
<1> HIDE DEF k
<1>10. FilesOK("cbf", Io, k) /\ writer.restart \in BOOLEAN
  BY <1>7 DEF RecorderInv, WriterType
<1>11. FilesOK("cbf", ready, k)
  BY <1>3, <1>6, <1>10, RotationIs
<1>12. CbfShape(ready)
  <2>1. CASE writer.restart
    BY <1>3, <1>6, <1>10, <2>1, RotateShape
  <2>2. CASE ~ writer.restart
    BY <2>2
  <2> QED BY <1>10, <2>1, <2>2
<1> HIDE DEF ready
<1>13. FilesOK("cbf", more, k + n)
  BY <1>6, <1>8, <1>11, ConsumingIs
<1>14. CbfShape(more)
  <2>1. CASE Accepts(ready)
    <3>1. ready \in IoType
      BY <1>11 DEF FilesOK
    <3> QED BY <1>6, <1>8, <1>12, <2>1, <3>1, WrittenShape
  <2>2. CASE ~ Accepts(ready)
    BY <1>12, <2>2
  <2> QED BY <2>1, <2>2
<1> HIDE DEF more
<1>15. full \in BOOLEAN
  BY DEF Accepts
<1> HIDE DEF full
<1>16. FilesOK("cbf", q, k + n)
  BY <1>3, <1>7, <1>13, <1>15, RotationIs
<1>17. CbfShape(q)
  <2>1. CASE full
    BY <1>3, <1>7, <1>13, <1>14, <2>1, RotateShape
  <2>2. CASE ~ full
    BY <1>14, <2>2
  <2> QED BY <1>15, <2>1, <2>2
<1>18. Becomes(q, FALSE)
  BY <1>2
<1> HIDE DEF q
<1>19. q \in IoType
  BY <1>16 DEF FilesOK
<1> QED BY <1>17, <1>18, <1>19, HookShape

LEMMA CutShape ==
  ASSUME WriterType, RecorderInv, CbfShape(Io), writer.file.open,
         NEW rest \in Remains(Content(Io), writer.file.flushed),
         NEW e, e = [disk EXCEPT ![writer.file.name] = rest]
  PROVE  /\ e \in [Names -> Seq(Entry)] /\ \A n \in Names : Readable(e[n])
         /\ Raw(e[writer.file.name])
<1> DEFINE f == writer.file.name
           s == disk[f]
<1>1. Io \in IoType /\ Io.disk = disk /\ Io.file = writer.file
  BY DEF RecorderInv, FilesOK, Io
<1>2. disk \in [Names -> Seq(Entry)] /\ f \in Names /\ writer.file.flushed \in Nat /\ s \in Seq(Entry)
  BY <1>1 DEF IoType, FileType
<1>3. Content(Io) = s /\ Raw(s)
  BY <1>1 DEF Content, CbfShape
<1>4. rest \in Seq(Entry) /\ Raw(rest)
  <2> HIDE DEF s
  <2> QED BY <1>2, <1>3, RemainsAreRaw
<1>5. Readable(rest)
  BY <1>4, RawIsReadable
<1>6. \A n \in Names : e[n] = IF n = f THEN rest ELSE disk[n]
  BY <1>2
<1>7. e \in [Names -> Seq(Entry)]
  BY <1>2, <1>4
<1> QED BY <1>1, <1>2, <1>4, <1>5, <1>6, <1>7 DEF CbfShape

LEMMA WriteFailsShape ==
  ASSUME WriterType, RecorderInv, CbfShape(Io), WriteFails
  PROVE  CbfShape(Io')
<1>1. /\ writer.file.open /\ writer' = [writer EXCEPT !.file.good = FALSE]
      /\ \E rest \in Remains(Content(Io), writer.file.flushed) :
           disk' = [disk EXCEPT ![writer.file.name] = rest]
  BY DEF WriteFails
<1>2. /\ disk' \in [Names -> Seq(Entry)] /\ \A n \in Names : Readable(disk'[n])
      /\ Raw(disk'[writer.file.name])
  BY <1>1, CutShape
<1>3. ~ writer'.file.good /\ writer'.file.name = writer.file.name
  BY <1>1 DEF WriterType, FileType
<1>4. Io'.disk = disk' /\ Io'.file = writer'.file
  BY DEF Io
<1> QED BY <1>2, <1>3, <1>4 DEF CbfShape
-----------------------------------------------------------------------------
(* Archives, written section by section.  A set that is closed under        *)
(* counting up holds every number.                                          *)
LEMMA CountingUp ==
  ASSUME NEW N \in Nat, NEW S, 0 \in S, \A n \in 0 .. N - 1 : n \in S => n + 1 \in S
  PROVE  \A n \in 0 .. N : n \in S
<1> DEFINE T == {n \in 0 .. N : n \notin S}
<1> SUFFICES ASSUME T # {} PROVE FALSE
  OBVIOUS
<1>1. T \in SUBSET Nat
  OBVIOUS
<1>2. PICK m \in T : \A k \in T : m <= k
  <2> HIDE DEF T
  <2> QED BY <1>1, LeastNat
<1>3. m # 0 /\ m \in 0 .. N
  BY <1>2
<1>4. m - 1 \in 0 .. N - 1 /\ ~ (m <= m - 1)
  BY <1>3
<1>5. m - 1 \notin T
  BY <1>2, <1>4
<1>6. m - 1 \in S /\ m - 1 + 1 = m
  BY <1>3, <1>4, <1>5
<1> QED BY <1>2, <1>4, <1>6

(* The function an archive is defined by exists. *)
ArchiveUpTo(lengths, n, f) ==
  f = [k \in 0 .. n |->
         IF k = 0 THEN <<Schema>>
         ELSE f[k - 1] \o Section(lengths[k], Len(f[k - 1]) - k)]

LEMMA ArchiveByOne ==
  ASSUME NEW lengths, Len(lengths) \in Nat
  PROVE  \E f : ArchiveUpTo(lengths, Len(lengths), f) /\ Archive(lengths) = f[Len(lengths)]
<1> DEFINE S == {n \in Nat : \E f : ArchiveUpTo(lengths, n, f)}
<1>1. 0 \in S
  <2>1. ArchiveUpTo(lengths, 0, [k \in 0 .. 0 |-> <<Schema>>])
    BY DEF ArchiveUpTo
  <2> QED BY <2>1
<1>2. ASSUME NEW n \in 0 .. Len(lengths) - 1, n \in S
      PROVE  n + 1 \in S
  <2>1. PICK f : ArchiveUpTo(lengths, n, f)
    BY <1>2
  <2> DEFINE step(g, k) == g[k - 1] \o Section(lengths[k], Len(g[k - 1]) - k)
             h == [k \in 0 .. n + 1 |-> IF k = n + 1 THEN f[n] \o Section(lengths[n + 1], Len(f[n]) - (n + 1))
                                        ELSE f[k]]
  <2>2. ASSUME NEW k \in 0 .. n + 1
        PROVE  h[k] = IF k = 0 THEN <<Schema>> ELSE h[k - 1] \o Section(lengths[k], Len(h[k - 1]) - k)
    <3>1. CASE k = n + 1
      <4>1. k # 0 /\ k - 1 = n /\ h[k - 1] = f[n]
        BY <3>1
      <4>2. h[k] = f[n] \o Section(lengths[k], Len(f[n]) - k)
        BY <3>1
      <4> QED BY <4>1, <4>2
    <3>2. CASE k # n + 1
      <4>0. k \in 0 .. n
        BY <3>2
      <4>1. f[k] = IF k = 0 THEN <<Schema>> ELSE f[k - 1] \o Section(lengths[k], Len(f[k - 1]) - k)
        BY <2>1, <4>0 DEF ArchiveUpTo
      <4>2. h[k] = f[k] /\ (k # 0 => h[k - 1] = f[k - 1])
        BY <3>2, <4>0
      <4> HIDE DEF h
      <4> QED BY <4>1, <4>2
    <3> QED BY <3>1, <3>2
  <2>3. ArchiveUpTo(lengths, n + 1, h)
    BY <2>2 DEF ArchiveUpTo
  <2>4. n + 1 \in Nat
    OBVIOUS
  <2> HIDE DEF h
  <2> QED BY <2>3, <2>4
<1>3. Len(lengths) \in S
  <2> DEFINE N == Len(lengths)
  <2> HIDE DEF S
  <2>1. N \in Nat /\ \A n \in 0 .. N - 1 : n \in S => n + 1 \in S
    BY <1>2
  <2> HIDE DEF N
  <2>2. \A n \in 0 .. N : n \in S
    BY <1>1, <2>1, CountingUp
  <2> QED BY <2>1, <2>2 DEF N
<1> DEFINE F == CHOOSE f : ArchiveUpTo(lengths, Len(lengths), f)
<1>4. ArchiveUpTo(lengths, Len(lengths), F)
  BY <1>3
<1>5. Archive(lengths) = F[Len(lengths)]
  BY DEF Archive, ArchiveUpTo
<1> HIDE DEF F
<1> QED BY <1>4, <1>5

LEMMA SectionIs ==
  ASSUME NEW n \in Nat, NEW first \in Nat, NEW t, t = Section(n, first)
  PROVE  /\ t \in Seq(Entry) /\ Len(t) = n + 1
         /\ t[1].kind = "data" /\ t[1].val = n /\ Whole(t)
         /\ \A i \in DOMAIN t : i > 1 => t[i].kind = "rec"
<1> DEFINE r == [i \in 1 .. n |-> Rec(first + i)]
           h == <<Data(n)>>
<1>1. r \in Seq(Entry) /\ Len(r) = n
  <2>1. \A i \in 1 .. n : Rec(first + i) \in Entry
    BY EntryTypes
  <2>2. r \in [1 .. n -> Entry]
    BY <2>1
  <2> QED BY <2>2
<1>2. \A i \in 1 .. n : r[i].kind = "rec"
  BY EntryKinds
<1>3. h \in Seq(Entry) /\ Len(h) = 1 /\ h[1] = Data(n)
  BY EntryTypes
<1>4. t = h \o r
  BY DEF Section
<1> HIDE DEF r, h
<1>5. /\ t \in Seq(Entry) /\ Len(t) = n + 1 /\ t[1] = Data(n)
      /\ \A i \in DOMAIN t : i > 1 => i - 1 \in 1 .. n /\ t[i] = r[i - 1]
  <2>1. t \in Seq(Entry)
    BY <1>1, <1>3, <1>4
  <2>2. Joined(t, h, r, 1, n)
    BY <1>1, <1>3, <1>4, Joins
  <2>3. Len(t) = n + 1 /\ DOMAIN t = 1 .. 1 + n /\ t[1] = h[1]
    BY <2>1, <2>2 DEF Joined
  <2>4. \A i \in 1 + 1 .. 1 + n : t[i] = r[i - 1]
    BY <2>2 DEF Joined
  <2> QED BY <1>3, <2>1, <2>3, <2>4
<1>6. t[1].kind = "data" /\ t[1].val = n
  BY <1>5, EntryKinds, Kindly
<1>7. \A i \in DOMAIN t : i > 1 => t[i].kind = "rec"
  BY <1>2, <1>5
<1>8. Whole(t)
  <2>1. \A i \in DOMAIN t : i = 1 \/ i > 1
    BY <1>5
  <2> QED BY <1>6, <1>7, <2>1, Kindly DEF Whole
<1> QED BY <1>5, <1>6, <1>7, <1>8

LEMMA SectionAppended ==
  ASSUME NEW c \in Seq(Entry), Readable(c), Whole(c), 1 <= Len(c),
         NEW n \in Nat, NEW first \in Nat, NEW d, d = c \o Section(n, first)
  PROVE  d \in Seq(Entry) /\ Readable(d) /\ Whole(d) /\ Len(d) = Len(c) + n + 1
<1>1. PICK t \in Seq(Entry) :
        /\ t = Section(n, first) /\ Len(t) = n + 1
        /\ t[1].kind = "data" /\ t[1].val = n /\ Whole(t)
        /\ \A i \in DOMAIN t : i > 1 => t[i].kind = "rec"
  BY SectionIs
<1>2. d = c \o t
  BY <1>1
<1>3. PICK a \in Nat : a = Len(c) /\ 1 <= a
  OBVIOUS
<1>4. /\ d \in Seq(Entry) /\ Len(d) = a + n + 1 /\ DOMAIN c = 1 .. a
      /\ \A i \in 1 .. a : d[i] = c[i]
      /\ \A i \in 1 .. n + 1 : d[a + i] = t[i]
  <2>1. d \in Seq(Entry) /\ n + 1 \in Nat
    BY <1>1, <1>2
  <2>2. Joined(d, c, t, a, n + 1)
    BY <1>1, <1>2, <1>3, <2>1, Joins
  <2>3. ASSUME NEW i \in 1 .. n + 1 PROVE d[a + i] = t[i]
    <3> DEFINE m == a + i
    <3>1. m \in a + 1 .. a + (n + 1) /\ m - a = i
      BY <1>3
    <3> HIDE DEF m
    <3>2. d[m] = t[m - a]
      BY <2>2, <3>1 DEF Joined
    <3> QED BY <3>1, <3>2 DEF m
  <2> QED BY <1>3, <2>1, <2>2, <2>3 DEF Joined
<1>5. DOMAIN d = 1 .. a + n + 1 /\ DOMAIN t = 1 .. n + 1
  BY <1>1, <1>4
<1>6. \A i \in DOMAIN d : i \in 1 .. a \/ (i - a \in 1 .. n + 1 /\ d[i] = t[i - a])
  BY <1>3, <1>4, <1>5
<1>7. a + 1 \in DOMAIN d /\ d[a + 1].kind = "data" /\ d[a + 1].val = n
  BY <1>1, <1>4, <1>5
<1>8. \A j \in 1 .. n : a + 1 + j \in DOMAIN d /\ d[a + 1 + j].kind = "rec"
  <2> SUFFICES ASSUME NEW j \in 1 .. n PROVE a + 1 + j \in DOMAIN d /\ d[a + 1 + j].kind = "rec"
    OBVIOUS
  <2> DEFINE m == 1 + j
  <2>1. m \in 1 .. n + 1 /\ m > 1 /\ a + m = a + 1 + j
    OBVIOUS
  <2> HIDE DEF m
  <2>2. d[a + m] = t[m] /\ a + m \in DOMAIN d /\ t[m].kind = "rec"
    BY <1>1, <1>3, <1>4, <1>5, <2>1, SMTT(30)
  <2> QED BY <2>1, <2>2
<1>9. Whole(d)
  <2> SUFFICES ASSUME NEW i \in DOMAIN d PROVE d[i] # Torn
    BY DEF Whole
  <2>1. CASE i \in 1 .. a
    BY <1>4, <2>1 DEF Whole
  <2>2. CASE i - a \in 1 .. n + 1 /\ d[i] = t[i - a]
    BY <1>1, <1>5, <2>2 DEF Whole
  <2> QED BY <1>6, <2>1, <2>2
<1>10. Readable(d)
  <2> SUFFICES ASSUME NEW i \in DOMAIN d
               PROVE  /\ i = 1 => d[i] \in {Schema, Torn}
                      /\ i = 2 => d[i].kind = "data" \/ d[i] = Torn
                      /\ i > 2 => d[i].kind \in {"data", "rec"} \/ d[i] = Torn
                      /\ d[i] = Torn => i = Len(d)
                      /\ d[i].kind = "data" /\ d[i].val > 0 => Counted(d, i, d[i].val)
    BY DEF Readable
  <2>0. d[i] # Torn
    BY <1>9 DEF Whole
  <2>1. CASE i \in 1 .. a
    <3>1. i \in DOMAIN c /\ d[i] = c[i]
      BY <1>4, <2>1
    <3>2. ASSUME c[i].kind = "data", c[i].val > 0 PROVE Counted(d, i, c[i].val)
      <4>1. Counted(c, i, c[i].val)
        BY <3>1, <3>2 DEF Readable
      <4>2. PICK v \in Nat : v = c[i].val
        <5>1. c[i] \in Entry
          BY <3>1
        <5> QED BY <5>1 DEF Entry
      <4>3. \A j \in 1 .. v : i + j \in 1 .. a /\ c[i + j].kind = "rec"
        BY <1>4, <4>1, <4>2 DEF Counted
      <4>4. \A j \in 1 .. v : i + j \in DOMAIN d /\ d[i + j].kind = "rec"
        <5> SUFFICES ASSUME NEW j \in 1 .. v PROVE i + j \in DOMAIN d /\ d[i + j].kind = "rec"
          OBVIOUS
        <5> DEFINE m == i + j
        <5>1. m \in 1 .. a /\ c[m].kind = "rec"
          BY <4>3
        <5> HIDE DEF m
        <5>2. m \in DOMAIN d /\ d[m] = c[m]
          BY <1>3, <1>4, <1>5, <5>1
        <5> QED BY <5>1, <5>2 DEF m
      <4>5. i + v <= a /\ i + v \in Nat
        <5>1. v > 0 /\ v \in 1 .. v
          BY <3>2, <4>2
        <5> QED BY <1>4, <2>1, <4>3, <5>1
      <4>6. SectionEnds(d, i + v)
        <5> DEFINE m == i + v + 1
        <5>1. CASE m \in 1 .. a
          <6>1. c[m].kind = "data" \/ c[m] = Torn
            BY <1>4, <4>1, <4>2, <5>1 DEF Counted, SectionEnds
          <6>2. d[m] = c[m]
            BY <1>4, <5>1
          <6> QED BY <6>1, <6>2 DEF SectionEnds
        <5>2. CASE m \notin 1 .. a
          <6>1. m = a + 1
            BY <1>3, <2>1, <4>5, <5>2
          <6> QED BY <1>7, <6>1 DEF SectionEnds
        <5> QED BY <5>1, <5>2
      <4> QED BY <4>2, <4>4, <4>6 DEF Counted
    <3>3. /\ i = 1 => c[i] \in {Schema, Torn}
          /\ i = 2 => c[i].kind = "data" \/ c[i] = Torn
          /\ i > 2 => c[i].kind \in {"data", "rec"} \/ c[i] = Torn
      BY <3>1 DEF Readable
    <3> QED BY <2>0, <3>1, <3>2, <3>3
  <2>2. CASE i = a + 1
    <3>1. Counted(d, a + 1, n)
      <4>1. SectionEnds(d, a + 1 + n)
        BY <1>5 DEF SectionEnds
      <4> QED BY <1>8, <4>1 DEF Counted
    <3> QED BY <1>3, <1>7, <2>0, <2>2, <3>1
  <2>3. CASE i \notin 1 .. a /\ i # a + 1
    <3>1. i - a \in 1 .. n + 1 /\ d[i] = t[i - a] /\ i - a > 1 /\ i > 2
      BY <1>3, <1>6, <2>3
    <3>2. d[i].kind = "rec"
      BY <1>1, <1>5, <3>1
    <3> QED BY <2>0, <3>1, <3>2
  <2> QED BY <2>1, <2>2, <2>3
<1> QED BY <1>3, <1>4, <1>9, <1>10

LEMMA ArchiveIsReadable ==
  ASSUME NEW lengths \in Seq(Nat)
  PROVE  Archive(lengths) \in Seq(Entry) /\ Readable(Archive(lengths))
<1>1. PICK N \in Nat : N = Len(lengths)
  OBVIOUS
<1>2. PICK f : ArchiveUpTo(lengths, N, f) /\ Archive(lengths) = f[N]
  BY <1>1, ArchiveByOne
<1> DEFINE Good(n) == f[n] \in Seq(Entry) /\ Readable(f[n]) /\ Whole(f[n]) /\ n + 1 <= Len(f[n])
           S == {n \in Nat : Good(n)}
<1>3. 0 \in S
  <2>1. f[0] = <<Schema>>
    BY <1>1, <1>2 DEF ArchiveUpTo
  <2> DEFINE s == <<Schema>>
  <2>2. s \in Seq(Entry) /\ Len(s) = 1 /\ s[1] = Schema
    BY EntryTypes
  <2> HIDE DEF s
  <2>3. Schema # Torn /\ Schema.kind # "data"
    BY Kindly, EntryKinds
  <2>4. \A i \in DOMAIN s : i = 1
    BY <2>2
  <2>5. Whole(s) /\ Readable(s)
    BY <2>2, <2>3, <2>4 DEF Whole, Readable
  <2>6. Good(0)
    BY <2>1, <2>2, <2>5 DEF s
  <2> QED BY <2>6
<1>4. ASSUME NEW n \in 0 .. N - 1, n \in S PROVE n + 1 \in S
  <2> DEFINE m == n + 1
  <2>1. m \in 0 .. N /\ m # 0 /\ m - 1 = n /\ m \in 1 .. N /\ m \in Nat
    OBVIOUS
  <2> HIDE DEF m
  <2>2. f[m] = f[n] \o Section(lengths[m], Len(f[n]) - m)
    BY <1>2, <2>1 DEF ArchiveUpTo
  <2>3. PICK c \in Seq(Entry) : c = f[n] /\ Readable(c) /\ Whole(c) /\ n + 1 <= Len(c)
    BY <1>4
  <2>4. PICK l \in Nat, first \in Nat : l = lengths[m] /\ first = Len(c) - m
    <3>1. Len(c) - m \in Nat
      BY <2>3 DEF m
    <3>2. lengths[m] \in Nat
      BY <1>1, <2>1
    <3> QED BY <3>1, <3>2
  <2>5. /\ f[m] \in Seq(Entry) /\ Readable(f[m]) /\ Whole(f[m]) /\ Len(f[m]) = Len(c) + l + 1
    <3>1. 1 <= Len(c)
      BY <2>3
    <3>2. PICK d : d = f[m]
      OBVIOUS
    <3>3. d = c \o Section(l, first)
      BY <2>2, <2>3, <2>4, <3>2
    <3>4. d \in Seq(Entry) /\ Readable(d) /\ Whole(d) /\ Len(d) = Len(c) + l + 1
      BY ONLY <2>3, <3>1, <3>3, c \in Seq(Entry), l \in Nat, first \in Nat, SectionAppended, ZenonT(120)
    <3> QED BY <3>2, <3>4
  <2>6. m + 1 <= Len(f[m])
    <3>1. m <= Len(c) /\ Len(c) \in Nat
      BY <2>3 DEF m
    <3> QED BY <2>1, <2>4, <2>5, <3>1
  <2> QED BY <2>1, <2>5, <2>6 DEF m
<1> HIDE DEF S
<1>5. N \in S
  <2>1. \A n \in 0 .. N : n \in S
    BY <1>3, <1>4, CountingUp
  <2> QED BY <2>1
<1> QED BY <1>2, <1>5 DEF S
-----------------------------------------------------------------------------
LEMMA EmptyIsReadable == <<>> \in Seq(Entry) /\ Readable(<<>>)
  BY DEF Readable

LEMMA FormatStays ==
  ASSUME FilesInv, Records
  PROVE  writer'.format = writer.format /\ writer.format \in {"cbf", "csv"}
<1>1. Recording /\ ~ crashed
  BY DEF Records, Recorder
<1>2. WriterType
  BY <1>1 DEF FilesInv
<1>3. writer.format \in {"cbf", "csv"}
  BY <1>2 DEF WriterType
<1>4. ASSUME NEW q, NEW b, Becomes(q, b) PROVE writer'.format = writer.format
  BY <1>2, <1>4 DEF Becomes, WriterType
<1>5. CASE UNCHANGED fileVars
  BY <1>3, <1>5 DEF fileVars
<1>6. CASE OnConsumeStart
  BY <1>3, <1>4, <1>6 DEF OnConsumeStart
<1>7. CASE ConsumeBatch
  <2>1. PICK opens \in Outcomes, opensNext \in Outcomes, first \in StampsFrom(clock) :
          \E second \in StampsFrom(first) :
            LET ready == IF writer.restart THEN Rotate(Io, opens, first) ELSE Io
                more  == IF Accepts(ready) THEN Written(ready, con.batch) ELSE ready
                full  == Accepts(ready) /\ IsFull(more)
            IN  /\ Becomes(IF full THEN Rotate(more, opensNext, second) ELSE more, FALSE)
                /\ clock' = IF full THEN second ELSE IF writer.restart THEN first ELSE clock
                /\ Opened((writer.restart => opens) /\ (full => opensNext))
    BY <1>7 DEF ConsumeBatch
  <2>2. \E q : Becomes(q, FALSE)
    BY <2>1
  <2> QED BY <1>3, <1>4, <2>2
<1>8. CASE OnConsumeStop
  BY <1>3, <1>4, <1>8 DEF OnConsumeStop
<1>9. CASE Restart
  BY <1>3, <1>2, <1>9 DEF Restart, WriterType
<1>10. CASE WriteFails
  BY <1>3, <1>2, <1>10 DEF WriteFails, WriterType
<1> QED BY <1>3, <1>5, <1>6, <1>7, <1>8, <1>9, <1>10 DEF Records, ConsumerCalls, RecorderWorker

LEMMA ShapeRecords ==
  ASSUME ConsumerType, FilesInv, ShapeInv, Records, writer.format = "cbf"
  PROVE  CbfShape(Io') /\ crashed' = crashed /\ ~ crashed /\ writer'.format = "cbf"
<1>1. Recording /\ ~ crashed /\ crashed' = crashed
  BY DEF Records, Recorder
<1>2. WriterType /\ BatchOK /\ RecorderInv /\ clock \in Nat \ {0}
  BY <1>1 DEF FilesInv
<1>3. CbfShape(Io)
  BY <1>1 DEF ShapeInv
<1>4. writer'.format = "cbf"
  BY FormatStays
<1>5. CASE /\ ConsumerUser \/ SourcePushes \/ WorkerChecks \/ WorkerReads \/ WorkerLeaves
           /\ UNCHANGED fileVars
  <2>1. Io' = Io /\ writer' = writer
    BY <1>5 DEF fileVars, Io
  <2> QED BY <1>1, <1>3, <2>1
<1>6. CASE WorkerGoes("starting", "loop") /\ OnConsumeStart
  BY <1>1, <1>2, <1>3, <1>4, <1>6, StartShape
<1>7. CASE WorkerConsumes /\ ConsumeBatch
  <2>1. con.worker = "consuming"
    BY <1>7 DEF WorkerConsumes
  <2> QED BY <1>1, <1>2, <1>3, <1>4, <1>7, <2>1, ConsumeShape
<1>8. CASE WorkerGoes("stopping", "ended") /\ OnConsumeStop
  BY <1>1, <1>2, <1>3, <1>4, <1>8, StopShape
<1>9. CASE Restart
  <2>1. Io' = Io
    BY <1>2, <1>9 DEF Restart, Io, WriterType
  <2> QED BY <1>1, <1>3, <1>4, <2>1
<1>10. CASE WriteFails
  BY <1>1, <1>2, <1>3, <1>4, <1>10, WriteFailsShape
<1> QED BY <1>5, <1>6, <1>7, <1>8, <1>9, <1>10 DEF Records, ConsumerCalls, RecorderWorker

LEMMA ShapeCrash ==
  ASSUME FilesInv, ShapeInv, Crash
  PROVE  ShapeInv'
<1>1. Recording /\ ~ crashed /\ crashed' /\ play' = play
  BY DEF Crash
<1>2. WriterType /\ RecorderInv
  BY <1>1 DEF FilesInv
<1>3. writer'.format = writer.format /\ writer.format \in {"cbf", "csv"}
  BY <1>2 DEF Crash, NewWriter, WriterType
<1>4. ASSUME writer.format = "cbf" PROVE ReadableFiles'
  <2>1. CbfShape(Io) /\ Io.disk = disk
    BY <1>1, <1>4 DEF ShapeInv, Io
  <2>2. CASE writer.file.open
    <3>1. PICK rest \in Remains(Content(Io), writer.file.flushed) :
            disk' = [disk EXCEPT ![writer.file.name] = rest]
      BY <2>2 DEF Crash
    <3>2. disk' \in [Names -> Seq(Entry)] /\ \A n \in Names : Readable(disk'[n])
      BY <1>2, <2>1, <2>2, <3>1, CutShape
    <3> QED BY <3>2 DEF ReadableFiles
  <2>3. CASE ~ writer.file.open
    <3>1. disk' = disk
      BY <2>3 DEF Crash
    <3>2. disk \in [Names -> Seq(Entry)]
      BY <1>2, <2>1 DEF RecorderInv, FilesOK, IoType
    <3> QED BY <2>1, <3>1, <3>2 DEF CbfShape, ReadableFiles
  <2> QED BY <2>2, <2>3
<1> QED BY <1>1, <1>3, <1>4 DEF ShapeInv

LEMMA ShapeChoose ==
  ASSUME FilesInv, ShapeInv, Choose
  PROVE  ShapeInv'
<1>1. PICK name \in Names, tool \in {"reader", "viewer"} : play' = [tool |-> tool, file |-> disk[name]]
  BY DEF Choose
<1>2. disk' = EmptyDisk /\ writer'.format = "none"
  BY DEF Choose, NoRecorder, NewWriter
<1>3. ReadableFiles'
  BY <1>2, EmptyIsReadable DEF ReadableFiles, EmptyDisk
<1>4. ReadableFiles
  <2>1. CASE writer.format = "none"
    BY <2>1 DEF ShapeInv
  <2>2. CASE writer.format = "cbf" /\ crashed
    BY <2>2 DEF ShapeInv
  <2>3. CASE writer.format = "cbf" /\ ~ crashed
    <3>1. CbfShape(Io) /\ Io.disk = disk
      BY <2>3 DEF ShapeInv, Io
    <3>2. disk \in [Names -> Seq(Entry)]
      BY <2>3, <3>1 DEF FilesInv, Recording, RecorderInv, FilesOK, IoType
    <3> QED BY <3>1, <3>2 DEF CbfShape, ReadableFiles
  <2>4. writer.format # "none" => writer.format \in {"cbf", "csv"}
    BY DEF FilesInv, Recording, WriterType
  <2> QED BY <2>1, <2>2, <2>3, <2>4 DEF Choose
<1>5. play'.file \in Seq(Entry) /\ Readable(play'.file)
  BY <1>1, <1>4 DEF ReadableFiles
<1> QED BY <1>2, <1>3, <1>5 DEF ShapeInv

LEMMA ShapeInit ==
  ASSUME RecordingInit
  PROVE  ShapeInv
<1>1. play.file \in Seq(Entry) /\ Readable(play.file)
  BY EmptyIsReadable DEF RecordingInit, NoPlay
<1>2. ~ crashed
  BY DEF RecordingInit
<1>3. CASE \E format \in {"cbf", "csv"} : InitFiles(format)
  <2>1. PICK format \in {"cbf", "csv"} : InitFiles(format)
    BY <1>3
  <2>2. PICK suffix \in BOOLEAN, limit \in 0 .. MaxPerFile :
        /\ \E former \in FormerContents(format, suffix) : disk = [EmptyDisk EXCEPT ![0] = former]
        /\ writer = [NewWriter EXCEPT !.format = format, !.suffix = suffix, !.limit = limit,
                                      !.filename = IF suffix THEN 1 ELSE 0]
    BY <2>1 DEF InitFiles
  <2>3. writer.format = format /\ ~ writer.file.open
    BY <2>2 DEF NewWriter, ClosedFile
  <2>4. ASSUME format = "cbf" PROVE CbfShape(Io)
    <3>1. disk = [EmptyDisk EXCEPT ![0] = <<>>]
      BY <2>2, <2>4 DEF FormerContents
    <3>2. \A n \in Names : disk[n] = <<>>
      BY <3>1 DEF EmptyDisk
    <3>3. Io.disk = disk /\ Io.file = writer.file
      BY DEF Io
    <3> QED BY <2>3, <3>2, <3>3, EmptyIsReadable DEF CbfShape
  <2> QED BY <1>1, <1>2, <2>3, <2>4 DEF ShapeInv
<1>4. CASE /\ \E lengths \in Archives : disk = [EmptyDisk EXCEPT ![0] = Archive(lengths)]
           /\ writer = NoRecorder
  <2>1. PICK lengths \in Archives : disk = [EmptyDisk EXCEPT ![0] = Archive(lengths)]
    BY <1>4
  <2>2. Archive(lengths) \in Seq(Entry) /\ Readable(Archive(lengths))
    BY ArchiveIsReadable, ArchivesAssumption
  <2>3. \A n \in Names : disk[n] = <<>> \/ disk[n] = Archive(lengths)
    BY <2>1 DEF EmptyDisk
  <2>4. ReadableFiles
    BY <2>2, <2>3, EmptyIsReadable DEF ReadableFiles
  <2>5. writer.format = "none"
    BY <1>4 DEF NoRecorder, NewWriter
  <2> QED BY <1>1, <2>4, <2>5 DEF ShapeInv
<1> QED BY <1>3, <1>4 DEF RecordingInit

LEMMA ShapeInvariant == RecordingSpec => []ShapeInv
<1>1. RecordingInit => ShapeInv
  BY ShapeInit
<1>2. ASSUME ShapeInv, FilesInv, ConsumerInv, [RecordingNext]_recVars PROVE ShapeInv'
  <2>1. CASE Records
    <3>1. writer'.format = writer.format /\ writer.format \in {"cbf", "csv"} /\ play' = play
      BY <1>2, <2>1, FormatStays DEF Records
    <3>2. writer.format = "cbf" => CbfShape(Io') /\ ~ crashed' 
      BY <1>2, <2>1, ShapeRecords DEF ConsumerInv
    <3>3. (Io)' = Io' /\ (CbfShape(Io))' = CbfShape(Io')
      BY DEF Io, CbfShape
    <3> QED BY <1>2, <3>1, <3>2, <3>3 DEF ShapeInv
  <2>2. CASE Crash
    BY <1>2, <2>2, ShapeCrash
  <2>3. CASE Choose
    BY <1>2, <2>3, ShapeChoose
  <2>4. CASE UNCHANGED <<recorderVars, play>>
    <3>1. UNCHANGED <<disk, writer, reused, crashed, play>>
      BY <2>4 DEF recorderVars, fileVars
    <3>2. Io' = Io /\ (ReadableFiles' <=> ReadableFiles)
      BY <3>1 DEF Io, ReadableFiles
    <3> QED BY <1>2, <3>1, <3>2 DEF ShapeInv
  <2>5. CASE ReplayUser \/ ReplayOpens \/ ReplayWorker \/ Shows \/ UNCHANGED recVars
    BY <2>4, <2>5 DEF ReplayUser, ReplayOpens, ReplayWorker, Replay, Shows, recVars
  <2> QED BY <1>2, <2>1, <2>2, <2>3, <2>5 DEF RecordingNext
<1> QED BY <1>1, <1>2, FilesInvariant, ConsumerInvariant, PTL DEF RecordingSpec
-----------------------------------------------------------------------------
(* ValuesUpTo, unfolded: the function it is defined by exists.              *)
UpTo(c, kind, n, f) ==
  f = [k \in 0 .. n |->
         IF k = 0 THEN <<>>
         ELSE IF c[k].kind = kind THEN Append(f[k - 1], c[k].val) ELSE f[k - 1]]

Collects(v, c, kind) ==
  /\ v[0] = <<>>
  /\ \A k \in 1 .. Len(c) :
       v[k] = IF c[k].kind = kind THEN Append(v[k - 1], c[k].val) ELSE v[k - 1]

LEMMA ValuesCollect ==
  ASSUME NEW c \in Seq(Entry), NEW kind
  PROVE  Collects(ValuesUpTo(c, kind), c, kind)
<1>0. PICK N \in Nat : N = Len(c)
  OBVIOUS
<1> DEFINE S == {n \in Nat : \E f : UpTo(c, kind, n, f)}
<1>1. 0 \in S
  <2>1. UpTo(c, kind, 0, [k \in 0 .. 0 |-> <<>>])
    BY DEF UpTo
  <2> QED BY <2>1
<1>2. ASSUME NEW n \in 0 .. N - 1, n \in S PROVE n + 1 \in S
  <2>1. PICK f : UpTo(c, kind, n, f)
    BY <1>2
  <2> DEFINE next(s, k) == IF c[k].kind = kind THEN Append(s, c[k].val) ELSE s
             h == [k \in 0 .. n + 1 |-> IF k = n + 1 THEN next(f[n], n + 1) ELSE f[k]]
  <2>2. ASSUME NEW k \in 0 .. n + 1
        PROVE  h[k] = IF k = 0 THEN <<>> ELSE next(h[k - 1], k)
    <3>1. CASE k = n + 1
      <4>1. k # 0 /\ k - 1 = n /\ h[k - 1] = f[n]
        BY <3>1
      <4>2. h[k] = next(f[n], k)
        BY <3>1
      <4> QED BY <4>1, <4>2
    <3>2. CASE k # n + 1
      <4>0. k \in 0 .. n
        BY <3>2
      <4>1. f[k] = IF k = 0 THEN <<>> ELSE next(f[k - 1], k)
        BY <2>1, <4>0 DEF UpTo
      <4>2. h[k] = f[k] /\ (k # 0 => h[k - 1] = f[k - 1])
        BY <3>2, <4>0
      <4> HIDE DEF h
      <4> QED BY <4>1, <4>2
    <3> QED BY <3>1, <3>2
  <2>3. UpTo(c, kind, n + 1, h)
    BY <2>2 DEF UpTo
  <2>4. n + 1 \in Nat
    OBVIOUS
  <2> HIDE DEF h
  <2> QED BY <2>3, <2>4
<1>3. N \in S
  <2> HIDE DEF S
  <2>1. \A n \in 0 .. N : n \in S
    BY <1>1, <1>2, CountingUp
  <2> QED BY <2>1
<1> DEFINE v == ValuesUpTo(c, kind)
<1>4. v = CHOOSE f : UpTo(c, kind, N, f)
  BY <1>0 DEF ValuesUpTo, UpTo
<1>5. UpTo(c, kind, N, v)
  BY <1>3, <1>4
<1> HIDE DEF v
<1>6. \A k \in 0 .. N : v[k] = IF k = 0 THEN <<>>
                              ELSE IF c[k].kind = kind THEN Append(v[k - 1], c[k].val) ELSE v[k - 1]
  BY <1>5 DEF UpTo
<1>7. v[0] = <<>>
  BY <1>6
<1>8. \A k \in 1 .. N : v[k] = IF c[k].kind = kind THEN Append(v[k - 1], c[k].val) ELSE v[k - 1]
  BY <1>6
<1> QED BY <1>0, <1>7, <1>8 DEF Collects, v

LEMMA CollectedTyped ==
  ASSUME NEW c \in Seq(Entry), NEW kind, NEW v, Collects(v, c, kind)
  PROVE  \A k \in 0 .. Len(c) : v[k] \in Seq(Nat)
<1>0. PICK N \in Nat : N = Len(c)
  OBVIOUS
<1> DEFINE S == {n \in Nat : v[n] \in Seq(Nat)}
<1>1. 0 \in S
  <2>1. <<>> \in Seq(Nat)
    OBVIOUS
  <2> QED BY <2>1 DEF Collects
<1>2. ASSUME NEW n \in 0 .. N - 1, n \in S PROVE n + 1 \in S
  <2> DEFINE k == n + 1
  <2>1. k \in 1 .. Len(c) /\ k - 1 = n /\ k \in Nat
    BY <1>0
  <2>2. c[k] \in Entry
    BY <2>1
  <2> HIDE DEF k
  <2>3. v[k] = IF c[k].kind = kind THEN Append(v[n], c[k].val) ELSE v[n]
    BY <2>1 DEF Collects
  <2>4. c[k].val \in Nat /\ v[n] \in Seq(Nat)
    BY <1>2, <2>2 DEF Entry
  <2>5. v[k] \in Seq(Nat)
    BY <2>3, <2>4
  <2> QED BY <2>1, <2>5 DEF k
<1> HIDE DEF S
<1>3. \A n \in 0 .. N : n \in S
  BY <1>1, <1>2, CountingUp
<1> QED BY <1>0, <1>3 DEF S

(* What has been collected stays, at its place. *)
Extends(s, t) == Len(s) <= Len(t) /\ \A i \in DOMAIN s : t[i] = s[i]

LEMMA CollectedGrows ==
  ASSUME NEW c \in Seq(Entry), NEW kind, NEW v, Collects(v, c, kind),
         NEW p \in 0 .. Len(c), NEW q \in p .. Len(c)
  PROVE  Extends(v[p], v[q])
<1>0. PICK N \in Nat : N = Len(c)
  OBVIOUS
<1>t. \A k \in 0 .. N : v[k] \in Seq(Nat)
  BY <1>0, CollectedTyped
<1> DEFINE S == {n \in Nat : n >= p => Extends(v[p], v[n])}
<1>1. 0 \in S
  <2>1. 0 >= p => p = 0
    BY <1>0
  <2>2. v[0] = <<>>
    BY DEF Collects
  <2>3. Extends(v[0], v[0])
    BY <2>2 DEF Extends
  <2> QED BY <2>1, <2>3
<1>2. ASSUME NEW n \in 0 .. N - 1, n \in S PROVE n + 1 \in S
  <2> DEFINE k == n + 1
  <2>1. k \in 1 .. Len(c) /\ k - 1 = n /\ k \in Nat /\ n \in 0 .. N /\ k \in 0 .. N
    BY <1>0
  <2> HIDE DEF k
  <2>2. CASE k <= p
    <3>1. ASSUME k >= p PROVE Extends(v[p], v[k])
      <4>1. k = p /\ v[k] \in Seq(Nat)
        BY <1>0, <1>t, <2>1, <2>2, <3>1
      <4> QED BY <4>1 DEF Extends
    <3> QED BY <2>1, <3>1 DEF k
  <2>3. CASE ~ (k <= p)
    <3>1. Extends(v[p], v[n])
      BY <1>0, <1>2, <2>1, <2>3
    <3>2. c[k] \in Entry
      BY <2>1
    <3>3. c[k].val \in Nat
      BY <3>2 DEF Entry
    <3>4. v[k] = IF c[k].kind = kind THEN Append(v[n], c[k].val) ELSE v[n]
      BY <2>1 DEF Collects
    <3>5. PICK s \in Seq(Nat), t \in Seq(Nat) : s = v[p] /\ t = v[n]
      BY <1>0, <1>t, <2>1
    <3>6. Extends(s, v[k])
      <4>1. CASE v[k] = t
        BY <3>1, <3>5, <4>1
      <4>2. CASE v[k] = Append(t, c[k].val)
        <5>1. Len(s) <= Len(t) /\ \A i \in DOMAIN s : t[i] = s[i]
          BY <3>1, <3>5 DEF Extends
        <5> DEFINE u == Append(t, c[k].val)
        <5>2. Len(u) = Len(t) + 1 /\ \A i \in 1 .. Len(t) : u[i] = t[i]
          BY <3>3
        <5> HIDE DEF u
        <5>3. DOMAIN s \subseteq 1 .. Len(t) /\ Len(s) <= Len(u)
          BY <5>1, <5>2
        <5>4. Extends(s, u)
          BY <5>1, <5>2, <5>3 DEF Extends
        <5> QED BY <4>2, <5>4 DEF u
      <4> QED BY <3>4, <3>5, <4>1, <4>2
    <3> QED BY <2>1, <3>5, <3>6 DEF k
  <2> QED BY <1>0, <2>1, <2>2, <2>3
<1> HIDE DEF S
<1>3. \A n \in 0 .. N : n \in S
  BY <1>1, <1>2, CountingUp
<1>4. q \in 0 .. N /\ q >= p
  BY <1>0
<1> QED BY <1>3, <1>4 DEF S

(* Where there is nothing to collect, nothing is added. *)
LEMMA CollectedRests ==
  ASSUME NEW c \in Seq(Entry), NEW kind, NEW v, Collects(v, c, kind),
         NEW p \in 0 .. Len(c), NEW q \in p .. Len(c),
         \A i \in p + 1 .. q : c[i].kind # kind
  PROVE  v[q] = v[p]
<1>0. PICK N \in Nat : N = Len(c)
  OBVIOUS
<1> DEFINE S == {n \in Nat : n >= p /\ n <= q => v[n] = v[p]}
<1>1. 0 \in S
  <2>1. 0 >= p => p = 0
    BY <1>0
  <2> QED BY <2>1
<1>2. ASSUME NEW n \in 0 .. N - 1, n \in S PROVE n + 1 \in S
  <2> DEFINE k == n + 1
  <2>1. k \in 1 .. Len(c) /\ k - 1 = n /\ k \in Nat
    BY <1>0
  <2> HIDE DEF k
  <2>2. ASSUME k >= p, k <= q PROVE v[k] = v[p]
    <3>1. CASE k = p
      BY <3>1
    <3>2. CASE k # p
      <4>1. n >= p /\ n <= q /\ k \in p + 1 .. q
        BY <1>0, <2>1, <2>2, <3>2
      <4>2. v[k] = IF c[k].kind = kind THEN Append(v[n], c[k].val) ELSE v[n]
        BY <2>1 DEF Collects
      <4> QED BY <1>2, <4>1, <4>2
    <3> QED BY <3>1, <3>2
  <2> QED BY <2>1, <2>2 DEF k
<1> HIDE DEF S
<1>3. \A n \in 0 .. N : n \in S
  BY <1>1, <1>2, CountingUp
<1>4. q \in 0 .. N /\ q >= p
  BY <1>0
<1> QED BY <1>3, <1>4 DEF S

(* A block of records is added as it is read. *)
AreRecords(c, p, n) == \A i \in 1 .. n : p + i \in DOMAIN c /\ c[p + i].kind = "rec"
Block(c, p, n)      == [i \in 1 .. n |-> c[p + i].val]
Joint(u, s, t)      == u = s \o t

LEMMA CollectedBlock ==
  ASSUME NEW c \in Seq(Entry), NEW v, Collects(v, c, "rec"),
         NEW p \in 0 .. Len(c), NEW n \in Nat, AreRecords(c, p, n), NEW ids, ids = Block(c, p, n)
  PROVE  ids \in Seq(Nat) /\ Len(ids) = n /\ p + n \in 0 .. Len(c) /\ Joint(v[p + n], v[p], ids)
<1>a. /\ \A i \in 1 .. n : p + i \in DOMAIN c /\ c[p + i].kind = "rec"
      /\ ids = [i \in 1 .. n |-> c[p + i].val]
  BY DEF AreRecords, Block
<1>0. PICK N \in Nat : N = Len(c) /\ DOMAIN c = 1 .. N
  OBVIOUS
<1>1. ids \in Seq(Nat) /\ Len(ids) = n /\ \A i \in 1 .. n : ids[i] \in Nat /\ ids[i] = c[p + i].val
  <2>1. ASSUME NEW i \in 1 .. n PROVE c[p + i].val \in Nat
    <3>1. PICK m \in DOMAIN c : m = p + i
      BY <1>a
    <3>2. c[m] \in Entry
      OBVIOUS
    <3> QED BY <3>1, <3>2 DEF Entry
  <2> QED BY <1>a, <2>1
<1>2. p + n \in 0 .. N
  <2>1. CASE n = 0
    BY <1>0, <2>1
  <2>2. CASE n # 0
    <3>1. n \in 1 .. n
      BY <2>2
    <3>2. p + n \in 1 .. N
      BY <1>0, <1>a, <3>1
    <3> QED BY <3>2
  <2> QED BY <2>1, <2>2
<1>t. \A k \in 0 .. N : v[k] \in Seq(Nat)
  BY <1>0, CollectedTyped
<1> DEFINE part(m) == [i \in 1 .. m |-> ids[i]]
           S == {m \in Nat : v[p + m] = v[p] \o part(m)}
<1>3. 0 \in S
  <2>1. part(0) = <<>> /\ p + 0 = p
    BY <1>0
  <2>2. v[p] \o <<>> = v[p]
    BY <1>0, <1>t
  <2> QED BY <2>1, <2>2
<1>4. ASSUME NEW m \in 0 .. n - 1, m \in S PROVE m + 1 \in S
  <2>1. PICK k \in 1 .. N : k = p + (m + 1) /\ k - 1 = p + m
    BY <1>0, <1>2
  <2>2. m + 1 \in 1 .. n
    OBVIOUS
  <2>3. c[k].kind = "rec" /\ c[k].val = ids[m + 1]
    BY <1>1, <1>a, <2>1, <2>2
  <2>4. v[k] = Append(v[p + m], ids[m + 1])
    BY <1>0, <2>1, <2>3 DEF Collects
  <2>5. PICK s \in Seq(Nat), x \in Nat : s = v[p] /\ x = ids[m + 1]
    BY <1>0, <1>1, <1>t, <2>2
  <2>6. PICK t \in Seq(Nat) : t = part(m)
    <3>1. \A i \in 1 .. m : ids[i] \in Nat
      BY <1>1
    <3>2. part(m) \in [1 .. m -> Nat]
      BY ONLY <3>1 DEF part
    <3>3. m \in Nat
      OBVIOUS
    <3>4. part(m) \in Seq(Nat)
      BY ONLY <3>2, <3>3
    <3> QED BY <3>4
  <2>7. part(m + 1) = Append(t, x)
    BY <2>5, <2>6
  <2>8. s \o Append(t, x) = Append(s \o t, x)
    BY SMTT(30)
  <2> HIDE DEF part
  <2>9. v[k] = s \o part(m + 1)
    BY <1>4, <2>4, <2>5, <2>6, <2>7, <2>8
  <2>10. v[p + (m + 1)] = v[p] \o part(m + 1)
    BY <2>1, <2>5, <2>9
  <2>11. m + 1 \in Nat
    OBVIOUS
  <2> QED BY <2>10, <2>11
<1>5. part(n) = ids
  BY <1>1, <1>a
<1> HIDE DEF S
<1>6. \A m \in 0 .. n : m \in S
  BY <1>3, <1>4, CountingUp
<1>7. v[p + n] = v[p] \o part(n)
  <2>1. n \in S
    BY <1>6
  <2> HIDE DEF part
  <2> QED BY <2>1 DEF S
<1>8. Joint(v[p + n], v[p], ids)
  <2> HIDE DEF part
  <2> QED BY <1>5, <1>7 DEF Joint
<1> QED BY <1>0, <1>1, <1>2, <1>8
-----------------------------------------------------------------------------
(* The walk of a CbfReader over a file.                                     *)
NoRecords(c, p, q) == \A i \in p + 1 .. q : c[i].kind # "rec"

(* A walk begins at the head of the file, or behind a section.              *)
AtHeader(c, p) ==
  /\ p \in 0 .. Len(c)
  /\ IF p = 0 THEN HasRule(c) ELSE SectionEnds(c, p)

LEMMA NextDataIs ==
  ASSUME NEW c \in Seq(Entry), Readable(c), NEW p, AtHeader(c, p), NEW k, k = NextData(c, p)
  PROVE  \/ k = 0 /\ NoRecords(c, p, Len(c))
         \/ k \in p + 1 .. Len(c) /\ c[k].kind = "data" /\ NoRecords(c, p, k)
<1>0. PICK N \in Nat : N = Len(c) /\ DOMAIN c = 1 .. N /\ p \in 0 .. N
  BY DEF AtHeader
<1> DEFINE found == {i \in p + 1 .. Len(c) :
                       c[i].kind = "data" /\ \A j \in p + 1 .. i - 1 : c[j] = Schema}
<1>1. k = IF found = {} THEN 0 ELSE Min(found)
  BY DEF NextData
<1>k. Schema.kind = "schema" /\ Torn.kind = "torn" /\ Schema # Torn
  BY EntryKinds, Kindly
<1>2. ASSUME NEW h \in p + 1 .. N, NoRecords(c, p, h - 1), c[h].kind = "data",
             \A j \in p + 1 .. h - 1 : c[j] = Schema
      PROVE  k \in p + 1 .. Len(c) /\ c[k].kind = "data" /\ NoRecords(c, p, k)
  <2>1. h \in found
    BY <1>0, <1>2
  <2>2. \A i \in found : i = h
    <3> SUFFICES ASSUME NEW i \in found, i # h PROVE FALSE
      OBVIOUS
    <3>1. i \in p + 1 .. N
      BY <1>0
    <3>2. CASE i < h
      <4>1. i \in p + 1 .. h - 1
        BY <1>0, <3>1, <3>2
      <4> QED BY <1>2, <1>k, <4>1
    <3>3. CASE h < i
      <4>1. h \in p + 1 .. i - 1
        BY <1>0, <3>1, <3>3
      <4> QED BY <1>2, <1>k, <4>1
    <3> QED BY <1>0, <3>1, <3>2, <3>3
  <2>3. found = {h}
    BY <2>1, <2>2
  <2>4. Min(found) = h
    BY <1>0, <2>3, SMTT(30) DEF Min
  <2>5. k = h
    BY <1>1, <2>1, <2>4
  <2>6. NoRecords(c, p, h)
    <3> SUFFICES ASSUME NEW i \in p + 1 .. h PROVE c[i].kind # "rec"
      BY DEF NoRecords
    <3>1. i = h \/ i \in p + 1 .. h - 1
      BY <1>0
    <3> QED BY <1>2, <3>1 DEF NoRecords
  <2> QED BY <1>0, <1>2, <2>5, <2>6
<1>3. ASSUME \A i \in p + 1 .. N : c[i].kind \notin {"data", "rec"}
      PROVE  k = 0 /\ NoRecords(c, p, Len(c))
  <2>1. found = {}
    BY <1>0, <1>3
  <2> QED BY <1>0, <1>1, <1>3, <2>1 DEF NoRecords
<1>4. CASE p = 0
  <2>1. 1 \in DOMAIN c /\ c[1] = Schema
    BY <1>0, <1>4 DEF AtHeader, HasRule
  <2>2. ASSUME 2 \in DOMAIN c, c[2].kind = "data"
        PROVE  k \in p + 1 .. Len(c) /\ c[k].kind = "data" /\ NoRecords(c, p, k)
    <3>1. \A j \in p + 1 .. 1 : j = 1
      BY <1>4
    <3>2. NoRecords(c, p, 1)
      BY <1>k, <2>1, <3>1 DEF NoRecords
    <3>3. 2 \in p + 1 .. N /\ 2 - 1 = 1
      BY <1>0, <1>4, <2>2
    <3>4. \A j \in p + 1 .. 1 : c[j] = Schema
      BY <2>1, <3>1
    <3> QED BY <1>2, <2>2, <3>2, <3>3, <3>4
  <2>3. ASSUME ~ (2 \in DOMAIN c /\ c[2].kind = "data")
        PROVE  k = 0 /\ NoRecords(c, p, Len(c))
    <3>1. ASSUME NEW i \in p + 1 .. N PROVE c[i].kind \notin {"data", "rec"}
      <4>1. i \in DOMAIN c /\ i \in Nat /\ i >= 1
        BY <1>0, <1>4
      <4>2. CASE i = 1
        BY <1>k, <2>1, <4>2
      <4>3. CASE i = 2
        BY <1>k, <2>3, <4>1, <4>3 DEF Readable
      <4>4. CASE i > 2
        <5>1. 2 \in DOMAIN c /\ 2 # Len(c)
          BY <1>0, <4>1, <4>4
        <5> QED BY <2>3, <5>1 DEF Readable
      <4> QED BY <4>1, <4>2, <4>3, <4>4
    <3> QED BY <1>3, <3>1
  <2> QED BY <2>2, <2>3
<1>5. CASE p # 0
  <2>1. SectionEnds(c, p)
    BY <1>5 DEF AtHeader
  <2>2. CASE p + 1 \in DOMAIN c /\ c[p + 1].kind = "data"
    <3>1. PICK h \in p + 1 .. N : h = p + 1
      BY <1>0, <2>2
    <3>2. p + 1 .. h - 1 = {}
      BY <1>0, <3>1
    <3>3. NoRecords(c, p, h - 1) /\ \A j \in p + 1 .. h - 1 : c[j] = Schema
      BY <3>2 DEF NoRecords
    <3> QED BY <1>2, <2>2, <3>1, <3>3
  <2>3. CASE p + 1 \in DOMAIN c /\ c[p + 1] = Torn
    <3>1. p + 1 = N
      BY <1>0, <2>3 DEF Readable
    <3>2. \A i \in p + 1 .. N : i = p + 1
      BY <1>0, <3>1
    <3> QED BY <1>3, <1>k, <2>3, <3>2
  <2>4. CASE p + 1 \notin DOMAIN c
    <3>1. p + 1 .. N = {}
      BY <1>0, <2>4
    <3> QED BY <1>3, <3>1
  <2> QED BY <2>1, <2>2, <2>3, <2>4 DEF SectionEnds
<1> QED BY <1>4, <1>5

(* Where the reader is: in a section, with as many records ahead of it as   *)
(* are left; at one that counts none; or behind the last record.            *)
OnTrack(c, r) ==
  /\ r.valid = TRUE /\ r.good \in BOOLEAN /\ r.pos \in 0 .. Len(c)
  /\ r.good => r.remaining \in Nat
  /\ r.good /\ r.remaining > 0 => Counted(c, r.pos, r.remaining)
  /\ r.good /\ r.remaining = 0 =>
       r.pos \in DOMAIN c /\ c[r.pos].kind = "data" /\ c[r.pos].val = 0
  /\ ~ r.good => NoRecords(c, r.pos, Len(c))

RdFields == {"open", "good", "pos", "valid", "remaining"}

LEMMA WalkIs ==
  ASSUME NEW c \in Seq(Entry), Readable(c), NEW r, DOMAIN r = RdFields,
         r.valid = TRUE, r.good = TRUE, AtHeader(c, r.pos),
         NEW w, w = Walked(r, c)
  PROVE  /\ OnTrack(c, w) /\ DOMAIN w = RdFields /\ w.open = r.open
         /\ w.pos \in r.pos .. Len(c) /\ NoRecords(c, r.pos, w.pos)
<1>0. PICK p \in 0 .. Len(c) : p = r.pos
  BY DEF AtHeader
<1>1. PICK k : k = NextData(c, p)
  OBVIOUS
<1>2. \/ k = 0 /\ NoRecords(c, p, Len(c))
      \/ k \in p + 1 .. Len(c) /\ c[k].kind = "data" /\ NoRecords(c, p, k)
  BY <1>0, <1>1, NextDataIs
<1>3. w = IF k = 0 THEN [r EXCEPT !.good = FALSE] ELSE [r EXCEPT !.pos = k, !.remaining = c[k].val]
  BY <1>0, <1>1 DEF Walked
<1>4. CASE k = 0
  <2>1. /\ DOMAIN w = RdFields /\ w.valid = TRUE /\ w.good = FALSE /\ w.pos = p
        /\ w.open = r.open
    BY <1>0, <1>3, <1>4 DEF RdFields
  <2>2. NoRecords(c, p, Len(c)) /\ NoRecords(c, p, p)
    BY <1>0, <1>2, <1>4 DEF NoRecords
  <2>3. OnTrack(c, w)
    <3>1. w.pos \in 0 .. Len(c) /\ w.good \in BOOLEAN /\ ~ w.good
      BY <1>0, <2>1
    <3>2. NoRecords(c, w.pos, Len(c))
      BY <2>1, <2>2
    <3> QED BY <2>1, <3>1, <3>2 DEF OnTrack
  <2>4. w.pos \in r.pos .. Len(c) /\ NoRecords(c, r.pos, w.pos)
    BY <1>0, <2>1, <2>2
  <2> QED BY <2>1, <2>3, <2>4
<1>5. CASE k # 0
  <2>1. k \in p + 1 .. Len(c) /\ c[k].kind = "data" /\ NoRecords(c, p, k) /\ k \in DOMAIN c
    BY <1>0, <1>2, <1>5
  <2>2. /\ DOMAIN w = RdFields /\ w.valid = TRUE /\ w.good = TRUE /\ w.pos = k
        /\ w.remaining = c[k].val /\ w.open = r.open
    BY <1>0, <1>3, <1>5 DEF RdFields
  <2>3. c[k].val \in Nat
    <3>1. c[k] \in Entry
      BY <2>1
    <3> QED BY <3>1 DEF Entry
  <2>4. c[k].val > 0 => Counted(c, k, c[k].val)
    BY <2>1 DEF Readable
  <2>5. OnTrack(c, w)
    <3>0. k \in 0 .. Len(c)
      BY <1>0, <2>1
    <3>1. w.pos \in 0 .. Len(c) /\ w.remaining \in Nat /\ w.good \in BOOLEAN /\ w.good
      BY ONLY <2>2, <2>3, <3>0
    <3>2. w.remaining > 0 => Counted(c, w.pos, w.remaining)
      BY <2>2, <2>4
    <3>3. w.remaining = 0 => w.pos \in DOMAIN c /\ c[w.pos].kind = "data" /\ c[w.pos].val = 0
      BY <2>1, <2>2
    <3> QED BY <2>2, <3>1, <3>2, <3>3 DEF OnTrack
  <2>6. w.pos \in r.pos .. Len(c) /\ NoRecords(c, r.pos, w.pos)
    BY <1>0, <2>1, <2>2
  <2> QED BY <2>2, <2>5, <2>6
<1> QED BY <1>4, <1>5

(* A block of records read: the rest of the section stays counted.          *)
Advanced(r, n, c) ==
  LET read == [r EXCEPT !.pos = @ + n, !.remaining = @ - n]
  IN  IF read.remaining = 0 THEN Walked(read, c) ELSE read

LEMMA BlockIs ==
  ASSUME NEW c \in Seq(Entry), Readable(c), NEW r, DOMAIN r = RdFields, OnTrack(c, r),
         r.good, r.remaining > 0, NEW n \in 1 .. r.remaining,
         NEW q, q = Advanced(r, n, c),
         NEW v, Collects(v, c, "rec")
  PROVE  /\ OnTrack(c, q) /\ DOMAIN q = RdFields /\ q.open = r.open
         /\ AreRecords(c, r.pos, n) /\ Block(c, r.pos, n) \in Seq(Nat) /\ Len(Block(c, r.pos, n)) = n
         /\ Joint(v[q.pos], v[r.pos], Block(c, r.pos, n))
<1>0. PICK p \in 0 .. Len(c), m \in Nat, N \in Nat :
        p = r.pos /\ m = r.remaining /\ N = Len(c) /\ DOMAIN c = 1 .. N /\ m > 0 /\ n \in 1 .. m
  BY DEF OnTrack
<1>s. PICK s : s = [r EXCEPT !.pos = @ + n, !.remaining = @ - n]
  OBVIOUS
<1>q. q = IF s.remaining = 0 THEN Walked(s, c) ELSE s
  BY <1>s DEF Advanced
<1>1. /\ \A j \in 1 .. m : p + j \in DOMAIN c /\ c[p + j].kind = "rec"
      /\ SectionEnds(c, p + m)
  BY <1>0 DEF OnTrack, Counted
<1>2. /\ DOMAIN s = RdFields /\ s.pos = p + n /\ s.remaining = m - n /\ s.open = r.open
      /\ s.good = TRUE /\ s.valid = TRUE
  BY <1>0, <1>s DEF OnTrack, RdFields
<1>i. PICK ids : ids = Block(c, p, n)
  OBVIOUS
<1>4. AreRecords(c, p, n)
  BY <1>0, <1>1 DEF AreRecords
<1>3. ids \in Seq(Nat) /\ Len(ids) = n /\ p + n \in 0 .. Len(c) /\ Joint(v[p + n], v[p], ids)
  <2>1. n \in Nat
    BY <1>0
  <2> QED BY <1>4, <1>i, <2>1, CollectedBlock
<1>5. OnTrack(c, q) /\ DOMAIN q = RdFields /\ q.open = r.open /\ v[q.pos] = v[p + n]
  <2>1. CASE m = n
    <3>1. AtHeader(c, s.pos)
      BY <1>0, <1>1, <1>2, <1>3, <2>1 DEF AtHeader
    <3>2. q = Walked(s, c)
      BY <1>0, <1>2, <1>q, <2>1
    <3>3. /\ OnTrack(c, q) /\ DOMAIN q = RdFields /\ q.open = s.open
          /\ q.pos \in s.pos .. Len(c) /\ NoRecords(c, s.pos, q.pos)
      BY <1>2, <3>1, <3>2, WalkIs
    <3>4. v[q.pos] = v[p + n]
      <4>1. PICK a \in 0 .. Len(c) : a = p + n
        BY <1>3
      <4>2. PICK b \in a .. Len(c) : b = q.pos
        BY <1>2, <3>3, <4>1
      <4>3. \A i \in a + 1 .. b : c[i].kind # "rec"
        BY <1>2, <3>3, <4>1, <4>2 DEF NoRecords
      <4>4. v[b] = v[a]
        BY ONLY c \in Seq(Entry), Collects(v, c, "rec"), <4>1, <4>2, <4>3, CollectedRests
      <4> QED BY <4>1, <4>2, <4>4
    <3> QED BY <1>2, <3>3, <3>4
  <2>2. CASE m # n
    <3>1. q = s /\ m - n \in Nat /\ m - n > 0
      BY <1>0, <1>2, <1>q, <2>2
    <3>2. Counted(c, p + n, m - n)
      <4>1. ASSUME NEW j \in 1 .. m - n PROVE p + n + j \in DOMAIN c /\ c[p + n + j].kind = "rec"
        <5>1. n + j \in 1 .. m /\ p + n + j = p + (n + j)
          BY <1>0
        <5> QED BY <1>1, <5>1
      <4>2. p + n + (m - n) = p + m
        BY <1>0
      <4> QED BY <1>1, <4>1, <4>2 DEF Counted
    <3>3. /\ q.pos = p + n /\ q.remaining = m - n /\ q.good = TRUE /\ q.valid = TRUE
          /\ q.open = r.open /\ DOMAIN q = RdFields
      BY <1>2, <3>1
    <3>4. OnTrack(c, q)
      <4>1. q.pos \in 0 .. Len(c) /\ q.remaining \in Nat /\ q.remaining # 0 /\ q.good \in BOOLEAN /\ q.good
        <5>1. m - n \in Nat /\ m - n # 0 /\ p + n \in 0 .. Len(c)
          BY <1>3, <3>1
        <5> QED BY ONLY <3>3, <5>1
      <4>2. Counted(c, q.pos, q.remaining)
        BY <3>2, <3>3
      <4> QED BY <3>3, <4>1, <4>2 DEF OnTrack
    <3> QED BY <3>3, <3>4
  <2> QED BY <2>1, <2>2
<1> QED BY <1>0, <1>i, <1>3, <1>4, <1>5
-----------------------------------------------------------------------------
(* What a replay has delivered so far.  ReplayIsFaithful is not inductive:  *)
(* that a batch is what comes next in the file depends on where the reader  *)
(* stands in its section (OnTrack), that a commit counts all of it on the   *)
(* room it was cut to and on no swap in between, and that nothing is left   *)
(* at the end on who may clear m_running: the last batch, or stop().        *)
ProdFields ==
  {"running", "worker", "joinable", "caller", "interrupted", "runs", "ready", "lock", "batch",
   "epoch", "room"}

NothingLeft == ~ rd.good \/ rd.remaining = 0

(* What has been produced is what has been read. *)
Delivers(c) ==
  /\ OnTrack(c, rd)
  /\ pushed \in Seq(Nat) /\ active \in Seq(Nat) /\ prod.batch \in Seq(Nat)
  /\ Joint(ValuesUpTo(c, "rec")[rd.pos], pushed \o active, prod.batch)
  /\ NothingLeft \/ rd.open = TRUE
  /\ prod.worker # "none" /\ ~ prod.running => NothingLeft
  /\ prod.worker \in {"produce", "commit"} =>
       swaps = prod.epoch /\ prod.room = WriterBatch - Len(active) /\ prod.room > 0
  /\ IF prod.worker = "commit" THEN Len(prod.batch) <= prod.room ELSE prod.batch = <<>>
  /\ prod.worker \in {"stopping", "ended"} => active = <<>>

ReplayInv ==
  /\ DOMAIN prod = ProdFields /\ DOMAIN rd = RdFields
  /\ \A x \in {"running", "joinable", "interrupted", "ready"} : prod[x] \in BOOLEAN
  /\ play.tool # "reader" => ~ prod.ready
  /\ ~ prod.ready =>
       /\ prod.worker = "none" /\ ~ prod.running /\ ~ prod.interrupted
       /\ pushed = <<>> /\ active = <<>> /\ prod.batch = <<>>
  /\ prod.worker \notin {"none", "ended"} => prod.joinable
  /\ prod.caller = "flush" => prod.interrupted
  /\ prod.worker \in {"flush", "stopping", "ended"} => ~ prod.running
  /\ prod.ready /\ ~ prod.interrupted => Delivers(play.file)

LEMMA JointSwaps ==
  ASSUME NEW w, NEW s \in Seq(Nat), NEW t \in Seq(Nat), NEW b \in Seq(Nat), Joint(w, s \o t, b)
  PROVE  Joint(w, (s \o t) \o <<>>, b) /\ s \o t \in Seq(Nat) /\ <<>> \in Seq(Nat)
<1>1. (s \o t) \o <<>> = s \o t /\ s \o t \in Seq(Nat) /\ <<>> \in Seq(Nat)
  OBVIOUS
<1> QED BY <1>1

LEMMA JointCommits ==
  ASSUME NEW w, NEW s \in Seq(Nat), NEW t \in Seq(Nat), NEW b \in Seq(Nat), Joint(w, s \o t, b)
  PROVE  Joint(w, s \o (t \o b), <<>>) /\ t \o b \in Seq(Nat) /\ <<>> \in Seq(Nat)
<1>1. (s \o (t \o b)) \o <<>> = (s \o t) \o b /\ t \o b \in Seq(Nat) /\ <<>> \in Seq(Nat)
  BY SMTT(30)
<1> QED BY <1>1 DEF Joint

LEMMA JointReads ==
  ASSUME NEW u, NEW w, NEW s \in Seq(Nat), NEW t \in Seq(Nat), NEW b,
         Joint(u, s \o t, <<>>), Joint(w, u, b)
  PROVE  Joint(w, s \o t, b)
<1>1. (s \o t) \o <<>> = s \o t
  OBVIOUS
<1> QED BY <1>1 DEF Joint

(* A step that keeps every field of the producer but those in X. *)
KeepsBut(X) == DOMAIN prod' = ProdFields /\ \A x \in ProdFields \ X : prod'[x] = prod[x]

Rests == UNCHANGED <<pushed, active, swaps>>

LEMMA DeliversOn ==
  ASSUME ReplayInv, prod.ready, ~ prod.interrupted, UNCHANGED <<rd, play>>, Rests,
         KeepsBut({"worker", "joinable", "caller", "runs", "lock", "running"}),
         prod'.worker # prod.worker =>
           prod.worker \notin {"commit"} /\ prod'.worker \notin {"produce", "commit", "stopping", "ended"},
         prod'.worker # "none" /\ ~ prod'.running => NothingLeft
  PROVE  Delivers(play.file)'
<1>1. Delivers(play.file)
  BY DEF ReplayInv
<1>2. prod'.batch = prod.batch /\ prod'.epoch = prod.epoch /\ prod'.room = prod.room
  BY DEF KeepsBut, ProdFields
<1>3. OnTrack(play'.file, rd') /\ NothingLeft' = NothingLeft
  BY <1>1 DEF Delivers, NothingLeft
<1> QED BY <1>1, <1>2, <1>3 DEF Delivers, Rests, NothingLeft

LEMMA DeliversStill ==
  ASSUME ReplayInv, prod.ready, ~ prod.interrupted, UNCHANGED <<rd, play>>, Rests,
         KeepsBut({"joinable", "caller", "runs", "lock"})
  PROVE  Delivers(play.file)'
<1>1. KeepsBut({"worker", "joinable", "caller", "runs", "lock", "running"})
  BY DEF KeepsBut
<1>2. prod'.worker = prod.worker /\ prod'.running = prod.running
  BY DEF KeepsBut, ProdFields
<1>3. prod'.worker # "none" /\ ~ prod'.running => NothingLeft
  BY <1>2 DEF ReplayInv, Delivers
<1> QED BY <1>1, <1>2, <1>3, DeliversOn

LEMMA UserReplays ==
  ASSUME ReplayInv, ProducerUser, UNCHANGED <<rd, play>>
  PROVE  ReplayInv'
<1>1. CASE StartProducer \/ JoinProducer
  <2>1. KeepsBut({"caller", "runs"}) /\ Rests /\ prod'.caller \in {"starting", "join"}
    BY <1>1 DEF StartProducer, JoinProducer, UserGoes, WriterRests, KeepsBut, Rests, ReplayInv, ProdFields
  <2>2. ASSUME prod.ready, ~ prod.interrupted PROVE Delivers(play.file)'
    BY <2>1, <2>2, DeliversStill DEF KeepsBut
  <2> QED BY <2>1, <2>2 DEF ReplayInv, KeepsBut, ProdFields, Rests
<1>2. CASE SpawnProducer
  <2>1. KeepsBut({"caller", "running", "joinable", "worker"}) /\ Rests
    BY <1>2 DEF SpawnProducer, WriterRests, KeepsBut, Rests, ReplayInv, ProdFields
  <2>2. prod'.caller # "flush"
    BY <1>2 DEF SpawnProducer, ReplayInv, ProdFields
  <2>3. CASE prod.ready /\ ~ prod.joinable
    <3>1. prod'.running = TRUE /\ prod'.joinable = TRUE /\ prod'.worker = "starting"
      BY <1>2, <2>3 DEF SpawnProducer, ReplayInv, ProdFields
    <3>2. prod.worker \in {"none", "ended"}
      BY <2>3 DEF ReplayInv
    <3>3. ASSUME ~ prod.interrupted PROVE Delivers(play.file)'
      <4>1. KeepsBut({"worker", "joinable", "caller", "runs", "lock", "running"})
        BY <2>1 DEF KeepsBut
      <4> QED BY <2>1, <2>3, <3>1, <3>2, <3>3, <4>1, DeliversOn
    <3> QED BY <2>1, <2>2, <2>3, <3>1, <3>3 DEF ReplayInv, KeepsBut, ProdFields, Rests
  <2>4. CASE ~ (prod.ready /\ ~ prod.joinable)
    <3>1. /\ prod'.running = prod.running /\ prod'.joinable = prod.joinable
          /\ prod'.worker = prod.worker
      BY <1>2, <2>4 DEF SpawnProducer, ReplayInv, ProdFields
    <3>2. ASSUME prod.ready, ~ prod.interrupted PROVE Delivers(play.file)'
      <4>1. KeepsBut({"worker", "joinable", "caller", "runs", "lock", "running"})
        BY <2>1 DEF KeepsBut
      <4>2. prod'.worker # "none" /\ ~ prod'.running => NothingLeft
        BY <3>1, <3>2 DEF ReplayInv, Delivers
      <4> QED BY <2>1, <3>1, <3>2, <4>1, <4>2, DeliversOn
    <3> QED BY <2>1, <2>2, <3>1, <3>2 DEF ReplayInv, KeepsBut, ProdFields, Rests
  <2> QED BY <2>3, <2>4
<1>3. CASE StopProducer
  <2>1. KeepsBut({"caller", "running", "interrupted"}) /\ Rests /\ prod.running
        /\ prod'.running = FALSE /\ prod'.interrupted = TRUE
    BY <1>3 DEF StopProducer, WriterRests, KeepsBut, Rests, ReplayInv, ProdFields
  <2> QED BY <2>1 DEF ReplayInv, KeepsBut, ProdFields, Rests
<1>4. CASE StopFlush
  <2>1. KeepsBut({"caller"}) /\ prod.interrupted /\ prod'.caller = "join"
    BY <1>4 DEF StopFlush, KeepsBut, ReplayInv, ProdFields
  <2> QED BY <2>1 DEF ReplayInv, KeepsBut, ProdFields
<1>5. CASE Join
  <2>1. KeepsBut({"caller", "joinable"}) /\ Rests /\ prod.worker = "ended"
        /\ prod'.joinable = FALSE /\ prod'.caller = "idle"
    BY <1>5 DEF Join, WriterRests, KeepsBut, Rests, ReplayInv, ProdFields
  <2>2. ASSUME prod.ready, ~ prod.interrupted PROVE Delivers(play.file)'
    BY <2>1, <2>2, DeliversStill DEF KeepsBut
  <2> QED BY <2>1, <2>2 DEF ReplayInv, KeepsBut, ProdFields, Rests
<1>6. CASE DestroyProducer
  <2>1. KeepsBut({"caller"}) /\ Rests /\ prod'.caller # "flush"
    BY <1>6 DEF DestroyProducer, WriterRests, KeepsBut, Rests, ReplayInv, ProdFields
  <2>2. ASSUME prod.ready, ~ prod.interrupted PROVE Delivers(play.file)'
    BY <2>1, <2>2, DeliversStill DEF KeepsBut
  <2> QED BY <2>1, <2>2 DEF ReplayInv, KeepsBut, ProdFields, Rests
<1> QED BY <1>1, <1>2, <1>3, <1>4, <1>5, <1>6 DEF ProducerUser
-----------------------------------------------------------------------------
(* The readers' file is one a recorder or CbfFile has left.                 *)
FileOK == play.file \in Seq(Entry) /\ Readable(play.file)

LEMMA OpeningReplays ==
  ASSUME ReplayInv, FileOK, play.tool = "reader", NEW a, Opens(a, play.file), UNCHANGED play
  PROVE  ReplayInv'
<1>1. CASE (Asks(a) \/ Locks(a)) /\ UNCHANGED rd
  <2>1. KeepsBut({"lock"}) /\ Rests
    BY <1>1 DEF Asks, Locks, WriterRests, KeepsBut, Rests, ReplayInv, ProdFields
  <2>2. ASSUME prod.ready, ~ prod.interrupted PROVE Delivers(play.file)'
    BY <1>1, <2>1, <2>2, DeliversStill DEF KeepsBut
  <2> QED BY <1>1, <2>1, <2>2 DEF ReplayInv, KeepsBut, ProdFields, Rests
<1>2. CASE DefineRule(a, play.file) /\ prod.ready
  <2>1. KeepsBut({"lock"}) /\ Rests /\ rd' = rd
    BY <1>2 DEF DefineRule, Initializes, KeepsBut, Rests, ReplayInv, ProdFields
  <2>2. ASSUME prod.ready, ~ prod.interrupted PROVE Delivers(play.file)'
    BY <2>1, <2>2, DeliversStill DEF KeepsBut
  <2> QED BY <2>1, <2>2 DEF ReplayInv, KeepsBut, ProdFields, Rests
<1>3. CASE DefineRule(a, play.file) /\ ~ prod.ready
  <2> DEFINE c == play.file
             r == [rd EXCEPT !.open = TRUE, !.good = TRUE, !.pos = 0, !.valid = HasRule(c)]
  <2>1. /\ KeepsBut({"lock", "ready"}) /\ Rests
        /\ prod'.ready = HasRule(c)
    BY <1>3 DEF DefineRule, Initializes, KeepsBut, Rests, ReplayInv, ProdFields, HasRule
  <2>2. rd' = Walked(r, c)
    BY <1>3 DEF DefineRule
  <2>3. DOMAIN r = RdFields /\ r.open = TRUE /\ r.good = TRUE /\ r.pos = 0 /\ r.valid = HasRule(c)
    BY DEF ReplayInv, RdFields
  <2>4. DOMAIN rd' = RdFields
    <3> HIDE DEF r
    <3> QED BY <2>2, <2>3 DEF Walked, RdFields
  <2>5. ASSUME HasRule(c) PROVE Delivers(play.file)'
    <3> HIDE DEF c, r
    <3>1. AtHeader(c, r.pos) /\ c \in Seq(Entry) /\ Readable(c) /\ r.valid = TRUE
      BY <2>3, <2>5 DEF AtHeader, FileOK, c
    <3>2. PICK w : w = Walked(r, c)
      OBVIOUS
    <3>3. OnTrack(c, w) /\ w.open = TRUE /\ w.pos \in 0 .. Len(c) /\ NoRecords(c, 0, w.pos)
      BY <2>3, <3>1, <3>2, WalkIs
    <3>4. PICK v : v = ValuesUpTo(c, "rec") /\ Collects(v, c, "rec")
      BY <3>1, ValuesCollect
    <3>5. v[w.pos] = <<>>
      <4>1. PICK b \in 0 .. Len(c) : b = w.pos
        BY <3>3
      <4>2. 0 \in 0 .. Len(c) /\ \A i \in 0 + 1 .. b : c[i].kind # "rec"
        BY <3>1, <3>3, <4>1 DEF NoRecords
      <4>3. v[b] = v[0]
        BY <3>1, <3>4, <4>2, CollectedRests
      <4> QED BY <3>4, <4>1, <4>3 DEF Collects
    <3>6. /\ prod.worker = "none" /\ pushed = <<>> /\ active = <<>> /\ prod.batch = <<>>
      BY <1>3 DEF ReplayInv
    <3>7. /\ prod'.worker = "none" /\ prod'.batch = <<>> /\ pushed' = <<>> /\ active' = <<>>
      BY <2>1, <3>6 DEF KeepsBut, ProdFields, Rests
    <3>8. Joint(v[w.pos], <<>> \o <<>>, <<>>) /\ <<>> \in Seq(Nat)
      BY <3>5 DEF Joint
    <3> QED BY <2>2, <3>2, <3>3, <3>4, <3>7, <3>8 DEF Delivers, NothingLeft, c
  <2>6. HasRule(c) \in BOOLEAN
    BY DEF HasRule
  <2> HIDE DEF c, r
  <2>7. /\ prod'.worker = "none" /\ ~ prod'.running /\ ~ prod'.interrupted
        /\ pushed' = <<>> /\ active' = <<>> /\ prod'.batch = <<>>
        /\ prod'.running \in BOOLEAN /\ prod'.interrupted \in BOOLEAN /\ prod'.joinable \in BOOLEAN
    BY <1>3, <2>1 DEF ReplayInv, KeepsBut, ProdFields, Rests
  <2>8. prod'.caller = "flush" => prod'.interrupted
    BY <2>1 DEF ReplayInv, KeepsBut, ProdFields
  <2> QED BY <2>1, <2>4, <2>5, <2>6, <2>7, <2>8 DEF ReplayInv, KeepsBut
<1> QED BY <1>1, <1>2, <1>3 DEF Opens
-----------------------------------------------------------------------------
(* The worker.                                                              *)
LEMMA WorkerReplays ==
  ASSUME ReplayInv, prod.worker \notin {"none", "ended"}, UNCHANGED play, DOMAIN rd' = RdFields,
         KeepsBut({"worker", "running", "caller", "batch", "epoch", "room"}),
         prod'.running \in BOOLEAN, prod'.worker # "none",
         prod'.caller = "flush" => prod.caller = "flush",
         prod'.worker \in {"flush", "stopping", "ended"} => ~ prod'.running,
         ~ prod.interrupted => Delivers(play.file)'
  PROVE  ReplayInv'
<1>1. prod.ready /\ prod.joinable
  BY DEF ReplayInv
<1>2. /\ prod'.ready = prod.ready /\ prod'.joinable = prod.joinable
      /\ prod'.interrupted = prod.interrupted
  BY DEF KeepsBut, ProdFields
<1> QED BY <1>1, <1>2 DEF ReplayInv, KeepsBut

LEMMA ReplayChecks ==
  ASSUME ReplayInv, ProducerGoes("starting", "loop") \/ ProducerChecks, UNCHANGED <<rd, play>>
  PROVE  ReplayInv'
<1>1. /\ KeepsBut({"worker"}) /\ Rests
      /\ \/ prod.worker = "starting" /\ prod'.worker = "loop"
         \/ prod.running /\ prod.worker = "loop" /\ prod'.worker = "next"
         \/ ~ prod.running /\ prod.worker = "loop" /\ prod'.worker = "flush"
  BY DEF ProducerChecks, ProducerGoes, WriterRests, KeepsBut, Rests, ReplayInv, ProdFields
<1>2. prod'.running = prod.running /\ prod'.caller = prod.caller /\ prod.running \in BOOLEAN
  BY <1>1 DEF KeepsBut, ProdFields, ReplayInv
<1>3. prod.ready
  BY <1>1 DEF ReplayInv
<1>4. ASSUME ~ prod.interrupted PROVE Delivers(play.file)'
  <2>1. KeepsBut({"worker", "joinable", "caller", "runs", "lock", "running"})
    BY <1>1 DEF KeepsBut
  <2>2. prod'.worker # "none" /\ ~ prod'.running => NothingLeft
    BY <1>1, <1>2, <1>3, <1>4 DEF ReplayInv, Delivers
  <2> QED BY <1>1, <1>3, <1>4, <2>1, <2>2, DeliversOn
<1>5. KeepsBut({"worker", "running", "caller", "batch", "epoch", "room"}) /\ DOMAIN rd' = RdFields
  BY <1>1 DEF KeepsBut, ReplayInv
<1> QED BY <1>1, <1>2, <1>4, <1>5, WorkerReplays

LEMMA ReplayNext ==
  ASSUME ReplayInv, NextBatch, UNCHANGED <<rd, play>>
  PROVE  ReplayInv'
<1>1. /\ prod.worker = "next"
      /\ IF Len(active) >= WriterBatch THEN Swapped(active) ELSE Rests
      /\ KeepsBut({"worker", "epoch", "room"})
      /\ prod'.worker = "produce" /\ prod'.epoch = swaps' /\ prod'.room = WriterBatch - Len(active')
  BY DEF NextBatch, KeepsBut, Rests, ReplayInv, ProdFields
<1>2. prod'.running = prod.running /\ prod'.caller = prod.caller /\ prod.running \in BOOLEAN
      /\ prod'.batch = prod.batch
  BY <1>1 DEF KeepsBut, ProdFields, ReplayInv
<1>3. prod.ready
  BY <1>1 DEF ReplayInv
<1>4. ASSUME ~ prod.interrupted PROVE Delivers(play.file)'
  <2>1. Delivers(play.file)
    BY <1>3, <1>4 DEF ReplayInv
  <2>2. OnTrack(play'.file, rd') /\ NothingLeft' = NothingLeft
    BY <2>1 DEF Delivers, NothingLeft
  <2>3. /\ pushed' \in Seq(Nat) /\ active' \in Seq(Nat)
        /\ Joint(ValuesUpTo(play'.file, "rec")[rd'.pos], pushed' \o active', prod'.batch)
        /\ WriterBatch - Len(active') > 0
    <3>1. CASE Len(active) >= WriterBatch
      <4>1. pushed' = pushed \o active /\ active' = <<>>
        BY <1>1, <3>1 DEF Swapped
      <4>2. WriterBatch - Len(active') > 0
        BY <4>1, ProducerAssumption
      <4> QED BY <1>2, <2>1, <4>1, <4>2, JointSwaps DEF Delivers
    <3>2. CASE ~ (Len(active) >= WriterBatch)
      <4>1. pushed' = pushed /\ active' = active
        BY <1>1, <3>2 DEF Rests
      <4>2. WriterBatch - Len(active') > 0
        <5>1. Len(active) \in Nat
          BY <2>1 DEF Delivers
        <5> QED BY <3>2, <4>1, <5>1, ProducerAssumption
      <4> QED BY <1>2, <2>1, <4>1, <4>2 DEF Delivers
    <3> QED BY <3>1, <3>2
  <2> QED BY <1>1, <1>2, <2>1, <2>2, <2>3 DEF Delivers
<1>5. KeepsBut({"worker", "running", "caller", "batch", "epoch", "room"}) /\ DOMAIN rd' = RdFields
  BY <1>1 DEF KeepsBut, ReplayInv
<1> QED BY <1>1, <1>2, <1>4, <1>5, WorkerReplays

LEMMA ReplayCommits ==
  ASSUME ReplayInv, Commit, UNCHANGED <<rd, play>>
  PROVE  ReplayInv'
<1>1. /\ prod.worker = "commit" /\ KeepsBut({"worker", "batch"})
      /\ prod'.worker = "loop" /\ prod'.batch = <<>> /\ UNCHANGED <<swaps, pushed>>
  BY DEF Commit, KeepsBut, ReplayInv, ProdFields
<1>2. prod'.running = prod.running /\ prod'.caller = prod.caller /\ prod.running \in BOOLEAN
  BY <1>1 DEF KeepsBut, ProdFields, ReplayInv
<1>3. prod.ready
  BY <1>1 DEF ReplayInv
<1>4. ASSUME ~ prod.interrupted PROVE Delivers(play.file)'
  <2>1. Delivers(play.file)
    BY <1>3, <1>4 DEF ReplayInv
  <2>2. OnTrack(play'.file, rd') /\ NothingLeft' = NothingLeft
    BY <2>1 DEF Delivers, NothingLeft
  <2>3. active' = active \o prod.batch
    <3>1. PICK b \in Seq(Nat), t \in Seq(Nat) : b = prod.batch /\ t = active
      BY <2>1 DEF Delivers
    <3>2. Len(b) <= WriterBatch - Len(t) /\ swaps = prod.epoch
      BY <1>1, <2>1, <3>1 DEF Delivers
    <3>3. active' = t \o SubSeq(b, 1, Min({Len(b), WriterBatch - Len(t)}))
      BY <3>1, <3>2 DEF Commit
    <3>4. Min({Len(b), WriterBatch - Len(t)}) = Len(b)
      <4>1. PICK x \in Nat : x = Len(b)
        OBVIOUS
      <4>3. PICK z \in Nat : z = Len(t)
        OBVIOUS
      <4>4. PICK y \in Int : y = WriterBatch - Len(t) /\ x <= y
        <5>1. WriterBatch - z \in Int
          BY ProducerAssumption
        <5> QED BY <3>2, <4>1, <4>3, <5>1
      <4>2. Min({x, y}) = x
        BY <4>4 DEF Min
      <4> QED BY <4>1, <4>2, <4>4
    <3>5. SubSeq(b, 1, Len(b)) = b
      OBVIOUS
    <3> QED BY <3>1, <3>3, <3>4, <3>5
  <2>4. /\ Joint(ValuesUpTo(play'.file, "rec")[rd'.pos], pushed' \o active', prod'.batch)
        /\ active' \in Seq(Nat) /\ prod'.batch \in Seq(Nat)
    BY <1>1, <2>1, <2>3, JointCommits DEF Delivers
  <2> QED BY <1>1, <1>2, <2>1, <2>2, <2>4 DEF Delivers
<1>5. KeepsBut({"worker", "running", "caller", "batch", "epoch", "room"}) /\ DOMAIN rd' = RdFields
  BY <1>1 DEF KeepsBut, ReplayInv
<1> QED BY <1>1, <1>2, <1>4, <1>5, WorkerReplays

LEMMA ReplayRaces ==
  ASSUME ReplayInv, CommitRacesFlush, UNCHANGED <<rd, play>>
  PROVE  ReplayInv'
<1>1. /\ prod.worker = "commit" /\ prod.caller = "flush" /\ KeepsBut({"worker", "batch", "caller"})
      /\ prod'.worker = "loop" /\ prod'.caller = "join"
  BY DEF CommitRacesFlush, KeepsBut, ReplayInv, ProdFields
<1>2. prod'.running = prod.running /\ prod.running \in BOOLEAN
  BY <1>1 DEF KeepsBut, ProdFields, ReplayInv
<1>3. prod.interrupted
  BY <1>1 DEF ReplayInv
<1>4. KeepsBut({"worker", "running", "caller", "batch", "epoch", "room"}) /\ DOMAIN rd' = RdFields
  BY <1>1 DEF KeepsBut, ReplayInv
<1> QED BY <1>1, <1>2, <1>3, <1>4, WorkerReplays

LEMMA ReplayFlushes ==
  ASSUME ReplayInv, WorkerFlush, UNCHANGED <<rd, play>>
  PROVE  ReplayInv'
<1>1. /\ prod.worker = "flush" /\ KeepsBut({"worker", "running"})
      /\ prod'.worker = "stopping" /\ prod'.running = FALSE /\ Flush
  BY DEF WorkerFlush, KeepsBut, ReplayInv, ProdFields
<1>2. prod'.caller = prod.caller /\ prod'.batch = prod.batch
  BY <1>1 DEF KeepsBut, ProdFields
<1>3. prod.ready /\ ~ prod.running
  BY <1>1 DEF ReplayInv
<1>4. ASSUME ~ prod.interrupted PROVE Delivers(play.file)'
  <2>1. Delivers(play.file)
    BY <1>3, <1>4 DEF ReplayInv
  <2>2. OnTrack(play'.file, rd') /\ NothingLeft' /\ NothingLeft
    BY <1>1, <1>3, <2>1 DEF Delivers, NothingLeft
  <2>3. /\ pushed' \in Seq(Nat) /\ active' = <<>> /\ active' \in Seq(Nat)
        /\ Joint(ValuesUpTo(play'.file, "rec")[rd'.pos], pushed' \o active', prod'.batch)
    <3>1. CASE active = <<>>
      BY <1>1, <1>2, <2>1, <3>1 DEF Delivers, Flush
    <3>2. CASE active # <<>>
      <4>1. pushed' = pushed \o active /\ active' = <<>>
        BY <1>1, <3>2 DEF Flush, Swapped
      <4> QED BY <1>2, <2>1, <4>1, JointSwaps DEF Delivers
    <3> QED BY <3>1, <3>2
  <2> QED BY <1>1, <1>2, <2>1, <2>2, <2>3 DEF Delivers
<1>5. KeepsBut({"worker", "running", "caller", "batch", "epoch", "room"}) /\ DOMAIN rd' = RdFields
  BY <1>1 DEF KeepsBut, ReplayInv
<1> QED BY <1>1, <1>2, <1>4, <1>5, WorkerReplays

LEMMA ReplayEnding ==
  ASSUME ReplayInv, EndOfReplay, UNCHANGED play
  PROVE  ReplayInv'
<1>1. /\ prod.worker = "produce" /\ KeepsBut({"worker", "batch", "running"}) /\ Rests /\ rd' = rd
      /\ prod'.worker = "commit" /\ prod'.batch = <<>> /\ prod'.running = FALSE
      /\ ~ rd.valid \/ ~ rd.good \/ rd.remaining <= 0
  BY DEF EndOfReplay, Produces, WriterRests, Rests, KeepsBut, ReplayInv, ProdFields
<1>2. prod'.caller = prod.caller /\ prod'.epoch = prod.epoch /\ prod'.room = prod.room
  BY <1>1 DEF KeepsBut, ProdFields
<1>3. prod.ready
  BY <1>1 DEF ReplayInv
<1>4. ASSUME ~ prod.interrupted PROVE Delivers(play.file)'
  <2>1. Delivers(play.file)
    BY <1>3, <1>4 DEF ReplayInv
  <2>2. NothingLeft
    BY <1>1, <2>1 DEF Delivers, OnTrack, NothingLeft
  <2>3. OnTrack(play'.file, rd') /\ NothingLeft'
    BY <1>1, <2>1, <2>2 DEF Delivers, NothingLeft
  <2>4. prod.batch = <<>>
    BY <1>1, <2>1 DEF Delivers
  <2> QED BY <1>1, <1>2, <2>1, <2>3, <2>4, ProducerAssumption DEF Delivers, Rests
<1>5. KeepsBut({"worker", "running", "caller", "batch", "epoch", "room"}) /\ DOMAIN rd' = RdFields
  BY <1>1 DEF KeepsBut, ReplayInv
<1> QED BY <1>1, <1>2, <1>4, <1>5, WorkerReplays

LEMMA ReplayReads ==
  ASSUME ReplayInv, FileOK, ReadBlock(play.file), UNCHANGED play
  PROVE  ReplayInv'
<1> DEFINE c == play.file
           n == BlockLength
           ids == [i \in 1 .. n |-> c[rd.pos + i].val]
           read == [rd EXCEPT !.pos = @ + n, !.remaining = @ - n]
           reads == rd.open /\ n \in Available(c)
<1>1. /\ rd.valid /\ rd.good /\ rd.remaining > 0
      /\ IF reads THEN Produces(ids, TRUE) /\ rd' = IF read.remaining = 0 THEN Walked(read, c) ELSE read
         ELSE Produces(<<>>, TRUE) /\ rd' = ReadFailed
  BY DEF ReadBlock
<1>2. /\ prod.worker = "produce" /\ KeepsBut({"worker", "batch", "running"}) /\ Rests
      /\ prod'.worker = "commit" /\ prod'.running = prod.running
  <2>1. \E b : Produces(b, TRUE)
    BY <1>1
  <2> QED BY <2>1 DEF Produces, WriterRests, Rests, KeepsBut, ReplayInv, ProdFields
<1>3. prod'.caller = prod.caller /\ prod'.epoch = prod.epoch /\ prod'.room = prod.room
      /\ prod.running \in BOOLEAN
  BY <1>2 DEF KeepsBut, ProdFields, ReplayInv
<1>4. prod.ready
  BY <1>2 DEF ReplayInv
<1>5. DOMAIN rd' = RdFields
  <2>1. DOMAIN read = RdFields /\ DOMAIN rd = RdFields
    BY DEF ReplayInv, RdFields
  <2> HIDE DEF read
  <2> QED BY <1>1, <2>1 DEF Walked, ReadFailed, RdFields
<1>6. ASSUME ~ prod.interrupted PROVE Delivers(play.file)'
  <2>1. Delivers(c)
    BY <1>4, <1>6 DEF ReplayInv
  <2>2. /\ prod.running /\ prod.batch = <<>> /\ rd.open = TRUE
        /\ prod.room \in Nat /\ prod.room > 0 /\ rd.remaining \in Nat /\ rd.pos \in 0 .. Len(c)
        /\ OnTrack(c, rd) /\ swaps = prod.epoch /\ prod.room = WriterBatch - Len(active)
    BY <1>1, <1>2, <2>1, ProducerAssumption DEF Delivers, NothingLeft, OnTrack
  <2>3. n \in 1 .. rd.remaining /\ n <= prod.room
    <3>1. PICK x \in Nat, y \in Nat : x = prod.room /\ y = rd.remaining /\ x > 0 /\ y > 0
      BY <1>1, <2>2
    <3>2. Min({x, y}) \in {x, y} /\ Min({x, y}) <= x /\ Min({x, y}) <= y
      BY <3>1 DEF Min
    <3> QED BY <3>1, <3>2 DEF BlockLength
  <2> HIDE DEF n
  <2>4. PICK v : v = ValuesUpTo(c, "rec") /\ Collects(v, c, "rec")
    BY ValuesCollect DEF FileOK
  <2>5. PICK q : q = Advanced(rd, n, c) /\ q = IF read.remaining = 0 THEN Walked(read, c) ELSE read
    BY DEF Advanced
  <2> HIDE DEF read, c
  <2>6. /\ OnTrack(c, q) /\ DOMAIN q = RdFields /\ q.open = rd.open
        /\ AreRecords(c, rd.pos, n) /\ Block(c, rd.pos, n) \in Seq(Nat) /\ Len(Block(c, rd.pos, n)) = n
        /\ Joint(v[q.pos], v[rd.pos], Block(c, rd.pos, n))
    <3>1. c \in Seq(Entry) /\ Readable(c) /\ DOMAIN rd = RdFields
      BY DEF FileOK, ReplayInv, c
    <3> QED BY <1>1, <2>2, <2>3, <2>4, <2>5, <3>1, BlockIs
  <2>7. reads
    <3>1. n \in 1 .. Len(c) - rd.pos
      <4>1. n \in Nat /\ n \in 1 .. n
        BY <2>2, <2>3
      <4>2. rd.pos + n \in DOMAIN c
        BY <2>6, <4>1 DEF AreRecords
      <4>3. Len(c) \in Nat /\ DOMAIN c = 1 .. Len(c)
        BY DEF FileOK, c
      <4> QED BY <2>2, <2>3, <4>2, <4>3
    <3>2. \A i \in 1 .. n : c[rd.pos + i].kind = "rec"
      BY <2>6 DEF AreRecords
    <3> QED BY <2>2, <3>1, <3>2 DEF Available
  <2>8. rd' = q /\ prod'.batch = Block(c, rd.pos, n)
    <3>1. Produces(ids, TRUE) /\ rd' = q
      BY <1>1, <2>5, <2>7 DEF reads
    <3>2. prod'.batch = ids
      BY <3>1 DEF Produces, ReplayInv, ProdFields
    <3> QED BY <3>1, <3>2 DEF Block
  <2>9. Joint(v[q.pos], pushed \o active, Block(c, rd.pos, n))
    BY <2>1, <2>2, <2>4, <2>6, JointReads DEF Delivers
  <2>10. play'.file = c
    BY DEF c
  <2>11. NothingLeft' \/ rd'.open = TRUE
    BY <2>2, <2>6, <2>8
  <2> HIDE DEF ids, reads
  <2> QED BY <1>2, <1>3, <2>1, <2>2, <2>3, <2>4, <2>6, <2>8, <2>9, <2>10, <2>11 DEF Delivers, Rests
<1>7. KeepsBut({"worker", "running", "caller", "batch", "epoch", "room"})
  BY <1>2 DEF KeepsBut, ReplayInv
<1> QED BY <1>2, <1>3, <1>5, <1>6, <1>7, WorkerReplays

LEMMA ReplayStopped ==
  ASSUME ReplayInv, OnProduceStop, UNCHANGED play
  PROVE  ReplayInv'
<1>1. /\ prod.worker = "stopping" /\ KeepsBut({"worker"}) /\ Rests
      /\ prod'.worker = "ended" /\ rd' = [rd EXCEPT !.open = FALSE]
  BY DEF OnProduceStop, ProducerGoes, WriterRests, Rests, KeepsBut, ReplayInv, ProdFields
<1>2. prod'.caller = prod.caller /\ prod'.running = prod.running /\ prod'.batch = prod.batch
  BY <1>1 DEF KeepsBut, ProdFields
<1>3. prod.ready /\ ~ prod.running
  BY <1>1 DEF ReplayInv
<1>4. /\ DOMAIN rd' = RdFields
      /\ \A x \in RdFields \ {"open"} : rd'[x] = rd[x]
  BY <1>1 DEF ReplayInv, RdFields
<1>5. ASSUME ~ prod.interrupted PROVE Delivers(play.file)'
  <2>1. Delivers(play.file)
    BY <1>3, <1>5 DEF ReplayInv
  <2>2. NothingLeft
    BY <1>1, <1>3, <2>1 DEF Delivers
  <2>3. rd'.good = rd.good /\ rd'.pos = rd.pos /\ rd'.valid = rd.valid /\ rd'.remaining = rd.remaining
    BY <1>4 DEF RdFields
  <2>4. OnTrack(play'.file, rd') /\ NothingLeft'
    BY <2>1, <2>2, <2>3 DEF OnTrack, Delivers, NothingLeft
  <2> QED BY <1>1, <1>2, <2>1, <2>3, <2>4 DEF Delivers, Rests
<1>6. KeepsBut({"worker", "running", "caller", "batch", "epoch", "room"}) /\ prod.running \in BOOLEAN
  BY <1>1 DEF KeepsBut, ReplayInv
<1> QED BY <1>1, <1>2, <1>3, <1>4, <1>5, <1>6, WorkerReplays

LEMMA ReplayInvariant == RecordingSpec => []ReplayInv
<1>1. RecordingInit => ReplayInv
  BY DEF RecordingInit, InitProducer, InitReplay, NoPlay, ReplayInv, ProdFields, RdFields
<1>2. ASSUME ReplayInv, ShapeInv, [RecordingNext]_recVars PROVE ReplayInv'
  <2>0. FileOK
    BY <1>2 DEF ShapeInv, FileOK
  <2>1. CASE UNCHANGED <<prodVars, rd, play>>
    <3>1. UNCHANGED <<prod, rd, pushed, active, swaps, play>>
      BY <2>1 DEF prodVars
    <3>2. Delivers(play.file)' <=> Delivers(play.file)
      BY <3>1 DEF Delivers, NothingLeft
    <3> QED BY <1>2, <3>1, <3>2 DEF ReplayInv
  <2>2. CASE Records \/ Crash \/ Shows \/ UNCHANGED recVars
    BY <2>1, <2>2 DEF Records, Crash, Shows, replayVars, recVars
  <2>3. CASE Choose
    <3>1. UNCHANGED <<prod, rd, pushed, active, swaps>> /\ ~ prod.ready
      BY <1>2, <2>3 DEF Choose, prodVars, ReplayInv, NoPlay
    <3> QED BY <1>2, <3>1 DEF ReplayInv
  <2>4. CASE ReplayUser
    BY <1>2, <2>4, UserReplays DEF ReplayUser, Replay
  <2>5. CASE ReplayOpens
    BY <1>2, <2>0, <2>5, OpeningReplays DEF ReplayOpens, Replay
  <2>6. CASE ReplayWorker
    <3>1. Replays(play.file) /\ UNCHANGED play
      BY <2>6 DEF ReplayWorker, Replay
    <3> QED BY <1>2, <2>0, <3>1, ReplayChecks, ReplayNext, ReplayCommits, ReplayRaces, ReplayFlushes,
               ReplayEnding, ReplayReads, ReplayStopped
            DEF Replays, ProducerWorker
  <2> QED BY <1>2, <2>2, <2>3, <2>4, <2>5, <2>6 DEF RecordingNext
<1> QED BY <1>1, <1>2, ShapeInvariant, PTL DEF RecordingSpec
-----------------------------------------------------------------------------
(* What a viewer has shown so far: it takes whatever follows the first      *)
(* header for records, which they are if there is no second one.            *)
NewView == [pc |-> "none", pos |-> 0, batch |-> <<>>, shown |-> <<>>]

OneSection(c) == Len(SectionLengths(c)) <= 1

Shown(c) ==
  /\ view.pos \in 0 .. Len(c) /\ view.shown \in Seq(Nat) /\ view.batch \in Seq(Nat)
  /\ view.pc \in {"headers", "records", "done"}
  /\ Joint(ValuesUpTo(c, "rec")[view.pos], view.shown, view.batch)
  /\ view.pc = "headers" => view.pos \in {0, 1, Len(c)} /\ view.batch = <<>>
  /\ view.pc = "records" => \E h \in 1 .. view.pos : c[h].kind = "data"
  /\ view.pc = "done" => NoRecords(c, view.pos, Len(c)) /\ view.batch = <<>>

ViewInv ==
  /\ DOMAIN view = {"pc", "pos", "batch", "shown"}
  /\ play.tool # "viewer" => view = NewView
  /\ play.tool = "viewer" /\ OneSection(play.file) => Shown(play.file)

Added(u, s, x) == u = Append(s, x)

LEMMA CollectedItem ==
  ASSUME NEW c \in Seq(Entry), NEW kind, NEW v, Collects(v, c, kind),
         NEW k \in 1 .. Len(c), c[k].kind = kind, NEW j, j = k - 1
  PROVE  /\ v[k] \in Seq(Nat) /\ v[j] \in Seq(Nat) /\ c[k].val \in Nat
         /\ Added(v[k], v[j], c[k].val)
         /\ Len(v[k]) = Len(v[j]) + 1 /\ v[k][Len(v[k])] = c[k].val
<1>1. \A i \in 0 .. Len(c) : v[i] \in Seq(Nat)
  BY CollectedTyped
<1>2. c[k].val \in Nat
  <2>1. c[k] \in Entry
    OBVIOUS
  <2> QED BY <2>1 DEF Entry
<1>j. j \in 0 .. Len(c)
  OBVIOUS
<1>3. PICK s \in Seq(Nat), x \in Nat : s = v[j] /\ x = c[k].val
  BY <1>1, <1>2, <1>j
<1>4. v[k] = Append(s, x)
  BY <1>3 DEF Collects
<1>5. Added(v[k], v[j], c[k].val)
  BY <1>3, <1>4 DEF Added
<1>6. Append(s, x) \in Seq(Nat) /\ Len(Append(s, x)) = Len(s) + 1 /\ Append(s, x)[Len(s) + 1] = x
  OBVIOUS
<1> QED BY <1>3, <1>4, <1>5, <1>6

LEMMA OnlySection ==
  ASSUME NEW c \in Seq(Entry), OneSection(c), NEW h \in DOMAIN c, NEW i \in DOMAIN c,
         c[h].kind = "data", c[i].kind = "data"
  PROVE  ~ (h < i)
<1> SUFFICES ASSUME h < i PROVE FALSE
  OBVIOUS
<1>0. PICK N \in Nat : N = Len(c) /\ h \in 1 .. N /\ i \in 1 .. N
  OBVIOUS
<1>1. PICK v : v = ValuesUpTo(c, "data") /\ Collects(v, c, "data")
  BY ValuesCollect
<1>t. \A k \in 0 .. N : v[k] \in Seq(Nat)
  BY <1>0, <1>1, CollectedTyped
<1>2. PICK g, j : g = h - 1 /\ j = i - 1
  OBVIOUS
<1>3. Len(v[h]) = Len(v[g]) + 1
  BY <1>0, <1>1, <1>2, CollectedItem
<1>4. Len(v[i]) = Len(v[j]) + 1
  BY <1>0, <1>1, <1>2, CollectedItem
<1>5. g \in 0 .. N /\ h \in 0 .. Len(c) /\ j \in h .. Len(c) /\ j \in 0 .. N
      /\ i \in 0 .. Len(c) /\ N \in i .. Len(c) /\ N \in 0 .. N
  BY <1>0, <1>2
<1>6. Extends(v[h], v[j])
  BY ONLY c \in Seq(Entry), <1>1, <1>5, CollectedGrows
<1>7. Extends(v[i], v[N])
  BY ONLY c \in Seq(Entry), <1>1, <1>5, CollectedGrows
<1>8. v[N] = SectionLengths(c)
  BY <1>0, <1>1 DEF SectionLengths
<1>9. Len(v[N]) <= 1
  BY <1>8 DEF OneSection
<1>10. Len(v[g]) \in Nat /\ Len(v[j]) \in Nat /\ Len(v[N]) \in Nat
  BY <1>t, <1>5
<1> QED BY <1>3, <1>4, <1>6, <1>7, <1>9, <1>10 DEF Extends

LEMMA JointShown ==
  ASSUME NEW w, NEW s \in Seq(Nat), NEW b \in Seq(Nat), Joint(w, s, b)
  PROVE  /\ w \in Seq(Nat) /\ s \o b \in Seq(Nat) /\ <<>> \in Seq(Nat)
         /\ Joint(w, s \o b, <<>>)
<1>1. s \o b \in Seq(Nat) /\ <<>> \in Seq(Nat) /\ (s \o b) \o <<>> = s \o b
  OBVIOUS
<1> QED BY <1>1 DEF Joint

LEMMA JointAppended ==
  ASSUME NEW w, NEW s \in Seq(Nat), NEW b \in Seq(Nat), NEW x \in Nat, Joint(w, s, b),
         NEW u, Added(u, w, x), NEW t, Added(t, b, x)
  PROVE  t \in Seq(Nat) /\ Joint(u, s, t)
<1>1. Append(b, x) \in Seq(Nat) /\ Append(s \o b, x) = s \o Append(b, x)
  BY ONLY s \in Seq(Nat), x \in Nat, SMTT(30)
<1> QED BY <1>1 DEF Joint, Added

ViewKeepsBut(X) ==
  LET all == {"pc", "pos", "batch", "shown"}
  IN  DOMAIN view' = all /\ \A x \in all \ X : view'[x] = view[x]

LEMMA SectionShown ==
  ASSUME ViewInv, FileOK, play.tool = "viewer", OneSection(play.file), ViewSection(play.file),
         UNCHANGED play
  PROVE  Shown(play.file)'
<1>1. PICK c \in Seq(Entry) : c = play.file /\ Readable(c) /\ OneSection(c) /\ play'.file = c
  BY DEF FileOK
<1>s. Shown(c)
  BY <1>1 DEF ViewInv
<1>n. PICK N \in Nat : N = Len(c) /\ DOMAIN c = 1 .. N
  OBVIOUS
<1>2. PICK p \in 0 .. N : N = Len(c) /\ DOMAIN c = 1 .. N /\ p = view.pos
  BY <1>s, <1>n DEF Shown
<1>3. PICK v : v = ValuesUpTo(c, "rec") /\ Collects(v, c, "rec")
  BY ValuesCollect
<1>4. /\ view.pc = "headers" /\ view.batch = <<>> /\ p \in {0, 1, N}
      /\ view.shown \in Seq(Nat) /\ Joint(v[p], view.shown, view.batch)
  BY <1>s, <1>1, <1>2, <1>3 DEF Shown, ViewSection
<1>k. Schema.kind = "schema" /\ Torn.kind = "torn" /\ Schema # Torn
  BY EntryKinds, Kindly
<1> DEFINE next == IF p < N THEN c[p + 1] ELSE Torn
<1>5. view' = IF next = Schema THEN [view EXCEPT !.pos = @ + 1]
              ELSE IF next.kind = "data" /\ p > 0
                THEN [view EXCEPT !.pos = @ + 1, !.pc = "records"]
                ELSE [view EXCEPT !.pc = "done"]
  BY <1>1, <1>2 DEF ViewSection
<1>6. ASSUME p < N, c[p + 1].kind # "rec"
      PROVE  /\ p + 1 \in 0 .. N /\ v[p + 1] = v[p]
  <2>0. PICK a \in 0 .. Len(c) : a = p
    BY <1>2
  <2>1. PICK b \in a .. Len(c) : a = p /\ b = p + 1
    BY <1>2, <1>6, <2>0
  <2>2. \A i \in a + 1 .. b : c[i].kind # "rec"
    BY <1>6, <2>1
  <2>3. v[b] = v[a]
    BY ONLY c \in Seq(Entry), <1>3, <2>1, <2>2, CollectedRests
  <2> QED BY <1>2, <1>6, <2>1, <2>3
<1> HIDE DEF next
<1>7. CASE next = Schema
  <2>1. p < N /\ c[p + 1] = Schema
    BY <1>k, <1>7 DEF next
  <2>2. p = 0
    <3>1. p # 1
      <4>1. p = 1 => 2 \in DOMAIN c /\ c[2] = Schema
        BY <1>2, <2>1
      <4> QED BY <1>k, <4>1, <1>1 DEF Readable
    <3> QED BY <1>2, <1>4, <2>1, <3>1
  <2>3. view'.pos = p + 1 /\ ViewKeepsBut({"pos"})
    BY <1>2, <1>5, <1>7 DEF ViewInv, ViewKeepsBut
  <2>4. view'.pc = "headers" /\ view'.batch = <<>> /\ view'.shown = view.shown
    BY <1>4, <2>3 DEF ViewKeepsBut
  <2>5. Joint(v[p + 1], view'.shown, view'.batch) /\ p + 1 \in 0 .. N /\ p + 1 = 1
    BY <1>4, <1>6, <1>k, <2>1, <2>2, <2>4
  <2> QED BY <1>1, <1>2, <1>3, <1>4, <2>3, <2>4, <2>5 DEF Shown
<1>8. CASE next # Schema /\ next.kind = "data" /\ p > 0
  <2>1. p < N /\ c[p + 1].kind = "data"
    BY <1>k, <1>8 DEF next
  <2>2. view'.pos = p + 1 /\ view'.pc = "records" /\ ViewKeepsBut({"pos", "pc"})
    BY <1>2, <1>5, <1>8 DEF ViewInv, ViewKeepsBut
  <2>3. view'.batch = <<>> /\ view'.shown = view.shown
    BY <1>4, <2>2 DEF ViewKeepsBut
  <2>4. Joint(v[p + 1], view'.shown, view'.batch) /\ p + 1 \in 0 .. N /\ p + 1 \in 1 .. p + 1
    BY <1>4, <1>6, <2>1, <2>3
  <2> QED BY <1>1, <1>2, <1>3, <1>4, <2>1, <2>2, <2>3, <2>4 DEF Shown
<1>9. CASE next # Schema /\ ~ (next.kind = "data" /\ p > 0)
  <2>1. view'.pc = "done" /\ ViewKeepsBut({"pc"})
    BY <1>5, <1>9 DEF ViewInv, ViewKeepsBut
  <2>2. view'.batch = <<>> /\ view'.shown = view.shown /\ view'.pos = p
    BY <1>2, <1>4, <2>1 DEF ViewKeepsBut
  <2>3. NoRecords(c, p, N)
    <3>1. CASE p = N
      BY <1>2, <3>1 DEF NoRecords
    <3>2. CASE p < N
      <4>1. next = c[p + 1] /\ p + 1 \in DOMAIN c /\ p \in {0, 1}
        BY <1>2, <1>4, <3>2 DEF next
      <4>2. c[p + 1] = Torn
        <5>1. CASE p = 0
          <6>1. 1 \in DOMAIN c /\ next = c[1]
            BY <4>1, <5>1
          <6>2. c[1] = Torn
            BY <1>1, <1>9, <6>1 DEF Readable
          <6> QED BY <5>1, <6>2
        <5>2. CASE p = 1
          <6>1. 2 \in DOMAIN c /\ next = c[2]
            BY <4>1, <5>2
          <6>2. c[2] = Torn
            BY <1>1, <1>9, <5>2, <6>1 DEF Readable
          <6> QED BY <5>2, <6>2
        <5> QED BY <4>1, <5>1, <5>2
      <4>3. p + 1 = N
        BY <1>1, <1>2, <4>1, <4>2 DEF Readable
      <4>4. \A i \in p + 1 .. N : i = p + 1
        BY <1>2, <4>3
      <4> QED BY <1>k, <4>2, <4>4 DEF NoRecords
    <3> QED BY <1>2, <3>1, <3>2
  <2> QED BY <1>1, <1>2, <1>3, <1>4, <2>1, <2>2, <2>3 DEF Shown
<1> QED BY <1>7, <1>8, <1>9

LEMMA RecordShown ==
  ASSUME ViewInv, FileOK, play.tool = "viewer", OneSection(play.file), ViewRecord(play.file),
         UNCHANGED play
  PROVE  Shown(play.file)'
<1>1. PICK c \in Seq(Entry) : c = play.file /\ Readable(c) /\ OneSection(c) /\ play'.file = c
  BY DEF FileOK
<1>s. Shown(c)
  BY <1>1 DEF ViewInv
<1>n. PICK N \in Nat : N = Len(c) /\ DOMAIN c = 1 .. N
  OBVIOUS
<1>2. PICK p \in 0 .. N : N = Len(c) /\ DOMAIN c = 1 .. N /\ p = view.pos
  BY <1>s, <1>n DEF Shown
<1>3. PICK v : v = ValuesUpTo(c, "rec") /\ Collects(v, c, "rec")
  BY ValuesCollect
<1>4. /\ view.pc = "records" /\ view.batch \in Seq(Nat) /\ view.shown \in Seq(Nat)
      /\ Joint(v[p], view.shown, view.batch)
  BY <1>s, <1>1, <1>2, <1>3 DEF Shown, ViewRecord
<1>5. PICK h \in 1 .. p : c[h].kind = "data" /\ h \in DOMAIN c
  <2>1. PICK h \in 1 .. view.pos : c[h].kind = "data"
    BY <1>s, <1>4 DEF Shown
  <2> QED BY <1>2, <2>1
<1>k. Schema.kind = "schema" /\ Torn.kind = "torn"
  BY EntryKinds
<1>6. CASE p >= N \/ c[p + 1] = Torn
  <2>1. view'.pos = N /\ view'.pc = "headers" /\ view'.shown = view.shown \o view.batch
        /\ view'.batch = <<>>
    BY <1>1, <1>2, <1>6 DEF ViewRecord, ViewInv
  <2>2. v[N] = v[p]
    <3>1. CASE p = N
      BY <3>1
    <3>2. CASE p < N
      <4>1. p + 1 \in DOMAIN c /\ c[p + 1] = Torn
        BY <1>2, <1>6, <3>2
      <4>2. p + 1 = N
        BY <1>1, <1>2, <4>1 DEF Readable
      <4>3. p \in 0 .. Len(c) /\ N \in p .. Len(c)
        BY <1>2
      <4>4. \A i \in p + 1 .. N : c[i].kind # "rec"
        <5>1. \A i \in p + 1 .. N : i = p + 1
          BY <1>2, <4>2
        <5> QED BY <1>k, <4>1, <5>1
      <4> QED BY ONLY c \in Seq(Entry), <1>3, <4>3, <4>4, CollectedRests
    <3> QED BY <1>2, <3>1, <3>2
  <2>3. /\ view'.shown \in Seq(Nat) /\ view'.batch \in Seq(Nat)
        /\ Joint(v[N], view'.shown, view'.batch)
    <3>1. PICK s \in Seq(Nat), b \in Seq(Nat) : s = view.shown /\ b = view.batch /\ Joint(v[N], s, b)
      BY <1>4, <2>2
    <3>2. s \o b \in Seq(Nat) /\ <<>> \in Seq(Nat) /\ Joint(v[N], s \o b, <<>>)
      BY <3>1, JointShown
    <3> QED BY <2>1, <3>1, <3>2
  <2> QED BY <1>1, <1>2, <1>3, <2>1, <2>3 DEF Shown
<1>7. CASE ~ (p >= N \/ c[p + 1] = Torn)
  <2>0. PICK q \in 1 .. Len(c) : q = p + 1 /\ p = q - 1 /\ c[q] # Torn /\ q \in DOMAIN c
    BY <1>2, <1>7
  <2>1. c[q].kind = "rec"
    <3>1. h > 1
      <4>1. h = 1 => c[1] \in {Schema, Torn}
        BY <1>1, <1>5 DEF Readable
      <4> QED BY <1>2, <1>5, <1>k, <4>1
    <3>2. q > 2
      BY <1>2, <1>5, <2>0, <3>1
    <3>3. c[q].kind \in {"data", "rec"}
      BY <1>1, <2>0, <3>2 DEF Readable
    <3>4. c[q].kind # "data"
      <4>1. h < q
        BY <1>2, <1>5, <2>0
      <4> QED BY <1>1, <1>5, <2>0, <4>1, OnlySection
    <3> QED BY <3>3, <3>4
  <2>2. PICK x \in Nat : x = c[q].val /\ Added(v[q], v[p], x)
    BY <1>3, <2>0, <2>1, CollectedItem
  <2> DEFINE batch == Append(view.batch, x)
  <2>3. view' = IF Len(batch) >= ViewBatch
                  THEN [view EXCEPT !.pos = @ + 1, !.shown = @ \o batch, !.batch = <<>>]
                  ELSE [view EXCEPT !.pos = @ + 1, !.batch = batch]
    BY <1>1, <1>2, <1>7, <2>0, <2>1, <2>2 DEF ViewRecord
  <2> HIDE DEF batch
  <2>4. /\ view'.pos = q /\ view'.pc = "records"
        /\ \/ view'.shown = view.shown \o batch /\ view'.batch = <<>>
           \/ view'.shown = view.shown /\ view'.batch = batch
    BY <1>2, <1>4, <2>0, <2>3 DEF ViewInv
  <2>5. /\ view'.shown \in Seq(Nat) /\ view'.batch \in Seq(Nat)
        /\ Joint(v[q], view'.shown, view'.batch)
    <3>1. batch \in Seq(Nat) /\ Joint(v[q], view.shown, batch)
      <4>1. Added(batch, view.batch, x)
        BY DEF Added, batch
      <4> QED BY <1>4, <2>2, <4>1, JointAppended
    <3>2. /\ view.shown \o batch \in Seq(Nat) /\ <<>> \in Seq(Nat)
          /\ Joint(v[q], view.shown \o batch, <<>>)
      BY <1>4, <3>1, JointShown
    <3> QED BY <1>4, <2>4, <3>1, <3>2
  <2>6. q \in 0 .. Len(c) /\ h \in 1 .. q
    BY <1>2, <1>5, <2>0
  <2> QED BY <1>1, <1>3, <1>5, <2>4, <2>5, <2>6 DEF Shown
<1> QED BY <1>6, <1>7

LEMMA ViewerInvariant == RecordingSpec => []ViewInv
<1>1. RecordingInit => ViewInv
  BY DEF RecordingInit, InitReplay, NoPlay, ViewInv, NewView
<1>2. ASSUME ViewInv, ShapeInv, ShapeInv', [RecordingNext]_recVars PROVE ViewInv'
  <2>0. FileOK
    BY <1>2 DEF ShapeInv, FileOK
  <2>1. CASE UNCHANGED <<view, play>>
    BY <1>2, <2>1 DEF ViewInv, Shown
  <2>2. CASE Records \/ Crash \/ ReplayUser \/ ReplayOpens \/ ReplayWorker \/ UNCHANGED recVars
    BY <2>1, <2>2 DEF Records, Crash, ReplayUser, ReplayOpens, ReplayWorker, Replay, replayVars, recVars
  <2>3. CASE Choose
    <3>1. PICK name \in Names, tool \in {"reader", "viewer"} :
            /\ play' = [tool |-> tool, file |-> disk[name]]
            /\ view' = IF tool = "viewer" THEN [view EXCEPT !.pc = "headers"] ELSE view
      BY <2>3 DEF Choose
    <3>2. view = NewView
      BY <1>2, <2>3 DEF ViewInv, Choose, NoPlay
    <3>3. CASE tool = "reader"
      BY <3>1, <3>2, <3>3 DEF ViewInv, NewView
    <3>4. CASE tool = "viewer"
      <4>1. PICK c : c = disk[name] /\ c = play'.file /\ play'.tool = "viewer"
        BY <3>1, <3>4
      <4>2. c \in Seq(Entry)
        BY <1>2, <4>1 DEF ShapeInv
      <4>3. view' = [NewView EXCEPT !.pc = "headers"]
        BY <3>1, <3>2, <3>4
      <4>4. /\ view'.pc = "headers" /\ view'.pos = 0 /\ view'.batch = <<>> /\ view'.shown = <<>>
            /\ DOMAIN view' = {"pc", "pos", "batch", "shown"}
        BY <4>3 DEF NewView
      <4>5. Joint(ValuesUpTo(c, "rec")[0], <<>>, <<>>) /\ <<>> \in Seq(Nat) /\ 0 \in 0 .. Len(c)
        BY <4>2, ValuesCollect DEF Collects, Joint
      <4> QED BY <4>1, <4>4, <4>5 DEF ViewInv, Shown
    <3> QED BY <3>3, <3>4
  <2>4. CASE Shows
    <3>1. Views(play.file) /\ UNCHANGED play
      BY <2>4 DEF Shows
    <3>2. view.pc \in {"headers", "records"}
      BY <3>1 DEF Views, ViewSection, ViewRecord
    <3>3. play.tool = "viewer"
      BY <1>2, <3>2 DEF ViewInv, NewView
    <3>4. DOMAIN view' = {"pc", "pos", "batch", "shown"}
      BY <1>2, <3>1 DEF Views, ViewSection, ViewRecord, ViewInv
    <3>5. OneSection(play.file) => Shown(play.file)'
      BY <1>2, <2>0, <3>1, <3>3, SectionShown, RecordShown DEF Views
    <3> QED BY <3>1, <3>3, <3>4, <3>5 DEF ViewInv
  <2> QED BY <1>2, <2>2, <2>3, <2>4 DEF RecordingNext
<1> QED BY <1>1, <1>2, ShapeInvariant, PTL DEF RecordingSpec
-----------------------------------------------------------------------------
LEMMA GrownIsPrefix ==
  ASSUME NEW s \in Seq(Nat), NEW t \in Seq(Nat), Extends(s, t)
  PROVE  IsPrefix(s, t)
<1>1. Len(s) <= Len(t) /\ Len(s) \in Nat /\ Len(t) \in Nat
  BY DEF Extends
<1> DEFINE u == SubSeq(s, 1, Len(s))
           w == SubSeq(t, 1, Len(s))
<1>2. /\ u \in Seq(Nat) /\ w \in Seq(Nat) /\ Len(u) = Len(s) /\ Len(w) = Len(s)
      /\ \A i \in 1 .. Len(s) : u[i] = s[i] /\ w[i] = t[i]
  BY <1>1
<1>3. \A i \in 1 .. Len(s) : s[i] = t[i]
  BY DEF Extends
<1> HIDE DEF u, w
<1>4. u = w
  <2>1. u = [i \in 1 .. Len(s) |-> u[i]] /\ w = [i \in 1 .. Len(s) |-> w[i]]
    BY <1>2
  <2>2. \A i \in 1 .. Len(s) : u[i] = w[i]
    BY <1>2, <1>3
  <2> QED BY <2>1, <2>2
<1> QED BY <1>1, <1>4 DEF IsPrefix, u, w

(* A section that counts no record is among the lengths. *)
LEMMA ZeroIsCounted ==
  ASSUME NEW c \in Seq(Entry), NEW p \in DOMAIN c, c[p].kind = "data", c[p].val = 0
  PROVE  \E i \in DOMAIN SectionLengths(c) : ~ (SectionLengths(c)[i] > 0)
<1>0. PICK N \in Nat : N = Len(c) /\ p \in 1 .. N
  OBVIOUS
<1>1. PICK v : v = ValuesUpTo(c, "data") /\ Collects(v, c, "data")
  BY ValuesCollect
<1>2. PICK j : j = p - 1
  OBVIOUS
<1>3. /\ v[p] \in Seq(Nat) /\ v[j] \in Seq(Nat) /\ Len(v[p]) = Len(v[j]) + 1
      /\ v[p][Len(v[p])] = 0
  BY <1>0, <1>1, <1>2, CollectedItem, SMTT(30)
<1>4. p \in 0 .. Len(c) /\ N \in p .. Len(c)
  BY <1>0
<1>5. Extends(v[p], v[N])
  BY ONLY c \in Seq(Entry), <1>1, <1>4, CollectedGrows
<1>6. v[N] = SectionLengths(c)
  BY <1>0, <1>1 DEF SectionLengths
<1>7. PICK k \in DOMAIN v[p] : v[p][k] = 0
  BY <1>3
<1>8. k \in DOMAIN v[N] /\ v[N][k] = 0
  <2>1. v[N] \in Seq(Nat)
    <3>1. N \in 0 .. Len(c)
      BY <1>0
    <3> QED BY <1>1, <3>1, CollectedTyped
  <2>2. DOMAIN v[p] = 1 .. Len(v[p]) /\ DOMAIN v[N] = 1 .. Len(v[N]) /\ Len(v[N]) \in Nat /\ Len(v[p]) \in Nat
    BY <1>3, <2>1
  <2>3. Len(v[p]) <= Len(v[N]) /\ v[N][k] = v[p][k]
    BY <1>5, <1>7 DEF Extends
  <2>4. k \in 1 .. Len(v[N])
    BY <1>7, <2>2, <2>3
  <2> QED BY <1>7, <2>2, <2>3, <2>4
<1> QED BY <1>6, <1>8

LEMMA ReplayDelivers ==
  ASSUME ReplayInv, ShapeInv
  PROVE  ReplayIsFaithful
<1> SUFFICES ASSUME play.tool = "reader", ~ prod.interrupted
             PROVE  /\ IsPrefix(pushed \o active \o prod.batch, RecordsOf(play.file))
                    /\ (prod.worker = "ended" /\ \A i \in DOMAIN SectionLengths(play.file) :
                          SectionLengths(play.file)[i] > 0)
                         => pushed = RecordsOf(play.file)
  BY DEF ReplayIsFaithful
<1>1. PICK c \in Seq(Entry) : c = play.file
  BY DEF ShapeInv
<1>2. PICK N \in Nat : N = Len(c)
  OBVIOUS
<1>3. PICK v : v = ValuesUpTo(c, "rec") /\ Collects(v, c, "rec")
  BY ValuesCollect
<1>4. v[N] = RecordsOf(play.file) /\ \A k \in 0 .. N : v[k] \in Seq(Nat)
  BY <1>1, <1>2, <1>3, CollectedTyped DEF RecordsOf
<1>5. CASE ~ prod.ready
  <2>1. pushed = <<>> /\ active = <<>> /\ prod.batch = <<>> /\ prod.worker = "none"
    BY <1>5 DEF ReplayInv
  <2>2. pushed \o active \o prod.batch = v[0] /\ v[0] = <<>>
    BY <1>3, <2>1 DEF Collects
  <2>3. 0 \in 0 .. Len(c) /\ N \in 0 .. Len(c) /\ 0 \in 0 .. N /\ N \in 0 .. N
    BY <1>2
  <2>4. Extends(v[0], v[N])
    BY ONLY c \in Seq(Entry), <1>3, <2>3, CollectedGrows
  <2>5. IsPrefix(v[0], v[N])
    BY <1>4, <2>3, <2>4, GrownIsPrefix
  <2> QED BY <1>4, <2>1, <2>2, <2>5
<1>6. CASE prod.ready
  <2>1. Delivers(c)
    BY <1>1, <1>6 DEF ReplayInv
  <2>2. PICK p \in 0 .. Len(c) : p = rd.pos
    BY <2>1 DEF Delivers, OnTrack
  <2>3. v[p] = pushed \o active \o prod.batch
    BY <1>3, <2>1, <2>2 DEF Delivers, Joint
  <2>4. N \in p .. Len(c) /\ p \in 0 .. N /\ N \in 0 .. N
    BY <1>2, <2>2
  <2>5. Extends(v[p], v[N])
    BY ONLY c \in Seq(Entry), <1>3, <2>2, <2>4, CollectedGrows
  <2>6. IsPrefix(v[p], v[N])
    BY <1>4, <2>4, <2>5, GrownIsPrefix
  <2>7. ASSUME prod.worker = "ended", \A i \in DOMAIN SectionLengths(c) : SectionLengths(c)[i] > 0
        PROVE  pushed = v[N]
    <3>1. NothingLeft /\ active = <<>> /\ prod.batch = <<>> /\ pushed \in Seq(Nat)
      BY <1>6, <2>1, <2>7 DEF ReplayInv, Delivers
    <3>2. ~ rd.good
      <4>1. rd.good => rd.remaining = 0
        BY <3>1 DEF NothingLeft
      <4>2. rd.good => p \in DOMAIN c /\ c[p].kind = "data" /\ c[p].val = 0
        BY <2>1, <2>2, <4>1 DEF Delivers, OnTrack
      <4> QED BY <2>7, <4>2, ZeroIsCounted
    <3>3. \A i \in p + 1 .. N : c[i].kind # "rec"
      BY <1>2, <2>1, <2>2, <3>2 DEF Delivers, OnTrack, NoRecords
    <3>4. v[N] = v[p]
      BY ONLY c \in Seq(Entry), p \in 0 .. Len(c), <1>3, <2>4, <3>3, CollectedRests
    <3>5. pushed \o <<>> \o <<>> = pushed
      BY <3>1
    <3> QED BY <2>3, <3>1, <3>4, <3>5
  <2> QED BY <1>1, <1>4, <2>3, <2>6, <2>7
<1> QED BY <1>5, <1>6 DEF ReplayInv

(* Whatever became of a recorder - it closed its file, was cut off by a     *)
(* crash or met a disk that failed - and whatever sections an archive has,  *)
(* a CbfReader delivers the records of the file in their order, each once,  *)
(* however its batches and sections overlap, and all of them when it has    *)
(* ended, if no section was left open or empty (CbfReader.cpp:34-108);      *)
(* stop() in the middle of a replay is excepted.                             *)
THEOREM ReplaysAreFaithful == RecordingSpec => []ReplayIsFaithful
<1> QED BY ReplayDelivers, ReplayInvariant, ShapeInvariant, PTL

LEMMA ViewerShows ==
  ASSUME ViewInv, ShapeInv
  PROVE  ViewerShowsAll
<1> SUFFICES ASSUME view.pc = "done", Len(SectionLengths(play.file)) <= 1
             PROVE  view.shown = RecordsOf(play.file)
  BY DEF ViewerShowsAll
<1>1. PICK c \in Seq(Entry) : c = play.file
  BY DEF ShapeInv
<1>2. play.tool = "viewer"
  BY DEF ViewInv, NewView
<1>3. Shown(c)
  BY <1>1, <1>2 DEF ViewInv, OneSection
<1>4. PICK v : v = ValuesUpTo(c, "rec") /\ Collects(v, c, "rec")
  BY ValuesCollect
<1>5. PICK N \in Nat : N = Len(c)
  OBVIOUS
<1>6. PICK p \in 0 .. Len(c) : p = view.pos
  BY <1>3 DEF Shown
<1>7. v[p] = view.shown
  <2>1. v[p] = view.shown \o <<>> /\ view.shown \in Seq(Nat)
    BY <1>3, <1>4, <1>6 DEF Shown, Joint
  <2> QED BY <2>1
<1>8. \A i \in p + 1 .. N : c[i].kind # "rec"
  BY <1>3, <1>5, <1>6 DEF Shown, NoRecords
<1>9. N \in p .. Len(c)
  BY <1>5, <1>6
<1>10. v[N] = v[p]
  BY ONLY c \in Seq(Entry), p \in 0 .. Len(c), <1>4, <1>8, <1>9, CollectedRests
<1> QED BY <1>1, <1>4, <1>5, <1>7, <1>10 DEF RecordsOf

(* CbfView shows every whole record of a file with one data section, also   *)
(* of one whose length was never patched (CbfView's process() reads to the  *)
(* end of the file, not to the length in the header).                       *)
THEOREM ViewersShowAll == RecordingSpec => []ViewerShowsAll
<1> QED BY ViewerShows, ViewerInvariant, ShapeInvariant, PTL
=============================================================================
