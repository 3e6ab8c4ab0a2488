----------------------------- MODULE RecordFiles ----------------------------
(***************************************************************************)
(* The two consumers that write files, CbfWriter and CsvWriter: the hooks  *)
(* they add to the consumer's worker, and restart().  A name of a file is  *)
(* the time stamp it carries, 0 for the name without one.  The disk may    *)
(* refuse to open a file or to go on writing one.                          *)
(***************************************************************************)
EXTENDS RecordConsumer, CbfFile

CONSTANTS MaxStamp,      \* bound: time stamps of the names
          MaxPerFile,    \* bound: maxRecords (0: no limit)
          MaxFaults      \* bound: failures of the disk

ASSUME FilesAssumption == MaxStamp \in Nat \ {0} /\ MaxPerFile \in Nat

Names == 0 .. MaxStamp

VARIABLES disk,          \* what each file holds (empty: missing or empty)
          writer,        \* the members of the writer, and its stream
          clock,         \* the time stamp a new name would get at least
          faults,        \* failures of the disk so far
          reused         \* has a file been truncated that held records?

(* A CSV file: the header of our schema or a foreign one, and rows.        *)
Header  == Item("header", 1)
Foreign == Item("foreign", 0)

(* The base name of a CSV writer may hold rows of an earlier run; it is      *)
(* opened only if names carry no stamps.                                    *)
FormerContents(format, suffix) ==
  IF format = "csv" /\ ~suffix THEN {<<>>, <<Header, Rec(0)>>, <<Foreign, Foreign>>} ELSE {<<>>}

EmptyDisk == [n \in Names |-> <<>>]

NewWriter == [format |-> "cbf", suffix |-> FALSE, limit |-> 0, filename |-> 0,
              count |-> 0, restart |-> FALSE, file |-> ClosedFile]

(* init(): the first name carries the first stamp if names carry stamps.    *)
InitFiles(format) ==
  \E suffix \in BOOLEAN, limit \in 0 .. MaxPerFile :
    /\ \E former \in FormerContents(format, suffix) : disk = [EmptyDisk EXCEPT ![0] = former]
    /\ writer = [NewWriter EXCEPT !.format = format, !.suffix = suffix, !.limit = limit,
                                  !.filename = IF suffix THEN 1 ELSE 0]

(* The state a hook works on, and back. *)
Io == [disk |-> disk, file |-> writer.file, filename |-> writer.filename,
       count |-> writer.count, reused |-> reused]

Becomes(io, restart) ==
  /\ disk' = io.disk /\ reused' = io.reused
  /\ writer' = [writer EXCEPT !.file = io.file, !.filename = io.filename,
                              !.count = io.count, !.restart = restart]

HoldsRecords(io, name) == \E i \in DOMAIN io.disk[name] : io.disk[name][i].kind = "rec"

(* open() for writing under a name, which may fail.                         *)
OpenNew(io, opens) ==
  IF opens
    THEN [OpenForWriting(io, io.filename) EXCEPT !.reused = @ \/ HoldsRecords(io, io.filename)]
    ELSE CloseFile(io)

(* openAndWriteSchema *)
OpenCbf(io, opens) ==
  LET opened == OpenNew(io, opens)
  IN  IF opened.file.open THEN BeginDataSection(WriteSchema(opened)) ELSE opened

(* The new file of CsvWriter::rotateFile; header and records are flushed.   *)
OpenCsv(io, opens) ==
  LET opened == OpenNew(io, opens)
  IN  IF opened.file.open THEN [Put(opened, <<Header>>) EXCEPT !.file.flushed = 1] ELSE opened

CloseStream(io) ==
  IF writer.format = "cbf" THEN CloseFile(io)
  ELSE [io EXCEPT !.file.open = FALSE]

(* Mutant of SetupCsv: appends to whatever there is. *)
SetupCsvUnread(io, opens, stamp) ==
  IF io.disk[io.filename] = <<>> THEN OpenCsv(io, opens)
  ELSE [io EXCEPT !.file = [ClosedFile EXCEPT !.open = TRUE, !.name = io.filename,
                                              !.flushed = Len(io.disk[io.filename])]]

(* setupFile: appends to a file with our header, avoids a foreign one.      *)
SetupCsv(io, opens, stamp) ==
  LET content == io.disk[io.filename]
  IN  IF content = <<>> THEN OpenCsv(io, opens)
      ELSE IF Head(content) = Header
        THEN IF opens
               THEN [io EXCEPT !.file = [ClosedFile EXCEPT !.open = TRUE, !.name = io.filename,
                                                           !.flushed = Len(content)]]
               ELSE io
        ELSE OpenCsv([io EXCEPT !.filename = stamp], opens)

(* rotateFile *)
Rotate(io, opens, stamp) ==
  LET renamed == [CloseStream(io) EXCEPT !.filename = IF writer.suffix THEN stamp ELSE 0]
      opened  == IF writer.format = "cbf" THEN OpenCbf(renamed, opens) ELSE OpenCsv(renamed, opens)
  IN  [opened EXCEPT !.count = 0]

(* The names made in one call carry stamps that do not go back; they are    *)
(* equal when the calls fall into one millisecond.                          *)
StampsFrom(now) == now .. Min({now + 1, MaxStamp})

Opened(opens) == faults' = IF opens THEN faults ELSE faults + 1

(* Bound: only a writer that was started once meets failures. *)
CanFail == faults < MaxFaults /\ con.starts <= 1

Outcomes == IF CanFail THEN BOOLEAN ELSE {TRUE}

OnConsumeStart ==
  \E opens \in Outcomes, stamp \in StampsFrom(clock) :
    /\ Becomes(IF writer.format = "cbf" THEN OpenCbf(Io, opens) ELSE SetupCsv(Io, opens, stamp),
               writer.restart)
    /\ clock' = stamp /\ Opened(opens)

(* Mutant of Accepts: the batch that rotates is dropped. *)
AcceptsUnrotated(io) == io.file.open /\ ~writer.restart

(* Records are dropped while no file is open; a CsvWriter also drops them   *)
(* on a stream that has failed.                                             *)
Accepts(io) == io.file.open /\ (writer.format = "csv" => io.file.good)

Written(io, ids) ==
  [IF writer.format = "cbf" THEN WriteRecords(io, ids) ELSE Put(io, Recs(ids))
     EXCEPT !.count = IF writer.limit > 0 THEN @ + Len(ids) ELSE @]

IsFull(io) == writer.limit > 0 /\ io.count >= writer.limit

(* consumeBatch: a requested rotation, the records, a rotation when full.   *)
ConsumeBatch ==
  \E opens, opensNext \in Outcomes, first \in StampsFrom(clock) : \E second \in StampsFrom(first) :
    LET ready == IF writer.restart THEN Rotate(Io, opens, first) ELSE Io
        more  == IF Accepts(ready) THEN Written(ready, con.batch) ELSE ready
        full  == Accepts(ready) /\ IsFull(more)
    IN  /\ Becomes(IF full THEN Rotate(more, opensNext, second) ELSE more, FALSE)
        /\ clock' = IF full THEN second ELSE IF writer.restart THEN first ELSE clock
        /\ Opened((writer.restart => opens) /\ (full => opensNext))

OnConsumeStop ==
  /\ Becomes(CloseStream(Io), writer.restart)
  /\ UNCHANGED <<clock, faults>>

(* restart(), from any thread. *)
Restart ==
  /\ con.caller = "idle" /\ ~writer.restart
  /\ writer' = [writer EXCEPT !.restart = TRUE]
  /\ UNCHANGED <<disk, clock, faults, reused>>

(* What may be left of a content of which only a part had been flushed.     *)
Remains(content, flushed) ==
  {SubSeq(content, 1, n) : n \in flushed .. Len(content)}
    \cup {Append(SubSeq(content, 1, n), Torn) : n \in flushed .. Len(content) - 1}

(* The disk is full: the stream fails, some of what it held is lost.        *)
WriteFails ==
  /\ writer.file.open /\ writer.file.good /\ CanFail
  /\ writer.file.flushed < Len(Content(Io))
  /\ \E rest \in Remains(Content(Io), writer.file.flushed) :
       disk' = [disk EXCEPT ![writer.file.name] = rest]
  /\ writer' = [writer EXCEPT !.file.good = FALSE]
  /\ faults' = faults + 1
  /\ UNCHANGED <<clock, reused>>
=============================================================================
