--------------------------- MODULE RecordConsumer ---------------------------
(***************************************************************************)
(* RecordConsumer and BatchRecordConsumer: the worker thread around a      *)
(* reader and the methods a user's thread calls on it.  The hooks of the   *)
(* derived class are conjoined by the module that composes them.  The      *)
(* reader is what the data path promises: it hands out the records of the  *)
(* source in order, in runs, and ends when it is stopped or has reached    *)
(* the target of finish().                                                 *)
(***************************************************************************)
EXTENDS Integers, Sequences, SequencesExt, FiniteSetsExt

CONSTANTS MaxRecords,    \* bound: records the source pushes
          ReaderBatch,   \* batch size of the reader
          MaxStarts      \* bound: calls of start()

VARIABLES source,        \* records pushed by the source so far
          con,           \* the RecordConsumer object, its worker and its user
          reader         \* its reader

NoTarget == -1

NewConsumer ==
  [running |-> FALSE, worker |-> "none", joinable |-> FALSE, caller |-> "idle",
   dying |-> FALSE, starts |-> 0, batch |-> <<>>]

NewReader == [cursor |-> 0, stopped |-> FALSE, target |-> NoTarget]

InitConsumer == source = 0 /\ con = NewConsumer /\ reader = NewReader

(* A joinable std::thread that is destroyed or assigned to ends the process. *)
Destroyed(c) == [c EXCEPT !.caller = IF c.joinable THEN "terminated" ELSE "gone"]

SourcePushes ==
  /\ source < MaxRecords
  /\ source' = source + 1
  /\ UNCHANGED <<con, reader>>
-----------------------------------------------------------------------------
(* The user's thread. *)
StartConsumer ==
  /\ con.caller = "idle" /\ ~con.running /\ con.starts < MaxStarts
  /\ con' = IF con.joinable
              THEN [con EXCEPT !.caller = "terminated"]
              ELSE [con EXCEPT !.running = TRUE, !.worker = "starting",
                               !.joinable = TRUE, !.starts = @ + 1]
  /\ UNCHANGED <<source, reader>>

(* stop(), called by the user or by the destructor of the derived class. *)
StopConsumer ==
  /\ con.caller = "idle" /\ con.running
  /\ \E dying \in BOOLEAN :
       con' = [con EXCEPT !.running = FALSE, !.caller = "stopReader", !.dying = dying]
  /\ UNCHANGED <<source, reader>>

(* Mutant of StopReader: the reader is not woken. *)
StopReaderLate ==
  /\ con.caller = "stopReader"
  /\ con' = [con EXCEPT !.caller = "stopJoin"]
  /\ UNCHANGED <<source, reader>>

StopReader ==
  /\ con.caller = "stopReader"
  /\ reader' = [reader EXCEPT !.stopped = TRUE]
  /\ con' = [con EXCEPT !.caller = "stopJoin"]
  /\ UNCHANGED source

StopJoin ==
  /\ con.caller = "stopJoin" /\ con.worker = "ended"
  /\ LET joined == [con EXCEPT !.joinable = FALSE]
     IN  con' = IF con.dying THEN Destroyed(joined) ELSE [joined EXCEPT !.caller = "idle"]
  /\ UNCHANGED <<source, reader>>

(* The destructor of an object that does not run: its stop() does nothing. *)
DestroyConsumer ==
  /\ con.caller = "idle" /\ ~con.running /\ con.starts > 0
  /\ con' = Destroyed(con)
  /\ UNCHANGED <<source, reader>>

BeginFinish ==
  /\ con.caller = "idle" /\ con.running
  /\ con' = [con EXCEPT !.caller = "finishReader"]
  /\ UNCHANGED <<source, reader>>

FinishReader ==
  /\ con.caller = "finishReader"
  /\ reader' = [reader EXCEPT !.target = source]
  /\ con' = [con EXCEPT !.caller = "finishJoin"]
  /\ UNCHANGED source

(* Mutant of FinishJoin: the worker is not joined. *)
FinishDetached ==
  /\ con.caller = "finishJoin" /\ con.worker = "ended"
  /\ con' = [con EXCEPT !.running = FALSE, !.caller = "idle"]
  /\ UNCHANGED <<source, reader>>

FinishJoin ==
  /\ con.caller = "finishJoin" /\ con.worker = "ended"
  /\ con' = [con EXCEPT !.joinable = FALSE, !.running = FALSE, !.caller = "idle"]
  /\ UNCHANGED <<source, reader>>

ConsumerUser ==
  \/ StartConsumer
  \/ StopConsumer \/ StopReader \/ StopJoin \/ DestroyConsumer
  \/ BeginFinish \/ FinishReader \/ FinishJoin
-----------------------------------------------------------------------------
(* The worker: onConsumeStart, then batches until the reader ends or       *)
(* stop() has cleared m_running, then onConsumeStop.                        *)
WorkerGoes(from, to) ==
  /\ con.worker = from
  /\ con' = [con EXCEPT !.worker = to]
  /\ UNCHANGED <<source, reader>>

WorkerChecks ==
  \/ con.running /\ WorkerGoes("loop", "reading")
  \/ ~con.running /\ WorkerGoes("loop", "leaving")

(* nextBatch(): waits for records.  A stopped RecordReader may hand out    *)
(* what it had copied before.                                               *)
WorkerReads ==
  /\ con.worker = "reading"
  /\ \/ \E n \in 1 .. Min({ReaderBatch, source - reader.cursor}) :
          /\ con' = [con EXCEPT !.worker = "consuming",
                                !.batch = [i \in 1 .. n |-> reader.cursor + i]]
          /\ reader' = [reader EXCEPT !.cursor = @ + n]
     \/ /\ reader.stopped \/ (reader.target # NoTarget /\ reader.cursor >= reader.target)
        /\ con' = [con EXCEPT !.worker = "leaving"]
        /\ UNCHANGED reader
  /\ UNCHANGED source

WorkerConsumes ==
  /\ con.worker = "consuming"
  /\ con' = [con EXCEPT !.worker = "loop", !.batch = <<>>]
  /\ UNCHANGED <<source, reader>>

WorkerLeaves ==
  /\ con.worker = "leaving"
  /\ con' = [con EXCEPT !.worker = "stopping", !.running = FALSE]
  /\ UNCHANGED <<source, reader>>

(* The worker's own steps; the hooks conjoined to them always return. *)
WorkerSteps ==
  \/ WorkerGoes("starting", "loop")
  \/ WorkerChecks \/ WorkerReads \/ WorkerConsumes \/ WorkerLeaves
  \/ WorkerGoes("stopping", "ended")

CallSteps == con.caller # "idle" /\ ConsumerUser
=============================================================================
