--------------------------- MODULE RecordProducer ---------------------------
(***************************************************************************)
(* RecordProducer and BatchRecordProducer: the worker thread around a      *)
(* RecordWriter, the lazy initialisation that several threads may ask for, *)
(* and the methods a user's thread calls.  The hooks of the derived class  *)
(* are conjoined by the module that composes them.                         *)
(*                                                                          *)
(* The writer is what its callers see of it: the records committed to its  *)
(* active buffer, and how often the two buffers were swapped.  A swap      *)
(* pushes the active buffer; memory handed out before it is then no longer *)
(* the memory a commit counts.                                             *)
(***************************************************************************)
EXTENDS Integers, Sequences, FiniteSetsExt

CONSTANTS WriterBatch,   \* capacity of the writer's buffers
          MaxRuns,       \* bound: calls of start()
          Askers         \* threads that may initialise: the user's and others

ASSUME ProducerAssumption == WriterBatch \in Nat \ {0}

VARIABLES prod,          \* the RecordProducer object, its worker and its user
          init,          \* where each asker is in initialize()
          buffers,       \* RecBuffers made so far
          active,        \* RecordWriter: records in the active buffer
          swaps,         \* RecordWriter: swaps so far
          pushed         \* what the RecBuffer received

prodVars == <<prod, init, buffers, active, swaps, pushed>>

UserThread == "user"
Garbage == 0             \* a record nobody filled

InitProducer ==
  /\ prod = [running |-> FALSE, worker |-> "none", joinable |-> FALSE, caller |-> "idle",
             interrupted |-> FALSE, runs |-> 0, ready |-> FALSE, lock |-> "free", batch |-> <<>>, epoch |-> 0, room |-> 0]
  /\ init = [a \in Askers |-> "out"]
  /\ buffers = 0 /\ active = <<>> /\ swaps = 0 /\ pushed = <<>>

WriterRests == UNCHANGED <<buffers, active, swaps, pushed>>
-----------------------------------------------------------------------------
(* initialize(), from start() or getBuffer(): look, lock, look again.       *)
Asks(a) ==
  /\ init[a] = "out" /\ ~prod.ready
  /\ a = UserThread => prod.caller = "starting"
  /\ init' = [init EXCEPT ![a] = "waits"]
  /\ UNCHANGED prod /\ WriterRests

Locks(a) ==
  /\ init[a] = "waits" /\ prod.lock = "free"
  /\ init' = [init EXCEPT ![a] = "holds"]
  /\ prod' = [prod EXCEPT !.lock = a]
  /\ UNCHANGED <<buffers, active, swaps, pushed>>

(* Mutant of Initializes: no second look under the lock. *)
InitializesBlindly(a, rule) ==
  /\ init[a] = "holds"
  /\ buffers' = IF rule THEN buffers + 1 ELSE buffers
  /\ prod' = [prod EXCEPT !.lock = "free", !.ready = @ \/ rule]
  /\ init' = [init EXCEPT ![a] = "done"]
  /\ UNCHANGED <<active, swaps, pushed>>

(* An empty rule leaves the producer uninitialised. *)
Initializes(a, rule) ==
  /\ init[a] = "holds"
  /\ LET makes == ~prod.ready /\ rule
     IN  /\ buffers' = IF makes THEN buffers + 1 ELSE buffers
         /\ prod' = [prod EXCEPT !.lock = "free", !.ready = @ \/ makes]
  /\ init' = [init EXCEPT ![a] = "done"]
  /\ UNCHANGED <<active, swaps, pushed>>
-----------------------------------------------------------------------------
(* The user's thread. *)
UserGoes(from, to) ==
  /\ prod.caller = from
  /\ prod' = [prod EXCEPT !.caller = to]
  /\ UNCHANGED init /\ WriterRests

StartProducer ==
  /\ prod.caller = "idle" /\ ~prod.running /\ prod.runs < MaxRuns
  /\ prod' = [prod EXCEPT !.caller = "starting", !.runs = @ + 1]
  /\ init' = [init EXCEPT ![UserThread] = "out"]
  /\ WriterRests

(* start() behind initialize(): no buffer, no thread. *)
SpawnProducer ==
  /\ prod.caller = "starting" /\ (prod.ready \/ init[UserThread] = "done")
  /\ prod' = IF prod.ready /\ prod.joinable
               THEN [prod EXCEPT !.caller = "terminated"]
               ELSE IF prod.ready
               THEN [prod EXCEPT !.caller = "idle", !.running = TRUE, !.joinable = TRUE,
                                 !.worker = "starting"]
               ELSE [prod EXCEPT !.caller = "idle"]
  /\ init' = [init EXCEPT ![UserThread] = "done"]
  /\ WriterRests

Swapped(records) == pushed' = pushed \o records /\ active' = <<>> /\ swaps' = swaps + 1

Flush == IF active = <<>> THEN UNCHANGED <<active, swaps, pushed>> ELSE Swapped(active)

(* stop() flushes the writer while the worker still uses it. *)
StopProducer ==
  /\ prod.caller = "idle" /\ prod.running
  /\ prod' = [prod EXCEPT !.running = FALSE, !.interrupted = TRUE, !.caller = "flush"]
  /\ UNCHANGED init /\ WriterRests

StopFlush ==
  /\ prod.caller = "flush"
  /\ Flush
  /\ prod' = [prod EXCEPT !.caller = "join"]
  /\ UNCHANGED <<init, buffers>>

JoinProducer == prod.joinable /\ UserGoes("idle", "join")

Join ==
  /\ prod.caller = "join" /\ prod.worker = "ended"
  /\ prod' = [prod EXCEPT !.joinable = FALSE, !.caller = "idle"]
  /\ UNCHANGED init /\ WriterRests

(* The destructor of a producer that no longer runs. *)
DestroyProducer ==
  /\ prod.caller = "idle" /\ ~prod.running /\ init[UserThread] = "done"
  /\ prod' = [prod EXCEPT !.caller = IF prod.joinable THEN "terminated" ELSE "gone"]
  /\ UNCHANGED init /\ WriterRests

ProducerUser == StartProducer \/ SpawnProducer \/ StopProducer \/ StopFlush \/ JoinProducer \/ Join \/ DestroyProducer
-----------------------------------------------------------------------------
(* The worker: batches until the derived class or stop() clears m_running.  *)
ProducerGoes(from, to) ==
  /\ prod.worker = from
  /\ prod' = [prod EXCEPT !.worker = to]
  /\ UNCHANGED init /\ WriterRests

ProducerChecks ==
  \/ prod.running /\ ProducerGoes("loop", "next")
  \/ ~prod.running /\ ProducerGoes("loop", "flush")

NextBatch ==
  /\ prod.worker = "next"
  /\ IF Len(active) >= WriterBatch THEN Swapped(active) ELSE UNCHANGED <<active, swaps, pushed>>
  /\ prod' = [prod EXCEPT !.worker = "produce", !.epoch = swaps', !.room = WriterBatch - Len(active')]
  /\ UNCHANGED <<init, buffers>>

(* The derived class fills the batch with ids, or ends the production.      *)
Produces(ids, goOn) ==
  /\ prod.worker = "produce"
  /\ prod' = [prod EXCEPT !.worker = "commit", !.batch = ids, !.running = @ /\ goOn]
  /\ UNCHANGED init /\ WriterRests

Commit ==
  /\ prod.worker = "commit"
  /\ LET filled == IF swaps = prod.epoch THEN prod.batch
                   ELSE [i \in DOMAIN prod.batch |-> Garbage]
     IN  active' = active \o SubSeq(filled, 1, Min({Len(filled), WriterBatch - Len(active)}))
  /\ prod' = [prod EXCEPT !.worker = "loop", !.batch = <<>>]
  /\ UNCHANGED <<init, buffers, swaps, pushed>>

(* Both threads write m_currentIdx without a lock: the reset of a swap in   *)
(* stop() is lost when it falls between the read and the write of a commit. *)
CommitRacesFlush ==
  /\ prod.worker = "commit" /\ prod.caller = "flush" /\ active # <<>>
  /\ pushed' = pushed \o active /\ swaps' = swaps + 1
  /\ active' = [i \in 1 .. Min({Len(active) + Len(prod.batch), WriterBatch}) |-> Garbage]
  /\ prod' = [prod EXCEPT !.worker = "loop", !.batch = <<>>, !.caller = "join"]
  /\ UNCHANGED <<init, buffers>>

WorkerFlush ==
  /\ prod.worker = "flush"
  /\ Flush
  /\ prod' = [prod EXCEPT !.worker = "stopping", !.running = FALSE]
  /\ UNCHANGED <<init, buffers>>

ProducerWorker == ProducerChecks \/ NextBatch \/ Commit \/ CommitRacesFlush \/ WorkerFlush
=============================================================================
