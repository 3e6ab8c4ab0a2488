------------------------------ MODULE CbfReplay -----------------------------
(***************************************************************************)
(* The two programs that read a .cbf file: CbfReader, a producer that      *)
(* replays the records of a file into a buffer, and the reader of CbfView. *)
(* CbfReader goes by the lengths in the section headers, the viewer by the *)
(* end of the file.                                                         *)
(***************************************************************************)
EXTENDS RecordProducer, CbfFile

CONSTANTS ViewBatch      \* m_batchSize of the viewer

VARIABLES rd,            \* CbfReader: stream and members
          view           \* the viewer

InitReplay ==
  /\ rd = [open |-> FALSE, good |-> TRUE, pos |-> 0, valid |-> FALSE, remaining |-> 0]
  /\ view = [pc |-> "none", pos |-> 0, batch |-> <<>>, shown |-> <<>>]

(* The header of the next data section behind pos, or 0: readSectionHeader  *)
(* until one is found, schema sections read or skipped.                     *)
NextData(content, pos) ==
  LET found == {i \in pos + 1 .. Len(content) :
                  content[i].kind = "data" /\ \A j \in pos + 1 .. i - 1 : content[j] = Schema}
  IN  IF found = {} THEN 0 ELSE Min(found)

(* The stream behind a walk: it fails at the end of the file. *)
Walked(r, content) ==
  LET i == NextData(content, r.pos)
  IN  IF i = 0 THEN [r EXCEPT !.good = FALSE]
      ELSE [r EXCEPT !.pos = i, !.remaining = content[i].val]

HasRule(content) == content # <<>> /\ Head(content) = Schema

(* defineRule, called by whoever initialises the producer. *)
DefineRule(a, content) ==
  /\ Initializes(a, HasRule(content))
  /\ rd' = IF prod.ready THEN rd
           ELSE Walked([rd EXCEPT !.open = TRUE, !.good = TRUE, !.pos = 0,
                                  !.valid = HasRule(content)], content)

Available(content) ==
  {n \in 1 .. Len(content) - rd.pos : \A i \in 1 .. n : content[rd.pos + i].kind = "rec"}

(* produceBatch *)
EndOfReplay ==
  /\ ~rd.valid \/ ~rd.good \/ rd.remaining <= 0
  /\ Produces(<<>>, FALSE)
  /\ UNCHANGED rd

(* Mutant of BlockLength: a whole batch, whatever the section holds. *)
BlockLengthUnlimited == prod.room

(* Block reading: as many records as fit into the batch. *)
BlockLength == Min({prod.room, rd.remaining})

(* Mutant of ReadFailed: the failure is not remembered. *)
ReadFailedUnseen == rd

ReadFailed == [rd EXCEPT !.valid = FALSE, !.good = FALSE]

ReadBlock(content) ==
  /\ rd.valid /\ rd.good /\ rd.remaining > 0
  /\ LET n    == BlockLength
         ids  == [i \in 1 .. n |-> content[rd.pos + i].val]
         read == [rd EXCEPT !.pos = @ + n, !.remaining = @ - n]
     IN  IF rd.open /\ n \in Available(content)
           THEN /\ Produces(ids, TRUE)
                /\ rd' = IF read.remaining = 0 THEN Walked(read, content) ELSE read
           ELSE Produces(<<>>, TRUE) /\ rd' = ReadFailed

OnProduceStop == ProducerGoes("stopping", "ended") /\ rd' = [rd EXCEPT !.open = FALSE]

Opens(a, content) ==
  \/ (Asks(a) \/ Locks(a)) /\ UNCHANGED rd
  \/ DefineRule(a, content)

Replays(content) ==
  \/ (ProducerGoes("starting", "loop") \/ ProducerWorker) /\ UNCHANGED rd
  \/ EndOfReplay
  \/ ReadBlock(content)
  \/ OnProduceStop
-----------------------------------------------------------------------------
(* CbfView's process(): sections until a header cannot be read.             *)
ViewSection(content) ==
  /\ view.pc = "headers"
  /\ LET next == IF view.pos < Len(content) THEN content[view.pos + 1] ELSE Torn
     IN  view' = IF next = Schema THEN [view EXCEPT !.pos = @ + 1]
                 ELSE IF next.kind = "data" /\ view.pos > 0
                   THEN [view EXCEPT !.pos = @ + 1, !.pc = "records"]
                   ELSE [view EXCEPT !.pc = "done"]

(* Mutant of ViewRecord: the last batch, which is not full, is not shown. *)
ViewFullBatches(content) ==
  /\ view.pc = "records"
  /\ LET ended == view.pos >= Len(content) \/ content[view.pos + 1] = Torn
         batch == Append(view.batch, content[view.pos + 1].val)
     IN  view' = IF ended
                   THEN [view EXCEPT !.pc = "headers", !.pos = Len(content), !.batch = <<>>]
                   ELSE IF Len(batch) >= ViewBatch
                   THEN [view EXCEPT !.pos = @ + 1, !.shown = @ \o batch, !.batch = <<>>]
                   ELSE [view EXCEPT !.pos = @ + 1, !.batch = batch]

(* Records are read to the end of the file whatever the section's length:   *)
(* the bytes of a later header are taken for a record.                      *)
ViewRecord(content) ==
  /\ view.pc = "records"
  /\ LET ended == view.pos >= Len(content) \/ content[view.pos + 1] = Torn
         next  == IF content[view.pos + 1].kind = "rec" THEN content[view.pos + 1].val ELSE Garbage
         batch == Append(view.batch, next)
     IN  view' = IF ended
                   THEN [view EXCEPT !.pc = "headers", !.pos = Len(content),
                                     !.shown = @ \o view.batch, !.batch = <<>>]
                   ELSE IF Len(batch) >= ViewBatch
                   THEN [view EXCEPT !.pos = @ + 1, !.shown = @ \o batch, !.batch = <<>>]
                   ELSE [view EXCEPT !.pos = @ + 1, !.batch = batch]

Views(content) == ViewSection(content) \/ ViewRecord(content)
=============================================================================
