---------------------------- MODULE MCComponents ----------------------------
(***************************************************************************)
(* The components that work on their own, side by side: a behaviour        *)
(* exercises one of them, the "subject", and leaves the others as they     *)
(* began.                                                                  *)
(***************************************************************************)
EXTENDS CircularBufferSpec, DynamicChunkBuffer, Recording, RecordSchema, ChartRows

VARIABLE subject

(* The archives: one section, several, and empty ones. *)
ArchiveLengths == {<<1>>, <<2, 1>>, <<1, 2>>, <<0, 1>>, <<1, 0, 2>>}

(* The schemas: arrays, types of every size, bits in several bytes of a     *)
(* field, bits of the same name, a bit too many, a bit in a field without   *)
(* bits, and a field without size.                                          *)
Decl(fields, align) == [fields |-> fields, align |-> align]

Mixed == <<Field("a", "Char", 3, <<>>), Field("b", "Int16", 1, <<>>),
           Field("f", "UInt16", 1, <<Named("x"), SkipBits(8), Named("y")>>)>>

Schemas ==
  {Decl(Mixed, TRUE), Decl(Mixed, FALSE),
   Decl(<<Field("f", "UInt8", 1, <<Named("x")>>),
          Field("g", "Bool", 1, <<SkipBits(2), Named("x")>>)>>, FALSE),
   Decl(<<Field("g", "Bool", 1, <<Named("y"), SkipBits(0), Named("z")>>),
          Field("d", "Int32", 2, <<>>)>>, TRUE),
   Decl(<<Field("b", "Int8", 1, <<Named("x"), SkipBits(8)>>)>>, FALSE),
   Decl(<<Field("a", "Int8", 1, <<>>), Field("d", "Float", 1, <<Named("x")>>)>>, FALSE),
   Decl(<<Field("v", "Void", 1, <<>>), Field("b", "Int32", 1, <<>>)>>, FALSE)}

(* What servers announce to a chart: in the first connection a field with a *)
(* bit, in the second a field of the bit's name; and the values of a        *)
(* connection's two records.                                                *)
Attr(name, type, count, bits) ==
  [name |-> name, type |-> type, count |-> count, bits |-> bits]

ChartShapes ==
  <<<<Attr("f", "UInt8", 1, <<"x">>)>>,
    <<Attr("x", "Double", 1, <<>>)>>>>

TwoLevels == <<0, 1>>

Subjects == {"ring", "chunks", "files", "schema", "chart"}

ComponentsInit ==
  /\ subject \in Subjects
  /\ RingInit /\ (subject # "ring" => cb.capacity = 1)
  /\ ChunkInit
  /\ RecordingInit
  /\ (subject # "files" => writer = NoRecorder /\ disk[0] = Archive(<<1>>))
  /\ SchemaInit
  /\ RowsInit

RingWorks   == subject = "ring" /\ RingNext
               /\ UNCHANGED <<chunkVars, recVars, schemaVars, rowsVars, subject>>
ChunksWork  == subject = "chunks" /\ ChunkNext
               /\ UNCHANGED <<cbVars, recVars, schemaVars, rowsVars, subject>>
FilesWork   == subject = "files" /\ RecordingNext
               /\ UNCHANGED <<cbVars, chunkVars, schemaVars, rowsVars, subject>>
SchemaWorks == subject = "schema" /\ SchemaNext
               /\ UNCHANGED <<cbVars, chunkVars, recVars, rowsVars, subject>>
ChartWorks  == subject = "chart" /\ RowsNext
               /\ UNCHANGED <<cbVars, chunkVars, recVars, schemaVars, subject>>

ComponentsNext == RingWorks \/ ChunksWork \/ FilesWork \/ SchemaWorks \/ ChartWorks

ComponentsVars == <<cbVars, chunkVars, recVars, schemaVars, rowsVars, subject>>

(* Only the recording has steps that must be taken; elsewhere the           *)
(* conjuncts below ask for nothing that could happen.                       *)
ComponentsSpec ==
  /\ ComponentsInit /\ [][ComponentsNext]_ComponentsVars
  /\ WF_con(subject = "files" /\ Recorder /\ CallSteps)
  /\ WF_con(subject = "files" /\ Recorder /\ WorkerSteps)
  /\ WF_replayVars(subject = "files" /\ ReplayCallGoesOn)
  /\ WF_replayVars(subject = "files" /\ ReplayOpens)
  /\ WF_replayVars(subject = "files" /\ ReplayWorker)
=============================================================================
