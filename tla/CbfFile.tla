------------------------------- MODULE CbfFile ------------------------------
(***************************************************************************)
(* A .cbf file on disk and the CbfFile object that writes it.  A file is   *)
(* the sequence of what was written: a schema section, the headers of data *)
(* sections with the length field they carry, records, and, after a crash, *)
(* the torn remains of the last write.  Lengths count records.  The        *)
(* operators map an "io", [disk, file], to the io after the call.          *)
(***************************************************************************)
EXTENDS Integers, Sequences, SequencesExt

Item(kind, val) == [kind |-> kind, val |-> val]
Schema      == Item("schema", 0)
Data(n)     == Item("data", n)
Rec(k)      == Item("rec", k)
Torn        == Item("torn", 0)

(* "section": offset of the header of the open data section, 0 for none;   *)
(* "flushed": how many items of the open file have left the stream's       *)
(* buffer for certain.                                                      *)
ClosedFile ==
  [open |-> FALSE, good |-> TRUE, name |-> 0, section |-> 0, written |-> 0, flushed |-> 0]

Content(io) == io.disk[io.file.name]

(* A write on the stream: nothing reaches a stream that has failed. *)
Put(io, items) ==
  IF io.file.good THEN [io EXCEPT !.disk[io.file.name] = @ \o items] ELSE io

(* Seeking flushes the stream, so that all of the file is on disk.  The    *)
(* length field is patched only if the stream still works.                  *)
EndDataSection(io) ==
  IF ~io.file.open \/ io.file.section <= 0 THEN io
  ELSE LET patched == IF io.file.good
                        THEN [io EXCEPT !.disk[io.file.name][io.file.section + 1] =
                                          Data(io.file.written),
                                        !.file.flushed = Len(Content(io))]
                        ELSE io
       IN  [patched EXCEPT !.file.section = 0, !.file.written = 0]

CloseFile(io) == [EndDataSection(io) EXCEPT !.file.open = FALSE]

(* open() in write mode: closes what is open, then truncates. *)
OpenForWriting(io, name) ==
  LET closed == CloseFile(io)
  IN  [closed EXCEPT !.disk[name] = <<>>,
                     !.file.open = TRUE, !.file.good = TRUE, !.file.name = name,
                     !.file.flushed = 0]

WriteSchema(io) == Put(io, <<Schema>>)

(* The header is written with length 0; endDataSection() patches it. *)
BeginDataSection(io) ==
  LET start == Len(Content(io))
  IN  [Put(io, <<Data(0)>>) EXCEPT !.file.section = start, !.file.written = 0]

Recs(ids) == [i \in DOMAIN ids |-> Rec(ids[i])]

(* The length counts what was handed over, written or not. *)
WriteRecords(io, ids) == [Put(io, Recs(ids)) EXCEPT !.file.written = @ + Len(ids)]
-----------------------------------------------------------------------------
(* The values of the items of one kind, in the order of the file; by what   *)
(* has been read of it.                                                     *)
ValuesUpTo(content, kind) ==
  LET upTo[n \in 0 .. Len(content)] ==
        IF n = 0 THEN <<>>
        ELSE IF content[n].kind = kind THEN Append(upTo[n - 1], content[n].val)
        ELSE upTo[n - 1]
  IN  upTo

RecordsOf(content)      == ValuesUpTo(content, "rec")[Len(content)]
SectionLengths(content) == ValuesUpTo(content, "data")[Len(content)]
=============================================================================
