------------------------- MODULE DynamicChunkBuffer -------------------------
(***************************************************************************)
(* cyc::DynamicChunkBuffer: fixed-size chunks (records) stored as bytes in *)
(* a CircularBuffer<uint8_t> of ItemCapacity * ChunkSize bytes.  Byte b of *)
(* a chunk with payload p is the pair <<p, b>>, so that a torn or shifted  *)
(* chunk shows.                                                            *)
(***************************************************************************)
EXTENDS CircularBuffer

CONSTANTS Payloads,      \* what a chunk can hold
          ItemCapacity,  \* chunks the storage holds
          ChunkSize,     \* bytes in a chunk
          NoByte,         \* a byte never written
          MaxPush,       \* bound: chunks in one push
          MaxWritten     \* bound: chunks pushed in a behaviour

ASSUME ChunkAssumption ==
  /\ ItemCapacity \in Nat \ {0} /\ ChunkSize \in Nat \ {0}
  /\ MaxPush \in Nat \ {0} /\ MaxWritten \in Nat

VARIABLES bytes,         \* m_buffer
          totalWritten,  \* m_totalWritten
          given          \* the chunks of the last push (not in the code)

chunkVars == <<bytes, totalWritten, given>>

(* The bytes of a sequence of chunks, and of the k-th of them. *)
Serialized(recs) ==
  [i \in 1 .. Len(recs) * ChunkSize |->
     <<recs[(i - 1) \div ChunkSize + 1], (i - 1) % ChunkSize>>]

ChunkCount == bytes.size \div ChunkSize

ChunkInit ==
  bytes = NewRing(ItemCapacity * ChunkSize, NoByte) /\ totalWritten = 0 /\ given = <<>>

(* Mutant of Push: the byte count is not scaled by the chunk size. *)
PushUnscaled(recs) ==
  /\ totalWritten + Len(recs) <= MaxWritten
  /\ bytes' = PushMany(bytes, SubSeq(Serialized(recs), 1, Len(recs)))
  /\ totalWritten' = totalWritten + Len(recs)
  /\ given' = recs

Push(recs) ==
  /\ totalWritten + Len(recs) <= MaxWritten
  /\ bytes' = PushMany(bytes, Serialized(recs))
  /\ totalWritten' = totalWritten + Len(recs)
  /\ given' = recs

(* clear() empties the storage and keeps the total. *)
ClearChunks == bytes' = Clear(bytes) /\ given' = <<>> /\ UNCHANGED totalWritten

ChunkNext == \/ \E n \in 1 .. MaxPush : \E recs \in [1 .. n -> Payloads] : Push(recs)
        \/ ClearChunks

ChunkSpec == ChunkInit /\ [][ChunkNext]_chunkVars
-----------------------------------------------------------------------------
(* readAt: count chunks from a relative chunk index, as bytes. *)
ReadAt(index, count) == PeekManyAt(bytes, index * ChunkSize, count * ChunkSize)

(* getChunkPtr: the physical first byte of a chunk.                         *)
ChunkStart(index) == (bytes.head + index * ChunkSize) % bytes.capacity

(* Mutant of ContiguousRun: the run is measured from the relative index. *)
ContiguousFromIndex(relIdx, maxChunks) == MinOf(maxChunks, ItemCapacity - relIdx)

(* getBatchPtr: how many chunks from a relative index lie in one piece. *)
ContiguousRun(relIdx, maxChunks) ==
  MinOf(maxChunks, ItemCapacity - ((bytes.head \div ChunkSize + relIdx) % ItemCapacity))

(* The chunks stored, read back byte by byte. *)
StoredChunks ==
  [k \in 1 .. ChunkCount |->
     LET raw == ReadAt(k - 1, 1)
     IN  IF \A b \in 1 .. ChunkSize : raw[b] = <<raw[1][1], b - 1>>
         THEN raw[1][1] ELSE NoByte]

Window == INSTANCE RecordWindow
            WITH Capacity <- ItemCapacity, window <- StoredChunks, written <- totalWritten

(* The bytes always spell the newest whole records: no push, however many   *)
(* records it carries and wherever the head is, tears or shifts one.        *)
ImplementsWindow == Window!Spec

(* "Architecture guarantees records never straddle the buffer boundary"     *)
(* (RecBuffer.cpp:83), and neither does a zero-copy batch: the bytes that   *)
(* physically follow the pointer returned are those readAt would copy, for  *)
(* every chunk granted, and the run stops short of the request only at the  *)
(* end of the storage.                                                      *)
BatchIsContiguous ==
  \A k \in 0 .. ChunkCount - 1 : \A m \in 1 .. ChunkCount - k :
    LET n   == ContiguousRun(k, m)
        run == ChunkStart(k) .. ChunkStart(k) + n * ChunkSize - 1
    IN  /\ n \in 1 .. m
        /\ run \subseteq DOMAIN bytes.array
        /\ \A j \in 1 .. n * ChunkSize :
             bytes.array[ChunkStart(k) + j - 1] = ReadAt(k, n)[j]
        /\ n < m => ChunkStart(k) + n * ChunkSize = bytes.capacity
=============================================================================
