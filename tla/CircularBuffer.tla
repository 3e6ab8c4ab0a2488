--------------------------- MODULE CircularBuffer ---------------------------
(***************************************************************************)
(* The ring container cyc::CircularBuffer (CycLib/Core/CircularBuffer.h)   *)
(* as operators on a value: a record of the container's fields.  An        *)
(* operator that the code writes as a mutating method returns the new      *)
(* record.  CircularBufferSpec turns the operators into a state machine;   *)
(* DynamicChunkBuffer uses them on bytes, RecBuffer on whole records.      *)
(***************************************************************************)
EXTENDS Integers, Sequences

(* The smaller of two numbers (std::min). *)
MinOf(a, b) == IF a <= b THEN a ELSE b

(* A freshly constructed container: storage is allocated, none of it used.  *)
(* "blank" stands for the unspecified content of a slot never written.      *)
NewRing(capacity, blank) ==
  [capacity |-> capacity, head |-> 0, size |-> 0,
   array |-> [i \in 0 .. capacity - 1 |-> blank]]

(* The containers of a capacity over a set of elements. *)
RingOf(capacity, S) ==
  [capacity : {capacity}, head : 0 .. capacity - 1, size : 0 .. capacity,
   array : [0 .. capacity - 1 -> S]]

(* The physical slot of the element at a relative index (0 is the oldest). *)
SlotOf(rb, index) == (rb.head + index) % rb.capacity

(* What the container holds, oldest element first. *)
Contents(rb) == [k \in 1 .. rb.size |-> rb.array[SlotOf(rb, k - 1)]]

(* Of more source elements than the capacity, only the last ones survive. *)
Survivors(source, cap) ==
  SubSeq(source, Len(source) - MinOf(Len(source), cap) + 1, Len(source))

(* Copy a source into the storage from a slot on: one run up to the end of  *)
(* the storage, a second one from its start.                                *)
CopyIn(array, cap, tail, source) ==
  LET chunk1 == MinOf(Len(source), cap - tail)
      chunk2 == Len(source) - chunk1
  IN  [i \in 0 .. cap - 1 |->
         IF tail <= i /\ i < tail + chunk1 THEN source[(i - tail) + 1]
         ELSE IF i < chunk2 THEN source[chunk1 + i + 1]
         ELSE array[i]]

(* Mutant of CopyOut: the second run starts one slot late. *)
CopyOutLate(array, cap, start, count) ==
  LET chunk1 == MinOf(count, cap - start)
  IN  [k \in 1 .. count |->
         IF k <= chunk1 THEN array[start + k - 1] ELSE array[k - chunk1]]

(* Copy count elements out of the storage from a slot on, in two runs. *)
CopyOut(array, cap, start, count) ==
  LET chunk1 == MinOf(count, cap - start)
  IN  [k \in 1 .. count |->
         IF k <= chunk1 THEN array[start + k - 1] ELSE array[k - chunk1 - 1]]

(* Mutant of HeadAfterPush: the head stays on the overwritten elements. *)
HeadKept(rb, count) == rb.head

(* The head after "count" elements went in: it passes the overwritten ones. *)
HeadAfterPush(rb, count) ==
  IF rb.size + count > rb.capacity
    THEN (rb.head + rb.size + count - rb.capacity) % rb.capacity
    ELSE rb.head

(* push_many; pushing nothing returns early and changes nothing. *)
PushMany(rb, source) ==
  LET kept == Survivors(source, rb.capacity)
      tail == (rb.head + rb.size) % rb.capacity
  IN  [rb EXCEPT !.array = CopyIn(rb.array, rb.capacity, tail, kept),
                 !.size  = MinOf(rb.size + Len(kept), rb.capacity),
                 !.head  = HeadAfterPush(rb, Len(kept))]

(* peek_many_at; the code asserts index + count <= size. *)
PeekManyAt(rb, index, count) ==
  CopyOut(rb.array, rb.capacity, SlotOf(rb, index), count)

(* emplace_back / push_back: a full container drops its oldest element.     *)
EmplaceBack(rb, item) ==
  LET writeIdx == (rb.head + rb.size) % rb.capacity
      written  == [rb EXCEPT !.array[writeIdx] = item]
  IN  IF rb.size = rb.capacity
        THEN [written EXCEPT !.head = (rb.head + 1) % rb.capacity]
        ELSE [written EXCEPT !.size = rb.size + 1]

(* pop_many, and pop_front for n = 1.  The code asserts n <= size. *)
PopMany(rb, n) ==
  [rb EXCEPT !.head = (rb.head + n) % rb.capacity, !.size = rb.size - n]

(* pop_back; asserts that the container is not empty. *)
PopBack(rb) == [rb EXCEPT !.size = rb.size - 1]

(* clear: an empty container returns early and keeps its head. *)
Clear(rb) == IF rb.size = 0 THEN rb ELSE [rb EXCEPT !.head = 0, !.size = 0]

(* Copying a container re-inserts its elements into fresh storage. *)
CopyOf(rb, blank) == PushMany(NewRing(rb.capacity, blank), Contents(rb))

(* reserve: grow only; the two runs are pushed into fresh storage. *)
Reserve(rb, newCapacity, blank) ==
  LET chunk1 == MinOf(rb.size, rb.capacity - rb.head)
      run1   == [k \in 1 .. chunk1 |-> rb.array[rb.head + k - 1]]
      run2   == [k \in 1 .. rb.size - chunk1 |-> rb.array[k - 1]]
  IN  IF newCapacity <= rb.capacity THEN rb
      ELSE PushMany(PushMany(NewRing(newCapacity, blank), run1), run2)
=============================================================================
