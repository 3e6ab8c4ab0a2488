----------------------------- MODULE CoreProofs ------------------------------
(***************************************************************************)
(* The building blocks in src/CycLib/Core, each as a machine of its own.   *)
(*  - CircularBufferSpec, for every capacity and every set of elements:    *)
(*    the ring implements a bounded deque, hands out exactly the ranges    *)
(*    asked for and keeps the lifetimes of its objects.                    *)
(*  - DynamicChunkBuffer, for every size of a chunk, capacity and size of  *)
(*    a push: the bytes are always those of the newest whole chunks.  The  *)
(*    invariant says that they are the serialisation of some sequence of   *)
(*    chunks and that the head is at the beginning of a chunk; the second  *)
(*    part keeps batches handed out in place in one piece.                 *)
(*  - RecordSchema's registry of names, for any threads and declarations:  *)
(*    ids are positions in m_idToName, m_nameToId is its inverse, and what *)
(*    a thread was told stays true.  A thread that has missed a name under *)
(*    the shared lock looks again under the exclusive one, which is what   *)
(*    keeps the names apart.                                               *)
(*  - RecordSchema's rules, for any fields: sorting keeps the fields and   *)
(*    puts larger elements first, a field begins where the one before it   *)
(*    ends, and every place before a field of size u is a sum of multiples *)
(*    of u.                                                                *)
(***************************************************************************)
EXTENDS CircularBufferSpec, DynamicChunkBuffer, RecordSchema, CircularBufferProofs,
        FiniteSetTheorems, WellFoundedInduction

Content == Items \cup {NoItem}

(* The container is well formed, of whatever capacity it was grown to. *)
RingOK == cb.capacity \in 1 .. MaxCapacity /\ cb \in RingOf(cb.capacity, Content)

(* A source is a sequence of elements. *)
LEMMA SourceType ==
  ASSUME NEW s \in Sources
  PROVE  s \in Seq(Items) /\ s \in Seq(Content) /\ Len(s) \in 1 .. MaxBulk
<1>1. PICK m \in 1 .. MaxBulk : s \in [1 .. m -> Items]
  BY DEF Sources
<1>2. m \in Nat
  BY CircularBufferAssumption
<1>3. s \in [1 .. m -> Content]
  BY <1>1 DEF Content
<1> QED BY <1>1, <1>2, <1>3

(* The initial container holds nothing. *)
LEMMA InitRing ==
  ASSUME RingInit
  PROVE  RingOK /\ Contents(cb) = <<>> /\ cb.size = 0
<1>1. PICK c \in 1 .. MaxCapacity : cb = NewRing(c, NoItem)
  BY DEF RingInit
<1>2. c \in Nat \ {0} /\ NoItem \in Content
  BY CircularBufferAssumption DEF Content
<1>3. cb \in RingOf(c, Content) /\ Contents(cb) = <<>>
  BY <1>1, <1>2, NewRingType, NewRingIs
<1>4. cb.capacity = c /\ cb.size = 0
  BY <1>1 DEF NewRing
<1> QED BY <1>3, <1>4 DEF RingOK

(* Facts every step's proof starts from. *)
LEMMA RingFacts ==
  ASSUME RingOK
  PROVE  /\ cb.capacity \in Nat \ {0} /\ cb \in RingOf(cb.capacity, Content)
         /\ cb.size \in 0 .. cb.capacity /\ cb.head \in 0 .. cb.capacity - 1
         /\ Contents(cb) \in Seq(Content) /\ Len(Contents(cb)) = cb.size
<1>1. cb.capacity \in Nat \ {0} /\ cb \in RingOf(cb.capacity, Content)
  BY CircularBufferAssumption DEF RingOK
<1>2. cb.size \in 0 .. cb.capacity /\ cb.head \in 0 .. cb.capacity - 1
  BY <1>1 DEF RingOf
<1> QED BY <1>1, <1>2, ContentsType

(* push_many, step and effect. *)
LEMMA BulkPushIs ==
  ASSUME RingOK, NEW s \in Sources, BulkPush(s)
  PROVE  /\ RingOK' /\ cb'.capacity = cb.capacity
         /\ Contents(cb)' = Survivors(Contents(cb) \o s, cb.capacity)
<1>1. cb' = PushMany(cb, s)
  BY DEF BulkPush
<1>2. cb' \in RingOf(cb.capacity, Content)
  BY <1>1, RingFacts, SourceType, PushManyType
<1>3. cb'.capacity = cb.capacity
  BY <1>2 DEF RingOf
<1>4. Contents(cb)' = Survivors(Contents(cb) \o s, cb.capacity)
  BY <1>1, RingFacts, SourceType, PushManyContents
<1> QED BY <1>2, <1>3, <1>4 DEF RingOK

LEMMA PushBackIs ==
  ASSUME RingOK, NEW e \in Items, PushBack(e)
  PROVE  /\ RingOK' /\ cb'.capacity = cb.capacity
         /\ Contents(cb)' = Survivors(Contents(cb) \o <<e>>, cb.capacity)
<1>1. cb' = EmplaceBack(cb, e) /\ e \in Content
  BY DEF PushBack, Content
<1>2. /\ cb' \in RingOf(cb.capacity, Content)
      /\ Contents(cb)' = Survivors(Contents(cb) \o <<e>>, cb.capacity)
  BY <1>1, RingFacts, EmplaceBackIs
<1>3. cb'.capacity = cb.capacity
  BY <1>2 DEF RingOf
<1> QED BY <1>2, <1>3 DEF RingOK

LEMMA BulkPopIs ==
  ASSUME RingOK, NEW n \in 1 .. MaxCapacity, BulkPop(n)
  PROVE  /\ RingOK' /\ cb'.capacity = cb.capacity /\ n <= cb.size
         /\ Contents(cb)' = SubSeq(Contents(cb), n + 1, cb.size)
<1>1. cb' = PopMany(cb, n) /\ n <= cb.size /\ n \in Nat
  BY CircularBufferAssumption DEF BulkPop
<1>2. /\ cb' \in RingOf(cb.capacity, Content)
      /\ Contents(cb)' = SubSeq(Contents(cb), n + 1, cb.size)
  BY <1>1, RingFacts, PopManyIs
<1>3. cb'.capacity = cb.capacity
  BY <1>2 DEF RingOf
<1> QED BY <1>1, <1>2, <1>3 DEF RingOK

LEMMA DropBackIs ==
  ASSUME RingOK, DropBack
  PROVE  /\ RingOK' /\ cb'.capacity = cb.capacity /\ cb.size > 0
         /\ Contents(cb)' = SubSeq(Contents(cb), 1, cb.size - 1)
<1>1. cb' = PopBack(cb) /\ cb.size > 0
  BY DEF DropBack
<1>2. /\ cb' \in RingOf(cb.capacity, Content)
      /\ Contents(cb)' = SubSeq(Contents(cb), 1, cb.size - 1)
  BY <1>1, RingFacts, PopBackIs
<1>3. cb'.capacity = cb.capacity
  BY <1>2 DEF RingOf
<1> QED BY <1>1, <1>2, <1>3 DEF RingOK

LEMMA DropAllIs ==
  ASSUME RingOK, DropAll
  PROVE  /\ RingOK' /\ cb'.capacity = cb.capacity /\ cb'.size = 0
         /\ Contents(cb)' = <<>>
<1>1. cb' = Clear(cb)
  BY DEF DropAll
<1>2. /\ cb' \in RingOf(cb.capacity, Content) /\ cb'.size = 0
      /\ Contents(cb)' = <<>>
  BY <1>1, RingFacts, ClearIs
<1>3. cb'.capacity = cb.capacity
  BY <1>2 DEF RingOf
<1> QED BY <1>2, <1>3 DEF RingOK

LEMMA RegrowIs ==
  ASSUME RingOK, NEW n \in 1 .. MaxCapacity, Regrow(n)
  PROVE  /\ RingOK' /\ cb'.capacity = n /\ n > cb.capacity
         /\ cb'.head = 0 /\ cb'.size = cb.size
         /\ Contents(cb)' = Contents(cb)
<1>1. /\ cb' = Reserve(cb, n, NoItem) /\ n > cb.capacity /\ n \in Nat
      /\ NoItem \in Content
  BY CircularBufferAssumption DEF Regrow, Content
<1>2. /\ cb' \in RingOf(n, Content)
      /\ cb'.head = 0 /\ cb'.size = cb.size
      /\ Contents(cb)' = Contents(cb)
  BY <1>1, RingFacts, ReserveIs
<1>3. cb'.capacity = n
  BY <1>2 DEF RingOf
<1> QED BY <1>1, <1>2, <1>3 DEF RingOK

LEMMA ReassignIs ==
  ASSUME RingOK, Reassign
  PROVE  /\ RingOK' /\ cb'.capacity = cb.capacity
         /\ cb'.head = 0 /\ cb'.size = cb.size
         /\ Contents(cb)' = Contents(cb)
<1>1. cb' = CopyOf(cb, NoItem) /\ NoItem \in Content
  BY DEF Reassign, Content
<1>2. /\ cb' \in RingOf(cb.capacity, Content)
      /\ cb'.head = 0 /\ cb'.size = cb.size
      /\ Contents(cb)' = Contents(cb)
  BY <1>1, RingFacts, CopyOfIs
<1>3. cb'.capacity = cb.capacity
  BY <1>2 DEF RingOf
<1> QED BY <1>2, <1>3 DEF RingOK

(* Every call keeps the container well formed. *)
LEMMA RingStep ==
  ASSUME RingOK, [RingNext]_cbVars
  PROVE  RingOK'
<1>1. CASE \E s \in Sources : BulkPush(s)
  BY <1>1, BulkPushIs
<1>2. CASE \E e \in Items : PushBack(e)
  BY <1>2, PushBackIs
<1>3. CASE \E n \in 1 .. MaxCapacity : BulkPop(n)
  BY <1>3, BulkPopIs
<1>4. CASE DropBack
  BY <1>4, DropBackIs
<1>5. CASE DropAll
  BY <1>5, DropAllIs
<1>6. CASE \E n \in 1 .. MaxCapacity : Regrow(n)
  BY <1>6, RegrowIs
<1>7. CASE Reassign
  BY <1>7, ReassignIs
<1>8. CASE UNCHANGED cbVars
  BY <1>8 DEF cbVars, RingOK
<1> QED BY <1>1, <1>2, <1>3, <1>4, <1>5, <1>6, <1>7, <1>8 DEF RingNext

THEOREM RingWellFormed == RingSpec => []RingOK
<1>1. RingInit => RingOK
  BY InitRing
<1>2. RingOK /\ [RingNext]_cbVars => RingOK'
  BY RingStep
<1> QED BY <1>1, <1>2, PTL DEF RingSpec

(* peek_many_at hands out exactly the elements asked for (CircularBuffer.h, *)
(* peek_many_at), whatever calls preceded it.                               *)
THEOREM PeekingIsExact == RingSpec => []PeekIsExact
<1>1. RingOK => PeekIsExact
  <2> SUFFICES ASSUME RingOK, NEW i \in 0 .. cb.size - 1, NEW n \in 1 .. cb.size - i
               PROVE  PeekManyAt(cb, i, n) = SubSeq(Contents(cb), i + 1, i + n)
    BY DEF PeekIsExact
  <2>1. i \in Nat /\ n \in Nat /\ i + n <= cb.size
    BY RingFacts
  <2> QED BY <2>1, RingFacts, PeekManyAtIs
<1> QED BY <1>1, RingWellFormed, PTL
-----------------------------------------------------------------------------
(* The deque's Trim keeps what push_many keeps. *)
LEMMA TrimIsSurvivors ==
  ASSUME NEW S, NEW s \in Seq(S), NEW n \in Nat
  PROVE  Deque!Trim(s, n) = Survivors(s, n)
<1>1. CASE Len(s) <= n
  <2>1. Survivors(s, n) = s
    BY <1>1, SurvivorsOfFew
  <2> QED BY <1>1, <2>1 DEF Deque!Trim
<1>2. CASE ~(Len(s) <= n)
  <2>1. MinOf(Len(s), n) = n
    BY <1>2 DEF MinOf
  <2> QED BY <1>2, <2>1 DEF Deque!Trim, Deque!LastItems, Survivors
<1> QED BY <1>1, <1>2

(* Every call on the ring is a call on the deque. *)
LEMMA DequeStep ==
  ASSUME RingOK, [RingNext]_cbVars
  PROVE  [Deque!Next]_(Deque!dequeVars)
<1> USE RingFacts
<1>1. ASSUME NEW s \in Sources, BulkPush(s) PROVE Deque!AppendAll
  <2>1. s \in Seq(Items) /\ s \in Seq(Content) /\ Len(s) \in 1 .. MaxBulk
    BY SourceType
  <2>2. Contents(cb) \o s \in Seq(Content)
    BY <2>1
  <2>3. Contents(cb)' = Deque!Trim(Contents(cb) \o s, cb.capacity)
    BY <1>1, <2>2, BulkPushIs, TrimIsSurvivors
  <2>4. call' = <<"append", s>> /\ cb'.capacity = cb.capacity
    BY <1>1, BulkPushIs DEF BulkPush
  <2> QED BY <2>1, <2>3, <2>4 DEF Deque!AppendAll
<1>2. ASSUME NEW e \in Items, PushBack(e) PROVE Deque!AppendAll
  <2>1. <<e>> \in Seq(Items) /\ <<e>> \in Seq(Content) /\ Len(<<e>>) \in 1 .. MaxBulk
    BY CircularBufferAssumption DEF Content
  <2>2. Contents(cb) \o <<e>> \in Seq(Content)
    BY <2>1
  <2>3. Contents(cb)' = Deque!Trim(Contents(cb) \o <<e>>, cb.capacity)
    BY <1>2, <2>2, PushBackIs, TrimIsSurvivors
  <2>4. call' = <<"append", <<e>>>> /\ cb'.capacity = cb.capacity
    BY <1>2, PushBackIs DEF PushBack
  <2> QED BY <2>1, <2>3, <2>4 DEF Deque!AppendAll
<1>3. ASSUME NEW n \in 1 .. MaxCapacity, BulkPop(n) PROVE Deque!DropFront(n)
  <2>1. call' = <<"dropFront", n>>
    BY <1>3 DEF BulkPop
  <2> QED BY <1>3, <2>1, BulkPopIs DEF Deque!DropFront
<1>4. ASSUME DropBack PROVE Deque!DropBack
  <2>1. call' = <<"dropBack">>
    BY <1>4 DEF DropBack
  <2>2. Contents(cb) # <<>>
    BY <1>4, DropBackIs
  <2> QED BY <1>4, <2>1, <2>2, DropBackIs DEF Deque!DropBack
<1>5. ASSUME DropAll PROVE Deque!Empty
  <2>1. call' = <<"clear">>
    BY <1>5 DEF DropAll
  <2> QED BY <1>5, <2>1, DropAllIs DEF Deque!Empty
<1>6. ASSUME NEW n \in 1 .. MaxCapacity, Regrow(n) PROVE Deque!Grow(n)
  <2>1. call' = <<"reserve", n>>
    BY <1>6 DEF Regrow
  <2> QED BY <1>6, <2>1, RegrowIs DEF Deque!Grow
<1>7. ASSUME Reassign PROVE Deque!Grow(cb.capacity) /\ cb.capacity \in 1 .. MaxCapacity
  <2>1. call' = <<"reserve", cb.capacity>>
    BY <1>7 DEF Reassign
  <2> QED BY <1>7, <2>1, ReassignIs DEF Deque!Grow, RingOK
<1>8. ASSUME UNCHANGED cbVars PROVE UNCHANGED Deque!dequeVars
  BY <1>8 DEF cbVars, Deque!dequeVars
<1> QED BY <1>1, <1>2, <1>3, <1>4, <1>5, <1>6, <1>7, <1>8 DEF RingNext, Deque!Next

(* The ring implements the bounded deque of BoundedDeque: no sequence of    *)
(* calls of CircularBuffer.h loses, repeats or reorders an element.         *)
THEOREM RingImplementsDeque == RingSpec => ImplementsDeque
<1>1. RingInit => Deque!Init
  <2> SUFFICES ASSUME RingInit PROVE Deque!Init
    OBVIOUS
  <2>1. call = <<"new">>
    BY DEF RingInit
  <2> QED BY <2>1, InitRing DEF Deque!Init, RingOK
<1>2. RingOK /\ [RingNext]_cbVars => [Deque!Next]_(Deque!dequeVars)
  BY DequeStep
<1> QED BY <1>1, <1>2, RingWellFormed, PTL DEF RingSpec, ImplementsDeque, Deque!Spec
-----------------------------------------------------------------------------
(* The slots of the elements at a range of relative indices. *)
LEMMA SlotsAre ==
  ASSUME NEW n \in Nat \ {0}, NEW S, NEW rb \in RingOf(n, S),
         NEW a \in Nat, NEW b \in Int, b <= n
  PROVE  SlotsOf(rb, a, b) = {Wrap(rb.head + k, n) : k \in a .. b}
<1>1. ASSUME NEW k \in a .. b PROVE SlotOf(rb, k) = Wrap(rb.head + k, n)
  <2>1. k \in 0 .. n
    OBVIOUS
  <2> QED BY <2>1, SlotOnce
<1> QED BY <1>1 DEF SlotsOf

LEMMA OccupiedAre ==
  ASSUME NEW n \in Nat \ {0}, NEW S, NEW rb \in RingOf(n, S)
  PROVE  Occupied(rb) = {Wrap(rb.head + k, n) : k \in 0 .. rb.size - 1}
<1>1. rb.size - 1 \in Int /\ rb.size - 1 <= n
  BY DEF RingOf
<1> QED BY <1>1, SlotsAre DEF Occupied

(* The slots of consecutive ranges that together reach round the storage    *)
(* are all its slots.                                                       *)
LEMMA SlotsGoRound ==
  ASSUME NEW n \in Nat \ {0}, NEW S, NEW rb \in RingOf(n, S),
         NEW m \in Nat, rb.size + m >= n
  PROVE  Occupied(rb) \cup SlotsOf(rb, rb.size, rb.size + m - 1) = 0 .. n - 1
<1>1. PICK h \in 0 .. n - 1, z \in 0 .. n : rb.head = h /\ rb.size = z
  BY DEF RingOf
<1>2. Occupied(rb) = {Wrap(h + k, n) : k \in 0 .. z - 1}
  <2>1. Occupied(rb) = {Wrap(rb.head + k, n) : k \in 0 .. rb.size - 1}
    BY OccupiedAre
  <2> QED BY <2>1, <1>1
<1>3. ASSUME NEW i \in 0 .. n - 1
      PROVE  i \in Occupied(rb) \cup SlotsOf(rb, z, z + m - 1)
  <2>1. PICK k \in 0 .. n - 1 : Wrap(h + k, n) = i
    <3>1. CASE i >= h
      <4>1. i - h \in 0 .. n - 1 /\ Wrap(h + (i - h), n) = i
        BY <3>1 DEF Wrap
      <4> QED BY <4>1
    <3>2. CASE i < h
      <4>1. i + n - h \in 0 .. n - 1 /\ Wrap(h + (i + n - h), n) = i
        BY <3>2 DEF Wrap
      <4> QED BY <4>1
    <3> QED BY <3>1, <3>2
  <2>2. CASE k < z
    BY <2>1, <2>2, <1>2
  <2>3. CASE k >= z
    <3>1. k \in z .. z + m - 1 /\ k \in 0 .. n
      BY <2>3, <1>1
    <3>2. SlotOf(rb, k) = i
      BY <3>1, <2>1, <1>1, SlotOnce
    <3> QED BY <3>1, <3>2 DEF SlotsOf
  <2> QED BY <2>2, <2>3
<1>4. ASSUME NEW i \in Occupied(rb) \cup SlotsOf(rb, z, z + m - 1)
      PROVE  i \in 0 .. n - 1
  <2>1. PICK k \in Int : i = SlotOf(rb, k)
    BY <1>1 DEF Occupied, SlotsOf
  <2> QED BY <2>1, SlotInRing
<1> QED BY <1>1, <1>3, <1>4

LEMMA FullIsAll ==
  ASSUME NEW n \in Nat \ {0}, NEW S, NEW rb \in RingOf(n, S), rb.size = n
  PROVE  Occupied(rb) = 0 .. n - 1
<1>1. SlotsOf(rb, n, n + 0 - 1) = {}
  BY DEF SlotsOf
<1>2. Occupied(rb) \cup SlotsOf(rb, rb.size, rb.size + 0 - 1) = 0 .. n - 1
  BY SlotsGoRound
<1> QED BY <1>1, <1>2

(* A container with the same head and "m" more elements occupies the slots  *)
(* of the next m relative indices too.                                      *)
LEMMA GrownSlots ==
  ASSUME NEW n \in Nat \ {0}, NEW S, NEW rb \in RingOf(n, S),
         NEW r \in RingOf(n, S), NEW m \in Nat,
         r.head = rb.head, r.size = rb.size + m
  PROVE  Occupied(r) = Occupied(rb) \cup SlotsOf(rb, rb.size, rb.size + m - 1)
<1>1. PICK h \in 0 .. n - 1, z \in 0 .. n : rb.head = h /\ rb.size = z
  BY DEF RingOf
<1>2. z + m <= n
  BY <1>1 DEF RingOf
<1>3. Occupied(rb) = {Wrap(h + k, n) : k \in 0 .. z - 1}
  <2>1. Occupied(rb) = {Wrap(rb.head + k, n) : k \in 0 .. rb.size - 1}
    BY OccupiedAre
  <2> QED BY <2>1, <1>1
<1>4. Occupied(r) = {Wrap(h + k, n) : k \in 0 .. (z + m) - 1}
  <2>1. Occupied(r) = {Wrap(r.head + k, n) : k \in 0 .. r.size - 1}
    BY OccupiedAre
  <2> QED BY <2>1, <1>1
<1>5. SlotsOf(rb, z, z + m - 1) = {Wrap(h + k, n) : k \in z .. z + m - 1}
  <2>1. z + m - 1 \in Int /\ z + m - 1 <= n /\ z \in Nat
    BY <1>2
  <2>2. SlotsOf(rb, z, z + m - 1) = {Wrap(rb.head + k, n) : k \in z .. z + m - 1}
    BY <2>1, SlotsAre
  <2> QED BY <2>2, <1>1
<1>6. 0 .. (z + m) - 1 = (0 .. z - 1) \cup (z .. z + m - 1)
  OBVIOUS
<1> QED BY <1>1, <1>3, <1>4, <1>5, <1>6

(* Without its "c" oldest elements a container does not occupy their slots. *)
LEMMA PoppedSlots ==
  ASSUME NEW n \in Nat \ {0}, NEW S, NEW rb \in RingOf(n, S),
         NEW r \in RingOf(n, S), NEW c \in Nat, c <= rb.size,
         r.head = Wrap(rb.head + c, n), r.size = rb.size - c
  PROVE  Occupied(r) = Occupied(rb) \ SlotsOf(rb, 0, c - 1)
<1>1. PICK h \in 0 .. n - 1, z \in 0 .. n : rb.head = h /\ rb.size = z
  BY DEF RingOf
<1>2. Occupied(rb) = {Wrap(h + k, n) : k \in 0 .. z - 1}
  <2>1. Occupied(rb) = {Wrap(rb.head + k, n) : k \in 0 .. rb.size - 1}
    BY OccupiedAre
  <2> QED BY <2>1, <1>1
<1>3. Occupied(r) = {Wrap(Wrap(h + c, n) + k, n) : k \in 0 .. (z - c) - 1}
  <2>1. Occupied(r) = {Wrap(r.head + k, n) : k \in 0 .. r.size - 1}
    BY OccupiedAre
  <2> QED BY <2>1, <1>1
<1>4. SlotsOf(rb, 0, c - 1) = {Wrap(h + k, n) : k \in 0 .. c - 1}
  <2>1. c - 1 \in Int /\ c - 1 <= n
    BY <1>1
  <2>2. SlotsOf(rb, 0, c - 1) = {Wrap(rb.head + k, n) : k \in 0 .. c - 1}
    BY <2>1, SlotsAre
  <2> QED BY <2>2, <1>1
<1>5. ASSUME NEW k \in 0 .. (z - c) - 1
      PROVE  /\ Wrap(Wrap(h + c, n) + k, n) = Wrap(h + (k + c), n)
             /\ k + c \in 0 .. z - 1
             /\ \A j \in 0 .. c - 1 : Wrap(h + j, n) # Wrap(h + (k + c), n)
  <2>1. k + c \in 0 .. z - 1 /\ c <= z
    BY <1>1
  <2>2. Wrap(Wrap(h + c, n) + k, n) = Wrap(h + (k + c), n)
    BY <2>1 DEF Wrap
  <2>3. ASSUME NEW j \in 0 .. c - 1 PROVE Wrap(h + j, n) # Wrap(h + (k + c), n)
    BY <2>1 DEF Wrap
  <2> QED BY <2>1, <2>2, <2>3
<1>6. Occupied(r) \subseteq Occupied(rb) \ SlotsOf(rb, 0, c - 1)
  BY <1>2, <1>3, <1>4, <1>5
<1>7. ASSUME NEW i \in Occupied(rb) \ SlotsOf(rb, 0, c - 1)
      PROVE  i \in Occupied(r)
  <2>1. PICK k \in 0 .. z - 1 : i = Wrap(h + k, n)
    BY <1>2
  <2>2. k >= c
    BY <2>1, <1>4
  <2>3. PICK j \in 0 .. (z - c) - 1 : j = k - c
    BY <2>2, <1>1
  <2>4. k = j + c
    BY <2>3
  <2> QED BY <2>1, <2>4, <1>3, <1>5
<1> QED BY <1>6, <1>7

(* A container whose oldest element is in slot 0. *)
LEMMA SlotsFromZero ==
  ASSUME NEW n \in Nat \ {0}, NEW S, NEW r \in RingOf(n, S), r.head = 0
  PROVE  Occupied(r) = 0 .. r.size - 1
<1>1. PICK z \in 0 .. n : r.size = z
  BY DEF RingOf
<1>2. \A k \in 0 .. z - 1 : Wrap(0 + k, n) = k
  BY DEF Wrap
<1>3. Occupied(r) = {Wrap(0 + k, n) : k \in 0 .. z - 1}
  <2>1. Occupied(r) = {Wrap(r.head + k, n) : k \in 0 .. r.size - 1}
    BY OccupiedAre
  <2> QED BY <2>1, <1>1
<1> QED BY <1>1, <1>2, <1>3

(* The slot behind the newest element holds none. *)
LEMMA NextSlotIsFree ==
  ASSUME NEW n \in Nat \ {0}, NEW S, NEW rb \in RingOf(n, S), rb.size < n
  PROVE  SlotOf(rb, rb.size) \notin Occupied(rb)
<1>1. PICK h \in 0 .. n - 1, z \in 0 .. n - 1 : rb.head = h /\ rb.size = z
  BY DEF RingOf
<1>2. Occupied(rb) = {Wrap(h + k, n) : k \in 0 .. z - 1}
  <2>1. Occupied(rb) = {Wrap(rb.head + k, n) : k \in 0 .. rb.size - 1}
    BY OccupiedAre
  <2> QED BY <2>1, <1>1
<1>3. SlotOf(rb, z) = Wrap(h + z, n)
  <2>1. z \in 0 .. n
    OBVIOUS
  <2>2. SlotOf(rb, z) = Wrap(rb.head + z, n)
    BY <2>1, SlotOnce
  <2> QED BY <2>2, <1>1
<1>4. \A k \in 0 .. z - 1 : Wrap(h + k, n) # Wrap(h + z, n)
  BY DEF Wrap
<1> QED BY <1>1, <1>2, <1>3, <1>4

(* A call on a ring of trivially copyable objects keeps their lifetimes. *)
LEMMA LifetimeStep ==
  ASSUME TriviallyCopyable, RingOK, LifetimeSound, [RingNext]_cbVars
  PROVE  LifetimeSound'
<1> DEFINE n == cb.capacity
           z == cb.size
<1>1. /\ n \in Nat \ {0} /\ cb \in RingOf(n, Content) /\ z \in 0 .. n
      /\ cb.head \in 0 .. n - 1
      /\ live = Occupied(cb) /\ ~badDestroy
  BY RingFacts DEF LifetimeSound
<1>2. \A D : Overwritten(D) = {}
  BY DEF Overwritten
<1> HIDE DEF n, z
<1>3. ASSUME NEW s \in Sources, BulkPush(s) PROVE LifetimeSound'
  <2> DEFINE m == MinOf(Len(s), n)
             target == SlotsOf(cb, z, z + m - 1)
  <2>1. live' = live \cup target /\ ~badDestroy'
    BY <1>1, <1>2, <1>3 DEF BulkPush, Lifetimes, n, z
  <2>2. cb' = PushMany(cb, s) /\ s \in Seq(Content) /\ Len(s) \in Nat
    BY <1>3, SourceType DEF BulkPush
  <2>3. cb' \in RingOf(n, Content) /\ cb'.size = MinOf(z + Len(s), n)
    BY <1>1, <2>2, PushManyType DEF z
  <2>4. m \in Nat /\ (m = Len(s) \/ m = n)
    BY <1>1, <2>2, MinOfType
  <2> HIDE DEF m
  <2>5. CASE z + Len(s) <= n
    <3>1. cb'.head = cb.head /\ cb'.size = z + Len(s)
      BY <2>2, <2>5, <1>1, PushManyFits DEF z
    <3>2. m = Len(s)
      BY <2>2, <2>5, <1>1 DEF m, MinOf
    <3>3. cb'.size = cb.size + m
      BY <3>1, <3>2 DEF z
    <3>4. Occupied(cb') = Occupied(cb) \cup SlotsOf(cb, cb.size, cb.size + m - 1)
      BY <3>1, <3>3, <2>3, <2>4, <1>1, GrownSlots
    <3> QED BY <3>4, <2>1, <1>1 DEF LifetimeSound, z
  <2>6. CASE z + Len(s) > n
    <3>1. cb'.size = n
      BY <2>2, <2>3, <2>6, <1>1 DEF MinOf
    <3>2. Occupied(cb') = 0 .. n - 1
      BY <3>1, <2>3, <1>1, FullIsAll
    <3>3. z + m >= n
      BY <2>4, <2>6, <1>1
    <3>4. Occupied(cb) \cup SlotsOf(cb, cb.size, cb.size + m - 1) = 0 .. n - 1
      BY <3>3, <2>4, <1>1, SlotsGoRound DEF z
    <3> QED BY <3>2, <3>4, <2>1, <1>1 DEF LifetimeSound, z
  <2> QED BY <2>5, <2>6, <2>2, <1>1
<1>4. ASSUME NEW e \in Items, PushBack(e) PROVE LifetimeSound'
  <2> DEFINE target == {SlotOf(cb, cb.size)}
  <2>1. cb' = EmplaceBack(cb, e) /\ cb' \in RingOf(n, Content)
    <3>1. e \in Content
      BY DEF Content
    <3> QED BY <3>1, <1>1, <1>4, EmplaceBackIs DEF PushBack
  <2>2. CASE z = n
    <3>1. cb'.size = n
      BY <2>1, <2>2 DEF EmplaceBack, n, z
    <3>2. Occupied(cb') = 0 .. n - 1
      BY <3>1, <2>1, <1>1, FullIsAll
    <3>3. Occupied(cb) = 0 .. n - 1
      BY <2>2, <1>1, FullIsAll DEF z
    <3>4. target \subseteq live
      <4>1. cb.size \in Int /\ live = 0 .. n - 1
        BY <3>3, <1>1 DEF z
      <4>2. SlotOf(cb, cb.size) \in 0 .. n - 1
        BY <1>1, <4>1, SlotInRing
      <4> QED BY <4>1, <4>2
    <3>5. live' = live /\ ~badDestroy'
      BY <3>4, <2>2, <1>1, <1>4 DEF PushBack, Lifetimes, n, z
    <3> QED BY <3>2, <3>3, <3>5, <1>1 DEF LifetimeSound
  <2>3. CASE z # n
    <3>1. cb'.size = cb.size + 1 /\ cb'.head = cb.head
      <4>1. cb' = [[cb EXCEPT !.array[(cb.head + cb.size) % cb.capacity] = e]
                     EXCEPT !.size = cb.size + 1]
        BY <2>1, <2>3 DEF EmplaceBack, n, z
      <4> QED BY <4>1, <1>1 DEF RingOf
    <3>2. Occupied(cb') = Occupied(cb) \cup SlotsOf(cb, cb.size, cb.size + 1 - 1)
      BY <3>1, <2>1, <1>1, GrownSlots
    <3>3. SlotsOf(cb, cb.size, cb.size + 1 - 1) = target
      BY <1>1 DEF SlotsOf, z
    <3>4. live' = live \cup target /\ ~badDestroy'
      BY <2>3, <1>1, <1>4 DEF PushBack, Lifetimes, n, z
    <3> QED BY <3>2, <3>3, <3>4, <1>1 DEF LifetimeSound
  <2> QED BY <2>2, <2>3
<1>5. ASSUME NEW c \in 1 .. MaxCapacity, BulkPop(c) PROVE LifetimeSound'
  <2>1. cb' = PopMany(cb, c) /\ c <= z /\ c \in Nat
    BY <1>5, CircularBufferAssumption DEF BulkPop, z
  <2>2. cb' \in RingOf(n, Content)
    BY <2>1, <1>1, PopManyIs DEF z
  <2>3. cb'.head = Wrap(cb.head + c, n) /\ cb'.size = cb.size - c
    <3>1. cb'.head = SlotOf(cb, c) /\ cb'.size = cb.size - c
      BY <2>1, <1>1 DEF PopMany, SlotOf, RingOf
    <3>2. c \in 0 .. n
      BY <2>1, <1>1
    <3> QED BY <3>1, <3>2, <1>1, SlotOnce
  <2>4. Occupied(cb') = Occupied(cb) \ SlotsOf(cb, 0, c - 1)
    BY <2>1, <2>2, <2>3, <1>1, PoppedSlots DEF z
  <2>5. SlotsOf(cb, 0, c - 1) \subseteq Occupied(cb)
    BY <2>1, <1>1 DEF SlotsOf, Occupied, z
  <2>6. live' = live \ SlotsOf(cb, 0, c - 1) /\ ~badDestroy'
    BY <2>5, <1>1, <1>5 DEF BulkPop, Lifetimes
  <2> QED BY <2>4, <2>6, <1>1 DEF LifetimeSound
<1>6. ASSUME DropBack PROVE LifetimeSound'
  <2> DEFINE target == {SlotOf(cb, z - 1)}
  <2>1. cb' = PopBack(cb) /\ z > 0
    BY <1>6 DEF DropBack, z
  <2>2. /\ cb' \in RingOf(n, Content)
        /\ cb'.head = cb.head /\ cb'.size = z - 1 /\ cb'.capacity = n
    <3>1. cb' \in RingOf(n, Content)
      BY <2>1, <1>1, PopBackIs DEF z
    <3> QED BY <3>1, <2>1, <1>1 DEF PopBack, RingOf, z
  <2>3. Occupied(cb) = Occupied(cb') \cup SlotsOf(cb', cb'.size, cb'.size + 1 - 1)
    <3>1. cb.head = cb'.head /\ cb.size = cb'.size + 1
      BY <2>2, <1>1 DEF z
    <3> QED BY <3>1, <2>2, <1>1, GrownSlots, SMTT(30)
  <2>4. SlotsOf(cb', cb'.size, cb'.size + 1 - 1) = target
    <3>1. cb'.size .. cb'.size + 1 - 1 = {z - 1}
      BY <2>2, <1>1
    <3>2. SlotOf(cb', z - 1) = SlotOf(cb, z - 1)
      BY <2>2 DEF SlotOf, n
    <3> QED BY <3>1, <3>2 DEF SlotsOf
  <2>5. target \cap Occupied(cb') = {}
    <3>1. cb'.size < n
      BY <2>2, <1>1
    <3>2. SlotOf(cb', cb'.size) \notin Occupied(cb')
      BY <3>1, <2>2, <1>1, NextSlotIsFree
    <3>3. SlotOf(cb', cb'.size) = SlotOf(cb, z - 1)
      BY <2>2 DEF SlotOf, n
    <3> QED BY <3>2, <3>3
  <2>6. live' = live \ target /\ ~badDestroy'
    BY <2>3, <2>4, <1>1, <1>6 DEF DropBack, Lifetimes, z
  <2> QED BY <2>3, <2>4, <2>5, <2>6, <1>1 DEF LifetimeSound
<1>7. ASSUME DropAll PROVE LifetimeSound'
  <2>1. cb' \in RingOf(n, Content) /\ cb'.size = 0
    BY <1>1, <1>7, ClearIs DEF DropAll
  <2>2. Occupied(cb') = {}
    BY <2>1 DEF Occupied, SlotsOf
  <2>3. live' = {} /\ ~badDestroy'
    BY <1>1, <1>7 DEF DropAll, Lifetimes
  <2> QED BY <2>2, <2>3 DEF LifetimeSound
<1>8. ASSUME NEW c \in 1 .. MaxCapacity, Regrow(c) PROVE LifetimeSound'
  <2>1. c \in Nat \ {0} /\ cb' \in RingOf(c, Content) /\ cb'.head = 0 /\ cb'.size = z
    BY <1>8, RegrowIs, CircularBufferAssumption DEF RingOK, z
  <2>2. Occupied(cb') = 0 .. z - 1
    BY <2>1, SlotsFromZero
  <2>3. live' = 0 .. z - 1 /\ ~badDestroy'
    BY <1>1, <1>2, <1>8 DEF Regrow, z
  <2> QED BY <2>2, <2>3 DEF LifetimeSound
<1>9. ASSUME Reassign PROVE LifetimeSound'
  <2>1. cb' \in RingOf(n, Content) /\ cb'.head = 0 /\ cb'.size = z
    BY <1>9, ReassignIs DEF RingOK, n, z
  <2>2. Occupied(cb') = 0 .. z - 1
    BY <2>1, <1>1, SlotsFromZero
  <2>3. live' = 0 .. z - 1 /\ ~badDestroy'
    BY <1>1, <1>9 DEF Reassign, z
  <2> QED BY <2>2, <2>3 DEF LifetimeSound
<1>10. ASSUME UNCHANGED cbVars PROVE LifetimeSound'
  BY <1>10 DEF cbVars, LifetimeSound, Occupied, SlotsOf, SlotOf
<1> QED BY <1>3, <1>4, <1>5, <1>6, <1>7, <1>8, <1>9, <1>10 DEF RingNext

(* Element lifetime (CircularBuffer.h:24): for a trivially copyable T no    *)
(* call destroys an object that was not constructed, and the constructed    *)
(* objects are those the container holds.  For another T push_many destroys *)
(* the empty slots it is about to fill, and the property fails.             *)
THEOREM LifetimesAreSound ==
  ASSUME TriviallyCopyable PROVE RingSpec => []LifetimeSound
<1>1. RingInit => LifetimeSound
  <2> SUFFICES ASSUME RingInit PROVE LifetimeSound
    OBVIOUS
  <2>1. Occupied(cb) = {}
    BY InitRing DEF Occupied, SlotsOf
  <2> QED BY <2>1 DEF RingInit, LifetimeSound
<1>2. RingOK /\ LifetimeSound /\ [RingNext]_cbVars => LifetimeSound'
  BY LifetimeStep
<1> QED BY <1>1, <1>2, RingWellFormed, PTL DEF RingSpec
-----------------------------------------------------------------------------
(* DynamicChunkBuffer.                                                      *)

(* Products with the size of a chunk.                                       *)
LEMMA TimesMonotone ==
  ASSUME NEW a \in Int, NEW b \in Int, NEW z \in Nat \ {0}, a <= b
  PROVE  a * z <= b * z
  OBVIOUS

LEMMA TimesStrict ==
  ASSUME NEW a \in Int, NEW b \in Int, NEW z \in Nat \ {0}, a < b
  PROVE  a * z + z <= b * z /\ a * z < b * z
  OBVIOUS

LEMMA Distributes ==
  ASSUME NEW a \in Int, NEW b \in Int, NEW z \in Int
  PROVE  /\ (a + b) * z = a * z + b * z /\ (a - b) * z = a * z - b * z
         /\ a * z \in Int /\ b * z \in Int
  OBVIOUS

(* A number of chunks and a position in the next, taken apart again.         *)
LEMMA DivOfSum ==
  ASSUME NEW q \in Int, NEW z \in Nat \ {0}, NEW r \in 0 .. z - 1
  PROVE  (q * z + r) \div z = q /\ (q * z + r) % z = r
  BY SMT

LEMMA DivSplits ==
  ASSUME NEW i \in Int, NEW z \in Nat \ {0}
  PROVE  i \div z \in Int /\ i % z \in 0 .. z - 1 /\ i = (i \div z) * z + (i % z)
  BY SMT

(* What a cell of the storage can hold.                                      *)
Stored == (Payloads \X (0 .. ChunkSize - 1)) \cup {NoByte}

LEMMA ChunkFacts ==
  /\ ChunkSize \in Nat \ {0} /\ ItemCapacity \in Nat \ {0}
  /\ ItemCapacity * ChunkSize \in Nat \ {0}
<1>1. ChunkSize \in Nat \ {0} /\ ItemCapacity \in Nat \ {0}
  BY ChunkAssumption
<1>2. 0 * ChunkSize + ChunkSize <= ItemCapacity * ChunkSize /\ ItemCapacity * ChunkSize \in Int
  BY <1>1, TimesStrict, Distributes
<1> QED BY <1>1, <1>2

(* The place of a byte: a chunk and a position in it.                       *)
LEMMA BytePlace ==
  ASSUME NEW len \in Nat, NEW i \in 1 .. len * ChunkSize
  PROVE  /\ (i - 1) \div ChunkSize \in 0 .. len - 1
         /\ (i - 1) % ChunkSize \in 0 .. ChunkSize - 1
         /\ i = ((i - 1) \div ChunkSize) * ChunkSize + ((i - 1) % ChunkSize) + 1
<1> DEFINE q == (i - 1) \div ChunkSize
           r == (i - 1) % ChunkSize
<1>1. ChunkSize \in Nat \ {0}
  BY ChunkFacts
<1>2. q \in Int /\ r \in 0 .. ChunkSize - 1 /\ i - 1 = q * ChunkSize + r
  BY <1>1, DivSplits
<1> HIDE DEF q, r
<1>3. q >= 0
  <2>1. CASE q < 0
    <3>1. q * ChunkSize + ChunkSize <= 0 * ChunkSize
      BY <1>1, <1>2, <2>1, TimesStrict
    <3> QED BY <1>1, <1>2, <3>1
  <2> QED BY <1>2, <2>1
<1>4. q < len
  <2>1. CASE len <= q
    <3>1. len * ChunkSize <= q * ChunkSize /\ len * ChunkSize \in Int /\ q * ChunkSize \in Int
      BY <1>1, <1>2, <2>1, TimesMonotone, Distributes
    <3> QED BY <1>1, <1>2, <3>1
  <2> QED BY <1>2, <2>1
<1> QED BY <1>1, <1>2, <1>3, <1>4 DEF q, r

(* Byte b of the k-th chunk of a sequence.                                  *)
LEMMA SerializedIs ==
  ASSUME NEW recs \in Seq(Payloads)
  PROVE  /\ Serialized(recs) \in Seq(Stored) /\ Len(Serialized(recs)) = Len(recs) * ChunkSize
         /\ \A k \in 1 .. Len(recs), b \in 0 .. ChunkSize - 1 :
              /\ (k - 1) * ChunkSize + b + 1 \in 1 .. Len(recs) * ChunkSize
              /\ Serialized(recs)[(k - 1) * ChunkSize + b + 1] = <<recs[k], b>>
<1>1. ChunkSize \in Nat \ {0} /\ Len(recs) \in Nat
  BY ChunkFacts
<1>2. Len(recs) * ChunkSize \in Nat
  <2>1. 0 * ChunkSize <= Len(recs) * ChunkSize /\ Len(recs) * ChunkSize \in Int
    BY <1>1, TimesMonotone, Distributes
  <2> QED BY <1>1, <2>1
<1>3. ASSUME NEW i \in 1 .. Len(recs) * ChunkSize
      PROVE  <<recs[(i - 1) \div ChunkSize + 1], (i - 1) % ChunkSize>> \in Stored
  <2>1. (i - 1) \div ChunkSize \in 0 .. Len(recs) - 1 /\ (i - 1) % ChunkSize \in 0 .. ChunkSize - 1
    BY <1>1, BytePlace
  <2>2. recs[(i - 1) \div ChunkSize + 1] \in Payloads
    BY <1>1, <2>1
  <2> QED BY <2>1, <2>2 DEF Stored
<1>4. Serialized(recs) \in [1 .. Len(recs) * ChunkSize -> Stored]
  BY <1>3 DEF Serialized
<1>5. Serialized(recs) \in Seq(Stored) /\ Len(Serialized(recs)) = Len(recs) * ChunkSize
  BY <1>2, <1>4
<1>6. ASSUME NEW k \in 1 .. Len(recs), NEW b \in 0 .. ChunkSize - 1
      PROVE  /\ (k - 1) * ChunkSize + b + 1 \in 1 .. Len(recs) * ChunkSize
             /\ Serialized(recs)[(k - 1) * ChunkSize + b + 1] = <<recs[k], b>>
  <2> DEFINE i == (k - 1) * ChunkSize + b + 1
  <2>1. /\ (k - 1) * ChunkSize + ChunkSize <= Len(recs) * ChunkSize
        /\ 0 * ChunkSize <= (k - 1) * ChunkSize
    BY <1>1, TimesStrict, TimesMonotone
  <2>2. (k - 1) * ChunkSize \in Int
    BY <1>1, Distributes
  <2>3. i \in 1 .. Len(recs) * ChunkSize
    BY <1>1, <1>2, <2>1, <2>2
  <2>4. i - 1 = (k - 1) * ChunkSize + b
    BY <1>1, <2>2
  <2>5. (i - 1) \div ChunkSize = k - 1 /\ (i - 1) % ChunkSize = b
    <3>1. k - 1 \in Int
      OBVIOUS
    <3>2. ((k - 1) * ChunkSize + b) \div ChunkSize = k - 1 /\ ((k - 1) * ChunkSize + b) % ChunkSize = b
      BY <1>1, <3>1, DivOfSum
    <3> QED BY <2>4, <3>2
  <2> HIDE DEF i
  <2>6. Serialized(recs)[i] = <<recs[(i - 1) \div ChunkSize + 1], (i - 1) % ChunkSize>>
    BY <2>3 DEF Serialized
  <2>7. k - 1 + 1 = k
    OBVIOUS
  <2> QED BY <2>3, <2>5, <2>6, <2>7 DEF i
<1> QED BY <1>5, <1>6

(* Sequences of bytes with the same bytes are equal.                        *)
LEMMA SerializedEquals ==
  ASSUME NEW recs \in Seq(Payloads), NEW s \in Seq(Stored), Len(s) = Len(recs) * ChunkSize,
         \A k \in 1 .. Len(recs), b \in 0 .. ChunkSize - 1 :
           s[(k - 1) * ChunkSize + b + 1] = <<recs[k], b>>
  PROVE  s = Serialized(recs)
<1>1. /\ Serialized(recs) \in Seq(Stored) /\ Len(Serialized(recs)) = Len(recs) * ChunkSize
  BY SerializedIs
<1>2. ASSUME NEW i \in 1 .. Len(s)
      PROVE  s[i] = Serialized(recs)[i]
  <2> DEFINE q == (i - 1) \div ChunkSize
             r == (i - 1) % ChunkSize
  <2>1. q \in 0 .. Len(recs) - 1 /\ r \in 0 .. ChunkSize - 1 /\ i = q * ChunkSize + r + 1
    BY BytePlace
  <2> HIDE DEF q, r
  <2>2. q + 1 \in 1 .. Len(recs) /\ q + 1 - 1 = q
    BY <2>1
  <2>3. s[q * ChunkSize + r + 1] = <<recs[q + 1], r>>
    BY <2>1, <2>2
  <2>4. Serialized(recs)[q * ChunkSize + r + 1] = <<recs[q + 1], r>>
    BY <2>1, <2>2, SerializedIs
  <2> QED BY <2>1, <2>3, <2>4
<1> QED BY <1>1, <1>2

LEMMA ConcatIs ==
  ASSUME NEW S, NEW x \in Seq(S), NEW y \in Seq(S)
  PROVE  /\ x \o y \in Seq(S) /\ Len(x \o y) = Len(x) + Len(y)
         /\ \A i \in 1 .. Len(x) : (x \o y)[i] = x[i]
         /\ \A i \in 1 .. Len(y) : (x \o y)[Len(x) + i] = y[i]
  OBVIOUS

(* The bytes of one sequence of chunks after another.                       *)
LEMMA SerializedConcat ==
  ASSUME NEW a \in Seq(Payloads), NEW b \in Seq(Payloads)
  PROVE  Serialized(a) \o Serialized(b) = Serialized(a \o b)
<1> DEFINE s == Serialized(a) \o Serialized(b)
           la == Len(a) * ChunkSize
<1>1. ChunkSize \in Nat \ {0} /\ Len(a) \in Nat /\ Len(b) \in Nat
  BY ChunkFacts
<1>2. /\ Serialized(a) \in Seq(Stored) /\ Len(Serialized(a)) = la
      /\ Serialized(b) \in Seq(Stored) /\ Len(Serialized(b)) = Len(b) * ChunkSize
      /\ la \in Nat
  BY SerializedIs
<1>3. a \o b \in Seq(Payloads) /\ Len(a \o b) = Len(a) + Len(b)
  OBVIOUS
<1>4. (Len(a) + Len(b)) * ChunkSize = la + Len(b) * ChunkSize
  BY <1>1, Distributes
<1>5. s \in Seq(Stored) /\ Len(s) = Len(a \o b) * ChunkSize
  <2>1. s \in Seq(Stored) /\ Len(s) = Len(Serialized(a)) + Len(Serialized(b))
    BY <1>2, ConcatIs
  <2> QED BY <1>2, <1>3, <1>4, <2>1
<1>6. ASSUME NEW k \in 1 .. Len(a \o b), NEW i \in 0 .. ChunkSize - 1
      PROVE  s[(k - 1) * ChunkSize + i + 1] = <<(a \o b)[k], i>>
  <2> k \in 1 .. Len(a) + Len(b)
    BY <1>3
  <2>1. CASE k <= Len(a)
    <3> k \in 1 .. Len(a)
      BY <1>1, <2>1
    <3>1. /\ (k - 1) * ChunkSize + i + 1 \in 1 .. la
          /\ Serialized(a)[(k - 1) * ChunkSize + i + 1] = <<a[k], i>>
      BY SerializedIs
    <3>2. (a \o b)[k] = a[k]
      BY <1>3, <2>1
    <3> QED BY <1>2, <3>1, <3>2
  <2>2. CASE k > Len(a)
    <3> DEFINE j == k - Len(a)
    <3>1. j \in 1 .. Len(b) /\ k - 1 = Len(a) + (j - 1)
      BY <1>1, <1>3, <2>2
    <3> HIDE DEF j
    <3>2. /\ (j - 1) * ChunkSize + i + 1 \in 1 .. Len(b) * ChunkSize
          /\ Serialized(b)[(j - 1) * ChunkSize + i + 1] = <<b[j], i>>
      BY <3>1, SerializedIs
    <3>3. (k - 1) * ChunkSize = la + (j - 1) * ChunkSize /\ (j - 1) * ChunkSize \in Int
      BY <1>1, <3>1, Distributes
    <3>4. (k - 1) * ChunkSize + i + 1 = la + ((j - 1) * ChunkSize + i + 1)
      <4> DEFINE x == (k - 1) * ChunkSize
                 y == (j - 1) * ChunkSize
      <4>1. x = la + y /\ y \in Int /\ la \in Int /\ i \in Int
        BY <1>1, <1>2, <3>3
      <4> HIDE DEF x, y, la
      <4>2. x + i + 1 = la + (y + i + 1)
        BY <4>1
      <4> QED BY <4>2 DEF x, y, la
    <3>5. s[la + ((j - 1) * ChunkSize + i + 1)] = Serialized(b)[(j - 1) * ChunkSize + i + 1]
      <4> DEFINE e == (j - 1) * ChunkSize + i + 1
                 u == Serialized(a)
                 v == Serialized(b)
      <4>1. u \in Seq(Stored) /\ v \in Seq(Stored) /\ Len(u) = la /\ e \in 1 .. Len(v)
        BY <1>2, <3>2
      <4> HIDE DEF e, u, v, la
      <4>2. (u \o v)[Len(u) + e] = v[e]
        BY <4>1, ConcatIs
      <4> QED BY <4>1, <4>2 DEF e, u, v
    <3>6. (a \o b)[k] = b[j]
      BY <1>1, <1>3, <2>2, <3>1 DEF j
    <3> QED BY <3>2, <3>4, <3>5, <3>6
  <2>3. k <= Len(a) \/ k > Len(a)
    BY <1>1
  <2> QED BY <2>1, <2>2, <2>3
<1> HIDE DEF s
<1>7. s = Serialized(a \o b)
  BY <1>3, <1>5, <1>6, SerializedEquals
<1> QED BY <1>7 DEF s

(* The bytes that survive are those of the chunks that do.                  *)
LEMMA SerializedSurvivors ==
  ASSUME NEW recs \in Seq(Payloads)
  PROVE  /\ Survivors(Serialized(recs), ItemCapacity * ChunkSize) =
              Serialized(Survivors(recs, ItemCapacity))
         /\ MinOf(Len(Serialized(recs)), ItemCapacity * ChunkSize) =
              MinOf(Len(recs), ItemCapacity) * ChunkSize
<1> DEFINE n == MinOf(Len(recs), ItemCapacity)
           t == Survivors(Serialized(recs), ItemCapacity * ChunkSize)
           kept == Survivors(recs, ItemCapacity)
<1>1. /\ ChunkSize \in Nat \ {0} /\ ItemCapacity \in Nat \ {0}
      /\ ItemCapacity * ChunkSize \in Nat /\ Len(recs) \in Nat
  BY ChunkFacts
<1>2. /\ Serialized(recs) \in Seq(Stored) /\ Len(Serialized(recs)) = Len(recs) * ChunkSize
      /\ Len(recs) * ChunkSize \in Nat
  BY SerializedIs
<1>3. n \in Nat /\ n <= Len(recs) /\ n <= ItemCapacity
  BY <1>1, MinOfType
<1>4. MinOf(Len(recs) * ChunkSize, ItemCapacity * ChunkSize) = n * ChunkSize
  <2>1. CASE Len(recs) <= ItemCapacity
    BY <1>1, <2>1, TimesMonotone DEF MinOf
  <2>2. CASE Len(recs) > ItemCapacity
    BY <1>1, <1>2, <2>2, TimesStrict DEF MinOf
  <2> QED BY <1>1, <2>1, <2>2
<1>5. kept \in Seq(Payloads) /\ Len(kept) = n
  BY <1>1, SurvivorsType
<1>6. t \in Seq(Stored) /\ Len(t) = n * ChunkSize
  BY <1>1, <1>2, <1>4, SurvivorsType
<1>7. n * ChunkSize \in Nat
  BY <1>1, <1>2, <1>4, MinOfType
<1> HIDE DEF n
<1>8. ASSUME NEW k \in 1 .. Len(kept), NEW i \in 0 .. ChunkSize - 1
      PROVE  t[(k - 1) * ChunkSize + i + 1] = <<kept[k], i>>
  <2> DEFINE m == Len(recs) - n + k
             p == (k - 1) * ChunkSize + i + 1
  <2>1. kept[k] = recs[m] /\ m \in 1 .. Len(recs)
    <3>1. kept[k] = recs[Len(recs) - n + k]
      BY <1>1, <1>5, SurvivorsAre DEF n
    <3> QED BY <3>1, <1>1, <1>3, <1>5
  <2>2. p \in 1 .. n * ChunkSize
    <3>1. /\ (k - 1) * ChunkSize + ChunkSize <= n * ChunkSize
          /\ 0 * ChunkSize <= (k - 1) * ChunkSize
          /\ (k - 1) * ChunkSize \in Int
      BY <1>1, <1>3, <1>5, TimesStrict, TimesMonotone, Distributes
    <3> QED BY <1>1, <1>7, <3>1
  <2>3. t[p] = Serialized(recs)[Len(recs) * ChunkSize - n * ChunkSize + p]
    <3> DEFINE all == Serialized(recs)
               cap == ItemCapacity * ChunkSize
    <3>1. all \in Seq(Stored) /\ cap \in Nat /\ Len(all) = Len(recs) * ChunkSize
      BY <1>1, <1>2
    <3>2. MinOf(Len(all), cap) = n * ChunkSize
      BY <1>2, <1>4
    <3> HIDE DEF all, cap
    <3>3. p \in 1 .. MinOf(Len(all), cap)
      BY <2>2, <3>2
    <3> HIDE DEF p
    <3>4. Survivors(all, cap)[p] = all[Len(all) - MinOf(Len(all), cap) + p]
      BY <3>1, <3>3, SurvivorsAre
    <3> QED BY <3>1, <3>2, <3>4 DEF all, cap
  <2>4. Len(recs) * ChunkSize - n * ChunkSize + p = (m - 1) * ChunkSize + i + 1
    <3>1. m - 1 = (Len(recs) - n) + (k - 1)
      BY <1>1, <1>3
    <3>2. (m - 1) * ChunkSize = (Len(recs) - n) * ChunkSize + (k - 1) * ChunkSize
      BY <1>1, <1>3, <3>1, Distributes
    <3>3. (Len(recs) - n) * ChunkSize = Len(recs) * ChunkSize - n * ChunkSize
      BY <1>1, <1>3, Distributes
    <3>4. (k - 1) * ChunkSize \in Int
      BY <1>1, Distributes
    <3> QED BY <1>1, <1>2, <1>7, <3>2, <3>3, <3>4
  <2>5. Serialized(recs)[(m - 1) * ChunkSize + i + 1] = <<recs[m], i>>
    BY <2>1, SerializedIs
  <2> QED BY <2>1, <2>3, <2>4, <2>5
<1> HIDE DEF t, kept
<1>9. t = Serialized(kept)
  BY <1>5, <1>6, <1>8, SerializedEquals
<1> QED BY <1>2, <1>4, <1>9 DEF t, kept, n

(* The size of the storage.                                                 *)
ByteCount == ItemCapacity * ChunkSize

(* The bytes stored are those of the chunks recs.                           *)
Spell(recs) ==
  bytes.size = Len(recs) * ChunkSize /\ Contents(bytes) = Serialized(recs)

(* The storage holds the bytes of whole chunks, the first at the beginning  *)
(* of a chunk's place.                                                      *)
ChunkInv ==
  /\ bytes \in RingOf(ByteCount, Stored) /\ totalWritten \in Nat
  /\ \E h \in 0 .. ItemCapacity - 1 : bytes.head = h * ChunkSize
  /\ \E recs \in Seq(Payloads) : Len(recs) <= ItemCapacity /\ Spell(recs)

LEMMA ByteCountType == ByteCount \in Nat \ {0}
  BY ChunkFacts DEF ByteCount

LEMMA EmptySerialized ==
  /\ <<>> \in Seq(Payloads) /\ Serialized(<<>>) = <<>>
  /\ Len(<<>>) * ChunkSize = 0 /\ 0 * ChunkSize = 0
<1>1. <<>> \in Seq(Payloads) /\ Len(<<>>) = 0 /\ ChunkSize \in Nat
  BY ChunkFacts
<1>2. Len(<<>>) * ChunkSize = 0 /\ 0 * ChunkSize = 0
  BY <1>1
<1>3. Serialized(<<>>) \in Seq(Stored) /\ Len(Serialized(<<>>)) = 0
  BY <1>1, <1>2, SerializedIs
<1> QED BY <1>1, <1>2, <1>3

(* What the storage holds, read back chunk by chunk.                        *)
LEMMA StoredChunksAre ==
  ASSUME bytes \in RingOf(ByteCount, Stored), NEW recs \in Seq(Payloads), Spell(recs)
  PROVE  ChunkCount = Len(recs) /\ StoredChunks = recs
<1> USE DEF Spell
<1>1. ChunkSize \in Nat \ {0} /\ Len(recs) \in Nat /\ ByteCount \in Nat \ {0}
  BY ChunkFacts, ByteCountType
<1>2. ChunkCount = Len(recs)
  <2>1. (Len(recs) * ChunkSize + 0) \div ChunkSize = Len(recs)
    BY <1>1, DivOfSum
  <2>2. Len(recs) * ChunkSize \in Int
    BY <1>1, Distributes
  <2> QED BY <2>1, <2>2 DEF ChunkCount
<1>3. ASSUME NEW k \in 1 .. Len(recs)
      PROVE  /\ \A b \in 1 .. ChunkSize : ReadAt(k - 1, 1)[b] = <<recs[k], b - 1>>
             /\ recs[k] = ReadAt(k - 1, 1)[1][1]
  <2> DEFINE from == (k - 1) * ChunkSize
             raw  == ReadAt(k - 1, 1)
  <2>1. /\ from + ChunkSize <= bytes.size /\ from \in Nat
    <3>1. from + ChunkSize <= Len(recs) * ChunkSize /\ 0 * ChunkSize <= from /\ from \in Int
      BY <1>1, TimesStrict, TimesMonotone, Distributes
    <3> QED BY <1>1, <3>1
  <2>2. 1 * ChunkSize = ChunkSize
    BY <1>1
  <2>3. raw = SubSeq(Contents(bytes), from + 1, from + ChunkSize)
    <3> HIDE DEF from
    <3>1. PeekManyAt(bytes, from, ChunkSize) = SubSeq(Contents(bytes), from + 1, from + ChunkSize)
      BY <1>1, <2>1, PeekManyAtIs
    <3> QED BY <2>2, <3>1 DEF ReadAt, from
  <2>4. Contents(bytes) \in Seq(Stored) /\ Len(Contents(bytes)) = bytes.size
    BY <1>1, ContentsType
  <2> HIDE DEF raw
  <2>5. ASSUME NEW b \in 1 .. ChunkSize
        PROVE  raw[b] = <<recs[k], b - 1>>
    <3>1. raw[b] = Contents(bytes)[from + b]
      <4> HIDE DEF from
      <4> QED BY <1>1, <2>1, <2>3, <2>4
    <3>2. b - 1 \in 0 .. ChunkSize - 1
      BY <1>1
    <3>3. Serialized(recs)[from + (b - 1) + 1] = <<recs[k], b - 1>>
      BY <3>2, SerializedIs
    <3>4. from + (b - 1) + 1 = from + b
      <4> HIDE DEF from
      <4> QED BY <2>1
    <3> QED BY <3>1, <3>3, <3>4
  <2>6. raw[1] = <<recs[k], 0>>
    BY <1>1, <2>5
  <2> QED BY <2>5, <2>6 DEF raw
<1>4. StoredChunks = [k \in 1 .. Len(recs) |-> recs[k]]
  BY <1>2, <1>3 DEF StoredChunks
<1> QED BY <1>2, <1>4

(* The place of a chunk, without the remainder.                             *)
LEMMA PlaceOnce ==
  ASSUME NEW q \in 0 .. 2 * ItemCapacity - 1
  PROVE  /\ (q * ChunkSize) % ByteCount = Wrap(q, ItemCapacity) * ChunkSize
         /\ Wrap(q, ItemCapacity) \in 0 .. ItemCapacity - 1
         /\ q % ItemCapacity = Wrap(q, ItemCapacity)
<1>1. ChunkSize \in Nat \ {0} /\ ItemCapacity \in Nat \ {0} /\ ByteCount \in Nat \ {0}
  BY ChunkFacts, ByteCountType
<1>2. q % ItemCapacity = Wrap(q, ItemCapacity) /\ Wrap(q, ItemCapacity) \in 0 .. ItemCapacity - 1
  <2>1. q % ItemCapacity = Wrap(q, ItemCapacity)
    BY <1>1, ModOnce
  <2>2. Wrap(q, ItemCapacity) \in 0 .. ItemCapacity - 1
    BY <1>1 DEF Wrap
  <2> QED BY <2>1, <2>2
<1>3. (2 * ItemCapacity) * ChunkSize = 2 * ByteCount
  <2>1. (ItemCapacity + ItemCapacity) * ChunkSize = ByteCount + ByteCount
    BY <1>1, Distributes DEF ByteCount
  <2> QED BY <1>1, <2>1
<1>4. q * ChunkSize \in 0 .. 2 * ByteCount - 1
  <2>1. /\ 0 * ChunkSize <= q * ChunkSize /\ q * ChunkSize < (2 * ItemCapacity) * ChunkSize
        /\ q * ChunkSize \in Int
    BY <1>1, TimesMonotone, TimesStrict, Distributes
  <2> QED BY <1>1, <1>3, <2>1
<1>5. (q * ChunkSize) % ByteCount = Wrap(q * ChunkSize, ByteCount)
  BY <1>1, <1>4, ModOnce
<1>6. Wrap(q * ChunkSize, ByteCount) = Wrap(q, ItemCapacity) * ChunkSize
  <2>1. CASE q < ItemCapacity
    <3>1. q * ChunkSize < ByteCount
      BY <1>1, <2>1, TimesStrict DEF ByteCount
    <3> QED BY <2>1, <3>1 DEF Wrap
  <2>2. CASE q >= ItemCapacity
    <3>1. ByteCount <= q * ChunkSize /\ (q - ItemCapacity) * ChunkSize = q * ChunkSize - ByteCount
      BY <1>1, <2>2, TimesMonotone, Distributes DEF ByteCount
    <3>2. ~(q * ChunkSize < ByteCount) /\ ~(q < ItemCapacity)
      BY <1>1, <1>4, <2>2, <3>1
    <3> QED BY <3>1, <3>2 DEF Wrap
  <2> QED BY <1>1, <2>1, <2>2
<1> QED BY <1>2, <1>5, <1>6

(* The same as a formula of one state, and of the next.                     *)
LEMMA Reading ==
  bytes \in RingOf(ByteCount, Stored)
    => \A recs \in Seq(Payloads) : Spell(recs) => ChunkCount = Len(recs) /\ StoredChunks = recs
  BY StoredChunksAre

LEMMA ReadingNext ==
  bytes' \in RingOf(ByteCount, Stored)
    => \A recs \in Seq(Payloads) : Spell(recs)' => StoredChunks' = recs
<1>1. (bytes \in RingOf(ByteCount, Stored)
        => \A recs \in Seq(Payloads) : Spell(recs) => ChunkCount = Len(recs) /\ StoredChunks = recs)'
  BY Reading, PTL
<1> QED BY <1>1

(* A new storage spells nothing.                                            *)
LEMMA InitChunks ==
  ASSUME ChunkInit
  PROVE  ChunkInv /\ StoredChunks = <<>>
<1>1. bytes = NewRing(ByteCount, NoByte) /\ totalWritten = 0
  BY DEF ChunkInit, ByteCount
<1>2. bytes \in RingOf(ByteCount, Stored)
  BY <1>1, ByteCountType, NewRingType DEF Stored
<1>3. bytes.head = 0 /\ bytes.size = 0 /\ Contents(bytes) = <<>>
  <2>1. Contents(bytes) = <<>> /\ bytes.head = 0
    BY <1>1, ByteCountType, NewRingIs DEF Stored
  <2> QED BY <1>1, <2>1 DEF NewRing
<1>4. Spell(<<>>)
  BY <1>3, EmptySerialized DEF Spell
<1>5. 0 \in 0 .. ItemCapacity - 1 /\ bytes.head = 0 * ChunkSize
  BY <1>3, ChunkFacts
<1>6. <<>> \in Seq(Payloads) /\ Len(<<>>) <= ItemCapacity
  BY ChunkFacts
<1> QED BY <1>1, <1>2, <1>4, <1>5, <1>6, StoredChunksAre DEF ChunkInv

(* A push of whole chunks moves the head to the beginning of a chunk.       *)
LEMMA HeadMoves ==
  ASSUME bytes \in RingOf(ByteCount, Stored),
         NEW h \in 0 .. ItemCapacity - 1, bytes.head = h * ChunkSize,
         NEW z \in 0 .. ItemCapacity, bytes.size = z * ChunkSize,
         NEW m \in 0 .. ItemCapacity
  PROVE  \E i \in 0 .. ItemCapacity - 1 : HeadAfterPush(bytes, m * ChunkSize) = i * ChunkSize
<1>1. ChunkSize \in Nat \ {0} /\ ItemCapacity \in Nat \ {0} /\ ByteCount \in Nat \ {0}
  BY ChunkFacts, ByteCountType
<1>2. bytes.capacity = ByteCount
  BY DEF RingOf
<1>3. z * ChunkSize + m * ChunkSize = (z + m) * ChunkSize /\ (z + m) * ChunkSize \in Int
  BY <1>1, Distributes
<1>4. CASE z + m <= ItemCapacity
  <2>1. (z + m) * ChunkSize <= ByteCount
    BY <1>1, <1>4, TimesMonotone DEF ByteCount
  <2>2. ~(bytes.size + m * ChunkSize > bytes.capacity)
    BY <1>1, <1>2, <1>3, <2>1
  <2>3. HeadAfterPush(bytes, m * ChunkSize) = h * ChunkSize
    BY <2>2 DEF HeadAfterPush
  <2> QED BY <2>3
<1>5. CASE z + m > ItemCapacity
  <2> DEFINE q == h + (z + m - ItemCapacity)
  <2>1. ByteCount < (z + m) * ChunkSize
    BY <1>1, <1>5, TimesStrict DEF ByteCount
  <2>2. bytes.size + m * ChunkSize > bytes.capacity
    BY <1>1, <1>2, <1>3, <2>1
  <2>3. HeadAfterPush(bytes, m * ChunkSize) =
          (h * ChunkSize + z * ChunkSize + m * ChunkSize - ByteCount) % ByteCount
    BY <1>2, <2>2 DEF HeadAfterPush
  <2>4. q * ChunkSize = h * ChunkSize + ((z + m) * ChunkSize - ByteCount)
    <3>1. (z + m - ItemCapacity) * ChunkSize = (z + m) * ChunkSize - ItemCapacity * ChunkSize
      BY <1>1, Distributes
    <3>2. q * ChunkSize = h * ChunkSize + (z + m - ItemCapacity) * ChunkSize
      BY <1>1, Distributes
    <3> QED BY <3>1, <3>2 DEF ByteCount
  <2>5. q * ChunkSize = h * ChunkSize + z * ChunkSize + m * ChunkSize - ByteCount
    <3> DEFINE a == h * ChunkSize
               b == z * ChunkSize
               c == m * ChunkSize
               d == (z + m) * ChunkSize
    <3>1. /\ a \in Int /\ b \in Int /\ c \in Int /\ d = b + c /\ ByteCount \in Int
      BY <1>1, <1>3, Distributes
    <3> HIDE DEF a, b, c, d
    <3>2. a + (d - ByteCount) = a + b + c - ByteCount
      BY <3>1
    <3> QED BY <2>4, <3>2 DEF a, b, c, d
  <2>6. q \in 0 .. 2 * ItemCapacity - 1
    BY <1>1, <1>5
  <2> HIDE DEF q
  <2>7. (q * ChunkSize) % ByteCount = Wrap(q, ItemCapacity) * ChunkSize
         /\ Wrap(q, ItemCapacity) \in 0 .. ItemCapacity - 1
    BY <2>6, PlaceOnce
  <2> QED BY <2>3, <2>5, <2>7
<1> QED BY <1>1, <1>4, <1>5

(* push: the chunks stored are the newest ones.                             *)
LEMMA PushStores ==
  ASSUME ChunkInv, NEW new \in Seq(Payloads), Push(new)
  PROVE  /\ ChunkInv'
         /\ StoredChunks \in Seq(Payloads)
         /\ StoredChunks' = Survivors(StoredChunks \o new, ItemCapacity)
<1>1. PICK h \in 0 .. ItemCapacity - 1 : bytes.head = h * ChunkSize
  BY DEF ChunkInv
<1>2. PICK recs \in Seq(Payloads) : Len(recs) <= ItemCapacity /\ Spell(recs)
  BY DEF ChunkInv
<1>3. bytes \in RingOf(ByteCount, Stored) /\ totalWritten \in Nat
  BY DEF ChunkInv
<1>4. ChunkSize \in Nat \ {0} /\ ItemCapacity \in Nat \ {0} /\ ByteCount \in Nat \ {0}
  BY ChunkFacts, ByteCountType
<1>5. bytes' = PushMany(bytes, Serialized(new)) /\ totalWritten' = totalWritten + Len(new)
  BY DEF Push
<1> DEFINE all == recs \o new
           kept == Survivors(all, ItemCapacity)
           m == MinOf(Len(new), ItemCapacity)
<1>6. all \in Seq(Payloads) /\ kept \in Seq(Payloads) /\ Len(kept) = MinOf(Len(all), ItemCapacity)
  <2>1. recs \o new \in Seq(Payloads) /\ ItemCapacity \in Nat
    BY <1>2, <1>4, ConcatIs
  <2> QED BY <2>1, SurvivorsType
<1>7. Serialized(new) \in Seq(Stored) /\ Len(Serialized(new)) = Len(new) * ChunkSize
  BY SerializedIs
<1>8. bytes' \in RingOf(ByteCount, Stored)
  BY <1>3, <1>4, <1>5, <1>7, PushManyType
<1>9. Contents(bytes)' = Serialized(kept)
  <2>1. Contents(PushMany(bytes, Serialized(new))) = Survivors(Contents(bytes) \o Serialized(new), ByteCount)
    BY <1>3, <1>4, <1>7, PushManyContents
  <2>2. Contents(bytes) \o Serialized(new) = Serialized(all)
    BY <1>2, SerializedConcat DEF Spell
  <2>3. Survivors(Serialized(all), ByteCount) = Serialized(kept)
    BY <1>6, SerializedSurvivors DEF ByteCount
  <2> QED BY <1>5, <2>1, <2>2, <2>3
<1>10. bytes'.size = Len(kept) * ChunkSize
  <2>1. Contents(bytes') \in Seq(Stored) /\ Len(Contents(bytes')) = bytes'.size
    BY <1>4, <1>8, ContentsType
  <2> QED BY <1>6, <1>9, <2>1, SerializedIs
<1>11. Len(kept) <= ItemCapacity
  BY <1>4, <1>6, MinOfType
<1>12. Spell(kept)'
  BY <1>9, <1>10 DEF Spell
<1>13. StoredChunks = recs /\ StoredChunks' = kept
  BY <1>2, <1>3, <1>6, <1>8, <1>12, StoredChunksAre, ReadingNext
<1>14. \E i \in 0 .. ItemCapacity - 1 : bytes'.head = i * ChunkSize
  <2>1. Len(Survivors(Serialized(new), ByteCount)) = m * ChunkSize
    <3>1. Len(Survivors(Serialized(new), ByteCount)) = MinOf(Len(Serialized(new)), ByteCount)
      BY <1>4, <1>7, SurvivorsType
    <3> QED BY <3>1, SerializedSurvivors DEF ByteCount
  <2>2. bytes'.head = HeadAfterPush(bytes, m * ChunkSize)
    BY <1>3, <1>5, <2>1 DEF PushMany, RingOf
  <2>3. m \in 0 .. ItemCapacity
    <3>1. Len(new) \in Nat /\ ItemCapacity \in Nat
      BY <1>4
    <3>2. m \in Nat /\ m <= ItemCapacity
      BY <3>1, MinOfType
    <3> QED BY <3>1, <3>2
  <2>4. Len(recs) \in 0 .. ItemCapacity /\ bytes.size = Len(recs) * ChunkSize
    BY <1>2, <1>4 DEF Spell
  <2> QED BY <1>1, <1>3, <2>2, <2>3, <2>4, HeadMoves
<1>15. totalWritten' \in Nat
  BY <1>3, <1>5
<1> QED BY <1>6, <1>8, <1>11, <1>12, <1>13, <1>14, <1>15 DEF ChunkInv

(* clear: nothing is stored, and the head is at the beginning of a chunk.   *)
LEMMA ClearForgets ==
  ASSUME ChunkInv, ClearChunks
  PROVE  ChunkInv' /\ StoredChunks' = <<>>
<1>1. bytes \in RingOf(ByteCount, Stored) /\ totalWritten \in Nat /\ ByteCount \in Nat \ {0}
  BY ByteCountType DEF ChunkInv
<1>2. bytes' = Clear(bytes) /\ totalWritten' = totalWritten
  BY DEF ClearChunks
<1>3. bytes' \in RingOf(ByteCount, Stored) /\ bytes'.size = 0 /\ Contents(bytes)' = <<>>
  BY <1>1, <1>2, ClearIs
<1>4. \E h \in 0 .. ItemCapacity - 1 : bytes'.head = h * ChunkSize
  <2>1. CASE bytes.size = 0
    BY <1>2, <2>1 DEF Clear, ChunkInv
  <2>2. CASE bytes.size # 0
    <3>1. bytes'.head = 0
      BY <1>1, <1>2, <2>2 DEF Clear, RingOf
    <3>2. 0 \in 0 .. ItemCapacity - 1 /\ 0 * ChunkSize = 0
      BY ChunkFacts
    <3> QED BY <3>1, <3>2
  <2> QED BY <2>1, <2>2
<1>5. Spell(<<>>)'
  BY <1>3, EmptySerialized DEF Spell
<1>6. <<>> \in Seq(Payloads) /\ Len(<<>>) <= ItemCapacity
  BY ChunkFacts
<1> QED BY <1>1, <1>2, <1>3, <1>4, <1>5, <1>6, ReadingNext DEF ChunkInv

LEMMA ChunkStep ==
  ASSUME ChunkInv, [ChunkNext]_chunkVars
  PROVE  ChunkInv'
<1>1. ASSUME NEW n \in 1 .. MaxPush, NEW new \in [1 .. n -> Payloads], Push(new)
      PROVE  ChunkInv'
  <2>1. new \in Seq(Payloads)
    BY ChunkAssumption
  <2> QED BY <1>1, <2>1, PushStores
<1>2. CASE ClearChunks
  BY <1>2, ClearForgets
<1>3. CASE UNCHANGED chunkVars
  BY <1>3 DEF chunkVars, ChunkInv, Spell
<1> QED BY <1>1, <1>2, <1>3 DEF ChunkNext

LEMMA ChunksStayWhole == ChunkSpec => []ChunkInv
<1>1. ChunkInit => ChunkInv
  BY InitChunks
<1>2. ChunkInv /\ [ChunkNext]_chunkVars => ChunkInv'
  BY ChunkStep
<1> QED BY <1>1, <1>2, PTL DEF ChunkSpec

(* What the window keeps is what survives.                                  *)
LEMMA NewestIsSurvivors ==
  ASSUME NEW s \in Seq(Payloads)
  PROVE  Window!Newest(s) = Survivors(s, ItemCapacity)
<1>1. ItemCapacity \in Nat
  BY ChunkFacts
<1>2. CASE Len(s) <= ItemCapacity
  <2>1. Survivors(s, ItemCapacity) = s
    BY <1>1, <1>2, SurvivorsOfFew
  <2> QED BY <1>2, <2>1 DEF Window!Newest
<1>3. CASE ~(Len(s) <= ItemCapacity)
  <2>1. MinOf(Len(s), ItemCapacity) = ItemCapacity
    BY <1>1, <1>3 DEF MinOf
  <2> QED BY <1>3, <2>1 DEF Window!Newest, Survivors
<1> QED BY <1>2, <1>3

(* Every step of the storage is a step of the window or a stutter.          *)
LEMMA WindowStep ==
  ASSUME ChunkInv, [ChunkNext]_chunkVars
  PROVE  [Window!Next]_(Window!windowVars)
<1>1. ASSUME NEW n \in 1 .. MaxPush, NEW new \in [1 .. n -> Payloads], Push(new)
      PROVE  Window!Write
  <2>1. new \in Seq(Payloads) /\ Len(new) \in 1 .. MaxPush
    BY ChunkAssumption
  <2>2. given' = new /\ totalWritten' = totalWritten + Len(new)
    BY <1>1 DEF Push
  <2>3. StoredChunks \in Seq(Payloads) /\ StoredChunks' = Survivors(StoredChunks \o new, ItemCapacity)
    BY <1>1, <2>1, PushStores
  <2>4. Window!Newest(StoredChunks \o new) = Survivors(StoredChunks \o new, ItemCapacity)
    <3>1. StoredChunks \o new \in Seq(Payloads)
      BY <2>1, <2>3, ConcatIs
    <3> QED BY <3>1, NewestIsSurvivors
  <2> QED BY <2>1, <2>2, <2>3, <2>4 DEF Window!Write
<1>2. CASE ClearChunks
  BY <1>2, ClearForgets DEF ClearChunks, Window!Next, Window!Forget
<1>3. CASE UNCHANGED chunkVars
  BY <1>3 DEF chunkVars, Window!windowVars, StoredChunks, ChunkCount, ReadAt
<1> QED BY <1>1, <1>2, <1>3 DEF ChunkNext, Window!Next

(* The bytes implement the window of the newest records: no push tears,     *)
(* shifts, loses or repeats one.                                            *)
THEOREM ChunksImplementWindow == ChunkSpec => ImplementsWindow
<1>1. ChunkInit => Window!Init
  BY InitChunks DEF ChunkInit, Window!Init
<1>2. ChunkInv /\ [ChunkNext]_chunkVars => [Window!Next]_(Window!windowVars)
  BY WindowStep
<1> QED BY <1>1, <1>2, ChunksStayWhole, PTL DEF ChunkSpec, ImplementsWindow, Window!Spec

(* A batch that is handed out in place lies in one piece, and is cut short  *)
(* only by the end of the storage (RecBuffer.cpp:83).                       *)
THEOREM BatchesAreContiguous == ChunkSpec => []BatchIsContiguous
<1>1. ChunkInv => BatchIsContiguous
  <2> SUFFICES ASSUME ChunkInv, NEW k \in 0 .. ChunkCount - 1, NEW m \in 1 .. ChunkCount - k
               PROVE  LET n   == ContiguousRun(k, m)
                          run == ChunkStart(k) .. ChunkStart(k) + n * ChunkSize - 1
                      IN  /\ n \in 1 .. m
                          /\ run \subseteq DOMAIN bytes.array
                          /\ \A j \in 1 .. n * ChunkSize :
                               bytes.array[ChunkStart(k) + j - 1] = ReadAt(k, n)[j]
                          /\ n < m => ChunkStart(k) + n * ChunkSize = bytes.capacity
    BY DEF BatchIsContiguous
  <2> DEFINE n == ContiguousRun(k, m)
             start == ChunkStart(k)
  <2>1. PICK h \in 0 .. ItemCapacity - 1 : bytes.head = h * ChunkSize
    BY DEF ChunkInv
  <2>2. PICK recs \in Seq(Payloads) : Len(recs) <= ItemCapacity /\ Spell(recs)
    BY DEF ChunkInv
  <2>3. /\ bytes \in RingOf(ByteCount, Stored)
        /\ bytes.capacity = ByteCount /\ DOMAIN bytes.array = 0 .. ByteCount - 1
    BY DEF ChunkInv, RingOf
  <2>4. ChunkSize \in Nat \ {0} /\ ItemCapacity \in Nat \ {0} /\ ByteCount \in Nat \ {0}
    BY ChunkFacts, ByteCountType
  <2>5. ChunkCount = Len(recs)
    BY <2>2, <2>3, StoredChunksAre
  <2>6. /\ k \in Nat /\ m \in Nat /\ 1 <= m /\ k + m <= ItemCapacity
        /\ h + k \in 0 .. 2 * ItemCapacity - 1
    BY <2>2, <2>4, <2>5
  <2> DEFINE w == Wrap(h + k, ItemCapacity)
  <2>7. w \in 0 .. ItemCapacity - 1 /\ (h + k) % ItemCapacity = w
         /\ ((h + k) * ChunkSize) % ByteCount = w * ChunkSize
    BY <2>6, PlaceOnce
  <2> HIDE DEF w
  <2>8. start = w * ChunkSize
    BY <2>1, <2>3, <2>4, <2>7, Distributes DEF ChunkStart
  <2>9. n = MinOf(m, ItemCapacity - w)
    <3>1. (h * ChunkSize + 0) \div ChunkSize = h
      BY <2>4, DivOfSum
    <3>2. h * ChunkSize \in Int
      BY <2>4, Distributes
    <3>3. bytes.head \div ChunkSize = h
      BY <2>1, <3>1, <3>2
    <3> QED BY <2>7, <3>3 DEF ContiguousRun
  <2>10. n \in 1 .. m /\ n <= ItemCapacity - w /\ (n < m => n = ItemCapacity - w)
    BY <2>4, <2>6, <2>7, <2>9 DEF MinOf
  <2> HIDE DEF n, start
  <2>11. /\ start \in Nat /\ n * ChunkSize \in Nat
         /\ start + n * ChunkSize = (w + n) * ChunkSize
         /\ start + n * ChunkSize <= ByteCount
         /\ n < m => start + n * ChunkSize = ByteCount
    <3>1. (w + n) * ChunkSize = w * ChunkSize + n * ChunkSize
      BY <2>4, <2>7, <2>10, Distributes
    <3>2. /\ 0 * ChunkSize <= w * ChunkSize /\ 0 * ChunkSize <= n * ChunkSize
          /\ (w + n) * ChunkSize <= ItemCapacity * ChunkSize
      BY <2>4, <2>7, <2>10, TimesMonotone
    <3>3. w * ChunkSize \in Int /\ n * ChunkSize \in Int /\ 0 * ChunkSize = 0
      BY <2>4, <2>7, <2>10, Distributes
    <3>4. n < m => w + n = ItemCapacity
      BY <2>4, <2>7, <2>10
    <3> QED BY <2>8, <3>1, <3>2, <3>3, <3>4 DEF ByteCount
  <2>12. start .. start + n * ChunkSize - 1 \subseteq DOMAIN bytes.array
    <3> DEFINE len == n * ChunkSize
    <3>1. len \in Nat /\ start \in Nat /\ start + len <= ByteCount
      BY <2>11
    <3> HIDE DEF len
    <3>2. start .. start + len - 1 \subseteq 0 .. ByteCount - 1
      BY <2>4, <3>1
    <3> QED BY <2>3, <3>2 DEF len
  <2>13. ASSUME NEW j \in 1 .. n * ChunkSize
         PROVE  bytes.array[start + j - 1] = ReadAt(k, n)[j]
    <3> DEFINE len == n * ChunkSize
    <3>1. len \in Nat /\ start \in Nat /\ start + len <= ByteCount /\ j \in 1 .. len
      BY <2>11
    <3>2. SlotOf(bytes, k * ChunkSize) = start
      BY DEF SlotOf, ChunkStart, start
    <3>3. ReadAt(k, n) = CopyOut(bytes.array, ByteCount, start, len)
      BY <2>3, <3>2 DEF ReadAt, PeekManyAt
    <3> HIDE DEF len
    <3>4. MinOf(len, ByteCount - start) = len
      BY <2>4, <3>1 DEF MinOf
    <3> QED BY <3>1, <3>3, <3>4 DEF CopyOut
  <2> QED BY <2>3, <2>10, <2>11, <2>12, <2>13 DEF n, start
<1> QED BY <1>1, ChunksStayWhole, PTL
-----------------------------------------------------------------------------
(* The registry of names.                                                   *)

(* m_nameToId is the inverse of m_idToName. *)
Inverses ==
  /\ \A n \in DOMAIN nameToId : nameToId[n] \in DOMAIN idToName /\ idToName[nameToId[n]] = n
  /\ \A i \in DOMAIN idToName : idToName[i] \in DOMAIN nameToId /\ nameToId[idToName[i]] = i

(* What a thread was told holds. *)
Answers(b) ==
  \A i \in DOMAIN b.got : b.want[i] \in DOMAIN nameToId /\ nameToId[b.want[i]] = b.got[i]

BuilderType(b) ==
  /\ {"pc", "decl", "want", "got", "rule"} \subseteq DOMAIN b
  /\ b.want \in Seq(STRING) /\ b.got \in Seq(Nat)
  /\ b.pc = "idle" => b.got = <<>>

RegistryInv ==
  /\ idToName \in Seq(STRING)
  /\ Inverses
  /\ DOMAIN builder = Builders
  /\ \A t \in Builders : BuilderType(builder[t]) /\ Answers(builder[t])

LEMMA RegistryInit ==
  ASSUME SchemaInit
  PROVE  RegistryInv
<1>1. /\ idToName = <<>> /\ nameToId = [n \in {} |-> 0]
      /\ builder = [t \in Builders |-> IdleBuilder]
  BY DEF SchemaInit
<1>2. idToName \in Seq(STRING) /\ DOMAIN idToName = {} /\ DOMAIN nameToId = {}
  BY <1>1
<1>3. BuilderType(IdleBuilder) /\ Answers(IdleBuilder)
  BY DEF IdleBuilder, BuilderType, Answers
<1> HIDE DEF IdleBuilder
<1> QED BY <1>1, <1>2, <1>3 DEF RegistryInv, Inverses

(* A step that leaves the registry and what the threads were told alone.    *)
LEMMA RegistryFrame ==
  ASSUME RegistryInv, UNCHANGED <<idToName, nameToId>>, DOMAIN builder' = Builders,
         \A t \in Builders :
           /\ DOMAIN builder'[t] = DOMAIN builder[t]
           /\ builder'[t].want = builder[t].want /\ builder'[t].got = builder[t].got
           /\ builder'[t].pc = "idle" => builder[t].pc = "idle"
  PROVE  RegistryInv'
<1>1. Inverses' /\ idToName' \in Seq(STRING)
  BY DEF RegistryInv, Inverses
<1>2. ASSUME NEW t \in Builders PROVE BuilderType(builder'[t]) /\ Answers(builder[t])'
  BY DEF RegistryInv, BuilderType, Answers
<1>3. ASSUME NEW t \in Builders PROVE BuilderType(builder[t])'
  BY <1>2 DEF BuilderType
<1> QED BY <1>1, <1>2, <1>3 DEF RegistryInv

(* The answer to a lookup is what the registry says. *)
LEMMA GetsStep ==
  ASSUME RegistryInv, NEW t \in Builders, NEW id \in Nat, Gets(t, id), LooksUp(t, builder[t].pc),
         Inverses', idToName' \in Seq(STRING),
         \A n \in DOMAIN nameToId : n \in DOMAIN nameToId' /\ nameToId'[n] = nameToId[n],
         Wanted(t) \in DOMAIN nameToId', nameToId'[Wanted(t)] = id
  PROVE  RegistryInv'
<1>1. builder' = [builder EXCEPT ![t].got = Append(@, id), ![t].pc = "find"]
  BY DEF Gets
<1>2. /\ DOMAIN builder' = Builders
      /\ \A u \in Builders \ {t} : builder'[u] = builder[u]
  BY <1>1 DEF RegistryInv
<1>3. /\ BuilderType(builder[t]) /\ Answers(builder[t])
      /\ DOMAIN builder'[t] = DOMAIN builder[t]
      /\ builder'[t].want = builder[t].want /\ builder'[t].pc = "find"
      /\ builder'[t].got = Append(builder[t].got, id)
  BY <1>1 DEF RegistryInv, BuilderType
<1>4. BuilderType(builder[t])'
  BY <1>3 DEF BuilderType
<1>5. Answers(builder[t])'
  <2>1. ASSUME NEW i \in DOMAIN builder'[t].got
        PROVE  /\ builder'[t].want[i] \in DOMAIN nameToId'
               /\ nameToId'[builder'[t].want[i]] = builder'[t].got[i]
    <3>1. CASE i = Len(builder[t].got) + 1
      <4>1. builder'[t].got[i] = id
        BY <1>3, <3>1 DEF BuilderType
      <4> QED BY <1>3, <3>1, <4>1 DEF Wanted
    <3>2. CASE i # Len(builder[t].got) + 1
      <4>1. i \in DOMAIN builder[t].got /\ builder'[t].got[i] = builder[t].got[i]
        BY <1>3, <2>1, <3>2 DEF BuilderType
      <4> QED BY <1>3, <4>1 DEF Answers
    <3> QED BY <3>1, <3>2
  <2> QED BY <2>1 DEF Answers
<1>6. \A u \in Builders \ {t} : BuilderType(builder[u])' /\ Answers(builder[u])'
  BY <1>2 DEF RegistryInv, BuilderType, Answers
<1> QED BY <1>2, <1>4, <1>5, <1>6 DEF RegistryInv

(* A new name gets the next position. *)
LEMMA RegisterStep ==
  ASSUME NEW S, idToName \in Seq(S), Inverses, NEW name \in S, name \notin DOMAIN nameToId,
         Register(name)
  PROVE  /\ idToName' \in Seq(S) /\ Inverses'
         /\ \A n \in DOMAIN nameToId : n \in DOMAIN nameToId' /\ nameToId'[n] = nameToId[n]
         /\ name \in DOMAIN nameToId' /\ nameToId'[name] = Len(idToName) + 1
<1>1. idToName' = Append(idToName, name)
  BY DEF Register
<1>2. /\ DOMAIN nameToId' = DOMAIN nameToId \cup {name}
      /\ nameToId'[name] = Len(idToName) + 1
      /\ \A n \in DOMAIN nameToId : nameToId'[n] = nameToId[n]
  BY DEF Register
<1>3. /\ idToName' \in Seq(S) /\ Len(idToName) \in Nat
      /\ DOMAIN idToName = 1 .. Len(idToName) /\ DOMAIN idToName' = 1 .. Len(idToName) + 1
      /\ idToName'[Len(idToName) + 1] = name
      /\ \A i \in DOMAIN idToName : idToName'[i] = idToName[i]
  <2>1. Append(idToName, name) \in Seq(S) /\ Len(idToName) \in Nat
    OBVIOUS
  <2>2. DOMAIN idToName = 1 .. Len(idToName) /\ Len(Append(idToName, name)) = Len(idToName) + 1
    OBVIOUS
  <2>3. DOMAIN Append(idToName, name) = 1 .. Len(idToName) + 1
    BY <2>1, <2>2
  <2>4. /\ Append(idToName, name)[Len(idToName) + 1] = name
        /\ \A i \in 1 .. Len(idToName) : Append(idToName, name)[i] = idToName[i]
    OBVIOUS
  <2> QED BY <1>1, <2>1, <2>2, <2>3, <2>4
<1>4. \A n \in DOMAIN nameToId' : nameToId'[n] \in DOMAIN idToName' /\ idToName'[nameToId'[n]] = n
  <2>1. ASSUME NEW n \in DOMAIN nameToId
        PROVE  nameToId'[n] \in DOMAIN idToName' /\ idToName'[nameToId'[n]] = n
    BY <1>2, <1>3, nameToId[n] \in DOMAIN idToName /\ idToName[nameToId[n]] = n DEF Inverses
  <2>2. nameToId'[name] \in DOMAIN idToName' /\ idToName'[nameToId'[name]] = name
    BY <1>2, <1>3
  <2> QED BY <1>2, <2>1, <2>2
<1>5. \A i \in DOMAIN idToName' : idToName'[i] \in DOMAIN nameToId' /\ nameToId'[idToName'[i]] = i
  <2>1. ASSUME NEW i \in DOMAIN idToName'
        PROVE  idToName'[i] \in DOMAIN nameToId' /\ nameToId'[idToName'[i]] = i
    <3>1. CASE i = Len(idToName) + 1
      BY <1>2, <1>3, <3>1
    <3>2. CASE i \in DOMAIN idToName
      BY <1>2, <1>3, <3>2 DEF Inverses
    <3> QED BY <1>3, <2>1, <3>1, <3>2
  <2> QED BY <2>1
<1> QED BY <1>2, <1>3, <1>4, <1>5 DEF Inverses

LEMMA WantedType ==
  ASSUME RegistryInv, NEW t \in Builders, Len(builder[t].got) < Len(builder[t].want)
  PROVE  Wanted(t) \in STRING
<1>1. builder[t].want \in Seq(STRING) /\ builder[t].got \in Seq(Nat)
  BY DEF RegistryInv, BuilderType
<1> QED BY <1>1 DEF Wanted

LEMMA FindStep ==
  ASSUME RegistryInv, NEW t \in Builders, Find(t)
  PROVE  RegistryInv'
<1>1. CASE Wanted(t) \in DOMAIN nameToId
  <2>1. nameToId[Wanted(t)] \in Nat
    BY <1>1 DEF RegistryInv, Inverses
  <2>2. Gets(t, nameToId[Wanted(t)]) /\ UNCHANGED <<idToName, nameToId>> /\ LooksUp(t, builder[t].pc)
    BY <1>1 DEF Find, LooksUp
  <2> QED BY <1>1, <2>1, <2>2, GetsStep DEF RegistryInv, Inverses
<1>2. CASE Wanted(t) \notin DOMAIN nameToId
  <2>1. builder' = [builder EXCEPT ![t].pc = "insert"] /\ UNCHANGED <<idToName, nameToId>>
    BY <1>2 DEF Find
  <2> QED BY <2>1, RegistryFrame DEF RegistryInv, BuilderType
<1> QED BY <1>1, <1>2

LEMMA InsertStep ==
  ASSUME RegistryInv, NEW t \in Builders, Insert(t)
  PROVE  RegistryInv'
<1>1. LooksUp(t, builder[t].pc) /\ Len(builder[t].got) < Len(builder[t].want)
  BY DEF Insert, LooksUp
<1>2. CASE Wanted(t) \in DOMAIN nameToId
  <2>1. nameToId[Wanted(t)] \in Nat
    BY <1>2 DEF RegistryInv, Inverses
  <2>2. Gets(t, nameToId[Wanted(t)]) /\ UNCHANGED <<idToName, nameToId>>
    BY <1>2 DEF Insert
  <2> QED BY <1>1, <1>2, <2>1, <2>2, GetsStep DEF RegistryInv, Inverses
<1>3. CASE Wanted(t) \notin DOMAIN nameToId
  <2>1. Register(Wanted(t)) /\ Gets(t, Len(idToName) + 1)
    BY <1>3 DEF Insert
  <2>2. Len(idToName) + 1 \in Nat
    BY DEF RegistryInv
  <2>3. idToName \in Seq(STRING) /\ Inverses /\ Wanted(t) \in STRING
    BY <1>1, WantedType DEF RegistryInv
  <2>4. /\ idToName' \in Seq(STRING) /\ Inverses'
        /\ \A n \in DOMAIN nameToId : n \in DOMAIN nameToId' /\ nameToId'[n] = nameToId[n]
        /\ Wanted(t) \in DOMAIN nameToId' /\ nameToId'[Wanted(t)] = Len(idToName) + 1
    BY <1>3, <2>1, <2>3, RegisterStep
  <2> QED BY <1>1, <2>1, <2>2, <2>4, GetsStep
<1> QED BY <1>2, <1>3

LEMMA DeclareStep ==
  ASSUME RegistryInv, NEW t \in Builders, Declare(t)
  PROVE  RegistryInv'
<1>1. PICK decl \in Declarations :
        builder' = [builder EXCEPT ![t].pc = "find", ![t].decl = decl, ![t].want = Lookups(decl)]
  BY DEF Declare
<1>2. Lookups(decl) \in Seq(STRING)
  BY DeclarationsAssumption
<1>3. builder[t].got = <<>> /\ UNCHANGED <<idToName, nameToId>>
  BY DEF Declare, RegistryInv, BuilderType
<1> HIDE DEF Lookups
<1>4. /\ DOMAIN builder' = Builders /\ \A u \in Builders \ {t} : builder'[u] = builder[u]
      /\ DOMAIN builder'[t] = DOMAIN builder[t]
      /\ builder'[t].want = Lookups(decl) /\ builder'[t].got = <<>> /\ builder'[t].pc = "find"
  BY <1>1, <1>3 DEF RegistryInv, BuilderType
<1>5. BuilderType(builder[t])' /\ Answers(builder[t])'
  BY <1>2, <1>4 DEF RegistryInv, BuilderType, Answers
<1>6. \A u \in Builders \ {t} : BuilderType(builder[u])' /\ Answers(builder[u])'
  BY <1>3, <1>4 DEF RegistryInv, BuilderType, Answers
<1>7. idToName' \in Seq(STRING) /\ Inverses'
  BY <1>3 DEF RegistryInv, Inverses
<1> QED BY <1>4, <1>5, <1>6, <1>7 DEF RegistryInv

LEMMA RegistryInvariant == SchemaSpec => []RegistryInv
<1>1. ASSUME RegistryInv, [SchemaNext]_schemaVars PROVE RegistryInv'
  <2>1. ASSUME NEW t \in Builders, Build(t) PROVE RegistryInv'
    <3>1. UNCHANGED <<idToName, nameToId>>
      BY <2>1 DEF Build
    <3>2. \E p \in {"built", "failed"} : \E r :
            \/ builder' = [builder EXCEPT ![t].pc = p, ![t].rule = r]
            \/ builder' = [builder EXCEPT ![t].pc = p]
      BY <2>1 DEF Build
    <3>p. PICK p \in {"built", "failed"} : \E r :
            \/ builder' = [builder EXCEPT ![t].pc = p, ![t].rule = r]
            \/ builder' = [builder EXCEPT ![t].pc = p]
      BY <3>2
    <3>3. PICK r :
            \/ builder' = [builder EXCEPT ![t].pc = p, ![t].rule = r]
            \/ builder' = [builder EXCEPT ![t].pc = p]
      BY <3>p
    <3>4. DOMAIN builder = Builders /\ \A u \in Builders : {"pc", "rule"} \subseteq DOMAIN builder[u]
      BY <1>1 DEF RegistryInv, BuilderType
    <3>5. /\ DOMAIN builder' = Builders
          /\ \A u \in Builders \ {t} : builder'[u] = builder[u]
          /\ DOMAIN builder'[t] = DOMAIN builder[t] /\ builder'[t].pc # "idle"
          /\ builder'[t].want = builder[t].want /\ builder'[t].got = builder[t].got
      <4>1. CASE builder' = [builder EXCEPT ![t].pc = p, ![t].rule = r]
        BY <3>4, <4>1
      <4>2. CASE builder' = [builder EXCEPT ![t].pc = p]
        BY <3>4, <4>2
      <4> QED BY <3>3, <4>1, <4>2
    <3> QED BY <1>1, <3>1, <3>5, RegistryFrame
  <2>2. CASE \/ \E t \in Builders : Open(t)
             \/ WritesRecord \/ UNCHANGED schemaVars
    <3>1. UNCHANGED <<idToName, nameToId, builder>>
      BY <2>2 DEF Open, WritesRecord, SetValue, SetBit, ClearRecord, Writes, schemaVars
    <3> QED BY <1>1, <3>1, RegistryFrame DEF RegistryInv
  <2> QED BY <1>1, <2>1, <2>2, DeclareStep, FindStep, InsertStep DEF SchemaNext
<1> QED BY <1>1, RegistryInit, PTL DEF SchemaSpec

(* getID() from any number of threads at once gives every name one id and   *)
(* every id one name, and never another one later (PReg.cpp:16-41).         *)
THEOREM NamesAndIdsAgree == SchemaSpec => []RegistryIsOneToOne
<1>1. RegistryInv => RegistryIsOneToOne
  BY DEF RegistryInv, Inverses, BuilderType, Answers, RegistryIsOneToOne, IsInjective, ToSet
<1> QED BY <1>1, RegistryInvariant, PTL
-----------------------------------------------------------------------------
(* Layouts.  What EndsOf computes is derived by counting up: the place at   *)
(* which a claim would first fail would be the least one.                   *)

LEMMA SizesAre ==
  ASSUME NEW type \in DOMAIN TypeSize
  PROVE  TypeSize[type] \in {0, 1, 2, 4, 8}
  BY DEF TypeSize

(* A sequence of attributes, and where each of them ends. *)
Sized(s, N) ==
  /\ N \in Nat /\ DOMAIN s = 1 .. N /\ Len(s) = N
  /\ \A k \in 1 .. N :
       /\ {"type", "count", "offset"} \subseteq DOMAIN s[k]
       /\ s[k].type \in DOMAIN TypeSize /\ s[k].count \in Nat

LEMMA SizeOfIs ==
  ASSUME NEW a, a.type \in DOMAIN TypeSize, a.count \in Nat
  PROVE  SizeOfAttr(a) \in Nat
<1>1. TypeSize[a.type] \in Nat
  BY SizesAre
<1> QED BY <1>1 DEF SizeOfAttr

LEMMA LeastNat ==
  ASSUME NEW T \in SUBSET Nat, T # {}
  PROVE  \E x \in T : \A y \in T : x <= y
<1> DEFINE R == OpToRel(<, Nat)
<1>1. IsWellFoundedOn(R, Nat)
  BY NatLessThanWellFounded, Zenon
<1>2. PICK x \in T : \A y \in T : ~ (<<y, x>> \in R)
  <2> HIDE DEF R
  <2> QED BY <1>1, WFMin, Zenon
<1>3. \A y \in T : x <= y
  <2> TAKE y \in T
  <2>1. x \in Nat /\ y \in Nat
    OBVIOUS
  <2>2. ~ (y < x)
    BY <1>2, <2>1 DEF OpToRel
  <2> QED BY <2>1, <2>2
<1> QED BY <1>2, <1>3

LEMMA CountingUp ==
  ASSUME NEW N \in Nat, NEW S, 0 \in S, \A n \in 0 .. N - 1 : n \in S => n + 1 \in S
  PROVE  \A n \in 0 .. N : n \in S
<1> DEFINE T == {n \in 0 .. N : n \notin S}
<1> SUFFICES ASSUME T # {} PROVE FALSE
  OBVIOUS
<1>1. T \in SUBSET Nat
  OBVIOUS
<1>2. PICK m \in T : \A k \in T : m <= k
  <2> HIDE DEF T
  <2> QED BY <1>1, LeastNat
<1>3. m # 0 /\ m \in 0 .. N
  BY <1>2
<1>4. m - 1 \in 0 .. N - 1 /\ ~ (m <= m - 1)
  BY <1>3
<1>5. m - 1 \notin T
  BY <1>2, <1>4
<1>6. m - 1 \in S /\ m - 1 + 1 = m
  BY <1>3, <1>4, <1>5
<1> QED BY <1>2, <1>4, <1>6

(* The function the ends are defined by exists. *)
EndsUpTo(s, n, f) ==
  f = [k \in 0 .. n |-> IF k = 0 THEN 0 ELSE f[k - 1] + SizeOfAttr(s[k])]

LEMMA EndsCount ==
  ASSUME NEW s, NEW N \in Nat, Len(s) = N, NEW end, end = EndsOf(s)
  PROVE  end[0] = 0 /\ \A k \in 1 .. N : end[k] = end[k - 1] + SizeOfAttr(s[k])
<1> DEFINE S == {n \in Nat : \E f : EndsUpTo(s, n, f)}
<1>1. 0 \in S
  <2>1. EndsUpTo(s, 0, [k \in 0 .. 0 |-> 0])
    BY DEF EndsUpTo
  <2> QED BY <2>1
<1>2. ASSUME NEW n \in 0 .. N - 1, n \in S PROVE n + 1 \in S
  <2>1. PICK f : EndsUpTo(s, n, f)
    BY <1>2
  <2> DEFINE next(e, k) == e + SizeOfAttr(s[k])
             h == [k \in 0 .. n + 1 |-> IF k = n + 1 THEN next(f[n], n + 1) ELSE f[k]]
  <2>2. ASSUME NEW k \in 0 .. n + 1
        PROVE  h[k] = IF k = 0 THEN 0 ELSE next(h[k - 1], k)
    <3>1. CASE k = n + 1
      <4>1. k # 0 /\ k - 1 = n /\ h[k - 1] = f[n]
        BY <3>1
      <4>2. h[k] = next(f[n], k)
        BY <3>1
      <4> QED BY <4>1, <4>2
    <3>2. CASE k # n + 1
      <4>0. k \in 0 .. n
        BY <3>2
      <4>1. f[k] = IF k = 0 THEN 0 ELSE next(f[k - 1], k)
        BY <2>1, <4>0 DEF EndsUpTo
      <4>2. h[k] = f[k] /\ (k # 0 => h[k - 1] = f[k - 1])
        BY <3>2, <4>0
      <4> HIDE DEF h
      <4> QED BY <4>1, <4>2
    <3> QED BY <3>1, <3>2
  <2>3. EndsUpTo(s, n + 1, h)
    BY <2>2 DEF EndsUpTo
  <2>4. n + 1 \in Nat
    OBVIOUS
  <2> HIDE DEF h
  <2> QED BY <2>3, <2>4
<1>3. N \in S
  <2> HIDE DEF S
  <2>1. \A n \in 0 .. N : n \in S
    BY <1>1, <1>2, CountingUp
  <2> QED BY <2>1
<1>4. end = CHOOSE f : EndsUpTo(s, N, f)
  BY DEF EndsOf, EndsUpTo
<1>5. EndsUpTo(s, N, end)
  BY <1>3, <1>4
<1>6. \A k \in 0 .. N : end[k] = IF k = 0 THEN 0 ELSE end[k - 1] + SizeOfAttr(s[k])
  BY <1>5 DEF EndsUpTo
<1> QED BY <1>6

(* Attributes follow each other: they end later and later, ... *)
LEMMA EndsGrow ==
  ASSUME NEW s, NEW N, Sized(s, N), NEW end, end = EndsOf(s)
  PROVE  /\ \A k \in 0 .. N : end[k] \in Nat
         /\ \A k \in 0 .. N : \A j \in 0 .. k : end[j] <= end[k]
<1>1. N \in Nat /\ Len(s) = N /\ \A k \in 1 .. N : SizeOfAttr(s[k]) \in Nat
  BY SizeOfIs DEF Sized
<1>2. end[0] = 0 /\ \A k \in 1 .. N : end[k] = end[k - 1] + SizeOfAttr(s[k])
  BY <1>1, EndsCount
<1> DEFINE S == {n \in Nat : \A j \in 0 .. n : end[j] \in Nat /\ end[j] <= end[n]}
<1>3. 0 \in S
  BY <1>2
<1>4. ASSUME NEW n \in 0 .. N - 1, n \in S PROVE n + 1 \in S
  <2>1. n + 1 \in 1 .. N /\ n + 1 - 1 = n
    BY <1>1
  <2>2. end[n + 1] = end[n] + SizeOfAttr(s[n + 1]) /\ SizeOfAttr(s[n + 1]) \in Nat
    BY <1>1, <1>2, <2>1
  <2>3. \A j \in 0 .. n : end[j] \in Nat /\ end[j] <= end[n]
    BY <1>4
  <2>4. ASSUME NEW j \in 0 .. n + 1 PROVE end[j] \in Nat /\ end[j] <= end[n + 1]
    <3> DEFINE z == SizeOfAttr(s[n + 1])
    <3>1. end[n + 1] = end[n] + z /\ z \in Nat /\ end[n] \in Nat
      BY <2>2, <2>3
    <3> HIDE DEF z
    <3>2. CASE j = n + 1
      BY <3>1, <3>2
    <3>3. CASE j \in 0 .. n
      BY <2>3, <3>1, <3>3
    <3> QED BY <3>2, <3>3
  <2> QED BY <2>1, <2>4
<1>5. \A n \in 0 .. N : n \in S
  <2> HIDE DEF S
  <2> QED BY <1>1, <1>3, <1>4, CountingUp
<1> QED BY <1>5

(* ... without gaps, ... *)
LEMMA EndsCover ==
  ASSUME NEW s, NEW N, Sized(s, N), NEW end, end = EndsOf(s),
         NEW x \in 0 .. end[N] - 1
  PROVE  \E k \in 1 .. N : x \in end[k - 1] .. end[k] - 1
<1>1. N \in Nat /\ Len(s) = N
  BY DEF Sized
<1>2. end[0] = 0 /\ \A k \in 0 .. N : end[k] \in Nat
  BY <1>1, EndsCount, EndsGrow
<1> DEFINE S == {n \in Nat : x < end[n] => \E k \in 1 .. n : x \in end[k - 1] .. end[k] - 1}
<1>3. 0 \in S
  BY <1>2
<1>4. ASSUME NEW n \in 0 .. N - 1, n \in S PROVE n + 1 \in S
  <2>1. n \in 0 .. N /\ n + 1 \in 0 .. N /\ n + 1 - 1 = n /\ n \in Nat
    BY <1>1
  <2>2. end[n] \in Nat /\ end[n + 1] \in Nat
    BY <1>2, <2>1
  <2>3. SUFFICES ASSUME x < end[n + 1] PROVE \E k \in 1 .. n + 1 : x \in end[k - 1] .. end[k] - 1
    BY <2>1
  <2>4. CASE x < end[n]
    BY <1>4, <2>1, <2>4
  <2>5. CASE ~ (x < end[n])
    <3>1. x \in end[n] .. end[n + 1] - 1
      BY <1>2, <2>2, <2>3, <2>5
    <3> QED BY <2>1, <3>1
  <2> QED BY <2>4, <2>5
<1>5. N \in S
  <2> HIDE DEF S
  <2>1. \A n \in 0 .. N : n \in S
    BY <1>1, <1>3, <1>4, CountingUp
  <2> QED BY <1>1, <2>1
<1>6. x < end[N]
  BY <1>1, <1>2
<1> QED BY <1>5, <1>6

(* ... and where each of them has a size that is a multiple of a unit, so   *)
(* has the place where the next one begins.                                 *)
LEMMA EndsAlign ==
  ASSUME NEW s, NEW N, Sized(s, N), NEW end, end = EndsOf(s), NEW u \in {1, 2, 4, 8},
         NEW m \in 0 .. N, \A k \in 1 .. m : SizeOfAttr(s[k]) % u = 0
  PROVE  end[m] % u = 0
<1>1. N \in Nat /\ Len(s) = N /\ \A k \in 1 .. N : SizeOfAttr(s[k]) \in Nat
  BY SizeOfIs DEF Sized
<1>2. end[0] = 0 /\ \A k \in 1 .. N : end[k] = end[k - 1] + SizeOfAttr(s[k])
  BY <1>1, EndsCount
<1>3. \A k \in 0 .. N : end[k] \in Nat
  BY EndsGrow
<1> DEFINE S == {n \in Nat : end[n] % u = 0}
<1>4. 0 \in S
  BY <1>2
<1>5. ASSUME NEW n \in 0 .. m - 1, n \in S PROVE n + 1 \in S
  <2>1. n + 1 \in 1 .. m /\ n + 1 \in 1 .. N /\ n \in 0 .. N /\ n + 1 - 1 = n
    BY <1>1
  <2> DEFINE y == end[n]
             z == SizeOfAttr(s[n + 1])
  <2>2. /\ y \in Nat /\ y % u = 0 /\ z \in Nat /\ z % u = 0
        /\ end[n + 1] = y + z
    BY <1>1, <1>2, <1>3, <1>5, <2>1
  <2> HIDE DEF y, z
  <2>3. (y + z) % u = 0
    BY <2>2
  <2> QED BY <2>1, <2>2, <2>3
<1>6. m \in S
  <2>1. m \in Nat
    BY <1>1
  <2> HIDE DEF S
  <2>2. \A n \in 0 .. m : n \in S
    BY <1>4, <1>5, <2>1, CountingUp
  <2> QED BY <2>1, <2>2
<1> QED BY <1>6

LEMMA LargestIs ==
  ASSUME NEW s, NEW N, Sized(s, N), NEW L, L = LargestElement(s)
  PROVE  L \in {1, 2, 4, 8} /\ \A k \in 1 .. N : TypeSize[s[k].type] <= L
<1> DEFINE S == {1} \cup {TypeSize[a.type] : a \in ToSet(s)}
<1>1. S \subseteq {0, 1, 2, 4, 8} /\ 1 \in S
  <2>1. ASSUME NEW a \in ToSet(s) PROVE TypeSize[a.type] \in {0, 1, 2, 4, 8}
    BY SizesAre DEF ToSet, Sized
  <2> QED BY <2>1
<1>2. \A k \in 1 .. N : TypeSize[s[k].type] \in S
  BY DEF ToSet, Sized
<1>3. L = CHOOSE x \in S : \A y \in S : x >= y
  BY DEF LargestElement, Max
<1> HIDE DEF S
<1>4. \E x \in S : \A y \in S : x >= y
  <2>1. CASE 8 \in S
    BY <1>1, <2>1
  <2>2. CASE 8 \notin S /\ 4 \in S
    BY <1>1, <2>2
  <2>3. CASE 8 \notin S /\ 4 \notin S /\ 2 \in S
    BY <1>1, <2>3
  <2>4. CASE 8 \notin S /\ 4 \notin S /\ 2 \notin S
    BY <1>1, <2>4
  <2> QED BY <2>1, <2>2, <2>3, <2>4
<1>5. L \in S /\ \A y \in S : L >= y
  BY <1>3, <1>4
<1>6. L \in {0, 1, 2, 4, 8} /\ L >= 1
  BY <1>1, <1>5
<1>7. L \in {1, 2, 4, 8}
  BY <1>6
<1>8. ASSUME NEW k \in 1 .. N PROVE TypeSize[s[k].type] <= L
  <2> DEFINE y == TypeSize[s[k].type]
  <2>1. y \in S
    BY <1>2
  <2> HIDE DEF y
  <2>2. y \in {0, 1, 2, 4, 8} /\ L >= y
    BY <1>1, <1>5, <2>1
  <2>3. y <= L
    BY <1>7, <2>2
  <2> QED BY <2>3 DEF y
<1> QED BY <1>7, <1>8

LEMMA RoundedIs ==
  ASSUME NEW n \in Nat, NEW L \in {1, 2, 4, 8}
  PROVE  /\ RoundUp(n, L) \in Nat /\ RoundUp(n, L) - n \in 0 .. L - 1
         /\ \A u \in {1, 2, 4, 8} : u <= L => RoundUp(n, L) % u = 0
<1>1. CASE L = 1
  BY <1>1 DEF RoundUp
<1>2. CASE L = 2
  BY <1>2 DEF RoundUp
<1>3. CASE L = 4
  BY <1>3 DEF RoundUp
<1>4. CASE L = 8
  BY <1>4 DEF RoundUp
<1> QED BY <1>1, <1>2, <1>3, <1>4

(* An element of size u or larger fills a multiple of u. *)
LEMMA LargerAreMultiples ==
  ASSUME NEW a, a.type \in DOMAIN TypeSize, a.count \in Nat, NEW u \in {1, 2, 4, 8},
         TypeSize[a.type] >= u
  PROVE  SizeOfAttr(a) % u = 0
<1> DEFINE z == TypeSize[a.type]
           c == a.count
<1>1. z \in {0, 1, 2, 4, 8} /\ c \in Nat /\ z >= u /\ SizeOfAttr(a) = z * c
  BY SizesAre DEF SizeOfAttr
<1> HIDE DEF z, c
<1>2. CASE z = 1
  BY <1>1, <1>2
<1>3. CASE z = 2
  BY <1>1, <1>3
<1>4. CASE z = 4
  BY <1>1, <1>4
<1>5. CASE z = 8
  BY <1>1, <1>5
<1> QED BY <1>1, <1>2, <1>3, <1>4, <1>5

(* The place of an attribute in the sorted sequence is taken by no other,   *)
(* and there are as many places as attributes.                              *)
LEMMA PlacesApart ==
  ASSUME NEW s, NEW N, Sized(s, N)
  PROVE  /\ \A k \in 1 .. N : SortedPlace(s, k) \in 1 .. N
         /\ \A j, k \in 1 .. N : Precedes(s, j, k) => SortedPlace(s, j) < SortedPlace(s, k)
<1>1. N \in Nat /\ DOMAIN s = 1 .. N /\ IsFiniteSet(1 .. N) /\ Cardinality(1 .. N) = N
  BY FS_Interval DEF Sized
<1>2. \A k \in 1 .. N : TypeSize[s[k].type] \in Nat
  BY SizesAre DEF Sized
<1> DEFINE ahead(k) == {j \in 1 .. N : Precedes(s, j, k)}
<1>3. ASSUME NEW k \in 1 .. N
      PROVE  /\ SortedPlace(s, k) = 1 + Cardinality(ahead(k))
             /\ IsFiniteSet(ahead(k)) /\ Cardinality(ahead(k)) \in 0 .. N - 1
  <2>1. k \notin ahead(k)
    BY <1>1, <1>2 DEF Precedes
  <2>2. ahead(k) \in SUBSET ((1 .. N) \ {k})
    BY <2>1
  <2>3. IsFiniteSet((1 .. N) \ {k}) /\ Cardinality((1 .. N) \ {k}) = N - 1
    BY <1>1, FS_RemoveElement
  <2>4. SortedPlace(s, k) = 1 + Cardinality(ahead(k))
    BY <1>1 DEF SortedPlace
  <2> HIDE DEF ahead
  <2>5. IsFiniteSet(ahead(k)) /\ Cardinality(ahead(k)) <= N - 1
    BY <2>2, <2>3, FS_Subset
  <2>6. Cardinality(ahead(k)) \in Nat
    BY <2>5, FS_CardinalityType
  <2> QED BY <1>1, <2>4, <2>5, <2>6
<1>4. ASSUME NEW j \in 1 .. N, NEW k \in 1 .. N, Precedes(s, j, k)
      PROVE  SortedPlace(s, j) < SortedPlace(s, k)
  <2>1. ahead(j) \in SUBSET ahead(k)
    BY <1>1, <1>2, <1>4 DEF Precedes
  <2>2. j \in ahead(k) /\ j \notin ahead(j)
    BY <1>1, <1>2, <1>4 DEF Precedes
  <2> HIDE DEF ahead
  <2>3. /\ Cardinality(ahead(j)) <= Cardinality(ahead(k))
        /\ Cardinality(ahead(j)) # Cardinality(ahead(k))
    BY <1>3, <2>1, <2>2, FS_Subset
  <2> QED BY <1>3, <2>3
<1> HIDE DEF ahead
<1>5. ASSUME NEW k \in 1 .. N PROVE SortedPlace(s, k) \in 1 .. N
  <2>1. PICK c : c = Cardinality(ahead(k))
    OBVIOUS
  <2>2. SortedPlace(s, k) = 1 + c /\ c \in 0 .. N - 1
    BY <1>3, <2>1
  <2>3. 1 + c \in 1 .. N
    BY <1>1, <2>2
  <2> QED BY <2>2, <2>3
<1> QED BY <1>4, <1>5

LEMMA PlacesFull ==
  ASSUME NEW s, NEW N, Sized(s, N)
  PROVE  \A p \in 1 .. N : \E k \in 1 .. N : SortedPlace(s, k) = p
<1>1. N \in Nat /\ IsFiniteSet(1 .. N)
  BY FS_Interval DEF Sized
<1>2. \A k \in 1 .. N : TypeSize[s[k].type] \in Nat
  BY SizesAre DEF Sized
<1> DEFINE f == [k \in 1 .. N |-> SortedPlace(s, k)]
<1>3. f \in [1 .. N -> 1 .. N]
  BY PlacesApart
<1>4. ASSUME NEW j \in 1 .. N, NEW k \in 1 .. N, j # k PROVE f[j] # f[k]
  <2>1. Precedes(s, j, k) \/ Precedes(s, k, j)
    BY <1>1, <1>2, <1>4 DEF Precedes
  <2>2. /\ f[j] = SortedPlace(s, j) /\ f[k] = SortedPlace(s, k)
        /\ f[j] \in 1 .. N /\ f[k] \in 1 .. N
    BY <1>3
  <2>3. f[j] < f[k] \/ f[k] < f[j]
    BY <2>1, <2>2, PlacesApart
  <2> HIDE DEF f
  <2> QED BY <2>2, <2>3
<1> HIDE DEF f
<1>5. f \in Injection(1 .. N, 1 .. N)
  BY <1>3, <1>4 DEF Injection, IsInjective
<1>6. f \in Surjection(1 .. N, 1 .. N)
  BY <1>1, <1>5, FS_Injection
<1>7. \A p \in 1 .. N : \E k \in 1 .. N : f[k] = p
  BY <1>6 DEF Surjection
<1> QED BY <1>7 DEF f

Over(r, N) == r = [p \in 1 .. N |-> r[p]]

(* Sorting keeps the attributes and puts larger elements first. *)
Sorts(s, N, r) ==
  /\ Over(r, N)
  /\ \A p \in 1 .. N : \E k \in 1 .. N : r[p] = s[k]
  /\ \A q \in 1 .. N : \A p \in 1 .. q : TypeSize[r[p].type] >= TypeSize[r[q].type]

LEMMA SortedIs ==
  ASSUME NEW s, NEW N, Sized(s, N)
  PROVE  Sorts(s, N, SortedBySize(s))
<1>0. PICK r : r = SortedBySize(s)
  OBVIOUS
<1>1. N \in Nat /\ DOMAIN s = 1 .. N
  BY DEF Sized
<1>2. \A k \in 1 .. N : TypeSize[s[k].type] \in Nat
  BY SizesAre DEF Sized
<1> DEFINE at(p) == CHOOSE k \in 1 .. N : SortedPlace(s, k) = p
<1>3. ASSUME NEW p \in 1 .. N PROVE at(p) \in 1 .. N /\ SortedPlace(s, at(p)) = p
  BY PlacesFull
<1>4. Over(r, N) /\ \A p \in 1 .. N : r[p] = s[at(p)]
  BY <1>0, <1>1 DEF SortedBySize, Over
<1> HIDE DEF at
<1>5. ASSUME NEW q \in 1 .. N, NEW p \in 1 .. q PROVE TypeSize[r[p].type] >= TypeSize[r[q].type]
  <2>1. p \in 1 .. N /\ p <= q
    BY <1>1
  <2>2. at(p) \in 1 .. N /\ at(q) \in 1 .. N
    BY <1>3, <2>1
  <2>3. ~ Precedes(s, at(q), at(p))
    <3>1. ~ (q < p)
      BY <1>1, <2>1
    <3> QED BY <1>3, <2>1, <2>2, <3>1, PlacesApart
  <2>4. ~ (TypeSize[s[at(q)].type] > TypeSize[s[at(p)].type])
    BY <2>3 DEF Precedes
  <2>5. TypeSize[s[at(p)].type] >= TypeSize[s[at(q)].type]
    BY <1>2, <2>2, <2>4
  <2> QED BY <1>4, <2>1, <2>5
<1>6. Sorts(s, N, r)
  BY <1>3, <1>4, <1>5 DEF Sorts
<1> QED BY <1>0, <1>6

Pack(a, e) == [a EXCEPT !.offset = e]

LEMMA PackIs ==
  ASSUME NEW a, {"type", "count", "offset"} \subseteq DOMAIN a, NEW e, NEW b, b = Pack(a, e)
  PROVE  b.type = a.type /\ b.count = a.count /\ b.offset = e
  BY DEF Pack

LEMMA PackedIs ==
  ASSUME NEW s, NEW N, Sized(s, N), NEW end, end = EndsOf(s), NEW p, p = Packed(s)
  PROVE  /\ p.size = end[N] /\ DOMAIN p.attrs = 1 .. N
         /\ \A k \in 1 .. N :
              /\ p.attrs[k].type = s[k].type /\ p.attrs[k].offset = end[k - 1]
              /\ Bytes(p.attrs[k]) = end[k - 1] .. end[k] - 1
<1>1. N \in Nat /\ DOMAIN s = 1 .. N /\ Len(s) = N
  BY DEF Sized
<1>2. p = [attrs |-> [k \in 1 .. N |-> Pack(s[k], end[k - 1])], size |-> end[N]]
  BY <1>1 DEF Packed, Pack
<1>3. /\ p.size = end[N] /\ DOMAIN p.attrs = 1 .. N
      /\ \A k \in 1 .. N : p.attrs[k] = Pack(s[k], end[k - 1])
  BY <1>2
<1>4. ASSUME NEW k \in 1 .. N
      PROVE  /\ p.attrs[k].type = s[k].type /\ p.attrs[k].offset = end[k - 1]
             /\ Bytes(p.attrs[k]) = end[k - 1] .. end[k] - 1
  <2>1. {"type", "count", "offset"} \subseteq DOMAIN s[k]
    BY DEF Sized
  <2>2. PICK b : b = p.attrs[k]
    OBVIOUS
  <2>3. b.type = s[k].type /\ b.count = s[k].count /\ b.offset = end[k - 1]
    BY <1>3, <2>1, <2>2, PackIs
  <2>4. SizeOfAttr(b) = SizeOfAttr(s[k])
    BY <2>3 DEF SizeOfAttr
  <2>5. end[k] = end[k - 1] + SizeOfAttr(s[k])
    BY <1>1, EndsCount
  <2>6. Bytes(b) = end[k - 1] .. end[k - 1] + SizeOfAttr(s[k]) - 1
    BY <2>3, <2>4 DEF Bytes
  <2>7. Bytes(b) = end[k - 1] .. end[k] - 1
    <3>1. k \in 0 .. N /\ k - 1 \in 0 .. N
      BY <1>1
    <3>2. end[k] \in Nat /\ end[k - 1] \in Nat
      BY <3>1, EndsGrow
    <3>3. SizeOfAttr(s[k]) \in Nat
      BY SizeOfIs DEF Sized
    <3> DEFINE x == end[k - 1]
               y == SizeOfAttr(s[k])
               z == end[k]
    <3>4. x \in Nat /\ y \in Nat /\ z = x + y /\ Bytes(b) = x .. x + y - 1
      BY <2>5, <2>6, <3>2, <3>3
    <3> HIDE DEF x, y, z
    <3>5. Bytes(b) = x .. z - 1
      BY <3>4
    <3> QED BY <3>5 DEF x, z
  <2> QED BY <2>2, <2>3, <2>7
<1> QED BY <1>3, <1>4

FirstThen(a, t) == <<a>> \o t

(* The time stamp stands before the fields of the user. *)
Heads(a, t, N, r) ==
  /\ DOMAIN r = 1 .. N + 1 /\ Len(r) = N + 1 /\ r[1] = a
  /\ \A k \in 1 .. N + 1 : k # 1 => k - 1 \in 1 .. N /\ r[k] = t[k - 1]

LEMMA Headed ==
  ASSUME NEW a, NEW N \in Nat, NEW t, Over(t, N)
  PROVE  Heads(a, t, N, FirstThen(a, t))
<1> DEFINE T == {t[k] : k \in 1 .. N} \cup {a}
           r == FirstThen(a, t)
<1>1. t \in [1 .. N -> T] /\ a \in T
  BY DEF Over
<1> HIDE DEF T
<1>2. t \in Seq(T) /\ <<a>> \in Seq(T)
  BY <1>1
<1>3. Len(t) = N
  BY <1>1, <1>2
<1>4. r \in Seq(T) /\ Len(r) = N + 1 /\ r[1] = a
  BY <1>2, <1>3 DEF FirstThen
<1>5. ASSUME NEW k \in 1 .. N + 1, k # 1 PROVE k - 1 \in 1 .. N /\ r[k] = t[k - 1]
  <2>1. PICK j \in 1 .. N : k = j + 1 /\ k - 1 = j
    BY <1>5
  <2> QED BY <1>2, <1>3, <2>1 DEF FirstThen
<1> HIDE DEF r
<1>6. Heads(a, t, N, r)
  BY <1>4, <1>5 DEF Heads
<1> QED BY <1>6 DEF r

(* What a rule's attributes and its size have to be. *)
Laid(rule, align) ==
  LET attrs == ToSet(rule.attrs)
      used  == UNION {Bytes(a) : a \in attrs}
  IN  /\ \A a, b \in attrs : a # b => Bytes(a) \cap Bytes(b) = {}
      /\ used = 0 .. Cardinality(used) - 1
      /\ IF align
           THEN /\ rule.size - Cardinality(used) \in 0 .. LargestElement(rule.attrs) - 1
                /\ \A a \in attrs : TypeSize[a.type] > 0 =>
                     a.offset % TypeSize[a.type] = 0 /\ rule.size % TypeSize[a.type] = 0
           ELSE rule.size = Cardinality(used)

LEMMA PackedIsLaid ==
  ASSUME NEW s, NEW N, Sized(s, N), NEW p, p = Packed(s), NEW rule, rule.attrs = p.attrs,
         NEW align \in BOOLEAN,
         rule.size = IF align THEN RoundUp(p.size, LargestElement(p.attrs)) ELSE p.size,
         align => \A k \in 1 .. N : \A j \in 1 .. k : TypeSize[s[j].type] >= TypeSize[s[k].type]
  PROVE  Laid(rule, align)
<1> DEFINE end == EndsOf(s)
           c == p.attrs
<1>1. /\ p.size = end[N] /\ DOMAIN c = 1 .. N
      /\ \A k \in 1 .. N :
           /\ c[k].type = s[k].type /\ c[k].offset = end[k - 1]
           /\ Bytes(c[k]) = end[k - 1] .. end[k] - 1
  BY PackedIs
<1>2. N \in Nat /\ \A k \in 0 .. N : end[k] \in Nat /\ \A j \in 0 .. k : end[j] <= end[k]
  BY EndsGrow DEF Sized
<1>3. end[0] = 0
  BY EndsCount DEF Sized
<1>4. \A x \in 0 .. end[N] - 1 : \E k \in 1 .. N : x \in end[k - 1] .. end[k] - 1
  BY EndsCover
<1>5. align => \A k \in 1 .. N, u \in {1, 2, 4, 8} : TypeSize[s[k].type] = u => end[k - 1] % u = 0
  <2> SUFFICES ASSUME align, NEW k \in 1 .. N, NEW u \in {1, 2, 4, 8}, TypeSize[s[k].type] = u
               PROVE  end[k - 1] % u = 0
    OBVIOUS
  <2>1. PICK m : m = k - 1
    OBVIOUS
  <2>2. m \in 0 .. N
    BY <1>2, <2>1
  <2>3. ASSUME NEW j \in 1 .. m PROVE SizeOfAttr(s[j]) % u = 0
    <3>1. j \in 1 .. k /\ j \in 1 .. N
      BY <1>2, <2>1
    <3>2. TypeSize[s[j].type] >= u
      BY <3>1
    <3>3. s[j].type \in DOMAIN TypeSize /\ s[j].count \in Nat
      BY <3>1 DEF Sized
    <3> QED BY <3>2, <3>3, LargerAreMultiples
  <2>4. end[m] % u = 0
    BY <2>2, <2>3, EndsAlign
  <2> QED BY <2>1, <2>4
<1>6. /\ LargestElement(c) \in {1, 2, 4, 8}
      /\ \A k \in 1 .. N : TypeSize[c[k].type] <= LargestElement(c)
      /\ LargestElement(c) = LargestElement(s)
  <2>1. ToSet(s) = {s[k] : k \in 1 .. N} /\ ToSet(c) = {c[k] : k \in 1 .. N}
    BY <1>1 DEF ToSet, Sized
  <2>2. {TypeSize[a.type] : a \in ToSet(c)} = {TypeSize[a.type] : a \in ToSet(s)}
    BY <1>1, <2>1
  <2>3. LargestElement(c) = LargestElement(s)
    BY <2>2 DEF LargestElement
  <2>4. /\ LargestElement(s) \in {1, 2, 4, 8}
        /\ \A k \in 1 .. N : TypeSize[s[k].type] <= LargestElement(s)
    BY LargestIs
  <2> QED BY <1>1, <2>3, <2>4
<1>7. \A k \in 1 .. N : TypeSize[c[k].type] \in {0, 1, 2, 4, 8}
  BY <1>1, SizesAre DEF Sized
<1> DEFINE attrs == ToSet(rule.attrs)
           used == UNION {Bytes(a) : a \in attrs}
<1>8. attrs = {c[k] : k \in 1 .. N}
  BY <1>1 DEF ToSet
<1> HIDE DEF end, c
<1>9. ASSUME NEW a \in attrs, NEW b \in attrs, a # b PROVE Bytes(a) \cap Bytes(b) = {}
  <2>1. PICK j \in 1 .. N, k \in 1 .. N : a = c[j] /\ b = c[k]
    BY <1>8
  <2>2. /\ j - 1 \in 0 .. N /\ k - 1 \in 0 .. N /\ j \in 0 .. N /\ k \in 0 .. N
        /\ Bytes(a) = end[j - 1] .. end[j] - 1 /\ Bytes(b) = end[k - 1] .. end[k] - 1
    BY <1>1, <1>2, <2>1
  <2>3. end[j - 1] \in Nat /\ end[k - 1] \in Nat /\ end[j] \in Nat /\ end[k] \in Nat
    BY <1>2, <2>2
  <2>4. CASE j < k
    <3>1. j \in 0 .. k - 1
      BY <2>2, <2>4
    <3>2. end[j] <= end[k - 1]
      BY <1>2, <2>2, <3>1
    <3> QED BY <2>2, <2>3, <3>2
  <2>5. CASE k < j
    <3>1. k \in 0 .. j - 1
      BY <2>2, <2>5
    <3>2. end[k] <= end[j - 1]
      BY <1>2, <2>2, <3>1
    <3> QED BY <2>2, <2>3, <3>2
  <2>6. j # k
    BY <1>9, <2>1
  <2> QED BY <1>2, <2>4, <2>5, <2>6
<1>10. used = 0 .. end[N] - 1
  <2>1. ASSUME NEW x \in used PROVE x \in 0 .. end[N] - 1
    <3>1. PICK k \in 1 .. N : x \in Bytes(c[k])
      BY <1>8
    <3>2. k - 1 \in 0 .. N /\ k \in 0 .. N /\ N \in 0 .. N
      BY <1>2
    <3>3. end[k - 1] \in Nat /\ end[k] \in Nat /\ end[N] \in Nat /\ end[k] <= end[N]
      BY <1>2, <3>2
    <3>4. x \in end[k - 1] .. end[k] - 1
      BY <1>1, <3>1
    <3> QED BY <3>3, <3>4
  <2>2. ASSUME NEW x \in 0 .. end[N] - 1 PROVE x \in used
    <3>1. PICK k \in 1 .. N : x \in Bytes(c[k])
      BY <1>1, <1>4
    <3> QED BY <1>8, <3>1
  <2> HIDE DEF used
  <2> QED BY <2>1, <2>2
<1>11. end[N] \in Nat
  BY <1>2
<1>12. Cardinality(used) = end[N]
  <2>1. Cardinality(0 .. end[N] - 1) = end[N]
    BY <1>11, FS_Interval
  <2> HIDE DEF used
  <2> QED BY <1>10, <2>1
<1>13. used = 0 .. Cardinality(used) - 1
  <2> HIDE DEF used
  <2> QED BY <1>10, <1>12
<1>14. CASE ~ align
  <2>1. rule.size = Cardinality(used)
    <3> HIDE DEF used
    <3> QED BY <1>1, <1>12, <1>14
  <2> QED BY <1>9, <1>13, <1>14, <2>1 DEF Laid
<1>15. CASE align
  <2> DEFINE L == LargestElement(c)
  <2>1. /\ rule.size = RoundUp(end[N], L) /\ L \in {1, 2, 4, 8}
        /\ LargestElement(rule.attrs) = L
    BY <1>1, <1>6, <1>15 DEF c
  <2> HIDE DEF L
  <2>2. /\ rule.size - end[N] \in 0 .. L - 1
        /\ \A u \in {1, 2, 4, 8} : u <= L => rule.size % u = 0
    <3>1. PICK n \in Nat : n = end[N]
      BY <1>11
    <3>2. /\ RoundUp(n, L) - n \in 0 .. L - 1
          /\ \A u \in {1, 2, 4, 8} : u <= L => RoundUp(n, L) % u = 0
      BY <2>1, RoundedIs
    <3> QED BY <2>1, <3>1, <3>2
  <2>3. ASSUME NEW a \in attrs, TypeSize[a.type] > 0
        PROVE  a.offset % TypeSize[a.type] = 0 /\ rule.size % TypeSize[a.type] = 0
    <3>1. PICK k \in 1 .. N : a = c[k]
      BY <1>8
    <3>2. PICK u : u = TypeSize[a.type]
      OBVIOUS
    <3>3. u \in {1, 2, 4, 8}
      <4>1. u \in {0, 1, 2, 4, 8} /\ u > 0
        BY <1>7, <2>3, <3>1, <3>2
      <4> QED BY <4>1
    <3>4. u <= L
      BY <1>6, <3>1, <3>2 DEF L
    <3>5. a.offset = end[k - 1] /\ TypeSize[s[k].type] = u
      BY <1>1, <3>1, <3>2
    <3>6. a.offset % u = 0
      BY <1>5, <1>15, <3>3, <3>5
    <3> QED BY <2>2, <3>2, <3>3, <3>4, <3>6
  <2>4. rule.size - Cardinality(used) \in 0 .. LargestElement(rule.attrs) - 1
    <3> HIDE DEF used
    <3> QED BY <1>12, <2>1, <2>2
  <2> QED BY <1>9, <1>13, <1>15, <2>3, <2>4 DEF Laid
<1> QED BY <1>14, <1>15

LEMMA PAttrIs ==
  ASSUME NEW field, field.type \in DOMAIN TypeSize, field.count \in Nat, NEW ids,
         NEW a, a = PAttr(field, ids)
  PROVE  /\ {"type", "count", "offset"} \subseteq DOMAIN a
         /\ a.type = field.type /\ a.type \in DOMAIN TypeSize /\ a.count \in Nat
<1>1. PICK id, bits :
        a = [id |-> id, type |-> field.type,
             count |-> IF field.defs = <<>> THEN field.count ELSE 1, bits |-> bits, offset |-> 0]
  BY DEF PAttr
<1> QED BY <1>1

(* Every rule is laid out soundly, in either layout. *)
LEMMA RulesAreLaid ==
  ASSUME NEW fields \in Seq(Fields), NEW align \in BOOLEAN, NEW ids, NEW rule,
         rule = InitRule(fields, align, ids)
  PROVE  Laid(rule, align)
<1> DEFINE user  == [k \in DOMAIN fields |-> PAttr(fields[k], ids)]
           first == PAttr(TimeStampField, ids)
           rest  == IF align THEN SortedBySize(user) ELSE user
           s     == FirstThen(first, rest)
           p     == Packed(s)
<1>1. PICK N \in Nat : N = Len(fields) /\ DOMAIN fields = 1 .. N
  OBVIOUS
<1>2. /\ {"type", "count", "offset"} \subseteq DOMAIN first
      /\ first.type = "Double" /\ first.type \in DOMAIN TypeSize /\ first.count \in Nat
  <2>1. PICK f : f = TimeStampField
    OBVIOUS
  <2>2. f.type = "Double" /\ f.type \in DOMAIN TypeSize /\ f.count \in Nat
    BY <2>1 DEF TimeStampField, Field, TypeSize
  <2>3. PICK a : a = PAttr(f, ids)
    OBVIOUS
  <2> QED BY <2>1, <2>2, <2>3, PAttrIs
<1>3. Sized(user, N) /\ Over(user, N)
  <2>1. ASSUME NEW k \in 1 .. N
        PROVE  /\ {"type", "count", "offset"} \subseteq DOMAIN user[k]
               /\ user[k].type \in DOMAIN TypeSize /\ user[k].count \in Nat
    <3>1. fields[k].type \in DOMAIN TypeSize /\ fields[k].count \in Nat
      <4>1. fields[k] \in Fields
        BY <1>1
      <4> QED BY <4>1 DEF Fields
    <3>2. user[k] = PAttr(fields[k], ids)
      BY <1>1
    <3> QED BY <3>1, <3>2, PAttrIs
  <2>2. user = [k \in 1 .. N |-> user[k]] /\ DOMAIN user = 1 .. N
    BY <1>1
  <2> HIDE DEF user
  <2>3. Len(user) = N
    <3> DEFINE T == {user[k] : k \in 1 .. N}
    <3>1. user \in [1 .. N -> T]
      BY <2>2
    <3> HIDE DEF T
    <3>2. user \in Seq(T)
      BY <3>1
    <3> QED BY <2>2, <3>1, <3>2
  <2> QED BY <2>1, <2>2, <2>3 DEF Sized, Over
<1> HIDE DEF user, first
<1>4. /\ Over(rest, N)
      /\ \A k \in 1 .. N : \E j \in 1 .. N : rest[k] = user[j]
      /\ align => \A k \in 1 .. N : \A j \in 1 .. k :
           TypeSize[rest[j].type] >= TypeSize[rest[k].type]
  <2>1. CASE align
    <3>1. PICK r : r = SortedBySize(user)
      OBVIOUS
    <3>2. rest = r
      BY <2>1, <3>1
    <3> HIDE DEF rest
    <3>3. /\ Over(r, N)
          /\ \A k \in 1 .. N : \E j \in 1 .. N : r[k] = user[j]
          /\ \A k \in 1 .. N : \A j \in 1 .. k : TypeSize[r[j].type] >= TypeSize[r[k].type]
      <4>1. Sorts(user, N, r)
        BY <1>3, <3>1, SortedIs
      <4> QED BY <4>1 DEF Sorts
    <3> QED BY <3>2, <3>3
  <2>2. CASE ~ align
    BY <1>3, <2>2
  <2> QED BY <2>1, <2>2
<1> HIDE DEF rest
<1>5. Heads(first, rest, N, s)
  BY <1>4, Headed
<1> HIDE DEF s
<1>6. /\ DOMAIN s = 1 .. N + 1 /\ Len(s) = N + 1 /\ s[1] = first
      /\ \A k \in 1 .. N + 1 : k # 1 => k - 1 \in 1 .. N /\ s[k] = rest[k - 1]
  BY <1>5 DEF Heads
<1>7. Sized(s, N + 1)
  <2>1. ASSUME NEW k \in 1 .. N + 1
        PROVE  /\ {"type", "count", "offset"} \subseteq DOMAIN s[k]
               /\ s[k].type \in DOMAIN TypeSize /\ s[k].count \in Nat
    <3>1. CASE k = 1
      BY <1>2, <1>6, <3>1
    <3>2. CASE k # 1
      <4>1. PICK j \in 1 .. N : s[k] = user[j]
        <5>1. PICK i \in 1 .. N : s[k] = rest[i]
          BY <1>6, <3>2
        <5>2. PICK j \in 1 .. N : rest[i] = user[j]
          BY <1>4
        <5> QED BY <5>1, <5>2
      <4> QED BY <1>3, <4>1 DEF Sized
    <3> QED BY <3>1, <3>2
  <2> QED BY <1>6, <2>1 DEF Sized
<1>8. align => \A k \in 1 .. N + 1 : \A j \in 1 .. k : TypeSize[s[j].type] >= TypeSize[s[k].type]
  <2> SUFFICES ASSUME align, NEW k \in 1 .. N + 1, NEW j \in 1 .. k
               PROVE  TypeSize[s[j].type] >= TypeSize[s[k].type]
    OBVIOUS
  <2>1. j \in 1 .. N + 1 /\ s[k].type \in DOMAIN TypeSize
    BY <1>7 DEF Sized
  <2>2. TypeSize[s[k].type] \in {0, 1, 2, 4, 8}
    BY <2>1, SizesAre
  <2>3. CASE j = 1
    <3>1. TypeSize["Double"] = 8
      BY DEF TypeSize
    <3>2. TypeSize[s[j].type] = 8
      BY <1>2, <1>6, <2>3, <3>1
    <3> QED BY <2>2, <3>2
  <2>4. CASE j # 1
    <3>1. k # 1 /\ j - 1 \in 1 .. k - 1
      BY <2>4
    <3>2. k - 1 \in 1 .. N /\ s[k] = rest[k - 1] /\ s[j] = rest[j - 1]
      BY <1>6, <2>1, <2>4, <3>1
    <3> QED BY <1>4, <3>1, <3>2
  <2> QED BY <2>3, <2>4
<1>9. /\ rule.attrs = p.attrs
      /\ rule.size = IF align THEN RoundUp(p.size, LargestElement(p.attrs)) ELSE p.size
  BY DEF InitRule, FirstThen, s, rest, user, first
<1> HIDE DEF p
<1>10. p = Packed(s)
  BY DEF p
<1> QED BY <1>7, <1>8, <1>9, <1>10, PackedIsLaid

(* Who has declared something has declared one of the declarations, and     *)
(* what was built of it is laid out soundly.                                *)
RuleOK(b) ==
  /\ {"pc", "decl", "rule", "got"} \subseteq DOMAIN b
  /\ b.pc # "idle" => b.decl \in Declarations
  /\ b.pc = "built" => Laid(b.rule, b.decl.align)

RulesInv == DOMAIN builder = Builders /\ \A t \in Builders : RuleOK(builder[t])

(* One thread's step. *)
LEMMA RulesFrame ==
  ASSUME RulesInv, NEW t \in Builders, DOMAIN builder' = Builders,
         \A u \in Builders \ {t} : builder'[u] = builder[u], RuleOK(builder'[t])
  PROVE  RulesInv'
  BY DEF RulesInv, RuleOK

LEMMA BuildStep ==
  ASSUME RulesInv, NEW t \in Builders, Build(t)
  PROVE  RulesInv'
<1> DEFINE b == builder[t]
           fields == b.decl.fields
           align == b.decl.align
           fit  == \A k \in DOMAIN fields : ~PlaceBits(fields[k]).fails
           rule == IF fit THEN InitRule(fields, align, IdsOf(t)) ELSE NoRule
<1>1. /\ b.pc = "find"
      /\ builder' = IF fit /\ ~rule.fails
                      THEN [builder EXCEPT ![t].pc = "built", ![t].rule = rule]
                      ELSE [builder EXCEPT ![t].pc = "failed"]
  BY DEF Build
<1>2. /\ DOMAIN builder = Builders /\ {"pc", "decl", "rule", "got"} \subseteq DOMAIN b
      /\ b.decl \in Declarations
  BY <1>1 DEF RulesInv, RuleOK
<1>3. fields \in Seq(Fields) /\ align \in BOOLEAN
  BY <1>2, DeclarationsAssumption
<1>4. PICK ids : ids = IdsOf(t)
  OBVIOUS
<1> HIDE DEF fit
<1>5. CASE fit /\ ~rule.fails
  <2>1. PICK r : r = InitRule(fields, align, ids)
    OBVIOUS
  <2>2. Laid(r, align)
    BY <1>3, <2>1, RulesAreLaid
  <2>3. builder' = [builder EXCEPT ![t].pc = "built", ![t].rule = r]
    BY <1>1, <1>4, <1>5, <2>1
  <2>4. /\ DOMAIN builder' = Builders /\ \A u \in Builders \ {t} : builder'[u] = builder[u]
        /\ DOMAIN builder'[t] = DOMAIN b /\ builder'[t].pc = "built"
        /\ builder'[t].rule = r /\ builder'[t].decl = b.decl
    BY <1>2, <2>3
  <2>5. RuleOK(builder'[t])
    BY <1>2, <2>2, <2>4 DEF RuleOK
  <2> QED BY <2>4, <2>5, RulesFrame
<1>6. CASE ~ (fit /\ ~rule.fails)
  <2>1. builder' = [builder EXCEPT ![t].pc = "failed"]
    BY <1>1, <1>6
  <2>2. /\ DOMAIN builder' = Builders /\ \A u \in Builders \ {t} : builder'[u] = builder[u]
        /\ DOMAIN builder'[t] = DOMAIN b /\ builder'[t].pc = "failed"
        /\ builder'[t].decl = b.decl
    BY <1>2, <2>1
  <2>3. RuleOK(builder'[t])
    BY <1>2, <2>2 DEF RuleOK
  <2> QED BY <2>2, <2>3, RulesFrame
<1> QED BY <1>5, <1>6

LEMMA AnswerStep ==
  ASSUME RulesInv, NEW t \in Builders, NEW id, Gets(t, id), builder[t].pc # "idle"
  PROVE  RulesInv'
<1> DEFINE b == builder[t]
<1>1. builder' = [builder EXCEPT ![t].got = Append(@, id), ![t].pc = "find"]
  BY DEF Gets
<1>2. DOMAIN builder = Builders /\ {"pc", "decl", "rule", "got"} \subseteq DOMAIN b
      /\ b.decl \in Declarations
  BY DEF RulesInv, RuleOK
<1>3. /\ DOMAIN builder' = Builders /\ \A u \in Builders \ {t} : builder'[u] = builder[u]
      /\ DOMAIN builder'[t] = DOMAIN b /\ builder'[t].pc = "find"
      /\ builder'[t].decl = b.decl
  BY <1>1, <1>2
<1>4. RuleOK(builder'[t])
  BY <1>2, <1>3 DEF RuleOK
<1> QED BY <1>3, <1>4, RulesFrame

LEMMA RulesStep ==
  ASSUME RulesInv, [SchemaNext]_schemaVars
  PROVE  RulesInv'
<1>1. ASSUME NEW t \in Builders, Declare(t) PROVE RulesInv'
  <2>1. PICK decl, want :
          /\ decl \in Declarations
          /\ builder' = [builder EXCEPT ![t].pc = "find", ![t].decl = decl, ![t].want = want]
    BY <1>1 DEF Declare
  <2>2. DOMAIN builder = Builders /\ {"pc", "decl", "rule", "got"} \subseteq DOMAIN builder[t]
    BY DEF RulesInv, RuleOK
  <2>3. /\ DOMAIN builder' = Builders /\ \A u \in Builders \ {t} : builder'[u] = builder[u]
        /\ DOMAIN builder'[t] = DOMAIN builder[t] /\ builder'[t].pc = "find"
        /\ builder'[t].decl = decl /\ decl \in Declarations
    BY <2>1, <2>2
  <2>4. RuleOK(builder'[t])
    BY <2>2, <2>3 DEF RuleOK
  <2> QED BY <2>3, <2>4, RulesFrame
<1>2. ASSUME NEW t \in Builders, Find(t) PROVE RulesInv'
  <2>1. builder[t].pc = "find"
    BY <1>2 DEF Find, LooksUp
  <2>2. (\E id : Gets(t, id)) \/ builder' = [builder EXCEPT ![t].pc = "insert"]
    BY <1>2 DEF Find
  <2>3. CASE \E id : Gets(t, id)
    BY <2>1, <2>3, AnswerStep
  <2>4. CASE builder' = [builder EXCEPT ![t].pc = "insert"]
    <3>1. /\ DOMAIN builder = Builders /\ {"pc", "decl", "rule", "got"} \subseteq DOMAIN builder[t]
          /\ builder[t].decl \in Declarations
      BY <2>1 DEF RulesInv, RuleOK
    <3>2. /\ DOMAIN builder' = Builders /\ \A u \in Builders \ {t} : builder'[u] = builder[u]
          /\ DOMAIN builder'[t] = DOMAIN builder[t] /\ builder'[t].pc = "insert"
          /\ builder'[t].decl = builder[t].decl
      BY <2>4, <3>1
    <3>3. RuleOK(builder'[t])
      BY <3>1, <3>2 DEF RuleOK
    <3> QED BY <3>2, <3>3, RulesFrame
  <2> QED BY <2>2, <2>3, <2>4
<1>3. ASSUME NEW t \in Builders, Insert(t) PROVE RulesInv'
  <2>1. builder[t].pc # "idle"
    BY <1>3 DEF Insert, LooksUp
  <2>2. \E id : Gets(t, id)
    BY <1>3 DEF Insert
  <2> QED BY <2>1, <2>2, AnswerStep
<1>4. CASE (\E t \in Builders : Open(t)) \/ WritesRecord \/ UNCHANGED schemaVars
  <2>1. UNCHANGED builder
    BY <1>4 DEF Open, WritesRecord, SetValue, SetBit, ClearRecord, Writes, schemaVars
  <2> QED BY <2>1 DEF RulesInv, RuleOK
<1> QED BY <1>1, <1>2, <1>3, <1>4, BuildStep DEF SchemaNext

LEMMA RulesInvariant == SchemaSpec => []RulesInv
<1>1. ASSUME SchemaInit PROVE RulesInv
  <2>1. builder = [t \in Builders |-> IdleBuilder]
    BY <1>1 DEF SchemaInit
  <2>2. RuleOK(IdleBuilder)
    BY DEF IdleBuilder, RuleOK
  <2> HIDE DEF IdleBuilder
  <2> QED BY <2>1, <2>2 DEF RulesInv
<1> QED BY <1>1, RulesStep, PTL DEF SchemaSpec

(* Whatever fields are declared, of any types and counts and in any order,  *)
(* they do not overlap and lie inside the record without gaps, and in the   *)
(* aligned layout every one, also of the next record in a buffer, stands at *)
(* a multiple of its element's size (RecRule.cpp:19-60).                    *)
THEOREM LayoutsAreSound == SchemaSpec => []LayoutIsSound
<1>1. RulesInv => LayoutIsSound
  BY DEF RulesInv, RuleOK, Laid, LayoutIsSound
<1> QED BY <1>1, RulesInvariant, PTL
=============================================================================
