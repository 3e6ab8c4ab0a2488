------------------------- MODULE CircularBufferSpec -------------------------
(***************************************************************************)
(* One CircularBuffer under every sequence of calls of its interface, with *)
(* the lifetime of the objects in its slots: "live" is the set of slots    *)
(* that hold a constructed object, "badDestroy" records that a destructor  *)
(* ran on a slot that held none.  "call" is the call that was made last, so*)
(* that its arguments can be told from its effect.                         *)
(***************************************************************************)
EXTENDS CircularBuffer

CONSTANTS Items,              \* values stored
          NoItem,              \* content of a slot never written
          MaxBulk,            \* bound: elements in one push_many
          MaxCapacity,        \* bound: largest capacity reserved
          TriviallyCopyable   \* is T trivially copyable (and destructible)?

ASSUME CircularBufferAssumption ==
  /\ NoItem \notin Items
  /\ MaxBulk \in Nat \ {0} /\ MaxCapacity \in Nat \ {0}
  /\ TriviallyCopyable \in BOOLEAN

VARIABLES cb, live, badDestroy, call

cbVars == <<cb, live, badDestroy, call>>

Sources == UNION {[1 .. n -> Items] : n \in 1 .. MaxBulk}

(* The physical slots of the elements at relative indices from .. to. *)
SlotsOf(rb, from, to) == {SlotOf(rb, k) : k \in from .. to}

Occupied(rb) == SlotsOf(rb, 0, rb.size - 1)

(* Run a destructor on each slot of D, then construct an object in each    *)
(* slot of C.                                                               *)
Lifetimes(D, C) ==
  /\ badDestroy' = (badDestroy \/ ~(D \subseteq live))
  /\ live' = (live \ D) \cup C

(* copy_chunk_logic: a non-trivial T has the destination destroyed before   *)
(* it is constructed anew; bytes are simply copied over.                    *)
Overwritten(target) == IF TriviallyCopyable THEN {} ELSE target

RingInit ==
  /\ \E c \in 1 .. MaxCapacity : cb = NewRing(c, NoItem)
  /\ live = {} /\ badDestroy = FALSE /\ call = <<"new">>

BulkPush(source) ==
  LET n      == MinOf(Len(source), cb.capacity)
      target == SlotsOf(cb, cb.size, cb.size + n - 1)
  IN  /\ cb' = PushMany(cb, source)
      /\ Lifetimes(Overwritten(target), target)
      /\ call' = <<"append", source>>

PushBack(item) ==
  LET target == {SlotOf(cb, cb.size)}
  IN  /\ cb' = EmplaceBack(cb, item)
      /\ Lifetimes(IF cb.size = cb.capacity THEN target ELSE {}, target)
      /\ call' = <<"append", <<item>>>>

(* Mutant of BulkPop: the removed elements are not destroyed. *)
BulkPopLeaky(n) ==
  /\ n <= cb.size
  /\ cb' = PopMany(cb, n)
  /\ UNCHANGED <<live, badDestroy>>
  /\ call' = <<"dropFront", n>>

BulkPop(n) ==
  /\ n <= cb.size
  /\ cb' = PopMany(cb, n)
  /\ Lifetimes(SlotsOf(cb, 0, n - 1), {})
  /\ call' = <<"dropFront", n>>

DropBack ==
  /\ cb.size > 0
  /\ cb' = PopBack(cb)
  /\ Lifetimes({SlotOf(cb, cb.size - 1)}, {})
  /\ call' = <<"dropBack">>

DropAll ==
  /\ cb' = Clear(cb)
  /\ Lifetimes(Occupied(cb), {})
  /\ call' = <<"clear">>

(* Growing moves the elements to fresh storage, where push_many finds no    *)
(* object alive; the old storage then dies with its elements.               *)
Regrow(n) ==
  /\ n > cb.capacity
  /\ cb' = Reserve(cb, n, NoItem)
  /\ live' = 0 .. cb.size - 1
  /\ badDestroy' = (badDestroy \/ ~(Occupied(cb) \subseteq live)
                      \/ Overwritten(0 .. cb.size - 1) # {})
  /\ call' = <<"reserve", n>>

(* Copy assignment through a temporary (copy-and-swap): same elements, the  *)
(* oldest one now in slot 0.                                                *)
Reassign ==
  /\ cb' = CopyOf(cb, NoItem)
  /\ live' = 0 .. cb.size - 1
  /\ badDestroy' = (badDestroy \/ ~(Occupied(cb) \subseteq live))
  /\ call' = <<"reserve", cb.capacity>>

RingNext ==
  \/ \E s \in Sources : BulkPush(s)
  \/ \E e \in Items : PushBack(e)
  \/ \E n \in 1 .. MaxCapacity : BulkPop(n)
  \/ DropBack
  \/ DropAll
  \/ \E n \in 1 .. MaxCapacity : Regrow(n)
  \/ Reassign

RingSpec == RingInit /\ [][RingNext]_cbVars
-----------------------------------------------------------------------------
Deque == INSTANCE BoundedDeque
           WITH items <- Contents(cb), limit <- cb.capacity, MaxLimit <- MaxCapacity

(* Every sequence of calls leaves the elements a bounded deque would hold:  *)
(* the ring arithmetic of push_many, reserve, pop and clear never loses,    *)
(* repeats or reorders an element, whatever the position of the head.       *)
ImplementsDeque == Deque!Spec

(* peek_many_at hands out exactly the elements asked for, for every range   *)
(* inside the container, also when the range wraps past the storage's end.  *)
PeekIsExact ==
  \A i \in 0 .. cb.size - 1 : \A n \in 1 .. cb.size - i :
    PeekManyAt(cb, i, n) = SubSeq(Contents(cb), i + 1, i + n)

(* Element lifetime (CircularBuffer.h:24): the slots that hold an object    *)
(* are exactly the occupied ones, and no destructor runs on an empty slot.  *)
LifetimeSound == live = Occupied(cb) /\ ~badDestroy
=============================================================================
