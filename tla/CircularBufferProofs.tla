------------------------- MODULE CircularBufferProofs -------------------------
(***************************************************************************)
(* Facts about the operators of CircularBuffer, for every capacity and     *)
(* every set of elements.                                                  *)
(***************************************************************************)
EXTENDS CircularBuffer, TLAPS

(* The minimum of two numbers is one of them and at most both.              *)
LEMMA MinOfType ==
  ASSUME NEW a \in Nat, NEW b \in Nat
  PROVE  /\ MinOf(a, b) \in Nat /\ MinOf(a, b) <= a /\ MinOf(a, b) <= b
         /\ MinOf(a, b) = a \/ MinOf(a, b) = b
  BY DEF MinOf

(* A remainder is an index of the storage.                                  *)
LEMMA ModInRing ==
  ASSUME NEW i \in Int, NEW n \in Nat \ {0}
  PROVE  i % n \in 0 .. n - 1
  BY SMT

(* A relative index is mapped to a slot of the storage. *)
LEMMA SlotInRing ==
  ASSUME NEW n \in Nat \ {0}, NEW S, NEW rb \in RingOf(n, S), NEW i \in Int
  PROVE  SlotOf(rb, i) \in 0 .. n - 1
<1>1. rb.capacity = n /\ rb.head + i \in Int
  BY DEF RingOf
<1> QED BY <1>1, ModInRing DEF SlotOf

(* What push_many keeps of its source fits the storage.                     *)
LEMMA SurvivorsType ==
  ASSUME NEW S, NEW s \in Seq(S), NEW n \in Nat
  PROVE  Survivors(s, n) \in Seq(S) /\ Len(Survivors(s, n)) = MinOf(Len(s), n)
  BY DEF Survivors, MinOf

(* Copying into the storage, in one run or two, leaves a full array.        *)
LEMMA CopyInType ==
  ASSUME NEW S, NEW n \in Nat \ {0}, NEW array \in [0 .. n - 1 -> S],
         NEW tail \in 0 .. n - 1, NEW s \in Seq(S), Len(s) <= n
  PROVE  CopyIn(array, n, tail, s) \in [0 .. n - 1 -> S]
  BY DEF CopyIn, MinOf

(* A new container is well formed.                                          *)
LEMMA NewRingType ==
  ASSUME NEW n \in Nat \ {0}, NEW S, NEW blank \in S
  PROVE  NewRing(n, blank) \in RingOf(n, S)
  BY DEF NewRing, RingOf

(* push_many keeps the container well formed, and fills it up to its        *)
(* capacity and no further.                                                 *)
LEMMA PushManyType ==
  ASSUME NEW n \in Nat \ {0}, NEW S, NEW rb \in RingOf(n, S), NEW s \in Seq(S)
  PROVE  /\ PushMany(rb, s) \in RingOf(n, S)
         /\ PushMany(rb, s).size = MinOf(rb.size + Len(s), n)
<1> DEFINE kept == Survivors(s, n)
           tail == (rb.head + rb.size) % n
<1>1. kept \in Seq(S) /\ Len(kept) = MinOf(Len(s), n) /\ Len(kept) <= n
  BY SurvivorsType DEF MinOf
<1>2. tail \in 0 .. n - 1
  <2>1. rb.head + rb.size \in Int
    BY DEF RingOf
  <2> QED BY <2>1, ModInRing
<1>3. CopyIn(rb.array, n, tail, kept) \in [0 .. n - 1 -> S]
  BY <1>1, <1>2, CopyInType DEF RingOf
<1>4. HeadAfterPush(rb, Len(kept)) \in 0 .. n - 1
  <2>1. rb.head + rb.size + Len(kept) - n \in Int
    BY <1>1 DEF RingOf
  <2>2. (rb.head + rb.size + Len(kept) - n) % n \in 0 .. n - 1
    BY <2>1, ModInRing
  <2> QED BY <2>2 DEF HeadAfterPush, RingOf
<1>5. /\ MinOf(rb.size + Len(kept), n) = MinOf(rb.size + Len(s), n)
      /\ MinOf(rb.size + Len(kept), n) \in 0 .. n
  BY <1>1 DEF MinOf, RingOf
<1>6. PushMany(rb, s) =
        [rb EXCEPT !.array = CopyIn(rb.array, n, tail, kept),
                   !.size  = MinOf(rb.size + Len(kept), n),
                   !.head  = HeadAfterPush(rb, Len(kept))]
  BY DEF PushMany, RingOf
<1> QED BY <1>3, <1>4, <1>5, <1>6 DEF RingOf

(* peek_many_at returns count elements of the container's storage, if its   *)
(* range does not exceed the container.                                     *)
LEMMA PeekManyAtType ==
  ASSUME NEW n \in Nat \ {0}, NEW S, NEW rb \in RingOf(n, S),
         NEW index \in Nat, NEW count \in Nat, index + count <= rb.size
  PROVE  PeekManyAt(rb, index, count) \in [1 .. count -> S]
<1> DEFINE start == SlotOf(rb, index)
<1>1. start \in 0 .. n - 1
  BY SlotInRing
<1>2. rb.capacity = n /\ rb.array \in [0 .. n - 1 -> S] /\ count <= n
  BY DEF RingOf
<1>3. CopyOut(rb.array, n, start, count) \in [1 .. count -> S]
  BY <1>1, <1>2 DEF CopyOut, MinOf
<1> QED BY <1>2, <1>3 DEF PeekManyAt
-----------------------------------------------------------------------------
(* An index in the first or second turn of the ring, as a slot. *)
Wrap(i, n) == IF i < n THEN i ELSE i - n

(* How many elements "m" more push out of a ring that holds "size". *)
Dropped(size, m, n) == IF size + m > n THEN size + m - n ELSE 0

(* An index at most one turn ahead is reduced by one subtraction.            *)
LEMMA ModOnce ==
  ASSUME NEW n \in Nat \ {0}, NEW i \in 0 .. 2 * n - 1
  PROVE  i % n = Wrap(i, n)
  BY SMT DEF Wrap

(* The slot of a relative index, without the remainder.                     *)
LEMMA SlotOnce ==
  ASSUME NEW n \in Nat \ {0}, NEW S, NEW rb \in RingOf(n, S), NEW k \in 0 .. n
  PROVE  SlotOf(rb, k) = Wrap(rb.head + k, n) /\ Wrap(rb.head + k, n) \in 0 .. n - 1
<1>1. rb.capacity = n /\ rb.head + k \in 0 .. 2 * n - 1
  BY DEF RingOf
<1>2. Wrap(rb.head + k, n) \in 0 .. n - 1
  BY <1>1 DEF Wrap
<1> QED BY <1>1, <1>2, ModOnce DEF SlotOf

(* The contents are a sequence of size elements, the k-th one found k - 1   *)
(* slots after the head.                                                    *)
LEMMA ContentsType ==
  ASSUME NEW n \in Nat \ {0}, NEW S, NEW rb \in RingOf(n, S)
  PROVE  /\ Contents(rb) \in Seq(S) /\ Len(Contents(rb)) = rb.size
         /\ \A k \in 1 .. rb.size :
              Contents(rb)[k] = rb.array[Wrap(rb.head + (k - 1), n)]
<1>1. rb.size \in 0 .. n /\ rb.array \in [0 .. n - 1 -> S]
  BY DEF RingOf
<1>2. ASSUME NEW k \in 1 .. rb.size
      PROVE  /\ Contents(rb)[k] = rb.array[SlotOf(rb, k - 1)]
             /\ SlotOf(rb, k - 1) \in 0 .. n - 1
             /\ SlotOf(rb, k - 1) = Wrap(rb.head + (k - 1), n)
  <2>1. k - 1 \in 0 .. n
    BY <1>1
  <2> QED BY <2>1, SlotOnce DEF Contents
<1>3. Contents(rb) \in [1 .. rb.size -> S]
  BY <1>1, <1>2 DEF Contents
<1>4. Contents(rb) \in Seq(S) /\ Len(Contents(rb)) = rb.size
  BY <1>1, <1>3
<1> QED BY <1>2, <1>4

(* What push_many keeps of its source is the source's end. *)
LEMMA SurvivorsAre ==
  ASSUME NEW S, NEW s \in Seq(S), NEW n \in Nat, NEW k \in 1 .. MinOf(Len(s), n)
  PROVE  Survivors(s, n)[k] = s[Len(s) - MinOf(Len(s), n) + k]
<1>1. MinOf(Len(s), n) \in Nat /\ MinOf(Len(s), n) <= Len(s)
  BY MinOfType
<1> QED BY <1>1, SMTT(30) DEF Survivors


(* push_many appends, and what no longer fits is dropped from the front:    *)
(* whatever the position of the head, however the two runs of the copy are  *)
(* split, and also when the source alone exceeds the capacity.              *)
LEMMA PushManyContents ==
  ASSUME NEW n \in Nat \ {0}, NEW S, NEW rb \in RingOf(n, S), NEW s \in Seq(S)
  PROVE  Contents(PushMany(rb, s)) = Survivors(Contents(rb) \o s, n)
<1> DEFINE R == PushMany(rb, s)
           all == Contents(rb) \o s
<1>1. PICK h \in 0 .. n - 1, z \in 0 .. n, len \in Nat, m \in 0 .. n, kept \in Seq(S) :
           /\ rb.head = h /\ rb.size = z /\ len = Len(s)
           /\ kept = Survivors(s, n) /\ m = Len(kept) /\ m = MinOf(len, n)
  BY SurvivorsType DEF RingOf, MinOf
<1>m. m = MinOf(len, n)
  BY <1>1
<1>2. rb.capacity = n /\ rb.array \in [0 .. n - 1 -> S]
  BY DEF RingOf
<1>3. PICK tail \in 0 .. n - 1, c \in Nat, d \in 0 .. z, head \in 0 .. n - 1,
           r \in 0 .. n :
           /\ tail = Wrap(h + z, n) /\ c = MinOf(m, n - tail) 
           /\ d = Dropped(z, m, n) /\ head = Wrap(h + d, n)
           /\ r = MinOf(z + m, n)
  <2>1. /\ Wrap(h + z, n) \in 0 .. n - 1 /\ MinOf(z + m, n) \in 0 .. n
        /\ Dropped(z, m, n) \in 0 .. z
    BY DEF Wrap, MinOf, Dropped
  <2>2. PICK tail \in 0 .. n - 1, d \in 0 .. z : tail = Wrap(h + z, n) /\ d = Dropped(z, m, n)
    BY <2>1
  <2>3. Wrap(h + d, n) \in 0 .. n - 1 /\ MinOf(m, n - tail) \in Nat
    BY DEF Wrap, MinOf
  <2> QED BY <2>1, <2>2, <2>3
<1>4. (h + z) % n = tail
  <2>1. h + z \in 0 .. 2 * n - 1
    OBVIOUS
  <2> QED BY <2>1, <1>3, ModOnce
<1>5. HeadAfterPush(rb, m) = head
  <2>1. h + d \in 0 .. 2 * n - 1
    OBVIOUS
  <2>2. (h + d) % n = head
    BY <2>1, <1>3, ModOnce
  <2>3. CASE z + m > n
    <3>1. HeadAfterPush(rb, m) = (h + z + m - n) % n
      BY <2>3, <1>1, <1>2 DEF HeadAfterPush
    <3>2. h + z + m - n = h + d
      BY <2>3, <1>3 DEF Dropped
    <3> QED BY <3>1, <3>2, <2>2
  <2>4. CASE ~(z + m > n)
    BY <2>4, <1>1, <1>2, <1>3 DEF HeadAfterPush, Dropped, Wrap
  <2> QED BY <2>3, <2>4
<1>6. /\ R \in RingOf(n, S) /\ R.size = r /\ R.head = head
      /\ R.array = CopyIn(rb.array, n, tail, kept)
  <2>1. PushMany(rb, s) =
        [rb EXCEPT !.array = CopyIn(rb.array, n, (h + z) % n, kept),
                   !.size  = MinOf(z + m, n),
                   !.head  = HeadAfterPush(rb, m)]
    BY <1>1, <1>2 DEF PushMany
  <2>2. R \in RingOf(n, S)
    BY PushManyType
  <2> QED BY <2>1, <2>2, <1>3, <1>4, <1>5 DEF RingOf
<1> HIDE DEF R
<1>7. /\ Contents(rb) \in Seq(S) /\ Len(Contents(rb)) = z
      /\ all \in Seq(S) /\ Len(all) = z + len
  <2>1. Contents(rb) \in Seq(S) /\ Len(Contents(rb)) = z
    BY ContentsType, <1>1
  <2> QED BY <2>1, <1>1, SMTT(30)
<1>8. /\ Survivors(all, n) \in Seq(S) /\ Len(Survivors(all, n)) = r
      /\ MinOf(z + len, n) = r
  <2>1. MinOf(z + len, n) = r
    BY <1>1, <1>3 DEF MinOf
  <2> HIDE DEF all
  <2> QED BY <2>1, <1>7, SurvivorsType
<1>9. Contents(R) \in Seq(S) /\ Len(Contents(R)) = r
  BY <1>6, ContentsType
<1>10. ASSUME NEW k \in 1 .. r
       PROVE  Contents(R)[k] = Survivors(all, n)[k]
  <2>1. PICK i \in 0 .. n - 1 : i = Wrap(head + (k - 1), n)
    <3>1. Wrap(head + (k - 1), n) \in 0 .. n - 1
      BY DEF Wrap
    <3> QED BY <3>1
  <2>2. PICK p \in 1 .. z + len : p = z + len - r + k
    <3>1. z + len - r + k \in 1 .. z + len
      BY <1>m, <1>3 DEF MinOf
    <3> QED BY <3>1
  <2>3. Contents(R)[k] = R.array[i]
    BY <1>6, <2>1, ContentsType
  <2>4. Survivors(all, n)[k] = all[p]
    <3> HIDE DEF all
    <3>1. k \in 1 .. MinOf(Len(all), n)
      BY <1>7, <1>8
    <3>2. Survivors(all, n)[k] = all[Len(all) - MinOf(Len(all), n) + k]
      BY <3>1, <1>7, SurvivorsAre
    <3> QED BY <3>2, <1>7, <1>8, <2>2
  <2>5. R.array[i] = IF tail <= i /\ i < tail + c THEN kept[(i - tail) + 1]
                     ELSE IF i < m - c THEN kept[c + i + 1]
                     ELSE rb.array[i]
    BY <1>1, <1>3, <1>6 DEF CopyIn
  <2>6. CASE d + k <= z
    <3>1. p = d + k /\ p \in 1 .. z
      BY <2>6, <2>2, <1>m, <1>3 DEF Dropped, MinOf
    <3>2. i = Wrap(h + (p - 1), n)
      <4>1. Wrap(Wrap(h + d, n) + (k - 1), n) = Wrap(h + ((d + k) - 1), n)
        BY <2>6 DEF Wrap
      <4> QED BY <4>1, <3>1, <2>1, <1>3
    <3>3. ~(tail <= i /\ i < tail + c) /\ ~(i < m - c)
      BY <3>1, <3>2, <2>6, <1>3 DEF Wrap, MinOf, Dropped
    <3>4. all[p] = Contents(rb)[p]
      BY <3>1, <1>1, <1>7
    <3>5. Contents(rb)[p] = rb.array[i]
      BY <3>1, <3>2, <1>1, ContentsType
    <3> QED BY <2>3, <2>4, <2>5, <3>3, <3>4, <3>5
  <2>7. CASE d + k > z
    <3>1. PICK q \in 1 .. m : q = d + k - z
      BY <2>7, <1>3 DEF Dropped, MinOf
    <3>2. /\ p > z /\ p - z = len - m + q
      BY <2>7, <3>1, <2>2, <1>m, <1>3 DEF Dropped, MinOf
    <3>3. kept[q] = s[len - m + q]
      <4>1. q \in 1 .. MinOf(Len(s), n)
        BY <1>1
      <4>2. Survivors(s, n)[q] = s[Len(s) - MinOf(Len(s), n) + q]
        BY <4>1, SurvivorsAre
      <4> QED BY <4>2, <1>1
    <3>4. all[p] = s[p - z]
      <4>1. /\ Contents(rb) \in Seq(S) /\ Len(Contents(rb)) = z /\ Len(s) = len
        BY <1>1, <1>7
      <4> HIDE DEF R
      <4> QED BY <3>2, <4>1
    <3>5. R.array[i] = kept[q]
      <4>1. CASE tail <= i /\ i < tail + c
        <5>1. (i - tail) + 1 = q
          BY <4>1, <3>1, <2>1, <2>7, <1>3 DEF Wrap, Dropped, MinOf
        <5> QED BY <5>1, <4>1, <2>5
      <4>2. CASE ~(tail <= i /\ i < tail + c)
        <5>1. i < m - c /\ c + i + 1 = q
          BY <4>2, <3>1, <2>1, <2>7, <1>3 DEF Wrap, Dropped, MinOf
        <5> QED BY <5>1, <4>2, <2>5
      <4> QED BY <4>1, <4>2
    <3> QED BY <2>3, <2>4, <3>2, <3>3, <3>4, <3>5
  <2> QED BY <2>6, <2>7
<1> HIDE DEF all
<1> QED BY <1>8, <1>9, <1>10 DEF R, all

(* peek_many_at returns the elements index .. index + count - 1, also when   *)
(* the range wraps past the end of the storage.                             *)
LEMMA PeekManyAtIs ==
  ASSUME NEW n \in Nat \ {0}, NEW S, NEW rb \in RingOf(n, S),
         NEW index \in Nat, NEW count \in Nat, index + count <= rb.size
  PROVE  PeekManyAt(rb, index, count) = SubSeq(Contents(rb), index + 1, index + count)
<1>1. PICK h \in 0 .. n - 1, z \in 0 .. n : rb.head = h /\ rb.size = z
  BY DEF RingOf
<1>2. PICK start \in 0 .. n - 1 : start = SlotOf(rb, index) /\ start = Wrap(h + index, n)
  <2>1. index \in 0 .. n
    BY <1>1
  <2> QED BY <2>1, <1>1, SlotOnce
<1>3. PICK c \in Nat : c = MinOf(count, n - start)
  BY MinOfType
<1>4. PeekManyAt(rb, index, count) = [k \in 1 .. count |->
         IF k <= c THEN rb.array[start + k - 1] ELSE rb.array[k - c - 1]]
  BY <1>2, <1>3 DEF PeekManyAt, CopyOut, RingOf
<1>5. Contents(rb) \in Seq(S) /\ Len(Contents(rb)) = z
  BY ContentsType, <1>1
<1>6. SubSeq(Contents(rb), index + 1, index + count) = [k \in 1 .. count |-> Contents(rb)[index + k]]
  BY <1>5, <1>1
<1>7. ASSUME NEW k \in 1 .. count
      PROVE  (IF k <= c THEN rb.array[start + k - 1] ELSE rb.array[k - c - 1])
               = Contents(rb)[index + k]
  <2>1. PICK p \in 1 .. z : p = index + k
    BY <1>1
  <2>2. Contents(rb)[p] = rb.array[Wrap(h + (p - 1), n)]
    BY <1>1, ContentsType
  <2>3. (IF k <= c THEN start + k - 1 ELSE k - c - 1) = Wrap(h + (p - 1), n)
    BY <2>1, <1>1, <1>2, <1>3 DEF MinOf, Wrap
  <2> QED BY <2>1, <2>2, <2>3
<1> QED BY <1>4, <1>6, <1>7

(* The oldest element is in the head's slot and the slot behind the newest  *)
(* one is where the next goes in: emplace_back appends one element, in a    *)
(* full container at the expense of the oldest.                             *)
LEMMA EmplaceBackIs ==
  ASSUME NEW n \in Nat \ {0}, NEW S, NEW rb \in RingOf(n, S), NEW x \in S
  PROVE  /\ EmplaceBack(rb, x) \in RingOf(n, S)
         /\ Contents(EmplaceBack(rb, x)) = Survivors(Contents(rb) \o <<x>>, n)
<1> DEFINE R == EmplaceBack(rb, x)
           all == Contents(rb) \o <<x>>
<1>1. PICK h \in 0 .. n - 1, z \in 0 .. n, array \in [0 .. n - 1 -> S] :
           /\ rb.head = h /\ rb.size = z /\ rb.array = array /\ rb.capacity = n
  BY DEF RingOf
<1>2. PICK tail \in 0 .. n - 1 : tail = Wrap(h + z, n) /\ (h + z) % n = tail
  <2>1. /\ SlotOf(rb, z) = Wrap(rb.head + z, n)
        /\ Wrap(rb.head + z, n) \in 0 .. n - 1
    BY SlotOnce
  <2> QED BY <2>1, <1>1 DEF SlotOf
<1>3. PICK head \in 0 .. n - 1, r \in 0 .. n, d \in 0 .. 1 :
           /\ d = (IF z = n THEN 1 ELSE 0) /\ head = Wrap(h + d, n)
           /\ r = (IF z = n THEN n ELSE z + 1)
  <2>1. CASE z = n
    <3>1. Wrap(h + 1, n) \in 0 .. n - 1
      BY DEF Wrap
    <3> QED BY <3>1, <2>1
  <2>2. CASE z # n
    <3>1. Wrap(h + 0, n) \in 0 .. n - 1 /\ z + 1 \in 0 .. n
      BY <2>2 DEF Wrap
    <3> QED BY <3>1, <2>2
  <2> QED BY <2>1, <2>2
<1>4. /\ R \in RingOf(n, S) /\ R.size = r /\ R.head = head
      /\ R.array = [array EXCEPT ![tail] = x]
  <2>1. CASE z = n
    <3>1. 1 \in 0 .. n /\ d = 1
      BY <2>1, <1>3
    <3>2. (h + 1) % n = head
      BY <3>1, <1>1, <1>3, SlotOnce, ZenonT(60) DEF SlotOf
    <3>3. R = [rb EXCEPT !.array = [array EXCEPT ![tail] = x], !.head = head]
      BY <1>1, <1>2, <3>2, <2>1 DEF EmplaceBack
    <3>4. [array EXCEPT ![tail] = x] \in [0 .. n - 1 -> S]
      OBVIOUS
    <3>5. r = z
      BY <2>1, <1>3
    <3> HIDE DEF R
    <3> QED BY <3>3, <3>4, <3>5, <1>1 DEF RingOf
  <2>2. CASE z # n
    <3>1. head = h
      BY <2>2, <1>3 DEF Wrap
    <3>2. R = [rb EXCEPT !.array = [array EXCEPT ![tail] = x], !.size = z + 1]
      BY <1>1, <1>2, <2>2 DEF EmplaceBack
    <3>3. [array EXCEPT ![tail] = x] \in [0 .. n - 1 -> S]
      OBVIOUS
    <3>4. r = z + 1
      BY <2>2, <1>3
    <3> HIDE DEF R
    <3> QED BY <3>1, <3>2, <3>3, <3>4, <1>1 DEF RingOf
  <2> QED BY <2>1, <2>2
<1> HIDE DEF R
<1>5. /\ Contents(rb) \in Seq(S) /\ Len(Contents(rb)) = z
      /\ all \in Seq(S) /\ Len(all) = z + 1
  <2>1. Contents(rb) \in Seq(S) /\ Len(Contents(rb)) = z
    BY ContentsType, <1>1
  <2> QED BY <2>1
<1>6. /\ Survivors(all, n) \in Seq(S) /\ Len(Survivors(all, n)) = r
      /\ MinOf(z + 1, n) = r
  <2>1. MinOf(z + 1, n) = r
    BY <1>3 DEF MinOf
  <2> HIDE DEF all
  <2> QED BY <2>1, <1>5, SurvivorsType
<1>7. Contents(R) \in Seq(S) /\ Len(Contents(R)) = r
  BY <1>4, ContentsType
<1>8. ASSUME NEW k \in 1 .. r
      PROVE  Contents(R)[k] = Survivors(all, n)[k]
  <2>1. PICK i \in 0 .. n - 1 : i = Wrap(head + (k - 1), n)
    <3>1. Wrap(head + (k - 1), n) \in 0 .. n - 1
      BY DEF Wrap
    <3> QED BY <3>1
  <2>2. PICK p \in 1 .. z + 1 : p = d + k /\ p = z + 1 - r + k
    <3>1. d + k \in 1 .. z + 1 /\ d + k = z + 1 - r + k
      BY <1>3
    <3> QED BY <3>1
  <2>3. Contents(R)[k] = [array EXCEPT ![tail] = x][i]
    <3>1. R \in RingOf(n, S)
      BY <1>4
    <3>2. \A j \in 1 .. R.size : Contents(R)[j] = R.array[Wrap(R.head + (j - 1), n)]
      BY <3>1, ContentsType
    <3> QED BY <3>2, <1>4, <2>1
  <2>4. Survivors(all, n)[k] = all[p]
    <3> HIDE DEF all
    <3>1. k \in 1 .. MinOf(Len(all), n)
      BY <1>5, <1>6
    <3>2. Survivors(all, n)[k] = all[Len(all) - MinOf(Len(all), n) + k]
      BY <3>1, <1>5, SurvivorsAre
    <3>3. Len(all) - MinOf(Len(all), n) + k = p
      BY <1>5, <1>6, <2>2
    <3> QED BY <3>2, <3>3
  <2>5. i = Wrap(h + (p - 1), n)
    <3>1. CASE h + d < n
      BY <3>1, <2>1, <2>2, <1>3 DEF Wrap
    <3>2. CASE ~(h + d < n)
      BY <3>2, <2>1, <2>2, <1>3 DEF Wrap
    <3> QED BY <3>1, <3>2
  <2>6. CASE p <= z
    <3>1. i # tail
      <4>1. Wrap(h + (p - 1), n) # Wrap(h + z, n)
        <5>1. z - (p - 1) < n
          BY <2>2, <1>3
        <5> QED BY <5>1, <2>6 DEF Wrap
      <4> QED BY <4>1, <2>5, <1>2
    <3>2. all[p] = Contents(rb)[p]
      BY <2>6, <1>5
    <3>3. Contents(rb)[p] = array[i]
      BY <2>5, <2>6, <1>1, ContentsType
    <3> QED BY <2>3, <2>4, <3>1, <3>2, <3>3
  <2>7. CASE p = z + 1
    <3>1. i = tail
      BY <2>5, <2>7, <1>2 DEF Wrap
    <3>2. all[p] = x
      BY <2>7, <1>5
    <3> QED BY <2>3, <2>4, <3>1, <3>2
  <2> QED BY <2>6, <2>7
<1> HIDE DEF all
<1> QED BY <1>4, <1>6, <1>7, <1>8 DEF R, all

(* pop_many removes the oldest elements and moves no other. *)
LEMMA PopManyIs ==
  ASSUME NEW n \in Nat \ {0}, NEW S, NEW rb \in RingOf(n, S),
         NEW c \in Nat, c <= rb.size
  PROVE  /\ PopMany(rb, c) \in RingOf(n, S)
         /\ Contents(PopMany(rb, c)) = SubSeq(Contents(rb), c + 1, rb.size)
<1> DEFINE R == PopMany(rb, c)
<1>1. PICK h \in 0 .. n - 1, z \in 0 .. n, array \in [0 .. n - 1 -> S] :
           /\ rb.head = h /\ rb.size = z /\ rb.array = array /\ rb.capacity = n
  BY DEF RingOf
<1>2. PICK head \in 0 .. n - 1 : head = Wrap(h + c, n) /\ (h + c) % n = head
  <2>1. c \in 0 .. n
    BY <1>1
  <2>2. /\ SlotOf(rb, c) = Wrap(rb.head + c, n)
        /\ Wrap(rb.head + c, n) \in 0 .. n - 1
    BY <2>1, SlotOnce
  <2> QED BY <2>2, <1>1 DEF SlotOf
<1>3. /\ R \in RingOf(n, S) /\ R.size = z - c /\ R.head = head /\ R.array = array
  <2>1. z - c \in 0 .. n
    BY <1>1
  <2>2. R = [rb EXCEPT !.head = (h + c) % n, !.size = z - c]
    BY <1>1 DEF PopMany
  <2> HIDE DEF R
  <2> QED BY <2>1, <2>2, <1>1, <1>2 DEF RingOf
<1> HIDE DEF R
<1>4. Contents(rb) \in Seq(S) /\ Len(Contents(rb)) = z
  BY ContentsType, <1>1
<1>5. Contents(R) \in Seq(S) /\ Len(Contents(R)) = z - c
  BY <1>3, ContentsType
<1>6. SubSeq(Contents(rb), c + 1, z) = [k \in 1 .. z - c |-> Contents(rb)[c + k]]
  BY <1>4, <1>1
<1>7. ASSUME NEW k \in 1 .. z - c
      PROVE  Contents(R)[k] = Contents(rb)[c + k]
  <2>1. PICK p \in 1 .. z : p = c + k
    BY <1>1
  <2>2. Contents(rb)[p] = array[Wrap(h + (p - 1), n)]
    <3>1. \A j \in 1 .. rb.size : Contents(rb)[j] = rb.array[Wrap(rb.head + (j - 1), n)]
      BY ContentsType
    <3> QED BY <3>1, <1>1
  <2>3. Contents(R)[k] = array[Wrap(head + (k - 1), n)]
    BY <1>3, ContentsType
  <2>4. Wrap(head + (k - 1), n) = Wrap(h + (p - 1), n)
    <3>1. CASE h + c < n
      BY <3>1, <2>1, <1>2 DEF Wrap
    <3>2. CASE ~(h + c < n)
      BY <3>2, <2>1, <1>1, <1>2 DEF Wrap
    <3> QED BY <3>1, <3>2
  <2> QED BY <2>1, <2>2, <2>3, <2>4
<1> QED BY <1>1, <1>3, <1>5, <1>6, <1>7 DEF R

(* pop_back removes the newest element. *)
LEMMA PopBackIs ==
  ASSUME NEW n \in Nat \ {0}, NEW S, NEW rb \in RingOf(n, S), rb.size > 0
  PROVE  /\ PopBack(rb) \in RingOf(n, S)
         /\ Contents(PopBack(rb)) = SubSeq(Contents(rb), 1, rb.size - 1)
<1> DEFINE R == PopBack(rb)
<1>1. PICK h \in 0 .. n - 1, z \in 1 .. n : rb.head = h /\ rb.size = z
  BY DEF RingOf
<1>2. R \in RingOf(n, S) /\ R.size = z - 1 /\ R.head = h /\ R.array = rb.array
  BY <1>1 DEF PopBack, RingOf
<1> HIDE DEF R
<1>3. Contents(rb) \in Seq(S) /\ Len(Contents(rb)) = z
  BY ContentsType, <1>1
<1>4. Contents(R) \in Seq(S) /\ Len(Contents(R)) = z - 1
  BY <1>2, ContentsType
<1>5. ASSUME NEW k \in 1 .. z - 1
      PROVE  Contents(R)[k] = Contents(rb)[k]
  <2>1. k \in 1 .. z
    OBVIOUS
  <2>2. Contents(rb)[k] = rb.array[Wrap(h + (k - 1), n)]
    BY <2>1, <1>1, ContentsType
  <2>3. Contents(R)[k] = rb.array[Wrap(h + (k - 1), n)]
    BY <1>2, ContentsType, ZenonT(60)
  <2> QED BY <2>2, <2>3
<1>6. SubSeq(Contents(rb), 1, z - 1) = [k \in 1 .. z - 1 |-> Contents(rb)[k]]
  BY <1>3
<1> QED BY <1>1, <1>2, <1>4, <1>5, <1>6 DEF R

(* clear leaves nothing. *)
LEMMA ClearIs ==
  ASSUME NEW n \in Nat \ {0}, NEW S, NEW rb \in RingOf(n, S)
  PROVE  /\ Clear(rb) \in RingOf(n, S) /\ Clear(rb).size = 0
         /\ Contents(Clear(rb)) = <<>>
<1>1. Clear(rb) \in RingOf(n, S) /\ Clear(rb).size = 0
  <2>1. CASE rb.size = 0
    BY <2>1 DEF Clear
  <2>2. CASE rb.size # 0
    <3>1. Clear(rb) = [rb EXCEPT !.head = 0, !.size = 0]
      BY <2>2 DEF Clear
    <3>2. 0 \in 0 .. n - 1 /\ 0 \in 0 .. n
      OBVIOUS
    <3> QED BY <3>1, <3>2 DEF RingOf
  <2> QED BY <2>1, <2>2
<1>2. Contents(Clear(rb)) \in Seq(S) /\ Len(Contents(Clear(rb))) = 0
  BY <1>1, ContentsType
<1> QED BY <1>1, <1>2

(* A new container holds nothing. *)
LEMMA NewRingIs ==
  ASSUME NEW n \in Nat \ {0}, NEW S, NEW blank \in S
  PROVE  Contents(NewRing(n, blank)) = <<>> /\ NewRing(n, blank).head = 0
<1>1. NewRing(n, blank) \in RingOf(n, S)
  BY NewRingType
<1>2. NewRing(n, blank).size = 0 /\ NewRing(n, blank).head = 0
  BY DEF NewRing
<1>3. /\ Contents(NewRing(n, blank)) \in Seq(S) /\ Len(Contents(NewRing(n, blank))) = 0
  BY <1>1, <1>2, ContentsType
<1> QED BY <1>2, <1>3

(* What fits is kept whole. *)
LEMMA SurvivorsOfFew ==
  ASSUME NEW S, NEW s \in Seq(S), NEW n \in Nat, Len(s) <= n
  PROVE  Survivors(s, n) = s
<1>1. Survivors(s, n) = SubSeq(s, 1, Len(s))
  BY DEF Survivors, MinOf
<1> QED BY <1>1

(* While everything fits, push_many leaves the head where it is. *)
LEMMA PushManyFits ==
  ASSUME NEW n \in Nat \ {0}, NEW S, NEW rb \in RingOf(n, S), NEW s \in Seq(S),
         rb.size + Len(s) <= n
  PROVE  /\ PushMany(rb, s) \in RingOf(n, S)
         /\ PushMany(rb, s).head = rb.head
         /\ PushMany(rb, s).size = rb.size + Len(s)
         /\ Contents(PushMany(rb, s)) = Contents(rb) \o s
<1>1. PICK z \in 0 .. n, len \in Nat : rb.size = z /\ Len(s) = len /\ rb.capacity = n
  BY DEF RingOf
<1>2. Survivors(s, n) = s
  BY SurvivorsOfFew, <1>1
<1>3. PushMany(rb, s).head = rb.head
  <2>1. PushMany(rb, s).head = HeadAfterPush(rb, len)
    BY <1>1, <1>2 DEF PushMany, RingOf
  <2> QED BY <2>1, <1>1 DEF HeadAfterPush
<1>4. PushMany(rb, s) \in RingOf(n, S) /\ PushMany(rb, s).size = z + len
  <2>1. MinOf(z + len, n) = z + len
    BY <1>1 DEF MinOf
  <2> QED BY <2>1, <1>1, PushManyType
<1>5. Contents(rb) \in Seq(S) /\ Len(Contents(rb)) = z
  BY <1>1, ContentsType
<1>6. Contents(rb) \o s \in Seq(S) /\ Len(Contents(rb) \o s) = z + len
  BY <1>1, <1>5
<1>7. Contents(PushMany(rb, s)) = Contents(rb) \o s
  <2>1. Contents(PushMany(rb, s)) = Survivors(Contents(rb) \o s, n)
    BY PushManyContents
  <2>2. Len(Contents(rb) \o s) <= n
    BY <1>1, <1>6
  <2> QED BY <2>1, <2>2, <1>6, SurvivorsOfFew
<1> QED BY <1>1, <1>3, <1>4, <1>7

(* A copied container holds the same elements, from slot 0 on. *)
LEMMA CopyOfIs ==
  ASSUME NEW n \in Nat \ {0}, NEW S, NEW rb \in RingOf(n, S), NEW blank \in S
  PROVE  /\ CopyOf(rb, blank) \in RingOf(n, S)
         /\ CopyOf(rb, blank).head = 0 /\ CopyOf(rb, blank).size = rb.size
         /\ Contents(CopyOf(rb, blank)) = Contents(rb)
<1> DEFINE fresh == NewRing(n, blank)
           s == Contents(rb)
<1>1. rb.capacity = n /\ rb.size \in 0 .. n
  BY DEF RingOf
<1>2. s \in Seq(S) /\ Len(s) = rb.size
  BY ContentsType
<1>3. fresh \in RingOf(n, S) /\ fresh.size = 0 /\ fresh.head = 0 /\ Contents(fresh) = <<>>
  <2>1. fresh.size = 0
    BY DEF NewRing
  <2> QED BY <2>1, NewRingType, NewRingIs
<1>4. CopyOf(rb, blank) = PushMany(fresh, s)
  BY <1>1 DEF CopyOf
<1> HIDE DEF fresh, s
<1>5. fresh.size + Len(s) <= n /\ fresh.size + Len(s) = rb.size /\ <<>> \o s = s
  BY <1>1, <1>2, <1>3
<1>6. /\ PushMany(fresh, s) \in RingOf(n, S)
      /\ PushMany(fresh, s).head = fresh.head
      /\ PushMany(fresh, s).size = fresh.size + Len(s)
      /\ Contents(PushMany(fresh, s)) = Contents(fresh) \o s
  BY <1>2, <1>3, <1>5, PushManyFits
<1> QED BY <1>3, <1>4, <1>5, <1>6 DEF s

(* reserve keeps the elements, from slot 0 of the larger storage on: the    *)
(* two runs it moves are the contents.                                      *)
LEMMA ReserveIs ==
  ASSUME NEW n \in Nat \ {0}, NEW S, NEW rb \in RingOf(n, S), NEW blank \in S,
         NEW more \in Nat, more > n
  PROVE  /\ Reserve(rb, more, blank) \in RingOf(more, S)
         /\ Reserve(rb, more, blank).head = 0
         /\ Reserve(rb, more, blank).size = rb.size
         /\ Contents(Reserve(rb, more, blank)) = Contents(rb)
<1>1. PICK h \in 0 .. n - 1, z \in 0 .. n, array \in [0 .. n - 1 -> S] :
           /\ rb.head = h /\ rb.size = z /\ rb.array = array /\ rb.capacity = n
  BY DEF RingOf
<1>2. PICK c \in 0 .. z : c = MinOf(z, n - h)
  <2>1. MinOf(z, n - h) \in 0 .. z
    BY DEF MinOf
  <2> QED BY <2>1
<1>e. PICK e \in 0 .. z : e = z - c
  <2>1. z - c \in 0 .. z
    BY <1>2
  <2> QED BY <2>1
<1> DEFINE fresh == NewRing(more, blank)
           run1 == [k \in 1 .. c |-> array[h + k - 1]]
           run2 == [k \in 1 .. e |-> array[k - 1]]
           half == PushMany(fresh, run1)
<1>3. Reserve(rb, more, blank) = PushMany(half, run2)
  <2>1. ~(more <= n)
    OBVIOUS
  <2> QED BY <2>1, <1>1, <1>2, <1>e DEF Reserve
<1>4. run1 \in Seq(S) /\ Len(run1) = c
  <2>1. ASSUME NEW k \in 1 .. c PROVE h + k - 1 \in 0 .. n - 1
    BY <1>2 DEF MinOf
  <2>2. run1 \in [1 .. c -> S] /\ c \in Nat
    BY <2>1
  <2> HIDE DEF run1
  <2>3. run1 \in Seq(S)
    BY <2>2
  <2> QED BY <2>2, <2>3
<1>5. run2 \in Seq(S) /\ Len(run2) = e
  <2>1. ASSUME NEW k \in 1 .. e PROVE k - 1 \in 0 .. n - 1
    OBVIOUS
  <2>2. run2 \in [1 .. e -> S]
    BY <2>1
  <2> QED BY <2>2
<1>6. run1 \o run2 = Contents(rb)
  <2>1. Contents(rb) \in Seq(S) /\ Len(Contents(rb)) = z
    BY <1>1, ContentsType
  <2>2. run1 \o run2 \in Seq(S) /\ Len(run1 \o run2) = z
    <3> HIDE DEF run1, run2
    <3> QED BY <1>4, <1>5, <1>e
  <2>3. ASSUME NEW k \in 1 .. z PROVE (run1 \o run2)[k] = Contents(rb)[k]
    <3>1. Contents(rb)[k] = array[Wrap(h + (k - 1), n)]
      <4>1. \A j \in 1 .. rb.size : Contents(rb)[j] = rb.array[Wrap(rb.head + (j - 1), n)]
        BY ContentsType
      <4> QED BY <4>1, <1>1
    <3>2. CASE k <= c
      <4>1. (run1 \o run2)[k] = run1[k]
        <5> HIDE DEF run1, run2
        <5> QED BY <3>2, <1>4, <1>5
      <4>2. h + k - 1 = Wrap(h + (k - 1), n)
        BY <3>2, <1>2 DEF MinOf, Wrap
      <4> QED BY <3>1, <3>2, <4>1, <4>2
    <3>3. CASE k > c
      <4>1. (run1 \o run2)[k] = run2[k - c]
        <5> HIDE DEF run1, run2
        <5> QED BY <3>3, <1>4, <1>5, <1>e
      <4>2. k - c - 1 = Wrap(h + (k - 1), n)
        BY <3>3, <1>2 DEF MinOf, Wrap
      <4>3. run2[k - c] = array[k - c - 1]
        BY <3>3, <1>e
      <4> QED BY <3>1, <4>1, <4>2, <4>3
    <3> HIDE DEF run1, run2
    <3> QED BY <3>2, <3>3
  <2> HIDE DEF run1, run2
  <2> QED BY <2>1, <2>2, <2>3
<1>7. fresh \in RingOf(more, S) /\ fresh.size = 0 /\ fresh.head = 0 /\ Contents(fresh) = <<>>
  <2>1. fresh.size = 0
    BY DEF NewRing
  <2> QED BY <2>1, NewRingType, NewRingIs
<1> HIDE DEF run1, run2, fresh
<1>8. half \in RingOf(more, S) /\ half.size = c /\ half.head = 0 /\ Contents(half) = run1
  <2>1. fresh.size + Len(run1) <= more /\ fresh.size + Len(run1) = c /\ <<>> \o run1 = run1
    BY <1>4, <1>7
  <2> QED BY <2>1, <1>4, <1>7, PushManyFits
<1> HIDE DEF half
<1>9. half.size + Len(run2) <= more /\ half.size + Len(run2) = z
  BY <1>5, <1>8, <1>e
<1>10. /\ PushMany(half, run2) \in RingOf(more, S)
       /\ PushMany(half, run2).head = half.head
       /\ PushMany(half, run2).size = half.size + Len(run2)
       /\ Contents(PushMany(half, run2)) = Contents(half) \o run2
  <2>1. half \in RingOf(more, S) /\ run2 \in Seq(S) /\ half.size + Len(run2) <= more
    BY <1>5, <1>8, <1>9
  <2> QED BY <2>1, PushManyFits
<1> QED BY <1>1, <1>3, <1>6, <1>8, <1>9, <1>10
=============================================================================
