---------------------------- MODULE ChartProofs -----------------------------
(***************************************************************************)
(* The chart, its feed and its rows keep what they promise, for every      *)
(* viewport, zoom, announcement and length of a session.                   *)
(*                                                                         *)
(*   The view is current: operator by operator, ChartInv says which part   *)
(*   of the view may lag behind the samples and that a queued flush covers *)
(*   it; FeedInv ties that flush to the one posted to the GUI thread.      *)
(*                                                                         *)
(*   Auto Y catches up: RowsInv ties the ranges of the rows to what the    *)
(*   view shows of their series.                                           *)
(*                                                                         *)
(*   The chart shows the stream: StreamInv orders the posted events by     *)
(*   connection and splits the records consumed between the series, the    *)
(*   posted batches and the batch that grows.                              *)
(*                                                                         *)
(* AppendAll, AddAll, Configs and OnTheWay are recursive functions over    *)
(* the items, attributes and events: CountingUp, the well-foundedness of   *)
(* the natural numbers, takes their lemmas from one element to the next.   *)
(***************************************************************************)
EXTENDS ChartRows, TLAPS, SequenceTheorems, WellFoundedInduction
-----------------------------------------------------------------------------
(* A non-empty set of natural numbers has a least element ...               *)
LEMMA LeastNat ==
  ASSUME NEW T \in SUBSET Nat, T # {}
  PROVE  \E x \in T : \A y \in T : x <= y
<1> DEFINE R == OpToRel(<, Nat)
<1>1. IsWellFoundedOn(R, Nat)
  BY NatLessThanWellFounded, Zenon
<1>2. PICK x \in T : \A y \in T : ~ (<<y, x>> \in R)
  <2> HIDE DEF R
  <2> QED BY <1>1, WFMin, Zenon
<1>3. \A y \in T : x <= y
  <2> TAKE y \in T
  <2>1. x \in Nat /\ y \in Nat
    OBVIOUS
  <2>2. ~ (y < x)
    BY <1>2, <2>1 DEF OpToRel
  <2> QED BY <2>1, <2>2
<1> QED BY <1>2, <1>3

(* ... so that a set that is closed under counting up holds them all.       *)
LEMMA CountingUp ==
  ASSUME NEW N \in Nat, NEW S, 0 \in S, \A n \in 0 .. N - 1 : n \in S => n + 1 \in S
  PROVE  \A n \in 0 .. N : n \in S
<1> DEFINE T == {n \in 0 .. N : n \notin S}
<1> SUFFICES ASSUME T # {} PROVE FALSE
  OBVIOUS
<1>1. T \in SUBSET Nat
  OBVIOUS
<1>2. PICK m \in T : \A k \in T : m <= k
  <2> HIDE DEF T
  <2> QED BY <1>1, LeastNat
<1>3. m # 0 /\ m \in 0 .. N
  BY <1>2
<1>4. m - 1 \in 0 .. N - 1 /\ ~ (m <= m - 1)
  BY <1>3
<1>5. m - 1 \notin T
  BY <1>2, <1>4
<1>6. m - 1 \in S /\ m - 1 + 1 = m
  BY <1>3, <1>4, <1>5
<1> QED BY <1>2, <1>4, <1>6

(* ... and a finite set of natural numbers has a greatest one.              *)
LEMMA MaxIs ==
  ASSUME NEW T \in SUBSET Nat, NEW x \in T, NEW b \in Nat, \A y \in T : y <= b
  PROVE  Max(T) \in T /\ \A y \in T : Max(T) >= y
<1> DEFINE D == {b - y : y \in T}
<1>1. D \in SUBSET Nat /\ D # {}
  OBVIOUS
<1>2. PICK d \in D : \A e \in D : d <= e
  <2> HIDE DEF D
  <2> QED BY <1>1, LeastNat
<1>3. PICK z \in T : d = b - z
  BY <1>2
<1>4. \A y \in T : z >= y
  <2> TAKE y \in T
  <2>1. b - z <= b - y
    BY <1>2, <1>3
  <2> QED BY <2>1
<1> QED BY <1>3, <1>4 DEF Max

LEMMA AppendingOneByOne ==
  ASSUME NEW c, NEW items, Len(items) \in Nat
  PROVE  \E f : /\ f = [i \in 0 .. Len(items) |->
                          IF i = 0 THEN c ELSE AppendToSeries(f[i - 1], items[i])]
                /\ AppendAll(c, items) = f[Len(items)]
<1> DEFINE Upto(n, f) == f = [i \in 0 .. n |-> IF i = 0 THEN c ELSE AppendToSeries(f[i - 1], items[i])]
           S == {n \in Nat : \E f : Upto(n, f)}
<1>1. 0 \in S
  <2>1. Upto(0, [i \in 0 .. 0 |-> c])
    OBVIOUS
  <2> QED BY <2>1
<1>2. ASSUME NEW n \in 0 .. Len(items) - 1, n \in S
      PROVE  n + 1 \in S
  <2>1. PICK f : Upto(n, f)
    BY <1>2
  <2> DEFINE g == [i \in 0 .. n + 1 |-> IF i = n + 1 THEN AppendToSeries(f[n], items[n + 1]) ELSE f[i]]
  <2>2. ASSUME NEW i \in 0 .. n + 1
        PROVE  g[i] = IF i = 0 THEN c ELSE AppendToSeries(g[i - 1], items[i])
    <3>1. CASE i = n + 1
      BY <3>1
    <3>2. CASE i # n + 1
      <4> i \in 0 .. n
        BY <3>2
      <4>1. f[i] = IF i = 0 THEN c ELSE AppendToSeries(f[i - 1], items[i])
        BY <2>1
      <4> QED BY <3>2, <4>1
    <3> QED BY <3>1, <3>2
  <2>3. Upto(n + 1, g)
    BY <2>2
  <2>4. n + 1 \in Nat
    OBVIOUS
  <2> HIDE DEF Upto, g
  <2> QED BY <2>3, <2>4
<1>3. Len(items) \in S
  <2> DEFINE N == Len(items)
  <2> HIDE DEF S
  <2>1. N \in Nat /\ \A n \in 0 .. N - 1 : n \in S => n + 1 \in S
    BY <1>2
  <2> HIDE DEF N
  <2>2. \A n \in 0 .. N : n \in S
    BY <1>1, <2>1, CountingUp
  <2> QED BY <2>1, <2>2 DEF N
<1> DEFINE F == CHOOSE f : Upto(Len(items), f)
<1>4. Upto(Len(items), F)
  BY <1>3
<1>5. AppendAll(c, items) = F[Len(items)]
  BY DEF AppendAll
<1> HIDE DEF F
<1> QED BY <1>4, <1>5
-----------------------------------------------------------------------------
Sample == Nat \X Nat
Types == STRING \cup {"UInt8", "Int8", "Float64", "Float32"}
Series == [type : Types, data : Seq(Sample)]

SeriesOK(series) ==
  /\ \A n \in DOMAIN series : series[n] \in Series
  /\ \E b \in Nat : \A n \in DOMAIN series : Len(series[n].data) <= b

Fields ==
  {"order", "series", "pps", "origin", "cursor", "pendingOld", "pendingNew", "flushQueued",
   "section", "scroll", "live", "panning", "unpainted", "moved"}

ChartTypes(c) ==
  /\ DOMAIN c = Fields /\ SeriesOK(c.series)
  /\ c.pps \in 1 .. MaxPps /\ c.origin \in Nat /\ c.cursor \in Int
  /\ c.pendingOld \in Nat /\ c.pendingNew \in Nat /\ c.unpainted \in SUBSET Nat
  /\ c.section \in Nat /\ c.scroll \in Nat
  /\ {c.flushQueued, c.live, c.panning, c.moved} \subseteq BOOLEAN

(* What was appended and not painted is at or behind the old count of the   *)
(* flush that is queued, and the cursor is on a sample.                     *)
Sound(c) ==
  /\ ChartTypes(c)
  /\ c.pendingOld <= c.pendingNew /\ c.pendingNew <= MaxSampleCount(c)
  /\ \A s \in c.unpainted : c.pendingOld <= s
  /\ c.unpainted # {} => c.flushQueued
  /\ c.cursor < MaxSampleCount(c)

EndOf(c) == AtLeast(0, c.section - ViewWidth)

Placed(c) ==
  /\ c.origin = WindowOrigin(c) /\ c.section = ChartPixelWidth(c)
  /\ c.scroll <= EndOf(c)
  /\ c.live /\ ~c.moved => c.scroll = EndOf(c)

ChartInv(c) == Sound(c) /\ c.section <= SectionCap /\ (~c.flushQueued => Placed(c))

LEMMA CountIs ==
  ASSUME NEW c, SeriesOK(c.series)
  PROVE  /\ MaxSampleCount(c) \in Nat
         /\ \A n \in DOMAIN c.series : Len(c.series[n].data) <= MaxSampleCount(c)
         /\ DOMAIN c.series = {} => MaxSampleCount(c) = 0
         /\ DOMAIN c.series # {} => \E n \in DOMAIN c.series : MaxSampleCount(c) = Len(c.series[n].data)
<1> DEFINE T == {Len(c.series[n].data) : n \in DOMAIN c.series}
<1>1. \A n \in DOMAIN c.series : Len(c.series[n].data) \in Nat
  <2> TAKE n \in DOMAIN c.series
  <2>1. c.series[n].data \in Seq(Sample)
    BY DEF SeriesOK, Series
  <2> QED BY <2>1
<1>2. CASE DOMAIN c.series = {}
  BY <1>2 DEF MaxSampleCount
<1>3. CASE DOMAIN c.series # {}
  <2>1. PICK b \in Nat : \A n \in DOMAIN c.series : Len(c.series[n].data) <= b
    BY DEF SeriesOK
  <2>2. T \in SUBSET Nat /\ \A y \in T : y <= b
    BY <1>1, <2>1
  <2>3. PICK x \in T : TRUE
    BY <1>3
  <2>4. MaxSampleCount(c) = Max(T)
    BY <1>3 DEF MaxSampleCount
  <2> HIDE DEF T
  <2>5. Max(T) \in T /\ \A y \in T : Max(T) >= y
    BY <2>2, <2>3, MaxIs
  <2> USE DEF T
  <2>6. \A n \in DOMAIN c.series : Len(c.series[n].data) \in T
    OBVIOUS
  <2> QED BY <1>1, <1>3, <2>2, <2>4, <2>5, <2>6
<1> QED BY <1>2, <1>3

(* The counts and the window follow from the series and the zoom.           *)
LEMMA CountOf ==
  ASSUME NEW c, NEW d, d.series = c.series
  PROVE  /\ MaxSampleCount(d) = MaxSampleCount(c)
         /\ d.pps = c.pps => WindowOrigin(d) = WindowOrigin(c)
         /\ d.pps = c.pps /\ d.origin = c.origin => ChartPixelWidth(d) = ChartPixelWidth(c)
  BY DEF MaxSampleCount, WindowOrigin, ChartPixelWidth

LEMMA Quotient ==
  ASSUME NEW a \in Nat, NEW b \in Nat \ {0}
  PROVE  a \div b \in Nat /\ (a \div b) * b <= a
<1> DEFINE q == a \div b
           r == a % b
<1>1. q \in Int /\ r \in 0 .. b - 1 /\ a = q * b + r
  BY SMT
<1> HIDE DEF q, r
<1>2. q >= 0
  <2>1. CASE q < 0
    <3>1. q * b <= (-1) * b
      BY <1>1, <2>1
    <3> QED BY <1>1, <3>1
  <2> QED BY <1>1, <2>1
<1>3. q * b \in Int
  BY <1>1
<1> QED BY <1>1, <1>2, <1>3 DEF q

(* The window's width fits into the section. *)
LEMMA WindowFits ==
  ASSUME NEW c, ChartTypes(c)
  PROVE  /\ WindowOrigin(c) \in Nat
         /\ c.origin = WindowOrigin(c) => ChartPixelWidth(c) \in 0 .. SectionCap
         /\ ChartPixelWidth(c) \in Nat
<1> DEFINE n == MaxSampleCount(c)
           q == SectionCap \div c.pps
           w == AtLeast(0, n - c.origin)
<1>1. n \in Nat /\ c.pps \in Nat \ {0} /\ c.origin \in Nat /\ SectionCap \in Nat
  BY CountIs, ChartAssumption DEF ChartTypes
<1>2. q \in Nat /\ q * c.pps <= SectionCap
  BY <1>1, Quotient
<1> HIDE DEF q, n
<1>3. WindowOrigin(c) = AtLeast(0, n - q) /\ ChartPixelWidth(c) = w * c.pps
  BY DEF WindowOrigin, ChartPixelWidth, n, q
<1>4. WindowOrigin(c) \in Nat
  BY <1>1, <1>2, <1>3 DEF AtLeast
<1>5. w \in Nat
  BY <1>1 DEF AtLeast
<1>6. w * c.pps \in Nat
  BY <1>1, <1>5
<1>7. ASSUME c.origin = WindowOrigin(c)
      PROVE  w * c.pps <= SectionCap
  <2>1. w <= q
    BY <1>1, <1>2, <1>3, <1>7 DEF AtLeast
  <2> HIDE DEF w
  <2>2. w * c.pps <= q * c.pps /\ w * c.pps \in Int /\ q * c.pps \in Int
    BY <1>1, <1>2, <1>5, <2>1
  <2> QED BY <1>1, <1>2, <2>2
<1> QED BY <1>1, <1>3, <1>4, <1>6, <1>7

(* syncColumnWidth: the window and the section fit again.                   *)
LEMMA SyncIs ==
  ASSUME NEW c, Sound(c)
  PROVE  LET d == SyncColumnWidth(c)
         IN  /\ Sound(d) /\ d.section <= SectionCap
             /\ d.origin = WindowOrigin(d) /\ d.section = ChartPixelWidth(d)
             /\ d.scroll = AtLeast(0, AtMost(c.scroll, d.section - ViewWidth))
             /\ d.unpainted \in {c.unpainted, {}}
             /\ \A x \in Fields \ {"origin", "section", "scroll", "unpainted"} : d[x] = c[x]
<1> DEFINE o == UpdateDisplayOrigin(c)
           s == [o EXCEPT !.section = ChartPixelWidth(o)]
           d == SyncColumnWidth(c)
<1>1. DOMAIN c = Fields /\ ViewWidth \in Nat
  BY ChartAssumption DEF Sound, ChartTypes
<1>2. /\ DOMAIN o = Fields /\ o.origin = WindowOrigin(c) /\ o.unpainted \in {c.unpainted, {}}
      /\ \A x \in Fields \ {"origin", "unpainted"} : o[x] = c[x]
  BY <1>1 DEF UpdateDisplayOrigin, Repainted, Fields
<1> HIDE DEF o
<1>3. /\ DOMAIN s = Fields /\ s.section = ChartPixelWidth(o)
      /\ \A x \in Fields \ {"section"} : s[x] = o[x]
  BY <1>2 DEF Fields
<1>4. d = [s EXCEPT !.scroll = AtLeast(0, AtMost(o.scroll, s.section - ViewWidth))]
  BY DEF SyncColumnWidth, ResizeSection, ScrollTo, o
<1> HIDE DEF s, d
<1>5. /\ DOMAIN d = Fields /\ d.scroll = AtLeast(0, AtMost(o.scroll, s.section - ViewWidth))
      /\ \A x \in Fields \ {"scroll"} : d[x] = s[x]
  BY <1>3, <1>4 DEF Fields
<1>6. /\ \A x \in Fields \ {"origin", "section", "scroll", "unpainted"} : d[x] = c[x]
      /\ d.origin = o.origin /\ d.unpainted = o.unpainted /\ d.section = ChartPixelWidth(o)
      /\ o.scroll = c.scroll /\ s.section = d.section /\ o.series = d.series /\ o.pps = d.pps
  BY <1>2, <1>3, <1>5 DEF Fields
<1>7. d.series = c.series /\ d.pps = c.pps
  BY <1>6 DEF Fields
<1>8. /\ d.origin = WindowOrigin(d) /\ d.section = ChartPixelWidth(d)
      /\ MaxSampleCount(d) = MaxSampleCount(c)
  BY <1>2, <1>6, <1>7, CountOf
<1>9. WindowOrigin(c) \in Nat
  BY WindowFits DEF Sound
<1>10. d.scroll = AtLeast(0, AtMost(c.scroll, d.section - ViewWidth)) /\ d.unpainted \in {c.unpainted, {}}
  BY <1>2, <1>5, <1>6
<1>11. ChartPixelWidth(d) \in 0 .. SectionCap
  <2> DEFINE e == [c EXCEPT !.origin = WindowOrigin(c)]
  <2>1. ChartTypes(e) /\ e.origin = WindowOrigin(e) /\ ChartPixelWidth(e) = ChartPixelWidth(d)
    <3>1. DOMAIN e = Fields /\ e.origin = WindowOrigin(c) /\ \A x \in Fields \ {"origin"} : e[x] = c[x]
      BY <1>1 DEF Fields
    <3> HIDE DEF e
    <3>2. e.series = c.series /\ e.pps = c.pps
      BY <3>1 DEF Fields
    <3>3. ChartTypes(e)
      BY <1>9, <3>1 DEF Sound, ChartTypes, Fields
    <3> QED BY <1>6, <1>2, <1>7, <3>1, <3>2, <3>3, CountOf
  <2> HIDE DEF e
  <2> QED BY <2>1, WindowFits
<1>12. ChartTypes(d)
  <2>1. d.scroll \in Nat /\ d.section \in Nat
    BY <1>1, <1>8, <1>10, <1>11, ChartAssumption DEF AtLeast, AtMost, Sound, ChartTypes
  <2> QED BY <1>2, <1>5, <1>6, <1>9, <1>10, <2>1 DEF Sound, ChartTypes, Fields
<1>13. Sound(d)
  BY <1>6, <1>8, <1>10, <1>12 DEF Sound, Fields
<1> QED BY <1>6, <1>8, <1>10, <1>11, <1>13, ChartAssumption DEF d
(* A chart in place stays as it is, but for what it repaints.               *)
LEMMA SyncKeeps ==
  ASSUME NEW c, Sound(c), Placed(c)
  PROVE  LET d == SyncColumnWidth(c)
         IN  Placed(d) /\ \A x \in Fields \ {"unpainted"} : d[x] = c[x]
<1> DEFINE d == SyncColumnWidth(c)
<1> HIDE DEF d
<1>1. /\ Sound(d) /\ d.origin = WindowOrigin(d) /\ d.section = ChartPixelWidth(d)
      /\ d.scroll = AtLeast(0, AtMost(c.scroll, d.section - ViewWidth))
      /\ \A x \in Fields \ {"origin", "section", "scroll", "unpainted"} : d[x] = c[x]
  BY SyncIs DEF d
<1>2. d.series = c.series /\ d.pps = c.pps /\ d.live = c.live /\ d.moved = c.moved
  BY <1>1 DEF Fields
<1>3. d.origin = c.origin /\ d.section = c.section
  BY <1>1, <1>2, CountOf DEF Placed
<1>4. c.scroll \in Nat /\ c.section \in Nat /\ ViewWidth \in Nat /\ c.scroll <= EndOf(c)
  BY ChartAssumption DEF Sound, ChartTypes, Placed
<1>5. d.scroll = c.scroll
  BY <1>1, <1>3, <1>4 DEF EndOf, AtLeast, AtMost
<1>6. Placed(d)
  BY <1>1, <1>2, <1>3, <1>5 DEF Placed, EndOf
<1> QED BY <1>1, <1>3, <1>5, <1>6 DEF d, Fields

LEMMA RepaintedIs ==
  ASSUME NEW c, ChartInv(c)
  PROVE  /\ ChartInv(Repainted(c))
         /\ \A x \in Fields \ {"unpainted"} : Repainted(c)[x] = c[x]
<1> DEFINE d == Repainted(c)
<1>1. /\ DOMAIN d = Fields /\ d.unpainted = {}
      /\ \A x \in Fields \ {"unpainted"} : d[x] = c[x]
  BY DEF Repainted, ChartInv, Sound, ChartTypes, Fields
<1> HIDE DEF d
<1>2. d.series = c.series /\ d.pps = c.pps /\ d.origin = c.origin
  BY <1>1 DEF Fields
<1>3. /\ MaxSampleCount(d) = MaxSampleCount(c) /\ WindowOrigin(d) = WindowOrigin(c)
      /\ ChartPixelWidth(d) = ChartPixelWidth(c)
  BY <1>2, CountOf
<1>4. Sound(d)
  BY <1>1, <1>3 DEF ChartInv, Sound, ChartTypes, Fields
<1>5. Placed(c) => Placed(d)
  BY <1>1, <1>3 DEF Placed, EndOf, Fields
<1> QED BY <1>1, <1>4, <1>5 DEF ChartInv, Fields, d

(* The window fits again after a change that the view answers with          *)
(* syncColumnWidth and a repaint.                                           *)
LEMMA ResyncIs ==
  ASSUME NEW c, Sound(c),
         c.flushQueued \/ Placed(c) \/ ~c.live \/ c.moved \/ DOMAIN c.series = {}
  PROVE  LET d == Repainted(SyncColumnWidth(c))
         IN  /\ ChartInv(d)
             /\ \A x \in Fields \ {"origin", "section", "scroll", "unpainted"} : d[x] = c[x]
             /\ Placed(c) => d.origin = c.origin /\ d.section = c.section /\ d.scroll = c.scroll
<1> DEFINE e == SyncColumnWidth(c)
           d == Repainted(e)
<1> HIDE DEF e
<1>1. /\ Sound(e) /\ e.section <= SectionCap
      /\ e.origin = WindowOrigin(e) /\ e.section = ChartPixelWidth(e)
      /\ e.scroll = AtLeast(0, AtMost(c.scroll, e.section - ViewWidth))
      /\ \A x \in Fields \ {"origin", "section", "scroll", "unpainted"} : e[x] = c[x]
  BY SyncIs DEF e
<1>2. e.live = c.live /\ e.moved = c.moved /\ e.flushQueued = c.flushQueued
  BY <1>1 DEF Fields
<1>3. Placed(c) => Placed(e) /\ \A x \in Fields \ {"unpainted"} : e[x] = c[x]
  BY SyncKeeps DEF e
<1>4. e.scroll <= EndOf(e)
  BY <1>1, ChartAssumption DEF EndOf, AtLeast, AtMost, Sound, ChartTypes
<1>e. DOMAIN c.series = {} => e.scroll = EndOf(e)
  <2> SUFFICES ASSUME DOMAIN c.series = {} PROVE e.scroll = EndOf(e)
    OBVIOUS
  <2>1. MaxSampleCount(e) = 0
    <3>1. e.series = c.series /\ SeriesOK(e.series)
      BY <1>1 DEF Fields, Sound, ChartTypes
    <3> QED BY <3>1, CountIs
  <2>2. AtLeast(0, MaxSampleCount(e) - e.origin) = 0 /\ 0 * e.pps = 0
    BY <1>1, <2>1 DEF AtLeast, Sound, ChartTypes
  <2>3. e.section = 0
    BY <1>1, <2>2 DEF ChartPixelWidth
  <2> QED BY <1>1, <2>3, ChartAssumption DEF EndOf, AtLeast, AtMost, Sound, ChartTypes
<1>5. ChartInv(e)
  BY <1>1, <1>2, <1>3, <1>4, <1>e DEF ChartInv, Placed
<1>6. ChartInv(d) /\ \A x \in Fields \ {"unpainted"} : d[x] = e[x]
  BY <1>5, RepaintedIs
<1> HIDE DEF d
<1>7. Placed(c) => d.origin = c.origin /\ d.section = c.section /\ d.scroll = c.scroll
  BY <1>3, <1>6 DEF Fields
<1> QED BY <1>1, <1>6, <1>7 DEF d, e

LEMMA AddSeriesIs ==
  ASSUME NEW c, ChartInv(c), NEW name, NEW type \in Types,
         NEW d, d = AddSeries(c, name, type)
  PROVE  /\ ChartInv(d) /\ d.flushQueued = c.flushQueued /\ d.pps = c.pps
         /\ Placed(c) => d.origin = c.origin /\ d.scroll = c.scroll
         /\ IF name \in DOMAIN c.series THEN d = c
            ELSE /\ d.order = Append(c.order, name)
                 /\ DOMAIN d.series = DOMAIN c.series \cup {name}
                 /\ d.series[name] = [type |-> type, data |-> <<>>]
                 /\ \A n \in DOMAIN c.series : d.series[n] = c.series[n]
<1>1. CASE name \in DOMAIN c.series
  BY <1>1 DEF AddSeries
<1>2. CASE name \notin DOMAIN c.series
  <2> DEFINE more == [n \in DOMAIN c.series \cup {name} |->
                        IF n = name THEN [type |-> type, data |-> <<>>] ELSE c.series[n]]
             added == [c EXCEPT !.order = Append(@, name), !.series = more]
  <2>1. d = Repainted(SyncColumnWidth(added))
    BY <1>2 DEF AddSeries
  <2>2. /\ DOMAIN added = Fields /\ added.order = Append(c.order, name) /\ added.series = more
        /\ \A x \in Fields \ {"order", "series"} : added[x] = c[x]
    BY DEF ChartInv, Sound, ChartTypes, Fields
  <2>3. SeriesOK(more)
    <3>1. \A n \in DOMAIN more : more[n] \in Series
      BY DEF ChartInv, Sound, ChartTypes, SeriesOK, Series
    <3>2. PICK b \in Nat : \A n \in DOMAIN c.series : Len(c.series[n].data) <= b
      BY DEF ChartInv, Sound, ChartTypes, SeriesOK
    <3>3. \A n \in DOMAIN more : Len(more[n].data) <= b
      BY <3>2
    <3> QED BY <3>1, <3>3 DEF SeriesOK
  <2> HIDE DEF added
  <2>4. MaxSampleCount(added) = MaxSampleCount(c)
    <3>1. SeriesOK(c.series) /\ SeriesOK(added.series)
      BY <2>2, <2>3 DEF ChartInv, Sound, ChartTypes
    <3>2. /\ \A n \in DOMAIN c.series : added.series[n] = c.series[n]
          /\ DOMAIN added.series = DOMAIN c.series \cup {name}
          /\ Len(added.series[name].data) = 0
      BY <1>2, <2>2
    <3>3. /\ MaxSampleCount(c) \in Nat
          /\ \A n \in DOMAIN c.series : Len(c.series[n].data) <= MaxSampleCount(c)
          /\ DOMAIN c.series = {} => MaxSampleCount(c) = 0
          /\ DOMAIN c.series # {} => \E n \in DOMAIN c.series : MaxSampleCount(c) = Len(c.series[n].data)
      BY <3>1, CountIs
    <3>4. /\ MaxSampleCount(added) \in Nat
          /\ \A n \in DOMAIN added.series : Len(added.series[n].data) <= MaxSampleCount(added)
          /\ DOMAIN added.series # {} => \E n \in DOMAIN added.series : MaxSampleCount(added) = Len(added.series[n].data)
      BY <3>1, CountIs
    <3>5. MaxSampleCount(c) <= MaxSampleCount(added)
      BY <3>2, <3>3, <3>4
    <3>6. MaxSampleCount(added) <= MaxSampleCount(c)
      BY <3>2, <3>3, <3>4
    <3> QED BY <3>3, <3>4, <3>5, <3>6
  <2>5. added.pps = c.pps /\ added.origin = c.origin /\ added.flushQueued = c.flushQueued
    BY <2>2 DEF Fields
  <2>6. WindowOrigin(added) = WindowOrigin(c) /\ ChartPixelWidth(added) = ChartPixelWidth(c)
    BY <2>4, <2>5 DEF WindowOrigin, ChartPixelWidth
  <2>7. Sound(added)
    <3>1. ChartTypes(added)
      BY <2>2, <2>3 DEF ChartInv, Sound, ChartTypes, Fields
    <3> QED BY <2>2, <2>4, <3>1 DEF ChartInv, Sound, Fields
  <2>8. Placed(c) => Placed(added)
    BY <2>2, <2>6 DEF Placed, EndOf, Fields
  <2>9. /\ ChartInv(d)
        /\ \A x \in Fields \ {"origin", "section", "scroll", "unpainted"} : d[x] = added[x]
        /\ Placed(added) => d.origin = added.origin /\ d.section = added.section /\ d.scroll = added.scroll
    BY <2>1, <2>5, <2>7, <2>8, ResyncIs DEF ChartInv
  <2>m. /\ DOMAIN more = DOMAIN c.series \cup {name}
        /\ more[name] = [type |-> type, data |-> <<>>]
        /\ \A n \in DOMAIN c.series : more[n] = c.series[n]
    BY <1>2
  <2> HIDE DEF more
  <2>10. d.order = added.order /\ d.series = added.series /\ d.flushQueued = added.flushQueued /\ d.pps = added.pps
    BY <2>9 DEF Fields
  <2>11. added.scroll = c.scroll
    BY <2>2 DEF Fields
  <2> QED BY <1>2, <2>2, <2>5, <2>8, <2>9, <2>10, <2>11, <2>m
<1> QED BY <1>1, <1>2
-----------------------------------------------------------------------------
(* Series have grown and nothing else has changed.                          *)
Grown(c, d) ==
  /\ DOMAIN d = Fields /\ \A x \in Fields \ {"series"} : d[x] = c[x]
  /\ SeriesOK(d.series) /\ DOMAIN d.series = DOMAIN c.series
  /\ \A n \in DOMAIN c.series : Len(c.series[n].data) <= Len(d.series[n].data)

Batch(items) ==
  /\ Len(items) \in Nat /\ DOMAIN items = 1 .. Len(items)
  /\ \A i \in 1 .. Len(items) : items[i].type \in Types /\ items[i].data \in Seq(Sample)

LEMMA GrownTransitive ==
  ASSUME NEW c, NEW d, NEW e, ChartTypes(c), Grown(c, d), Grown(d, e)
  PROVE  Grown(c, e)
<1>1. \A x \in Fields \ {"series"} : e[x] = c[x]
  BY DEF Grown
<1>2. SeriesOK(c.series) /\ SeriesOK(d.series) /\ SeriesOK(e.series)
      /\ DOMAIN d.series = DOMAIN c.series /\ DOMAIN e.series = DOMAIN c.series
  BY DEF Grown, ChartTypes
<1>3. ASSUME NEW n \in DOMAIN c.series
      PROVE  Len(c.series[n].data) <= Len(e.series[n].data)
  <2>1. /\ c.series[n].data \in Seq(Sample) /\ d.series[n].data \in Seq(Sample)
        /\ e.series[n].data \in Seq(Sample)
    BY <1>2 DEF SeriesOK, Series
  <2> DEFINE p == c.series[n].data
             q == d.series[n].data
             r == e.series[n].data
             x == Len(p)
             y == Len(q)
             z == Len(r)
  <2>2. x <= y /\ y <= z
    BY <1>2 DEF Grown
  <2>3. x \in Nat /\ y \in Nat /\ z \in Nat
    <3>1. p \in Seq(Sample) /\ q \in Seq(Sample) /\ r \in Seq(Sample)
      BY <2>1
    <3> HIDE DEF p, q, r
    <3> QED BY <3>1, LenProperties
  <2> HIDE DEF x, y, z, p, q, r
  <2>4. x <= z
    BY <2>2, <2>3
  <2> QED BY <2>4 DEF x, z, p, r
<1> QED BY <1>1, <1>2, <1>3 DEF Grown

LEMMA GrownCount ==
  ASSUME NEW c, NEW d, ChartTypes(c), Grown(c, d)
  PROVE  MaxSampleCount(c) <= MaxSampleCount(d) /\ MaxSampleCount(d) \in Nat /\ ChartTypes(d)
<1>1. SeriesOK(c.series) /\ SeriesOK(d.series) /\ DOMAIN d.series = DOMAIN c.series
  BY DEF ChartTypes, Grown
<1>2. /\ MaxSampleCount(c) \in Nat
      /\ DOMAIN c.series = {} => MaxSampleCount(c) = 0
      /\ DOMAIN c.series # {} => \E n \in DOMAIN c.series : MaxSampleCount(c) = Len(c.series[n].data)
  BY <1>1, CountIs
<1>3. /\ MaxSampleCount(d) \in Nat
      /\ \A n \in DOMAIN d.series : Len(d.series[n].data) <= MaxSampleCount(d)
  BY <1>1, CountIs
<1>4. \A n \in DOMAIN c.series : Len(c.series[n].data) \in Nat /\ Len(d.series[n].data) \in Nat
  <2> TAKE n \in DOMAIN c.series
  <2>1. c.series[n].data \in Seq(Sample) /\ d.series[n].data \in Seq(Sample)
    BY <1>1 DEF SeriesOK, Series
  <2> QED BY <2>1
<1>5. MaxSampleCount(c) <= MaxSampleCount(d)
  BY <1>1, <1>2, <1>3, <1>4 DEF Grown
<1>6. ChartTypes(d)
  BY <1>1 DEF ChartTypes, Grown, Fields
<1> QED BY <1>3, <1>5, <1>6

LEMMA AppendToSeriesIs ==
  ASSUME NEW c, ChartTypes(c), NEW item, item.type \in Types, item.data \in Seq(Sample)
  PROVE  LET d == AppendToSeries(c, item)
         IN  /\ Grown(c, d)
             /\ ~TakesSamples(c, item) => d = c
             /\ TakesSamples(c, item) =>
                  d.series = [c.series EXCEPT ![item.name] =
                                [type |-> item.type, data |-> c.series[item.name].data \o item.data]]
<1>1. CASE ~TakesSamples(c, item)
  <2>1. AppendToSeries(c, item) = c
    BY <1>1 DEF AppendToSeries
  <2>2. Grown(c, c)
    <3>1. \A n \in DOMAIN c.series : Len(c.series[n].data) <= Len(c.series[n].data)
      <4> TAKE n \in DOMAIN c.series
      <4>1. c.series[n].data \in Seq(Sample)
        BY DEF ChartTypes, SeriesOK, Series
      <4> QED BY <4>1
    <3> QED BY <3>1 DEF Grown, ChartTypes
  <2> QED BY <1>1, <2>1, <2>2
<1>2. CASE TakesSamples(c, item)
  <2> DEFINE m == item.name
             new == [type |-> item.type, data |-> c.series[m].data \o item.data]
             s == [c.series EXCEPT ![m] = new]
             d == [c EXCEPT !.series = s]
  <2>1. m \in DOMAIN c.series
    BY <1>2 DEF TakesSamples
  <2>2. AppendToSeries(c, item) = d
    BY <1>2 DEF AppendToSeries
  <2>3. /\ DOMAIN d = Fields /\ d.series = s /\ \A x \in Fields \ {"series"} : d[x] = c[x]
    BY DEF ChartTypes, Fields
  <2> HIDE DEF d
  <2>4. \A n \in DOMAIN c.series : c.series[n].data \in Seq(Sample) /\ Len(c.series[n].data) \in Nat
    BY DEF ChartTypes, SeriesOK, Series
  <2>5. /\ c.series[m].data \o item.data \in Seq(Sample)
        /\ Len(c.series[m].data \o item.data) = Len(c.series[m].data) + Len(item.data)
        /\ Len(item.data) \in Nat
    BY <2>1, <2>4
  <2>6. new \in Series /\ Len(new.data) = Len(c.series[m].data) + Len(item.data)
    BY <2>5 DEF Series
  <2> HIDE DEF new
  <2>7. DOMAIN s = DOMAIN c.series /\ s[m] = new /\ \A n \in DOMAIN c.series \ {m} : s[n] = c.series[n]
    BY <2>1
  <2>8. SeriesOK(s)
    <3>1. PICK b \in Nat : \A n \in DOMAIN c.series : Len(c.series[n].data) <= b
      BY DEF ChartTypes, SeriesOK
    <3>2. ASSUME NEW n \in DOMAIN s
          PROVE  Len(s[n].data) <= b + Len(item.data)
      <4>1. CASE n = m
        <5> DEFINE x == Len(c.series[m].data)
                   y == Len(item.data)
        <5>1. Len(s[n].data) = x + y
          BY <2>6, <2>7, <4>1
        <5>2. x <= b /\ x \in Nat /\ y \in Nat
          BY <2>1, <2>4, <2>5, <3>1
        <5> HIDE DEF x, y
        <5>3. x + y <= b + y
          BY <5>2
        <5> QED BY <5>1, <5>3 DEF y
      <4>2. CASE n # m
        BY <2>4, <2>5, <2>7, <3>1, <4>2
      <4> QED BY <4>1, <4>2
    <3>4. b + Len(item.data) \in Nat
      BY <2>5
    <3>3. \A n \in DOMAIN s : s[n] \in Series
      BY <2>6, <2>7 DEF ChartTypes, SeriesOK
    <3> QED BY <3>2, <3>3, <3>4 DEF SeriesOK
  <2> HIDE DEF s
  <2>9. Grown(c, d)
    <3>1. ASSUME NEW n \in DOMAIN c.series
          PROVE  Len(c.series[n].data) <= Len(s[n].data)
      <4>1. CASE n = m
        <5> DEFINE x == Len(c.series[n].data)
                   y == Len(item.data)
        <5>1. Len(s[n].data) = x + y
          BY <2>6, <2>7, <4>1
        <5>2. x \in Nat /\ y \in Nat
          BY <2>4, <2>5
        <5> HIDE DEF x, y
        <5>3. x <= x + y
          BY <5>2
        <5> QED BY <5>1, <5>3 DEF x
      <4>2. CASE n # m
        BY <2>4, <2>7, <4>2
      <4> QED BY <4>1, <4>2
    <3> QED BY <2>3, <2>7, <2>8, <3>1 DEF Grown
  <2> QED BY <1>2, <2>2, <2>3, <2>9 DEF s, new
<1> QED BY <1>1, <1>2

LEMMA AppendAllIs ==
  ASSUME NEW c, ChartTypes(c), NEW items, Batch(items)
  PROVE  LET d == AppendAll(c, items)
         IN  /\ Grown(c, d)
             /\ (\A i \in 1 .. Len(items) : ~TakesSamples(c, items[i])) => d = c
<1> DEFINE N == Len(items)
<1>1. PICK f : /\ f = [i \in 0 .. N |-> IF i = 0 THEN c ELSE AppendToSeries(f[i - 1], items[i])]
               /\ AppendAll(c, items) = f[N]
  BY AppendingOneByOne DEF Batch
<1>2. N \in Nat /\ \A i \in 1 .. N : items[i].type \in Types /\ items[i].data \in Seq(Sample)
  BY DEF Batch
<1> HIDE DEF N
<1>3. f[0] = c /\ \A n \in 0 .. N - 1 : f[n + 1] = AppendToSeries(f[n], items[n + 1])
  <2>1. \A i \in 0 .. N : f[i] = IF i = 0 THEN c ELSE AppendToSeries(f[i - 1], items[i])
    BY <1>1
  <2>2. ASSUME NEW n \in 0 .. N - 1
        PROVE  f[n + 1] = AppendToSeries(f[n], items[n + 1])
    <3>1. n + 1 \in 0 .. N /\ n + 1 # 0 /\ n + 1 - 1 = n
      BY <1>2
    <3> QED BY <2>1, <3>1
  <2> QED BY <1>2, <2>1, <2>2
<1>4. Grown(c, f[N])
  <2> DEFINE S == {n \in Nat : Grown(c, f[n])}
  <2>1. 0 \in S
    <3>1. \A n \in DOMAIN c.series : Len(c.series[n].data) \in Nat
      BY DEF ChartTypes, SeriesOK, Series
    <3> QED BY <1>3, <3>1 DEF Grown, ChartTypes
  <2>2. ASSUME NEW n \in 0 .. N - 1, n \in S
        PROVE  n + 1 \in S
    <3>1. Grown(c, f[n]) /\ ChartTypes(f[n])
      BY <2>2, GrownCount
    <3>2. n + 1 \in 1 .. N
      BY <1>2
    <3> DEFINE e == f[n]
               item == items[n + 1]
    <3>3. item.type \in Types /\ item.data \in Seq(Sample)
      BY <1>2, <3>2
    <3>4. f[n + 1] = AppendToSeries(e, item)
      BY <1>3
    <3>e. ChartTypes(e)
      BY <3>1
    <3> HIDE DEF e, item
    <3>5. Grown(e, f[n + 1])
      <4>1. Grown(e, AppendToSeries(e, item))
        BY <3>e, <3>3, AppendToSeriesIs
      <4> QED BY <3>4, <4>1
    <3>6. Grown(c, f[n + 1])
      BY <3>1, <3>5, GrownTransitive DEF e
    <3> QED BY <3>6
  <2> HIDE DEF S
  <2>3. \A n \in 0 .. N - 1 : n \in S => n + 1 \in S
    BY <2>2
  <2>4. \A n \in 0 .. N : n \in S
    BY <1>2, <2>1, <2>3, CountingUp
  <2> QED BY <1>2, <2>4 DEF S
<1>5. ASSUME \A i \in 1 .. N : ~TakesSamples(c, items[i])
      PROVE  f[N] = c
  <2> DEFINE S == {n \in Nat : f[n] = c}
  <2>1. 0 \in S
    BY <1>3
  <2>2. ASSUME NEW n \in 0 .. N - 1, n \in S
        PROVE  n + 1 \in S
    <3>1. n + 1 \in 1 .. N
      BY <1>2
    <3>2. f[n + 1] = c
      BY <1>3, <1>5, <2>2, <3>1 DEF AppendToSeries
    <3> QED BY <3>2
  <2> HIDE DEF S
  <2>3. \A n \in 0 .. N - 1 : n \in S => n + 1 \in S
    BY <2>2
  <2>4. \A n \in 0 .. N : n \in S
    BY <1>2, <2>1, <2>3, CountingUp
  <2> QED BY <1>2, <2>4 DEF S
<1> QED BY <1>1, <1>4, <1>5 DEF N

LEMMA AppendBatchIs ==
  ASSUME NEW c, ChartInv(c), NEW items, Batch(items)
  PROVE  LET d == AppendBatch(c, items)
         IN  /\ ChartInv(d)
             /\ d = c \/ d.flushQueued
             /\ (\A i \in 1 .. Len(items) : ~TakesSamples(c, items[i])) => d = c
             /\ d.series = AppendAll(c, items).series /\ d.order = c.order
             /\ DOMAIN d.series = DOMAIN c.series /\ (c.flushQueued => d.flushQueued)
<1> DEFINE after == AppendAll(c, items)
           T == {Len(after.series[items[i].name].data) : i \in {j \in DOMAIN items : TakesSamples(c, items[j])}}
           d == AppendBatch(c, items)
<1>0. ChartTypes(c)
  BY DEF ChartInv, Sound
<1>1. /\ Grown(c, after)
      /\ (\A i \in 1 .. Len(items) : ~TakesSamples(c, items[i])) => after = c
  BY <1>0, AppendAllIs
<1> HIDE DEF after
<1>2. CASE T = {}
  <2>1. \A i \in 1 .. Len(items) : ~TakesSamples(c, items[i])
    BY <1>2 DEF Batch
  <2>2. d = c
    BY <1>1, <1>2, <2>1 DEF AppendBatch, after
  <2> QED BY <1>1, <2>1, <2>2 DEF after
<1>3. CASE T # {}
  <2> DEFINE new == Max(T \cup {after.pendingNew})
             fresh == MaxSampleCount(c) .. MaxSampleCount(after) - 1
  <2>1. d = [after EXCEPT !.pendingNew = new, !.flushQueued = TRUE, !.unpainted = @ \cup fresh]
    BY <1>3 DEF AppendBatch, after
  <2>2. /\ MaxSampleCount(c) <= MaxSampleCount(after) /\ MaxSampleCount(after) \in Nat
        /\ MaxSampleCount(c) \in Nat /\ ChartTypes(after)
    BY <1>0, <1>1, GrownCount, CountIs DEF ChartTypes
  <2>3. after.pendingNew = c.pendingNew /\ after.unpainted = c.unpainted
    BY <1>1 DEF Grown, Fields
  <2>4. c.pendingNew \in Nat /\ c.pendingNew <= MaxSampleCount(c)
    BY DEF ChartInv, Sound, ChartTypes
  <2>5. \A y \in T : y \in Nat /\ y <= MaxSampleCount(after)
    <3> TAKE y \in T
    <3>1. PICK j \in DOMAIN items : TakesSamples(c, items[j]) /\ y = Len(after.series[items[j].name].data)
      OBVIOUS
    <3>2. items[j].name \in DOMAIN after.series /\ SeriesOK(after.series)
      BY <1>1, <3>1 DEF TakesSamples, Grown
    <3>3. after.series[items[j].name].data \in Seq(Sample)
      BY <3>2 DEF SeriesOK, Series
    <3> QED BY <3>1, <3>2, <3>3, CountIs
  <2> HIDE DEF T
  <2>6. new \in T \cup {c.pendingNew} /\ new >= c.pendingNew
    <3> DEFINE U == T \cup {c.pendingNew}
    <3>1. /\ U \in SUBSET Nat /\ c.pendingNew \in U
          /\ \A y \in U : y <= MaxSampleCount(after)
      BY <2>2, <2>4, <2>5
    <3>2. new = Max(U)
      BY <2>3
    <3> HIDE DEF U, new
    <3>3. Max(U) \in U /\ \A y \in U : Max(U) >= y
      BY <2>2, <3>1, MaxIs
    <3> QED BY <3>1, <3>2, <3>3 DEF U
  <2> HIDE DEF new, fresh
  <2>7. new \in Nat /\ new <= MaxSampleCount(after) /\ c.pendingNew <= new
    BY <2>2, <2>4, <2>5, <2>6
  <2>8. fresh \in SUBSET Nat /\ \A s \in fresh : s >= MaxSampleCount(c)
    BY <2>2 DEF fresh
  <2>9. /\ DOMAIN d = Fields /\ d.pendingNew = new /\ d.flushQueued = TRUE /\ d.unpainted = c.unpainted \cup fresh
        /\ \A x \in Fields \ {"pendingNew", "flushQueued", "unpainted"} : d[x] = after[x]
    BY <1>1, <2>1, <2>3 DEF Grown, Fields
  <2> HIDE DEF d
  <2>10. d.series = after.series /\ d.order = c.order
    BY <1>1, <2>9 DEF Grown, Fields
  <2>11. MaxSampleCount(d) = MaxSampleCount(after)
    BY <2>10, CountOf
  <2>12. /\ d.pendingOld = c.pendingOld /\ d.cursor = c.cursor /\ d.section = c.section
    BY <1>1, <2>9 DEF Grown, Fields
  <2>13. ChartTypes(d)
    BY <2>2, <2>7, <2>8, <2>9, <1>0 DEF ChartTypes, Fields
  <2>14. /\ c.pendingOld <= c.pendingNew /\ c.cursor < MaxSampleCount(c) /\ c.section <= SectionCap
         /\ \A s \in c.unpainted : c.pendingOld <= s
         /\ c.pendingOld \in Nat /\ c.cursor \in Int
    BY DEF ChartInv, Sound, ChartTypes
  <2>15. Sound(d)
    <3>1. d.pendingOld <= d.pendingNew /\ d.pendingNew <= MaxSampleCount(d) /\ d.cursor < MaxSampleCount(d)
      BY <2>2, <2>4, <2>7, <2>9, <2>11, <2>12, <2>14
    <3>2. \A s \in d.unpainted : d.pendingOld <= s
      <4> TAKE s \in d.unpainted
      <4>1. CASE s \in c.unpainted
        BY <4>1, <2>12, <2>14
      <4>2. CASE s \in fresh
        BY <4>2, <2>2, <2>4, <2>8, <2>12, <2>14
      <4> QED BY <2>9, <4>1, <4>2
    <3> QED BY <2>9, <2>13, <3>1, <3>2 DEF Sound
  <2>16. ChartInv(d)
    BY <2>9, <2>12, <2>14, <2>15 DEF ChartInv
  <2>17. ~ \A i \in 1 .. Len(items) : ~TakesSamples(c, items[i])
    BY <1>3 DEF T, Batch
  <2> QED BY <1>1, <2>9, <2>10, <2>16, <2>17 DEF d, after, Grown
<1> QED BY <1>2, <1>3
-----------------------------------------------------------------------------
LEMMA ClearAllIs ==
  ASSUME NEW c, ChartInv(c)
  PROVE  LET d == ClearAll(c)
         IN  /\ ChartInv(d) /\ d.flushQueued = c.flushQueued
             /\ d.order = <<>> /\ DOMAIN d.series = {}
<1> DEFINE x == [c EXCEPT !.order = <<>>, !.series = EmptyChart.series, !.origin = 0, !.cursor = -1,
                          !.pendingOld = 0, !.pendingNew = 0, !.scroll = 0]
           changed == {"order", "series", "origin", "cursor", "pendingOld", "pendingNew", "scroll"}
<1>1. /\ DOMAIN x = Fields /\ x.order = <<>> /\ x.series = [n \in {} |-> <<>>] /\ x.origin = 0 /\ x.cursor = -1
      /\ x.pendingOld = 0 /\ x.pendingNew = 0 /\ x.scroll = 0
      /\ \A f \in Fields \ changed : x[f] = c[f]
  BY DEF ChartInv, Sound, ChartTypes, Fields, EmptyChart
<1>2. ClearAll(c) = Repainted(SyncColumnWidth(x))
  BY DEF ClearAll
<1> HIDE DEF x
<1>3. DOMAIN x.series = {} /\ SeriesOK(x.series)
  <2>1. DOMAIN x.series = {}
    BY <1>1
  <2>2. 0 \in Nat
    OBVIOUS
  <2> QED BY <2>1, <2>2 DEF SeriesOK
<1>4. MaxSampleCount(x) = 0
  BY <1>3, CountIs
<1>5. Sound(x)
  <2>1. ChartTypes(x)
    BY <1>1, <1>3 DEF ChartInv, Sound, ChartTypes, Fields
  <2>2. x.unpainted = c.unpainted /\ x.flushQueued = c.flushQueued
    BY <1>1 DEF Fields
  <2>3. \A s \in x.unpainted : 0 <= s
    BY <2>2 DEF ChartInv, Sound, ChartTypes
  <2> QED BY <1>1, <1>4, <2>1, <2>2, <2>3 DEF ChartInv, Sound
<1> DEFINE d == Repainted(SyncColumnWidth(x))
<1>6. ChartInv(d) /\ \A f \in Fields \ {"origin", "section", "scroll", "unpainted"} : d[f] = x[f]
  BY <1>3, <1>5, ResyncIs
<1> HIDE DEF d
<1>7. d.flushQueued = c.flushQueued /\ d.order = x.order /\ d.series = x.series
  BY <1>1, <1>6 DEF Fields
<1> QED BY <1>1, <1>2, <1>3, <1>6, <1>7 DEF d

(* What moves the cursor or the scroll bar, or changes the mode.            *)
LEMMA AdjustedIs ==
  ASSUME NEW c, ChartInv(c), NEW d, DOMAIN d = Fields,
         \A f \in Fields \ {"cursor", "scroll", "live", "panning", "moved"} : d[f] = c[f],
         d.cursor \in Int, d.cursor < MaxSampleCount(c), d.scroll \in Nat,
         {d.live, d.panning, d.moved} \subseteq BOOLEAN,
         ~c.flushQueued => d.scroll <= EndOf(c) /\ (d.live /\ ~d.moved => d.scroll = EndOf(c))
  PROVE  ChartInv(d)
<1>1. /\ d.series = c.series /\ d.pps = c.pps /\ d.origin = c.origin
      /\ d.section = c.section /\ d.flushQueued = c.flushQueued /\ d.unpainted = c.unpainted
      /\ d.pendingOld = c.pendingOld /\ d.pendingNew = c.pendingNew
  BY DEF Fields
<1>2. /\ MaxSampleCount(d) = MaxSampleCount(c) /\ WindowOrigin(d) = WindowOrigin(c)
      /\ ChartPixelWidth(d) = ChartPixelWidth(c)
  BY <1>1, CountOf
<1>3. Sound(d)
  BY <1>1, <1>2 DEF ChartInv, Sound, ChartTypes
<1> QED BY <1>1, <1>2, <1>3 DEF ChartInv, Placed, EndOf

(* scrollToEnd, once the section fits.                                      *)
LEMMA ScrollToEndIs ==
  ASSUME NEW c, Sound(c), c.section <= SectionCap,
         ~c.flushQueued => c.origin = WindowOrigin(c) /\ c.section = ChartPixelWidth(c)
  PROVE  LET d == ScrollToEnd(c)
         IN  ChartInv(d) /\ \A f \in Fields \ {"scroll", "moved"} : d[f] = c[f]
<1> DEFINE d == ScrollToEnd(c)
<1>1. /\ DOMAIN d = Fields /\ d.scroll = AtLeast(0, ChartPixelWidth(c) - ViewWidth) /\ d.moved = FALSE
      /\ \A f \in Fields \ {"scroll", "moved"} : d[f] = c[f]
  BY DEF ScrollToEnd, Sound, ChartTypes, Fields
<1> HIDE DEF d
<1>2. /\ d.series = c.series /\ d.pps = c.pps /\ d.origin = c.origin
      /\ d.section = c.section /\ d.flushQueued = c.flushQueued
  BY <1>1 DEF Fields
<1>3. /\ MaxSampleCount(d) = MaxSampleCount(c) /\ WindowOrigin(d) = WindowOrigin(c)
      /\ ChartPixelWidth(d) = ChartPixelWidth(c)
  BY <1>2, CountOf
<1>4. ChartPixelWidth(c) \in Nat /\ ViewWidth \in Nat
  BY WindowFits, ChartAssumption DEF Sound
<1>5. d.scroll \in Nat
  BY <1>1, <1>4 DEF AtLeast
<1>6. Sound(d)
  BY <1>1, <1>3, <1>5 DEF Sound, ChartTypes, Fields
<1>7. ~d.flushQueued => Placed(d)
  <2> SUFFICES ASSUME ~d.flushQueued PROVE Placed(d)
    OBVIOUS
  <2>1. d.scroll = EndOf(d)
    BY <1>1, <1>2 DEF EndOf
  <2> QED BY <1>2, <1>3, <1>5, <2>1 DEF Placed
<1> QED BY <1>1, <1>2, <1>6, <1>7 DEF ChartInv, d

LEMMA SetLiveModeIs ==
  ASSUME NEW c, ChartInv(c), NEW on \in BOOLEAN
  PROVE  LET d == SetLiveMode(c, on)
         IN  /\ ChartInv(d) /\ \A f \in Fields \ {"live", "scroll", "moved"} : d[f] = c[f]
             /\ ~on => d.scroll = c.scroll
<1>1. CASE c.live = on
  BY <1>1 DEF SetLiveMode
<1>2. CASE c.live # on /\ on
  <2> DEFINE x == [c EXCEPT !.live = TRUE]
  <2>1. DOMAIN x = Fields /\ x.live = TRUE /\ \A f \in Fields \ {"live"} : x[f] = c[f]
    BY DEF ChartInv, Sound, ChartTypes, Fields
  <2>2. SetLiveMode(c, on) = ScrollToEnd(x)
    BY <1>2 DEF SetLiveMode
  <2> HIDE DEF x
  <2>3. /\ x.series = c.series /\ x.pps = c.pps /\ x.origin = c.origin
        /\ x.section = c.section /\ x.flushQueued = c.flushQueued
    BY <2>1 DEF Fields
  <2>4. /\ MaxSampleCount(x) = MaxSampleCount(c) /\ WindowOrigin(x) = WindowOrigin(c)
        /\ ChartPixelWidth(x) = ChartPixelWidth(c)
    BY <2>3, CountOf
  <2>5. Sound(x)
    BY <2>1, <2>4 DEF ChartInv, Sound, ChartTypes, Fields
  <2>6. /\ ChartInv(ScrollToEnd(x))
        /\ \A f \in Fields \ {"scroll", "moved"} : ScrollToEnd(x)[f] = x[f]
    BY <2>3, <2>4, <2>5, ScrollToEndIs DEF ChartInv, Placed
  <2> QED BY <1>2, <2>1, <2>2, <2>6
<1>3. CASE c.live # on /\ ~on
  <2> DEFINE d == [c EXCEPT !.live = FALSE]
  <2>1. DOMAIN d = Fields /\ d.live = FALSE /\ \A f \in Fields \ {"live"} : d[f] = c[f]
    BY DEF ChartInv, Sound, ChartTypes, Fields
  <2>2. SetLiveMode(c, on) = d
    BY <1>3 DEF SetLiveMode
  <2> HIDE DEF d
  <2>3. /\ d.cursor = c.cursor /\ d.scroll = c.scroll /\ d.panning = c.panning /\ d.moved = c.moved
    BY <2>1 DEF Fields
  <2>4. /\ d.cursor \in Int /\ d.cursor < MaxSampleCount(c) /\ d.scroll \in Nat
        /\ {d.live, d.panning, d.moved} \subseteq BOOLEAN
        /\ ~c.flushQueued => d.scroll <= EndOf(c) /\ (d.live /\ ~d.moved => d.scroll = EndOf(c))
    BY <2>1, <2>3 DEF ChartInv, Sound, ChartTypes, Placed
  <2>5. \A f \in Fields \ {"cursor", "scroll", "live", "panning", "moved"} : d[f] = c[f]
    BY <2>1
  <2>6. ChartInv(d)
    BY <2>1, <2>4, <2>5, AdjustedIs
  <2> QED BY <2>1, <2>2, <2>3, <2>6
<1> QED BY <1>1, <1>2, <1>3

(* flushPendingAppend: what was appended since the last flush is painted,   *)
(* and the chart is in place again.                                         *)
LEMMA FlushIs ==
  ASSUME NEW c, ChartInv(c), NEW away \in BOOLEAN
  PROVE  LET d == FlushPendingAppend(c, away)
         IN  /\ ChartInv(d) /\ d.flushQueued = FALSE
             /\ d.series = c.series /\ d.order = c.order
<1> DEFINE taken == [c EXCEPT !.flushQueued = FALSE, !.pendingOld = c.pendingNew,
                              !.unpainted = {s \in @ : s < c.pendingOld}]
<1>1. /\ DOMAIN taken = Fields /\ taken.flushQueued = FALSE /\ taken.pendingOld = c.pendingNew
      /\ taken.unpainted = {s \in c.unpainted : s < c.pendingOld}
      /\ \A f \in Fields \ {"flushQueued", "pendingOld", "unpainted"} : taken[f] = c[f]
  BY DEF ChartInv, Sound, ChartTypes, Fields
<1> HIDE DEF taken
<1>2. /\ taken.series = c.series /\ taken.order = c.order /\ taken.cursor = c.cursor
      /\ taken.pendingNew = c.pendingNew /\ taken.live = c.live
      /\ MaxSampleCount(taken) = MaxSampleCount(c)
  BY <1>1, CountOf DEF Fields
<1>3. taken.unpainted = {}
  BY <1>1 DEF ChartInv, Sound, ChartTypes
<1>4. Sound(taken)
  <2>1. ChartTypes(taken)
    BY <1>1, <1>3 DEF ChartInv, Sound, ChartTypes, Fields
  <2> QED BY <1>1, <1>2, <1>3, <2>1 DEF ChartInv, Sound, ChartTypes
<1> DEFINE r == SyncColumnWidth(taken)
<1>5. /\ Sound(r) /\ r.section <= SectionCap
      /\ r.origin = WindowOrigin(r) /\ r.section = ChartPixelWidth(r)
      /\ r.scroll = AtLeast(0, AtMost(taken.scroll, r.section - ViewWidth))
      /\ \A x \in Fields \ {"origin", "section", "scroll", "unpainted"} : r[x] = taken[x]
  BY <1>4, SyncIs
<1> HIDE DEF r
<1>6. r.series = c.series /\ r.order = c.order /\ r.live = c.live /\ r.flushQueued = FALSE
  BY <1>1, <1>2, <1>5 DEF Fields
<1>7. CASE ~c.live
  <2>1. FlushPendingAppend(c, away) = r
    BY <1>7 DEF FlushPendingAppend, r, taken
  <2>2. r.scroll <= EndOf(r)
    BY <1>5, ChartAssumption DEF EndOf, AtLeast, AtMost, Sound, ChartTypes
  <2>3. ChartInv(r)
    BY <1>5, <1>6, <1>7, <2>2 DEF ChartInv, Placed
  <2> QED BY <1>6, <2>1, <2>3
<1>8. CASE c.live
  <2> DEFINE e == ScrollToEnd(r)
  <2>1. ChartInv(e) /\ \A f \in Fields \ {"scroll", "moved"} : e[f] = r[f]
    BY <1>5, ScrollToEndIs
  <2> HIDE DEF e
  <2>2. e.series = c.series /\ e.order = c.order /\ e.flushQueued = FALSE
    BY <1>6, <2>1 DEF Fields
  <2> DEFINE d == [e EXCEPT !.cursor = NewestSample(e)]
  <2>3. FlushPendingAppend(c, away) = IF away THEN d ELSE e
    BY <1>6, <1>8 DEF FlushPendingAppend, r, taken, e
  <2>4. /\ DOMAIN d = Fields /\ d.cursor = NewestSample(e)
        /\ \A f \in Fields \ {"cursor"} : d[f] = e[f]
    BY <2>1 DEF ChartInv, Sound, ChartTypes, Fields
  <2> HIDE DEF d
  <2>5. d.cursor \in Int /\ d.cursor < MaxSampleCount(e)
    <3>1. MaxSampleCount(e) \in Nat
      BY <2>1, CountIs DEF ChartInv, Sound, ChartTypes
    <3> QED BY <2>4, <3>1 DEF NewestSample
  <2>6. /\ d.scroll = e.scroll /\ d.live = e.live /\ d.panning = e.panning /\ d.moved = e.moved
        /\ d.series = e.series /\ d.order = e.order /\ d.flushQueued = e.flushQueued
    BY <2>4 DEF Fields
  <2>7. ChartInv(d)
    BY <2>1, <2>4, <2>5, <2>6, AdjustedIs DEF ChartInv, Sound, ChartTypes, Placed
  <2> QED BY <2>1, <2>2, <2>3, <2>6, <2>7
<1> QED BY <1>7, <1>8 DEF ChartInv, Sound, ChartTypes
-----------------------------------------------------------------------------
(* The gestures on the horizontal view.                                     *)
View == {"cursor", "scroll", "live", "panning", "moved"}

LEMMA QuotientIsInt ==
  ASSUME NEW a \in Int, NEW b \in Nat \ {0}
  PROVE  a \div b \in Int
<1> DEFINE q == a \div b
           r == a % b
<1>1. q \in Int /\ r \in 0 .. b - 1 /\ a = q * b + r
  BY SMT
<1> HIDE DEF q, r
<1> QED BY <1>1 DEF q

LEMMA SampleAtIs ==
  ASSUME NEW c, ChartTypes(c), NEW x \in Nat
  PROVE  SampleAt(c, x) \in Int /\ SampleAt(c, x) < MaxSampleCount(c)
<1> DEFINE a == 2 * (x + c.scroll) + c.pps
           b == 2 * c.pps
           q == a \div b
<1>1. a \in Int /\ b \in Nat \ {0} /\ c.origin \in Int
  BY DEF ChartTypes
<1>2. MaxSampleCount(c) \in Nat
  BY CountIs DEF ChartTypes
<1>3. q \in Int
  <2> HIDE DEF a, b
  <2> QED BY <1>1, QuotientIsInt
<1>4. SampleAt(c, x) = IF c.origin + q >= MaxSampleCount(c) THEN -1 ELSE c.origin + q
  BY DEF SampleAt
<1> HIDE DEF q
<1> QED BY <1>1, <1>2, <1>3, <1>4

LEMMA CursorMoved ==
  ASSUME NEW c, ChartInv(c), NEW k \in Int, k < MaxSampleCount(c)
  PROVE  LET d == [c EXCEPT !.cursor = k]
         IN  ChartInv(d) /\ \A f \in Fields \ View : d[f] = c[f]
<1> DEFINE d == [c EXCEPT !.cursor = k]
<1>1. DOMAIN d = Fields /\ d.cursor = k /\ \A f \in Fields \ {"cursor"} : d[f] = c[f]
  BY DEF ChartInv, Sound, ChartTypes, Fields
<1> HIDE DEF d
<1>2. d.scroll = c.scroll /\ d.live = c.live /\ d.panning = c.panning /\ d.moved = c.moved
  BY <1>1 DEF Fields
<1>3. /\ d.cursor \in Int /\ d.cursor < MaxSampleCount(c) /\ d.scroll \in Nat
      /\ {d.live, d.panning, d.moved} \subseteq BOOLEAN
      /\ ~c.flushQueued => d.scroll <= EndOf(c) /\ (d.live /\ ~d.moved => d.scroll = EndOf(c))
  BY <1>1, <1>2 DEF ChartInv, Sound, ChartTypes, Placed
<1>4. ChartInv(d)
  BY <1>1, <1>3, AdjustedIs
<1> QED BY <1>1, <1>4 DEF d, View

LEMMA PanningSet ==
  ASSUME NEW c, ChartInv(c), NEW on \in BOOLEAN
  PROVE  LET d == [c EXCEPT !.panning = on]
         IN  ChartInv(d) /\ \A f \in Fields \ {"panning"} : d[f] = c[f]
<1> DEFINE d == [c EXCEPT !.panning = on]
<1>1. DOMAIN d = Fields /\ d.panning = on /\ \A f \in Fields \ {"panning"} : d[f] = c[f]
  BY DEF ChartInv, Sound, ChartTypes, Fields
<1> HIDE DEF d
<1>2. d.scroll = c.scroll /\ d.live = c.live /\ d.cursor = c.cursor /\ d.moved = c.moved
  BY <1>1 DEF Fields
<1>3. /\ d.cursor \in Int /\ d.cursor < MaxSampleCount(c) /\ d.scroll \in Nat
      /\ {d.live, d.panning, d.moved} \subseteq BOOLEAN
      /\ ~c.flushQueued => d.scroll <= EndOf(c) /\ (d.live /\ ~d.moved => d.scroll = EndOf(c))
  BY <1>1, <1>2 DEF ChartInv, Sound, ChartTypes, Placed
<1>4. ChartInv(d)
  BY <1>1, <1>3, AdjustedIs
<1> QED BY <1>1, <1>4 DEF d

LEMMA Scrolled ==
  ASSUME NEW c, ChartInv(c), NEW px \in Int
  PROVE  LET d == [ScrollTo(c, px) EXCEPT !.moved = TRUE]
         IN  /\ ChartInv(d) /\ \A f \in Fields \ View : d[f] = c[f]
             /\ d.scroll = ScrollTo(c, px).scroll
<1> DEFINE d == [ScrollTo(c, px) EXCEPT !.moved = TRUE]
<1>1. /\ DOMAIN d = Fields /\ d.scroll = AtLeast(0, AtMost(px, c.section - ViewWidth)) /\ d.moved = TRUE
      /\ d.scroll = ScrollTo(c, px).scroll
      /\ \A f \in Fields \ {"scroll", "moved"} : d[f] = c[f]
  BY DEF ScrollTo, ChartInv, Sound, ChartTypes, Fields
<1> HIDE DEF d
<1>2. d.cursor = c.cursor /\ d.live = c.live /\ d.panning = c.panning
  BY <1>1 DEF Fields
<1>3. c.section \in Nat /\ ViewWidth \in Nat
  BY ChartAssumption DEF ChartInv, Sound, ChartTypes
<1>4. d.scroll \in Nat /\ d.scroll <= EndOf(c)
  BY <1>1, <1>3 DEF EndOf, AtLeast, AtMost
<1>5. /\ d.cursor \in Int /\ d.cursor < MaxSampleCount(c) /\ d.scroll \in Nat
      /\ {d.live, d.panning, d.moved} \subseteq BOOLEAN
      /\ ~c.flushQueued => d.scroll <= EndOf(c) /\ (d.live /\ ~d.moved => d.scroll = EndOf(c))
  BY <1>1, <1>2, <1>4 DEF ChartInv, Sound, ChartTypes
<1>6. ChartInv(d)
  BY <1>1, <1>5, AdjustedIs
<1> QED BY <1>1, <1>6 DEF d, View

(* The mouse, the scroll bar and the live button.                           *)
LEMMA PointsIs ==
  ASSUME NEW c, ChartInv(c), NEW d,
         \/ \E x \in 0 .. ViewWidth - 1 : d = Hover(c, x)
         \/ d = Leave(c)
         \/ d = PressRight(c)
         \/ d = Release(c)
  PROVE  ChartInv(d) /\ d.scroll = c.scroll /\ \A f \in Fields \ View : d[f] = c[f]
<1>0. ChartTypes(c) /\ ViewWidth \in Nat /\ MaxSampleCount(c) \in Nat
  BY CountIs, ChartAssumption DEF ChartInv, Sound, ChartTypes
<1>1. ASSUME NEW x \in 0 .. ViewWidth - 1, d = Hover(c, x)
      PROVE  ChartInv(d) /\ d.scroll = c.scroll /\ \A f \in Fields \ View : d[f] = c[f]
  <2>1. CASE c.panning
    BY <1>1, <2>1 DEF Hover
  <2>2. CASE ~c.panning
    <3>1. SampleAt(c, x) \in Int /\ SampleAt(c, x) < MaxSampleCount(c)
      BY <1>0, SampleAtIs
    <3>2. d = [c EXCEPT !.cursor = SampleAt(c, x)]
      BY <1>1, <2>2 DEF Hover
    <3>3. ChartInv(d) /\ \A f \in Fields \ View : d[f] = c[f]
      BY <3>1, <3>2, CursorMoved
    <3>4. d.scroll = c.scroll
      BY <3>2
    <3> QED BY <3>3, <3>4
  <2> QED BY <2>1, <2>2
<1>2. CASE d = Leave(c)
  <2> DEFINE k == IF c.live THEN NewestSample(c) ELSE -1
  <2>1. k \in Int /\ k < MaxSampleCount(c)
    BY <1>0 DEF NewestSample
  <2>2. d = [c EXCEPT !.cursor = k]
    BY <1>2 DEF Leave
  <2>3. d.scroll = c.scroll
    BY <2>2
  <2> HIDE DEF k
  <2>4. ChartInv(d) /\ \A f \in Fields \ View : d[f] = c[f]
    BY <2>1, <2>2, CursorMoved
  <2> QED BY <2>3, <2>4
<1>3. CASE d = PressRight(c)
  <2> DEFINE e == SetLiveMode(c, FALSE)
  <2>1. /\ ChartInv(e) /\ e.scroll = c.scroll
        /\ \A f \in Fields \ {"live", "scroll", "moved"} : e[f] = c[f]
    BY SetLiveModeIs
  <2>2. d = [e EXCEPT !.panning = TRUE]
    BY <1>3 DEF PressRight
  <2> HIDE DEF e
  <2>3. ChartInv(d) /\ \A f \in Fields \ {"panning"} : d[f] = e[f]
    BY <2>1, <2>2, PanningSet
  <2> QED BY <2>1, <2>3 DEF Fields, View
<1>4. CASE d = Release(c)
  <2>1. d = [c EXCEPT !.panning = FALSE]
    BY <1>4 DEF Release
  <2>2. ChartInv(d) /\ \A f \in Fields \ {"panning"} : d[f] = c[f]
    BY <2>1, PanningSet
  <2> QED BY <2>2 DEF Fields, View
<1> QED BY <1>1, <1>2, <1>3, <1>4

LEMMA ScrollsIs ==
  ASSUME NEW c, ChartInv(c), NEW d,
         \/ \E px \in 0 .. SectionCap - ViewWidth : d \in {Pan(c, px), UseScrollBar(c, px)}
         \/ \E on \in BOOLEAN : d = SetLiveMode(c, on)
  PROVE  ChartInv(d) /\ \A f \in Fields \ View : d[f] = c[f]
<1>1. ASSUME NEW px \in 0 .. SectionCap - ViewWidth, d = UseScrollBar(c, px)
      PROVE  ChartInv(d) /\ \A f \in Fields \ View : d[f] = c[f]
  <2>1. d = [ScrollTo(c, px) EXCEPT !.moved = TRUE]
    BY <1>1 DEF UseScrollBar
  <2> QED BY <2>1, Scrolled
<1>2. ASSUME NEW px \in 0 .. SectionCap - ViewWidth, d = Pan(c, px)
      PROVE  ChartInv(d) /\ \A f \in Fields \ View : d[f] = c[f]
  <2>1. d = [ScrollTo(c, px) EXCEPT !.moved = TRUE] \/ d = c
    BY <1>2 DEF Pan
  <2> QED BY <2>1, Scrolled
<1>3. ASSUME NEW on \in BOOLEAN, d = SetLiveMode(c, on)
      PROVE  ChartInv(d) /\ \A f \in Fields \ View : d[f] = c[f]
  <2>1. /\ ChartInv(SetLiveMode(c, on))
        /\ \A f \in Fields \ {"live", "scroll", "moved"} : SetLiveMode(c, on)[f] = c[f]
    BY SetLiveModeIs
  <2> QED BY <1>3, <2>1 DEF View
<1> QED BY <1>1, <1>2, <1>3

(* The zooms.                                                               *)
Kept == {"order", "series", "flushQueued", "live", "panning"}

LEMMA ZoomedIs ==
  ASSUME NEW c, ChartTypes(c), NEW wider \in BOOLEAN
  PROVE  Zoomed(c, wider) \in 1 .. MaxPps
<1> DEFINE p == c.pps
<1>1. p \in 1 .. MaxPps /\ MaxPps \in Nat \ {0}
  BY ChartAssumption DEF ChartTypes
<1>2. p \div 2 \in Nat /\ p \div 2 <= p
  BY <1>1
<1>3. Zoomed(c, wider) = IF wider THEN AtMost(2 * p, MaxPps) ELSE AtLeast(1, p \div 2)
  BY DEF Zoomed
<1> DEFINE h == p \div 2
<1> HIDE DEF p, h
<1>4. h \in Nat /\ h <= p
  BY <1>2 DEF h
<1>5. Zoomed(c, wider) = IF wider THEN AtMost(2 * p, MaxPps) ELSE AtLeast(1, h)
  BY <1>3 DEF h
<1> QED BY <1>1, <1>4, <1>5 DEF AtMost, AtLeast

LEMMA ZoomButtonIs ==
  ASSUME NEW c, ChartInv(c), NEW wider \in BOOLEAN
  PROVE  LET d == ZoomButton(c, wider)
         IN  /\ ChartInv(d) /\ \A f \in Kept : d[f] = c[f]
             /\ d.pps = c.pps => d = c
<1>0. ChartTypes(c) /\ Zoomed(c, wider) \in 1 .. MaxPps
  BY ZoomedIs DEF ChartInv, Sound
<1>1. CASE Zoomed(c, wider) = c.pps
  BY <1>1 DEF ZoomButton
<1>2. CASE Zoomed(c, wider) # c.pps
  <2> DEFINE x == [c EXCEPT !.pps = Zoomed(c, wider), !.moved = TRUE]
  <2>1. /\ DOMAIN x = Fields /\ x.pps = Zoomed(c, wider) /\ x.moved = TRUE
        /\ \A f \in Fields \ {"pps", "moved"} : x[f] = c[f]
    BY DEF ChartInv, Sound, ChartTypes, Fields
  <2>2. ZoomButton(c, wider) = Repainted(SyncColumnWidth(x))
    BY <1>2 DEF ZoomButton
  <2> HIDE DEF x
  <2>3. x.series = c.series
    BY <2>1 DEF Fields
  <2>4. MaxSampleCount(x) = MaxSampleCount(c)
    BY <2>3, CountOf
  <2>5. ChartTypes(x)
    BY <1>0, <2>1 DEF ChartTypes, Fields
  <2>6. Sound(x)
    BY <2>1, <2>4, <2>5 DEF ChartInv, Sound, Fields
  <2> DEFINE d == Repainted(SyncColumnWidth(x))
  <2>7. /\ ChartInv(d)
        /\ \A f \in Fields \ {"origin", "section", "scroll", "unpainted"} : d[f] = x[f]
    BY <2>1, <2>6, ResyncIs
  <2> HIDE DEF d
  <2>8. (\A f \in Kept : d[f] = c[f]) /\ d.pps # c.pps
    BY <1>2, <2>1, <2>7 DEF Kept, Fields
  <2> QED BY <2>2, <2>7, <2>8 DEF d
<1> QED BY <1>1, <1>2

LEMMA KeepingInPlaceIs ==
  ASSUME NEW c, ChartTypes(c), NEW d, ChartTypes(d), NEW x \in Nat
  PROVE  KeepingInPlace(c, d, x) \in Nat
<1> DEFINE u == (c.origin - d.origin) * c.pps + c.scroll + x
           px2 == 2 * d.pps * u
           b == 2 * c.pps
           q == (px2 + c.pps) \div b
<1>1. u \in Int /\ b \in Nat \ {0} /\ c.pps \in Int /\ 2 * d.pps \in Int
  BY DEF ChartTypes
<1>2. px2 + c.pps \in Int
  <2> HIDE DEF u
  <2> QED BY <1>1
<1>3. q \in Int
  <2> HIDE DEF px2, b
  <2> QED BY <1>1, <1>2, QuotientIsInt
<1>4. KeepingInPlace(c, d, x) = AtLeast(0, q - x)
  BY DEF KeepingInPlace
<1> HIDE DEF q
<1> QED BY <1>3, <1>4 DEF AtLeast

LEMMA ZoomKeyIs ==
  ASSUME NEW c, ChartInv(c), NEW wider \in BOOLEAN
  PROVE  LET z == ZoomButton(c, wider)
             d == ZoomKey(c, wider)
         IN  /\ ChartInv(d) /\ \A f \in Kept : d[f] = c[f]
             /\ d.pps = z.pps /\ d.origin = z.origin
             /\ z.pps = c.pps => z = c
<1> DEFINE z == ZoomButton(c, wider)
           px == KeepingInPlace(c, z, ViewWidth \div 2)
           d == ZoomKey(c, wider)
<1>1. ChartInv(z) /\ (\A f \in Kept : z[f] = c[f]) /\ (z.pps = c.pps => z = c)
  BY ZoomButtonIs
<1>2. d = [ScrollTo(z, px) EXCEPT !.moved = TRUE]
  BY DEF ZoomKey
<1> HIDE DEF z
<1>3. ViewWidth \div 2 \in Nat
  BY ChartAssumption
<1>4. px \in Nat
  BY <1>1, <1>3, KeepingInPlaceIs DEF ChartInv, Sound
<1> HIDE DEF px, d
<1>5. ChartInv(d) /\ \A f \in Fields \ View : d[f] = z[f]
  BY <1>1, <1>2, <1>4, Scrolled
<1>6. d.live = z.live /\ d.panning = z.panning
  BY <1>1, <1>2 DEF ScrollTo, ChartInv, Sound, ChartTypes, Fields
<1>7. \A f \in Kept : d[f] = c[f]
  BY <1>1, <1>5, <1>6 DEF Kept, Fields, View
<1>8. d.pps = z.pps /\ d.origin = z.origin
  BY <1>5 DEF Fields, View
<1> QED BY <1>1, <1>5, <1>7, <1>8 DEF d, z

LEMMA ZoomWheelIs ==
  ASSUME NEW c, ChartInv(c), NEW wider \in BOOLEAN, NEW x \in Nat
  PROVE  LET d == ZoomWheel(c, wider, x)
         IN  ChartInv(d) /\ \A f \in Kept : d[f] = c[f]
<1>0. ChartTypes(c) /\ Zoomed(c, wider) \in 1 .. MaxPps
  BY ZoomedIs DEF ChartInv, Sound
<1> DEFINE y == [c EXCEPT !.pps = Zoomed(c, wider)]
<1>1. /\ DOMAIN y = Fields /\ y.pps = Zoomed(c, wider)
      /\ \A f \in Fields \ {"pps"} : y[f] = c[f]
  BY <1>0 DEF ChartTypes, Fields
<1> DEFINE sized == SyncColumnWidth(y)
           px == KeepingInPlace(c, sized, x)
           zoomed == ScrollTo(sized, px)
           n == MaxSampleCount(c)
           e == [zoomed EXCEPT !.pendingOld = n, !.pendingNew = n,
                               !.cursor = SampleAt(zoomed, x), !.moved = TRUE]
<1>2. ZoomWheel(c, wider, x) = Repainted(e)
  BY DEF ZoomWheel
<1> HIDE DEF y
<1>3. y.series = c.series
  BY <1>1 DEF Fields
<1>4. MaxSampleCount(y) = n
  BY <1>3, CountOf
<1>5. ChartTypes(y)
  BY <1>0, <1>1 DEF ChartTypes, Fields
<1>6. Sound(y)
  BY <1>1, <1>4, <1>5 DEF ChartInv, Sound, Fields
<1>7. /\ Sound(sized) /\ sized.section <= SectionCap
      /\ sized.origin = WindowOrigin(sized) /\ sized.section = ChartPixelWidth(sized)
      /\ \A f \in Fields \ {"origin", "section", "scroll", "unpainted"} : sized[f] = y[f]
  BY <1>6, SyncIs
<1> HIDE DEF sized
<1>8. px \in Nat
  BY <1>0, <1>7, KeepingInPlaceIs DEF Sound
<1> HIDE DEF px
<1>9. /\ DOMAIN zoomed = Fields /\ zoomed.scroll = AtLeast(0, AtMost(px, sized.section - ViewWidth))
      /\ \A f \in Fields \ {"scroll"} : zoomed[f] = sized[f]
  BY <1>7 DEF ScrollTo, Sound, ChartTypes, Fields
<1> HIDE DEF zoomed
<1>10. sized.section \in Nat /\ ViewWidth \in Nat
  BY <1>7, ChartAssumption DEF Sound, ChartTypes
<1>11. zoomed.scroll \in Nat /\ zoomed.scroll <= EndOf(sized)
  BY <1>8, <1>9, <1>10 DEF EndOf, AtLeast, AtMost
<1>12. ChartTypes(zoomed)
  BY <1>7, <1>9, <1>11 DEF Sound, ChartTypes, Fields
<1>13. /\ zoomed.series = c.series /\ zoomed.series = sized.series /\ zoomed.pps = sized.pps
       /\ zoomed.origin = sized.origin /\ zoomed.section = sized.section
       /\ \A f \in Kept : zoomed[f] = c[f]
  BY <1>1, <1>3, <1>7, <1>9 DEF Fields, Kept
<1>14. SampleAt(zoomed, x) \in Int /\ SampleAt(zoomed, x) < n /\ n \in Nat
  <2>1. MaxSampleCount(zoomed) = n
    BY <1>13, CountOf
  <2> QED BY <1>0, <1>12, <2>1, SampleAtIs, CountIs DEF ChartTypes
<1> DEFINE k == SampleAt(zoomed, x)
           d == Repainted(e)
<1> HIDE DEF n, k
<1>15. /\ DOMAIN d = Fields /\ d.pendingOld = n /\ d.pendingNew = n /\ d.cursor = k /\ d.moved = TRUE
       /\ d.unpainted = {}
       /\ \A f \in Fields \ {"pendingOld", "pendingNew", "cursor", "moved", "unpainted"} : d[f] = zoomed[f]
  BY <1>9 DEF Repainted, Fields, k
<1> HIDE DEF d
<1>16. d.series = zoomed.series /\ d.pps = zoomed.pps /\ d.origin = zoomed.origin
  BY <1>15 DEF Fields
<1>17. d.series = sized.series /\ d.series = c.series /\ d.pps = sized.pps /\ d.origin = sized.origin
  BY <1>13, <1>16
<1>18. /\ MaxSampleCount(d) = n /\ WindowOrigin(d) = WindowOrigin(sized)
       /\ ChartPixelWidth(d) = ChartPixelWidth(sized)
  BY <1>17, CountOf DEF n
<1>19. k \in Int /\ k < n /\ n \in Nat
  BY <1>14 DEF k, n
<1>20. ChartTypes(d)
  BY <1>12, <1>15, <1>19 DEF ChartTypes, Fields
<1>21. Sound(d)
  BY <1>15, <1>18, <1>19, <1>20 DEF Sound
<1>22. d.section = sized.section /\ d.scroll = zoomed.scroll
  BY <1>13, <1>15 DEF Fields
<1>23. ChartInv(d)
  BY <1>7, <1>11, <1>15, <1>17, <1>18, <1>21, <1>22 DEF ChartInv, Placed, EndOf
<1>24. \A f \in Kept : d[f] = c[f]
  BY <1>13, <1>15 DEF Kept, Fields
<1> QED BY <1>2, <1>23, <1>24 DEF d
-----------------------------------------------------------------------------
(* A header event adds the series it announces, one after the other.        *)
LEMMA AddingOneByOne ==
  ASSUME NEW c, NEW items, Len(items) \in Nat
  PROVE  \E f : /\ f = [i \in 0 .. Len(items) |->
                          IF i = 0 THEN c ELSE AddSeries(f[i - 1], items[i].name, items[i].type)]
                /\ AddAll(c, items) = f[Len(items)]
<1> DEFINE Upto(n, f) == f = [i \in 0 .. n |-> IF i = 0 THEN c ELSE AddSeries(f[i - 1], items[i].name, items[i].type)]
           S == {n \in Nat : \E f : Upto(n, f)}
<1>1. 0 \in S
  <2>1. Upto(0, [i \in 0 .. 0 |-> c])
    OBVIOUS
  <2> QED BY <2>1
<1>2. ASSUME NEW n \in 0 .. Len(items) - 1, n \in S
      PROVE  n + 1 \in S
  <2>1. PICK f : Upto(n, f)
    BY <1>2
  <2> DEFINE g == [i \in 0 .. n + 1 |->
                     IF i = n + 1 THEN AddSeries(f[n], items[n + 1].name, items[n + 1].type) ELSE f[i]]
  <2>2. ASSUME NEW i \in 0 .. n + 1
        PROVE  g[i] = IF i = 0 THEN c ELSE AddSeries(g[i - 1], items[i].name, items[i].type)
    <3>1. CASE i = n + 1
      BY <3>1
    <3>2. CASE i # n + 1
      <4> i \in 0 .. n
        BY <3>2
      <4>1. f[i] = IF i = 0 THEN c ELSE AddSeries(f[i - 1], items[i].name, items[i].type)
        BY <2>1
      <4> QED BY <3>2, <4>1
    <3> QED BY <3>1, <3>2
  <2>3. Upto(n + 1, g)
    BY <2>2
  <2>4. n + 1 \in Nat
    OBVIOUS
  <2> HIDE DEF Upto, g
  <2> QED BY <2>3, <2>4
<1>3. Len(items) \in S
  <2> DEFINE N == Len(items)
  <2> HIDE DEF S
  <2>1. N \in Nat /\ \A n \in 0 .. N - 1 : n \in S => n + 1 \in S
    BY <1>2
  <2> HIDE DEF N
  <2>2. \A n \in 0 .. N : n \in S
    BY <1>1, <2>1, CountingUp
  <2> QED BY <2>1, <2>2 DEF N
<1> DEFINE F == CHOOSE f : Upto(Len(items), f)
<1>4. Upto(Len(items), F)
  BY <1>3
<1>5. AddAll(c, items) = F[Len(items)]
  BY DEF AddAll
<1> HIDE DEF F
<1> QED BY <1>4, <1>5

Distinct(items) ==
  \A i, j \in 1 .. Len(items) : items[i].name = items[j].name => i = j

Named(items, n) == {items[i].name : i \in 1 .. n}

(* What is there after the first n series of a header.                      *)
Added(c, items, n, d) ==
  /\ ChartInv(d) /\ d.flushQueued = c.flushQueued /\ d.pps = c.pps
  /\ ~c.flushQueued => d.origin = c.origin /\ d.scroll = c.scroll
  /\ DOMAIN d.series = DOMAIN c.series \cup Named(items, n)
  /\ \A m \in DOMAIN c.series : d.series[m] = c.series[m]
  /\ \A m \in DOMAIN d.series \ DOMAIN c.series : d.series[m].data = <<>>
  /\ DOMAIN c.series = {} /\ c.order = <<>> /\ Distinct(items) =>
       /\ d.order = [i \in 1 .. n |-> items[i].name]
       /\ \A i \in 1 .. n : d.series[items[i].name].type = items[i].type

LEMMA AddedOneMore ==
  ASSUME NEW c, NEW items, NEW n \in Nat, n + 1 \in 1 .. Len(items), Len(items) \in Nat,
         items[n + 1].type \in Types, NEW x, Added(c, items, n, x)
  PROVE  Added(c, items, n + 1, AddSeries(x, items[n + 1].name, items[n + 1].type))
<1> DEFINE name == items[n + 1].name
           type == items[n + 1].type
           e == AddSeries(x, name, type)
<1>0. ChartInv(x) /\ type \in Types
  BY DEF Added
<1>e. e = AddSeries(x, name, type)
  OBVIOUS
<1> HIDE DEF e
<1>1. /\ ChartInv(e) /\ e.flushQueued = x.flushQueued /\ e.pps = x.pps
      /\ Placed(x) => e.origin = x.origin /\ e.scroll = x.scroll
      /\ IF name \in DOMAIN x.series THEN e = x
         ELSE /\ e.order = Append(x.order, name)
              /\ DOMAIN e.series = DOMAIN x.series \cup {name}
              /\ e.series[name] = [type |-> type, data |-> <<>>]
              /\ \A m \in DOMAIN x.series : e.series[m] = x.series[m]
  <2> HIDE DEF name, type
  <2> QED BY <1>0, <1>e, AddSeriesIs
<1>2. Named(items, n + 1) = Named(items, n) \cup {name}
  <2>1. \A i \in 1 .. n + 1 : i \in 1 .. n \/ i = n + 1
    OBVIOUS
  <2>2. n + 1 \in 1 .. n + 1 /\ \A i \in 1 .. n : i \in 1 .. n + 1
    OBVIOUS
  <2> QED BY <2>1, <2>2 DEF Named
<1>3. ~c.flushQueued => e.origin = c.origin /\ e.scroll = c.scroll
  BY <1>1 DEF Added, ChartInv
<1>4. CASE name \in DOMAIN x.series
  <2>1. e = x
    BY <1>1, <1>4
  <2>2. ~ (DOMAIN c.series = {} /\ Distinct(items))
    <3> SUFFICES ASSUME DOMAIN c.series = {}, Distinct(items) PROVE FALSE
      OBVIOUS
    <3>1. name \in Named(items, n)
      BY <1>4 DEF Added
    <3>2. PICK i \in 1 .. n : items[i].name = name
      BY <3>1 DEF Named
    <3>3. i \in 1 .. Len(items) /\ i # n + 1
      OBVIOUS
    <3> QED BY <3>2, <3>3 DEF Distinct
  <2>3. DOMAIN x.series \cup {name} = DOMAIN x.series
    BY <1>4
  <2>4. DOMAIN e.series = DOMAIN c.series \cup Named(items, n + 1)
    BY <1>2, <2>1, <2>3 DEF Added
  <2> QED BY <1>1, <1>3, <2>1, <2>2, <2>4 DEF Added, e
<1>5. CASE name \notin DOMAIN x.series
  <2>1. /\ e.order = Append(x.order, name)
        /\ DOMAIN e.series = DOMAIN x.series \cup {name}
        /\ e.series[name] = [type |-> type, data |-> <<>>]
        /\ \A m \in DOMAIN x.series : e.series[m] = x.series[m]
    BY <1>1, <1>5
  <2>2. DOMAIN e.series = DOMAIN c.series \cup Named(items, n + 1)
    BY <1>2, <2>1 DEF Added
  <2>3. \A m \in DOMAIN c.series : e.series[m] = c.series[m]
    BY <2>1 DEF Added
  <2>4. \A m \in DOMAIN e.series \ DOMAIN c.series : e.series[m].data = <<>>
    BY <2>1 DEF Added
  <2>5. ASSUME DOMAIN c.series = {} /\ c.order = <<>> /\ Distinct(items)
        PROVE  /\ e.order = [i \in 1 .. n + 1 |-> items[i].name]
               /\ \A i \in 1 .. n + 1 : e.series[items[i].name].type = items[i].type
    <3>1. /\ x.order = [i \in 1 .. n |-> items[i].name]
          /\ \A i \in 1 .. n : x.series[items[i].name].type = items[i].type
      BY <2>5 DEF Added
    <3>2. Append(x.order, name) = [i \in 1 .. n + 1 |-> items[i].name]
      BY <3>1
    <3>3. \A i \in 1 .. n : items[i].name \in DOMAIN x.series
      BY DEF Added, Named
    <3>4. \A i \in 1 .. n + 1 : e.series[items[i].name].type = items[i].type
      <4> TAKE i \in 1 .. n + 1
      <4>1. CASE i \in 1 .. n
        BY <2>1, <3>1, <3>3, <4>1
      <4>2. CASE i = n + 1
        BY <2>1, <4>2
      <4> QED BY <4>1, <4>2
    <3> QED BY <2>1, <3>2, <3>4
  <2> QED BY <1>1, <1>3, <2>2, <2>3, <2>4, <2>5 DEF Added, e
<1> QED BY <1>4, <1>5

LEMMA AddAllIs ==
  ASSUME NEW c, ChartInv(c), NEW items, Len(items) \in Nat,
         \A i \in 1 .. Len(items) : items[i].type \in Types
  PROVE  Added(c, items, Len(items), AddAll(c, items))
<1> DEFINE N == Len(items)
<1>1. PICK f : /\ f = [i \in 0 .. N |-> IF i = 0 THEN c ELSE AddSeries(f[i - 1], items[i].name, items[i].type)]
               /\ AddAll(c, items) = f[N]
  BY AddingOneByOne
<1>2. N \in Nat
  OBVIOUS
<1>3. f[0] = c /\ \A n \in 0 .. N - 1 : f[n + 1] = AddSeries(f[n], items[n + 1].name, items[n + 1].type)
  BY <1>1, <1>2
<1> DEFINE S == {n \in Nat : Added(c, items, n, f[n])}
<1>4. 0 \in S
  <2>1. Named(items, 0) = {} /\ c.order = <<>> => c.order = [i \in 1 .. 0 |-> items[i].name]
    BY DEF Named
  <2>2. Added(c, items, 0, c)
    BY <2>1 DEF Added, Named
  <2> QED BY <1>3, <2>2
<1>5. \A n \in 0 .. N - 1 : n \in S => n + 1 \in S
  <2> TAKE n \in 0 .. N - 1
  <2> HAVE n \in S
  <2>1. n + 1 \in 1 .. Len(items) /\ n \in Nat /\ items[n + 1].type \in Types
    BY <1>2
  <2>2. Added(c, items, n, f[n])
    OBVIOUS
  <2>3. Added(c, items, n + 1, AddSeries(f[n], items[n + 1].name, items[n + 1].type))
    BY <1>2, <2>1, <2>2, AddedOneMore
  <2>4. Added(c, items, n + 1, f[n + 1])
    BY <1>3, <2>3
  <2> QED BY <2>1, <2>4
<1> HIDE DEF S, N
<1>6. \A n \in 0 .. N : n \in S
  BY <1>2, <1>4, <1>5, CountingUp
<1>7. N \in S
  BY <1>2, <1>6
<1> QED BY <1>1, <1>7 DEF S, N
-----------------------------------------------------------------------------
(* The series that a connection announces.                                  *)
Config == [name : Seq(STRING \cup Int), type : Types, digital : BOOLEAN]

LEMMA ConfigsOfIs ==
  ASSUME NEW attr \in Attributes
  PROVE  ConfigsOf(attr) \in Seq(Config)
<1>0. attr.name \in STRING /\ attr.type \in STRING /\ attr.count \in Nat /\ attr.bits \in Seq(STRING)
  BY DEF Attributes
<1> DEFINE type == SampleType(attr.type)
<1>1. type \in Types
  <2>1. type \in {"UInt8", "Int8", "Float64", "Float32", attr.type}
    BY DEF SampleType
  <2> QED BY <1>0, <2>1 DEF Types
<1> HIDE DEF type
<1>2. <<attr.name>> \in Seq(STRING \cup Int)
  BY <1>0
<1>3. CASE attr.bits # <<>>
  <2> DEFINE one == [name |-> <<attr.name>>, type |-> type, digital |-> FALSE]
             bit(i) == [name |-> <<attr.bits[i]>>, type |-> "UInt8", digital |-> TRUE]
             more == [i \in DOMAIN attr.bits |-> bit(i)]
  <2>1. one \in Config
    BY <1>1, <1>2 DEF Config
  <2>2. \A i \in DOMAIN attr.bits : bit(i) \in Config
    <3> TAKE i \in DOMAIN attr.bits
    <3>1. attr.bits[i] \in STRING
      BY <1>0
    <3> DEFINE b == <<attr.bits[i]>>
    <3>2. b \in Seq(STRING \cup Int)
      BY <3>1
    <3> HIDE DEF b
    <3>3. [name |-> b, type |-> "UInt8", digital |-> TRUE] \in Config
      BY <3>2 DEF Config, Types
    <3> QED BY <3>3 DEF b
  <2>3. ConfigsOf(attr) = <<one>> \o more
    BY <1>3 DEF ConfigsOf, type
  <2> HIDE DEF one, bit
  <2>4. DOMAIN attr.bits = 1 .. Len(attr.bits) /\ Len(attr.bits) \in Nat
    BY <1>0
  <2>5. more \in Seq(Config)
    BY <2>2, <2>4
  <2>6. <<one>> \in Seq(Config)
    BY <2>1
  <2> HIDE DEF more
  <2> QED BY <2>3, <2>5, <2>6
<1>4. CASE attr.bits = <<>>
  <2> DEFINE N == AtLeast(1, attr.count)
             name(i) == IF attr.count > 1 THEN <<attr.name, i - 1>> ELSE <<attr.name>>
             one(i) == [name |-> name(i), type |-> type, digital |-> FALSE]
  <2>1. N \in Nat
    BY <1>0 DEF AtLeast
  <2>2. \A i \in 1 .. N : one(i) \in Config
    <3> TAKE i \in 1 .. N
    <3>1. <<attr.name, i - 1>> \in Seq(STRING \cup Int)
      BY <1>0, <2>1
    <3>2. name(i) \in Seq(STRING \cup Int)
      BY <1>2, <3>1
    <3> HIDE DEF name
    <3> QED BY <1>1, <3>2 DEF Config
  <2>3. ConfigsOf(attr) = [i \in 1 .. N |-> one(i)]
    BY <1>4 DEF ConfigsOf, type
  <2> HIDE DEF one, N
  <2> QED BY <2>1, <2>2, <2>3
<1> QED BY <1>3, <1>4

LEMMA ConfigsIs ==
  ASSUME NEW shape \in Seq(Attributes)
  PROVE  Configs(shape) \in Seq(Config)
<1> DEFINE N == Len(shape)
           Upto(n, f) == f = [k \in 0 .. n |-> IF k = 0 THEN <<>> ELSE f[k - 1] \o ConfigsOf(shape[k])]
           S == {n \in Nat : \E f : Upto(n, f) /\ \A k \in 0 .. n : f[k] \in Seq(Config)}
<1>0. N \in Nat /\ \A k \in 1 .. N : ConfigsOf(shape[k]) \in Seq(Config)
  BY ConfigsOfIs
<1>1. 0 \in S
  <2>1. Upto(0, [k \in 0 .. 0 |-> <<>>]) /\ \A k \in 0 .. 0 : [j \in 0 .. 0 |-> <<>>][k] \in Seq(Config)
    OBVIOUS
  <2> QED BY <2>1
<1>2. ASSUME NEW n \in 0 .. N - 1, n \in S
      PROVE  n + 1 \in S
  <2>1. PICK f : Upto(n, f) /\ \A k \in 0 .. n : f[k] \in Seq(Config)
    BY <1>2
  <2>0. n \in Nat /\ n + 1 \in 1 .. N
    BY <1>0
  <2> DEFINE g == [k \in 0 .. n + 1 |-> IF k = n + 1 THEN f[n] \o ConfigsOf(shape[n + 1]) ELSE f[k]]
  <2>2. ASSUME NEW k \in 0 .. n + 1
        PROVE  g[k] = IF k = 0 THEN <<>> ELSE g[k - 1] \o ConfigsOf(shape[k])
    <3>1. CASE k = n + 1
      BY <3>1, <2>0
    <3>2. CASE k # n + 1
      <4> k \in 0 .. n
        BY <3>2, <2>0
      <4>1. f[k] = IF k = 0 THEN <<>> ELSE f[k - 1] \o ConfigsOf(shape[k])
        BY <2>1
      <4> QED BY <3>2, <4>1, <2>0
    <3> QED BY <3>1, <3>2
  <2>3. Upto(n + 1, g)
    BY <2>2
  <2>4. \A k \in 0 .. n + 1 : g[k] \in Seq(Config)
    <3> TAKE k \in 0 .. n + 1
    <3>1. CASE k = n + 1
      <4>1. f[n] \in Seq(Config) /\ ConfigsOf(shape[n + 1]) \in Seq(Config)
        BY <1>0, <2>0, <2>1
      <4> QED BY <3>1, <4>1
    <3>2. CASE k # n + 1
      <4> k \in 0 .. n
        BY <3>2, <2>0
      <4> QED BY <2>1, <3>2
    <3> QED BY <3>1, <3>2
  <2>5. n + 1 \in Nat
    BY <2>0
  <2> HIDE DEF Upto, g
  <2> QED BY <2>3, <2>4, <2>5
<1>3. N \in S
  <2> HIDE DEF S, N
  <2>1. \A n \in 0 .. N - 1 : n \in S => n + 1 \in S
    BY <1>2
  <2>2. \A n \in 0 .. N : n \in S
    BY <1>0, <1>1, <2>1, CountingUp
  <2> QED BY <1>0, <2>2
<1> DEFINE F == CHOOSE f : Upto(N, f)
<1>4. \E f : Upto(N, f)
  BY <1>3
<1>5. Upto(N, F)
  BY <1>4
<1>6. Configs(shape) = F[N]
  BY DEF Configs
<1>7. PICK f : Upto(N, f) /\ \A k \in 0 .. N : f[k] \in Seq(Config)
  BY <1>3
<1> HIDE DEF F
<1>8. \A n \in 0 .. N : F[n] = f[n]
  <2> DEFINE E == {n \in Nat : F[n] = f[n]}
  <2>1. F[0] = <<>> /\ f[0] = <<>>
    BY <1>0, <1>5, <1>7
  <2>2. \A n \in 0 .. N - 1 : n \in E => n + 1 \in E
    <3> TAKE n \in 0 .. N - 1
    <3> HAVE n \in E
    <3>1. n + 1 \in 1 .. N /\ n + 1 \in Nat /\ n + 1 \in 0 .. N /\ n + 1 - 1 = n /\ n + 1 # 0
      BY <1>0
    <3> HIDE DEF N
    <3>2. /\ F[n + 1] = F[n] \o ConfigsOf(shape[n + 1])
          /\ f[n + 1] = f[n] \o ConfigsOf(shape[n + 1])
      <4>1. \A k \in 0 .. N : F[k] = IF k = 0 THEN <<>> ELSE F[k - 1] \o ConfigsOf(shape[k])
        BY <1>5
      <4>2. \A k \in 0 .. N : f[k] = IF k = 0 THEN <<>> ELSE f[k - 1] \o ConfigsOf(shape[k])
        BY <1>7
      <4> DEFINE m == n + 1
      <4>3. m \in 0 .. N /\ m # 0 /\ m - 1 = n
        BY <3>1
      <4> HIDE DEF m
      <4>4. F[m] = F[m - 1] \o ConfigsOf(shape[m])
        BY <4>1, <4>3
      <4>5. f[m] = f[m - 1] \o ConfigsOf(shape[m])
        BY <4>2, <4>3
      <4> QED BY <4>3, <4>4, <4>5 DEF m
    <3> QED BY <3>1, <3>2
  <2>3. 0 \in E
    BY <2>1
  <2> HIDE DEF E, N
  <2>4. \A n \in 0 .. N : n \in E
    BY <1>0, <2>2, <2>3, CountingUp
  <2> QED BY <2>4 DEF E
<1> HIDE DEF N
<1>9. N \in 0 .. N
  BY <1>0
<1> QED BY <1>6, <1>7, <1>8, <1>9
-----------------------------------------------------------------------------
Events == [kind : {"header", "batch", "flush"}, gen : Nat, items : Seq(Config), data : Seq(Sample)]

Feeds == [pc : {"none", "starting", "running", "ended"}, gen : Nat, configs : Seq(Config),
          shape : Seq(Attributes), batch : Seq(Sample), consumed : Nat]

(* At most one flush is posted, and it is when the chart says so.           *)
OneFlush(events, queued) ==
  /\ \A i, j \in 1 .. Len(events) : events[i].kind = "flush" /\ events[j].kind = "flush" => i = j
  /\ queued <=> \E i \in 1 .. Len(events) : events[i].kind = "flush"

FeedTypes ==
  /\ feed \in Feeds
  /\ posted \in Seq(Events)
  /\ \A i \in 1 .. Len(posted) : posted[i].kind = "flush" => posted[i] = FlushEvent

FeedInv == ChartInv(chart) /\ FeedTypes /\ OneFlush(posted, chart.flushQueued)

(* The feed's thread and the GUI thread, step by step.                      *)
LEMMA FlushIsEvent == FlushEvent \in Events /\ FlushEvent.kind = "flush"
<1>1. <<>> \in Seq(Config) /\ <<>> \in Seq(Sample)
  OBVIOUS
<1> QED BY <1>1 DEF FlushEvent, Events

(* Posting events that are no flush, and handling the first event.          *)
LEMMA PostingKeeps ==
  ASSUME NEW s \in Seq(Events), NEW t \in Seq(Events), NEW q,
         OneFlush(s, q), \A i \in 1 .. Len(t) : t[i].kind # "flush",
         \A i \in 1 .. Len(s) : s[i].kind = "flush" => s[i] = FlushEvent
  PROVE  /\ s \o t \in Seq(Events) /\ OneFlush(s \o t, q)
         /\ \A i \in 1 .. Len(s \o t) : (s \o t)[i].kind = "flush" => (s \o t)[i] = FlushEvent
<1> DEFINE m == Len(s)
           n == Len(t)
           u == s \o t
<1>1. m \in Nat /\ n \in Nat /\ u \in Seq(Events) /\ Len(u) = m + n
  OBVIOUS
<1>2. /\ \A i \in 1 .. m : u[i] = s[i] /\ i \in 1 .. m + n
      /\ \A i \in 1 .. m + n : i \in 1 .. m \/ (i - m \in 1 .. n /\ u[i] = t[i - m])
  OBVIOUS
<1> HIDE DEF u
<1>3. \A i \in 1 .. m + n : u[i].kind = "flush" => i \in 1 .. m
  BY <1>2
<1>4. \A i, j \in 1 .. m + n : u[i].kind = "flush" /\ u[j].kind = "flush" => i = j
  BY <1>2, <1>3 DEF OneFlush
<1>5. (\E i \in 1 .. m : s[i].kind = "flush") <=> (\E i \in 1 .. m + n : u[i].kind = "flush")
  BY <1>2, <1>3
<1>6. \A i \in 1 .. m + n : u[i].kind = "flush" => u[i] = FlushEvent
  BY <1>2, <1>3
<1>7. OneFlush(u, q)
  BY <1>1, <1>4, <1>5 DEF OneFlush
<1> QED BY <1>1, <1>6, <1>7 DEF u

LEMMA HandlingKeeps ==
  ASSUME NEW s \in Seq(Events), NEW q \in BOOLEAN, s # <<>>, OneFlush(s, q),
         \A i \in 1 .. Len(s) : s[i].kind = "flush" => s[i] = FlushEvent
  PROVE  /\ Tail(s) \in Seq(Events) /\ Head(s) \in Events
         /\ OneFlush(Tail(s), q /\ Head(s).kind # "flush")
         /\ Head(s).kind = "flush" => q
         /\ \A i \in 1 .. Len(Tail(s)) : Tail(s)[i].kind = "flush" => Tail(s)[i] = FlushEvent
<1> DEFINE m == Len(s)
           t == Tail(s)
<1>1. m \in Nat \ {0} /\ t \in Seq(Events) /\ Len(t) = m - 1 /\ Head(s) = s[1] /\ s[1] \in Events
  OBVIOUS
<1>2. \A i \in 1 .. m - 1 : t[i] = s[i + 1] /\ i + 1 \in 1 .. m
  OBVIOUS
<1>3. \A i \in 1 .. m : i = 1 \/ (i - 1 \in 1 .. m - 1 /\ t[i - 1] = s[i])
  BY <1>1, <1>2
<1> HIDE DEF t
<1>4. /\ \A i, j \in 1 .. m : s[i].kind = "flush" /\ s[j].kind = "flush" => i = j
      /\ q <=> \E i \in 1 .. m : s[i].kind = "flush"
  BY DEF OneFlush
<1> HIDE DEF m
<1>5. \A i, j \in 1 .. m - 1 : t[i].kind = "flush" /\ t[j].kind = "flush" => i = j
  <2> TAKE i, j \in 1 .. m - 1
  <2> HAVE t[i].kind = "flush" /\ t[j].kind = "flush"
  <2>1. i + 1 = j + 1
    BY <1>2, <1>4
  <2> QED BY <2>1
<1>6. 1 \in 1 .. m
  BY <1>1
<1>7. s[1].kind = "flush" => q /\ \A i \in 1 .. m - 1 : t[i].kind # "flush"
  <2> HAVE s[1].kind = "flush"
  <2>1. ASSUME NEW i \in 1 .. m - 1, t[i].kind = "flush"
        PROVE  FALSE
    <3>1. i + 1 = 1
      BY <1>2, <1>4, <1>6, <2>1
    <3> QED BY <3>1
  <2> QED BY <1>4, <1>6, <2>1
<1>8. s[1].kind # "flush" => (q <=> \E i \in 1 .. m - 1 : t[i].kind = "flush")
  <2> HAVE s[1].kind # "flush"
  <2>1. ASSUME NEW i \in 1 .. m, s[i].kind = "flush"
        PROVE  \E k \in 1 .. m - 1 : t[k].kind = "flush"
    <3>1. i - 1 \in 1 .. m - 1 /\ t[i - 1] = s[i]
      BY <1>3, <2>1
    <3> QED BY <2>1, <3>1
  <2>2. ASSUME NEW i \in 1 .. m - 1, t[i].kind = "flush"
        PROVE  q
    BY <1>2, <1>4, <2>2
  <2> QED BY <1>4, <2>1, <2>2
<1>9. OneFlush(t, q /\ s[1].kind # "flush")
  BY <1>1, <1>5, <1>7, <1>8 DEF OneFlush
<1>10. \A i \in 1 .. m - 1 : t[i].kind = "flush" => t[i] = FlushEvent
  BY <1>2 DEF m
<1> QED BY <1>1, <1>7, <1>9, <1>10 DEF t

LEMMA PostingTheFlush ==
  ASSUME NEW s \in Seq(Events), OneFlush(s, FALSE),
         \A i \in 1 .. Len(s) : s[i].kind = "flush" => s[i] = FlushEvent
  PROVE  LET u == s \o <<FlushEvent>>
         IN  /\ u \in Seq(Events) /\ OneFlush(u, TRUE)
             /\ \A i \in 1 .. Len(u) : u[i].kind = "flush" => u[i] = FlushEvent
<1> DEFINE m == Len(s)
           u == s \o <<FlushEvent>>
<1>1. <<FlushEvent>> \in Seq(Events)
  BY FlushIsEvent
<1>2. m \in Nat /\ u \in Seq(Events) /\ Len(u) = m + 1
  BY <1>1
<1>3. /\ \A i \in 1 .. m : u[i] = s[i]
      /\ u[m + 1] = FlushEvent /\ m + 1 \in 1 .. m + 1
  BY <1>1
<1>4. \A i \in 1 .. m : s[i].kind # "flush"
  BY DEF OneFlush
<1> HIDE DEF u
<1>5. \A i \in 1 .. m + 1 : u[i].kind = "flush" => i = m + 1
  BY <1>2, <1>3, <1>4
<1>6. OneFlush(u, TRUE)
  BY <1>2, <1>3, <1>5, FlushIsEvent DEF OneFlush
<1>7. \A i \in 1 .. m + 1 : u[i].kind = "flush" => u[i] = FlushEvent
  BY <1>3, <1>5
<1> QED BY <1>2, <1>6, <1>7 DEF u
-----------------------------------------------------------------------------
LEMMA StartedIs ==
  ASSUME NEW f \in Feeds
  PROVE  /\ Started(f) \in Feeds /\ Started(f).gen = f.gen /\ Started(f).batch = f.batch
         /\ HeaderEvent(f) \in Events /\ HeaderEvent(f).kind = "header"
<1>1. Configs(f.shape) \in Seq(Config)
  BY ConfigsIs DEF Feeds
<1> DEFINE cs == Configs(f.shape)
<1>2. Started(f) = [f EXCEPT !.pc = "running", !.configs = cs]
  BY DEF Started
<1> HIDE DEF cs
<1>3. cs \in Seq(Config)
  BY <1>1 DEF cs
<1>4. <<>> \in Seq(Sample)
  OBVIOUS
<1> QED BY <1>2, <1>3, <1>4 DEF Feeds, HeaderEvent, Events

LEMMA StoppedIs ==
  ASSUME NEW f \in Feeds, NEW pc \in {"ended", "none"}
  PROVE  /\ [Stopped(f) EXCEPT !.pc = pc] \in Feeds /\ Stopped(f) \in Feeds
         /\ BatchEvent(f) \in Events /\ BatchEvent(f).kind = "batch"
         /\ LastBatch(f) \in Seq(Events) /\ \A i \in 1 .. Len(LastBatch(f)) : LastBatch(f)[i].kind = "batch"
<1>1. <<>> \in Seq(Sample)
  OBVIOUS
<1>2. BatchEvent(f) \in Events /\ BatchEvent(f).kind = "batch"
  BY DEF Feeds, BatchEvent, Events
<1>3. LastBatch(f) \in Seq(Events) /\ \A i \in 1 .. Len(LastBatch(f)) : LastBatch(f)[i].kind = "batch"
  <2> DEFINE e == BatchEvent(f)
  <2>1. LastBatch(f) = <<>> \/ LastBatch(f) = <<e>>
    BY DEF LastBatch
  <2>2. e \in Events /\ e.kind = "batch"
    BY <1>2
  <2> DEFINE l == LastBatch(f)
  <2> HIDE DEF e, l
  <2>3. CASE l = <<>>
    BY <2>3 DEF l
  <2>4. CASE l = <<e>>
    BY <2>2, <2>4 DEF l
  <2> QED BY <2>1, <2>3, <2>4 DEF l
<1>4. [Stopped(f) EXCEPT !.pc = pc] \in Feeds /\ Stopped(f) \in Feeds
  BY <1>1 DEF Stopped, Feeds
<1> QED BY <1>2, <1>3, <1>4

LEMMA BatchOf ==
  ASSUME NEW event \in Events
  PROVE  Batch(WithData(event)) /\ Len(WithData(event)) = Len(event.items)
         /\ \A i \in 1 .. Len(event.items) :
              WithData(event)[i] = [name |-> event.items[i].name, type |-> event.items[i].type, data |-> event.data]
<1> DEFINE n == Len(event.items)
           one(i) == [name |-> event.items[i].name, type |-> event.items[i].type, data |-> event.data]
           w == WithData(event)
<1>1. n \in Nat /\ DOMAIN event.items = 1 .. n /\ \A i \in 1 .. n : event.items[i] \in Config
  BY DEF Events
<1>2. event.data \in Seq(Sample)
  BY DEF Events
<1>3. \A i \in 1 .. n : event.items[i].type \in Types /\ event.items[i].name \in Seq(STRING \cup Int)
  BY <1>1 DEF Config
<1>4. w = [i \in 1 .. n |-> one(i)]
  BY <1>1 DEF WithData
<1> DEFINE T == [name : Seq(STRING \cup Int), type : Types, data : Seq(Sample)]
<1>5. \A i \in 1 .. n : one(i) \in T
  BY <1>2, <1>3
<1>6. \A i \in 1 .. n : one(i).type \in Types /\ one(i).data \in Seq(Sample)
  BY <1>2, <1>3
<1> HIDE DEF one, T, w, n
<1>7. w \in Seq(T) /\ Len(w) = n /\ DOMAIN w = 1 .. n
  BY <1>1, <1>4, <1>5
<1>8. \A i \in 1 .. n : w[i] = one(i)
  BY <1>4
<1>9. Batch(w)
  BY <1>1, <1>6, <1>7, <1>8 DEF Batch
<1> QED BY <1>7, <1>8, <1>9 DEF w, n, one
-----------------------------------------------------------------------------
(* The steps of the session.                                                *)
LEMMA FeedInvInit == FeedInit => FeedInv
<1> SUFFICES ASSUME FeedInit PROVE FeedInv
  OBVIOUS
<1>1. chart = EmptyChart /\ feed = NoFeed /\ posted = <<>>
  BY DEF FeedInit
<1>2. /\ DOMAIN chart = Fields /\ DOMAIN chart.series = {} /\ chart.unpainted = {} /\ chart.flushQueued = FALSE
      /\ chart.pps = 1 /\ chart.origin = 0 /\ chart.cursor = -1 /\ chart.pendingOld = 0 /\ chart.pendingNew = 0
      /\ chart.section = 0 /\ chart.scroll = 0 /\ chart.live = FALSE /\ chart.panning = FALSE /\ chart.moved = FALSE
  BY <1>1 DEF EmptyChart, Fields
<1>3. SeriesOK(chart.series)
  <2>1. 0 \in Nat
    OBVIOUS
  <2> QED BY <1>2, <2>1 DEF SeriesOK
<1>4. ChartTypes(chart)
  <2>1. chart.pps \in 1 .. MaxPps /\ chart.cursor \in Int
    BY <1>2, ChartAssumption
  <2>2. chart.unpainted \in SUBSET Nat /\ chart.origin \in Nat
    BY <1>2
  <2>3. {chart.flushQueued, chart.live, chart.panning, chart.moved} \subseteq BOOLEAN
    BY <1>2
  <2> QED BY <1>2, <1>3, <2>1, <2>2, <2>3 DEF ChartTypes
<1>5. MaxSampleCount(chart) = 0
  BY <1>2, <1>3, CountIs
<1>6. Sound(chart)
  BY <1>2, <1>4, <1>5 DEF Sound
<1>7. WindowOrigin(chart) = 0
  <2> DEFINE q == SectionCap \div 1
  <2>1. q \in Nat
    BY ChartAssumption, Quotient
  <2>2. WindowOrigin(chart) = AtLeast(0, 0 - q)
    BY <1>2, <1>5 DEF WindowOrigin
  <2> HIDE DEF q
  <2> QED BY <2>1, <2>2 DEF AtLeast
<1>8. ChartPixelWidth(chart) = 0
  BY <1>2, <1>5 DEF ChartPixelWidth, AtLeast
<1>9. Placed(chart)
  BY <1>2, <1>7, <1>8, ChartAssumption DEF Placed, EndOf, AtLeast
<1>10. ChartInv(chart)
  BY <1>2, <1>6, <1>9, ChartAssumption DEF ChartInv
<1>11. feed \in Feeds
  <2>1. <<>> \in Seq(Config) /\ <<>> \in Seq(Sample) /\ <<>> \in Seq(Attributes)
    OBVIOUS
  <2> QED BY <1>1, <2>1 DEF NoFeed, Feeds
<1>12. posted \in Seq(Events) /\ Len(posted) = 0
  BY <1>1
<1> QED BY <1>2, <1>10, <1>11, <1>12 DEF FeedInv, FeedTypes, OneFlush

(* What a step of the feed's thread, or of stopConnection, posts.           *)
LEMMA FeedMoves ==
  ASSUME FeedInv, UNCHANGED chart, feed' \in Feeds,
         NEW t \in Seq(Events), posted' = posted \o t, \A i \in 1 .. Len(t) : t[i].kind # "flush"
  PROVE  FeedInv'
<1>1. /\ posted \in Seq(Events) /\ OneFlush(posted, chart.flushQueued)
      /\ \A i \in 1 .. Len(posted) : posted[i].kind = "flush" => posted[i] = FlushEvent
  BY DEF FeedInv, FeedTypes
<1> DEFINE u == posted \o t
           q == chart.flushQueued
<1>2. /\ u \in Seq(Events) /\ OneFlush(u, q)
      /\ \A i \in 1 .. Len(u) : u[i].kind = "flush" => u[i] = FlushEvent
  <2> HIDE DEF q
  <2> QED BY <1>1, PostingKeeps DEF q
<1>3. posted' = u /\ chart' = chart
  OBVIOUS
<1> HIDE DEF u
<1> QED BY <1>2, <1>3 DEF FeedInv, FeedTypes

LEMMA UserMoves ==
  ASSUME FeedInv, ChartInv(chart'), chart'.flushQueued = chart.flushQueued, UNCHANGED <<feed, posted>>
  PROVE  FeedInv'
  BY DEF FeedInv, FeedTypes

LEMMA FeedInvStep == FeedInv /\ [FeedNext]_feedVars => FeedInv'
<1> SUFFICES ASSUME FeedInv, [FeedNext]_feedVars PROVE FeedInv'
  OBVIOUS
<1>0. ChartInv(chart) /\ feed \in Feeds /\ posted \in Seq(Events)
  BY DEF FeedInv, FeedTypes
<1> DEFINE none == <<>>
<1>n. none \in Seq(Events) /\ Len(none) = 0 /\ posted \o none = posted
  BY <1>0
<1> HIDE DEF none
<1>1. CASE FeedStarts
  <2> DEFINE e == HeaderEvent(Started(feed))
  <2>1. feed' = Started(feed) /\ posted' = Append(posted, e) /\ UNCHANGED chart
    BY <1>1 DEF FeedStarts
  <2>2. feed' \in Feeds /\ e \in Events /\ e.kind = "header"
    BY <1>0, <2>1, StartedIs
  <2> HIDE DEF e
  <2>3. /\ <<e>> \in Seq(Events) /\ \A i \in 1 .. Len(<<e>>) : <<e>>[i].kind # "flush"
        /\ posted' = posted \o <<e>>
    BY <1>0, <2>1, <2>2
  <2> QED BY <2>1, <2>2, <2>3, FeedMoves
<1>2. CASE FeedConsumes
  <2> DEFINE more == [feed EXCEPT !.batch = Append(@, <<feed.gen, feed.consumed + 1>>), !.consumed = @ + 1]
             rest == [more EXCEPT !.batch = <<>>]
  <2>1. /\ UNCHANGED chart
        /\ \/ feed' = more /\ posted' = posted
           \/ feed' = rest /\ posted' = Append(posted, BatchEvent(more))
    BY <1>2 DEF FeedConsumes
  <2>2. Append(feed.batch, <<feed.gen, feed.consumed + 1>>) \in Seq(Sample)
    <3>1. <<feed.gen, feed.consumed + 1>> \in Sample /\ feed.batch \in Seq(Sample)
      BY <1>0 DEF Feeds, Sample
    <3> QED BY <3>1
  <2>3. more \in Feeds
    <3> DEFINE b == Append(feed.batch, <<feed.gen, feed.consumed + 1>>)
    <3> DEFINE k == feed.consumed + 1
    <3>1. more = [feed EXCEPT !.batch = b, !.consumed = k]
      OBVIOUS
    <3>2. b \in Seq(Sample) /\ k \in Nat
      BY <1>0, <2>2 DEF Feeds
    <3> HIDE DEF b, k, more
    <3> QED BY <1>0, <3>1, <3>2 DEF Feeds
  <2> HIDE DEF more
  <2>4. rest \in Feeds
    <3>1. <<>> \in Seq(Sample)
      OBVIOUS
    <3> QED BY <2>3, <3>1 DEF Feeds
  <2> HIDE DEF rest
  <2> DEFINE e == BatchEvent(more)
  <2>5. e \in Events /\ e.kind = "batch"
    BY <2>3, StoppedIs
  <2> HIDE DEF e
  <2>6. CASE feed' = more /\ posted' = posted
    <3>1. /\ posted' = posted \o none /\ feed' \in Feeds
          /\ \A i \in 1 .. Len(none) : none[i].kind # "flush"
      BY <1>n, <2>3, <2>6
    <3> QED BY <1>n, <2>1, <3>1, FeedMoves
  <2>7. CASE feed' = rest /\ posted' = Append(posted, e)
    <3>1. /\ <<e>> \in Seq(Events) /\ \A i \in 1 .. Len(<<e>>) : <<e>>[i].kind # "flush"
          /\ posted' = posted \o <<e>>
      BY <1>0, <2>5, <2>7
    <3> QED BY <2>1, <2>4, <2>7, <3>1, FeedMoves
  <2> QED BY <2>1, <2>6, <2>7 DEF e
<1>3. CASE FeedEnds
  <2> DEFINE t == LastBatch(feed)
  <2>1. feed' = Stopped(feed) /\ posted' = posted \o t /\ UNCHANGED chart
    BY <1>3 DEF FeedEnds
  <2>2. feed' \in Feeds /\ t \in Seq(Events) /\ \A i \in 1 .. Len(t) : t[i].kind # "flush"
    BY <1>0, <2>1, StoppedIs
  <2> HIDE DEF t
  <2> QED BY <2>1, <2>2, FeedMoves
<1>4. CASE Connect
  <2>1. /\ feed.gen < MaxConnects
        /\ feed' = [NoFeed EXCEPT !.pc = "starting", !.gen = feed.gen + 1, !.shape = Shapes[feed.gen + 1]]
        /\ chart' = ClearAll(chart) /\ UNCHANGED posted
    BY <1>4 DEF Connect
  <2>2. Shapes[feed.gen + 1] \in Seq(Attributes)
    <3>1. feed.gen \in Nat
      BY <1>0 DEF Feeds
    <3> QED BY <2>1, <3>1, FeedAssumption
  <2>3. feed' \in Feeds
    <3> DEFINE k == feed.gen + 1
               s == Shapes[k]
    <3>1. <<>> \in Seq(Config) /\ <<>> \in Seq(Sample) /\ k \in Nat /\ s \in Seq(Attributes)
      BY <1>0, <2>2 DEF Feeds
    <3>2. feed' = [NoFeed EXCEPT !.pc = "starting", !.gen = k, !.shape = s]
      BY <2>1
    <3> HIDE DEF k, s
    <3>3. feed' = [pc |-> "starting", gen |-> k, configs |-> <<>>, shape |-> s, batch |-> <<>>, consumed |-> 0]
      BY <3>2 DEF NoFeed
    <3> QED BY <3>1, <3>3 DEF Feeds
  <2>4. ChartInv(chart') /\ chart'.flushQueued = chart.flushQueued
    BY <1>0, <2>1, ClearAllIs
  <2> QED BY <2>1, <2>3, <2>4 DEF FeedInv, FeedTypes
<1>5. CASE Disconnect
  <2> DEFINE f == IF feed.pc = "starting" THEN Started(feed) ELSE feed
             h == IF feed.pc = "starting" THEN <<HeaderEvent(f)>> ELSE <<>>
             t == LastBatch(f)
  <2>1. feed' = [Stopped(f) EXCEPT !.pc = "none"] /\ posted' = posted \o h \o t /\ UNCHANGED chart
    BY <1>5 DEF Disconnect
  <2>2. f \in Feeds
    BY <1>0, StartedIs
  <2> HIDE DEF f
  <2>3. HeaderEvent(f) \in Events /\ HeaderEvent(f).kind = "header"
    BY <2>2, StartedIs
  <2>4. feed' \in Feeds /\ t \in Seq(Events) /\ \A i \in 1 .. Len(t) : t[i].kind = "batch"
    BY <2>1, <2>2, StoppedIs
  <2>5. h \in Seq(Events) /\ \A i \in 1 .. Len(h) : h[i].kind = "header"
    <3> DEFINE e == HeaderEvent(f)
    <3>1. e \in Events /\ e.kind = "header" /\ (h = <<>> \/ h = <<e>>)
      BY <2>3
    <3> HIDE DEF e, h
    <3>2. CASE h = <<>>
      BY <3>2
    <3>3. CASE h = <<e>>
      BY <3>1, <3>3
    <3> QED BY <3>1, <3>2, <3>3
  <2> HIDE DEF h, t
  <2>6. h \o t \in Seq(Events) /\ posted' = posted \o (h \o t)
    BY <1>0, <2>1, <2>4, <2>5
  <2>7. \A i \in 1 .. Len(h \o t) : (h \o t)[i].kind # "flush"
    <3> DEFINE m == Len(h)
               n == Len(t)
    <3>1. m \in Nat /\ n \in Nat /\ Len(h \o t) = m + n
      BY <2>4, <2>5
    <3>2. \A i \in 1 .. m + n : \/ i \in 1 .. m /\ (h \o t)[i] = h[i]
                                \/ i - m \in 1 .. n /\ (h \o t)[i] = t[i - m]
      BY <2>4, <2>5
    <3> QED BY <2>4, <2>5, <3>1, <3>2
  <2> DEFINE p == h \o t
  <2> HIDE DEF p
  <2>8. p \in Seq(Events) /\ posted' = posted \o p /\ \A i \in 1 .. Len(p) : p[i].kind # "flush"
    BY <2>6, <2>7 DEF p
  <2> QED BY <2>1, <2>4, <2>8, FeedMoves
<1>6. CASE Handle
  <2> DEFINE e == Head(posted)
             q == chart.flushQueued
             s == Tail(posted)
  <2>1. /\ posted # <<>> /\ UNCHANGED feed
        /\ \/ e.kind = "header" /\ chart' = AddAll(chart, e.items)
           \/ e.kind = "batch" /\ chart' = AppendBatch(chart, WithData(e))
           \/ e.kind = "flush" /\ \E away \in BOOLEAN : chart' = FlushPendingAppend(chart, away)
        /\ posted' = s \o (IF PostsFlush(chart, chart') THEN <<FlushEvent>> ELSE <<>>)
    BY <1>6 DEF Handle
  <2>2. q \in BOOLEAN
    BY <1>0 DEF ChartInv, Sound, ChartTypes
  <2> HIDE DEF q
  <2>3. /\ s \in Seq(Events) /\ e \in Events
        /\ OneFlush(s, q /\ e.kind # "flush") /\ (e.kind = "flush" => q)
        /\ \A i \in 1 .. Len(s) : s[i].kind = "flush" => s[i] = FlushEvent
    BY <2>1, <2>2, HandlingKeeps DEF FeedInv, FeedTypes, q
  <2> HIDE DEF e, s
  <2>4. /\ ChartInv(chart')
        /\ \/ ~PostsFlush(chart, chart') /\ (chart'.flushQueued <=> q /\ e.kind # "flush")
           \/ PostsFlush(chart, chart') /\ ~q /\ e.kind # "flush"
    <3>1. CASE e.kind = "header" /\ chart' = AddAll(chart, e.items)
      <4>1. Len(e.items) \in Nat /\ \A i \in 1 .. Len(e.items) : e.items[i].type \in Types
        <5>1. e.items \in Seq(Config)
          BY <2>3 DEF Events
        <5> DEFINE l == e.items
        <5> HIDE DEF l
        <5>2. Len(l) \in Nat /\ \A i \in 1 .. Len(l) : l[i] \in Config
          BY <5>1 DEF l
        <5> QED BY <5>2 DEF l, Config
      <4>2. Added(chart, e.items, Len(e.items), AddAll(chart, e.items))
        BY <1>0, <4>1, AddAllIs
      <4> QED BY <2>2, <3>1, <4>2 DEF Added, PostsFlush, q
    <3>2. CASE e.kind = "batch" /\ chart' = AppendBatch(chart, WithData(e))
      <4>1. Batch(WithData(e))
        BY <2>3, BatchOf
      <4>2. ChartInv(chart') /\ (chart' = chart \/ chart'.flushQueued) /\ (chart.flushQueued => chart'.flushQueued)
        BY <1>0, <3>2, <4>1, AppendBatchIs
      <4> QED BY <2>2, <3>2, <4>2 DEF PostsFlush, q
    <3>3. CASE e.kind = "flush" /\ \E away \in BOOLEAN : chart' = FlushPendingAppend(chart, away)
      <4>1. ChartInv(chart') /\ chart'.flushQueued = FALSE
        BY <1>0, <3>3, FlushIs, ZenonT(60)
      <4> QED BY <3>3, <4>1 DEF PostsFlush
    <3> QED BY <2>1, <3>1, <3>2, <3>3
  <2>5. CASE ~PostsFlush(chart, chart') /\ (chart'.flushQueued <=> q /\ e.kind # "flush")
    <3>1. posted' = s
      <4>1. posted' = s \o <<>>
        BY <2>1, <2>5
      <4> QED BY <2>3, <4>1
    <3> QED BY <2>1, <2>3, <2>4, <2>5, <3>1, SMTT(30) DEF FeedInv, FeedTypes, OneFlush
  <2>6. CASE PostsFlush(chart, chart') /\ ~q /\ e.kind # "flush"
    <3> DEFINE u == s \o <<FlushEvent>>
    <3>1. OneFlush(s, FALSE)
      BY <2>3, <2>6 DEF OneFlush
    <3>2. /\ u \in Seq(Events) /\ OneFlush(u, TRUE)
          /\ \A i \in 1 .. Len(u) : u[i].kind = "flush" => u[i] = FlushEvent
      BY <2>3, <3>1, PostingTheFlush
    <3>3. posted' = u /\ chart'.flushQueued = TRUE
      BY <2>1, <2>4, <2>6 DEF PostsFlush, ChartInv, Sound, ChartTypes
    <3> HIDE DEF u
    <3> QED BY <1>0, <2>1, <2>4, <3>2, <3>3 DEF FeedInv, FeedTypes
  <2> QED BY <2>4, <2>5, <2>6
<1>7. CASE Points
  <2>1. UNCHANGED <<feed, posted>>
    BY <1>7 DEF Points, User
  <2>2. ChartInv(chart') /\ \A f \in Fields \ View : chart'[f] = chart[f]
    BY <1>0, <1>7, PointsIs DEF Points
  <2>3. chart'.flushQueued = chart.flushQueued
    BY <2>2 DEF Fields, View
  <2> QED BY <2>1, <2>2, <2>3, UserMoves
<1>8. CASE Scrolls
  <2>1. UNCHANGED <<feed, posted>>
    BY <1>8 DEF Scrolls, User
  <2>2. ChartInv(chart') /\ \A f \in Fields \ View : chart'[f] = chart[f]
    BY <1>0, <1>8, ScrollsIs DEF Scrolls
  <2>3. chart'.flushQueued = chart.flushQueued
    BY <2>2 DEF Fields, View
  <2> QED BY <2>1, <2>2, <2>3, UserMoves
<1>9. CASE ZoomsByButton
  <2>1. UNCHANGED <<feed, posted>> /\ \E wider \in BOOLEAN : chart' = ZoomButton(chart, wider)
    BY <1>9 DEF ZoomsByButton, User
  <2>2. ChartInv(chart') /\ chart'.flushQueued = chart.flushQueued
    BY <1>0, <2>1, ZoomButtonIs DEF Kept
  <2> QED BY <2>1, <2>2, UserMoves
<1>10. CASE ZoomsByKey
  <2>1. UNCHANGED <<feed, posted>> /\ \E wider \in BOOLEAN : chart' = ZoomKey(chart, wider)
    BY <1>10 DEF ZoomsByKey, User
  <2>2. ChartInv(chart') /\ chart'.flushQueued = chart.flushQueued
    BY <1>0, <2>1, ZoomKeyIs DEF Kept
  <2> QED BY <2>1, <2>2, UserMoves
<1>11. CASE ZoomsByWheel
  <2>1. /\ UNCHANGED <<feed, posted>>
        /\ \E wider \in BOOLEAN, x \in 0 .. ViewWidth - 1 : chart' = ZoomWheel(chart, wider, x)
    BY <1>11 DEF ZoomsByWheel, User
  <2>2. \A x \in 0 .. ViewWidth - 1 : x \in Nat
    BY ChartAssumption
  <2>3. ChartInv(chart') /\ chart'.flushQueued = chart.flushQueued
    BY <1>0, <2>1, <2>2, ZoomWheelIs DEF Kept
  <2> QED BY <2>1, <2>3, UserMoves
<1>12. CASE UNCHANGED feedVars
  BY <1>12 DEF feedVars, FeedInv, FeedTypes
<1> QED BY <1>1, <1>2, <1>3, <1>4, <1>5, <1>6, <1>7, <1>8, <1>9, <1>10, <1>11, <1>12 DEF FeedNext

(* What FeedInv says of the view: a posted flush is the only excuse for it  *)
(* to lag behind.                                                           *)
LEMMA ChartIsCurrentOf == FeedInv => ChartIsCurrent
<1> SUFFICES ASSUME FeedInv PROVE ChartIsCurrent
  OBVIOUS
<1>1. /\ ChartInv(chart) /\ posted \in Seq(Events) /\ OneFlush(posted, chart.flushQueued)
      /\ \A i \in 1 .. Len(posted) : posted[i].kind = "flush" => posted[i] = FlushEvent
  BY DEF FeedInv, FeedTypes
<1>2. (\E i \in 1 .. Len(posted) : posted[i].kind = "flush") <=> FlushEvent \in ToSet(posted)
  <2>1. DOMAIN posted = 1 .. Len(posted)
    BY <1>1
  <2> QED BY <1>1, <2>1, FlushIsEvent DEF ToSet
<1>3. chart.flushQueued <=> FlushEvent \in ToSet(posted)
  BY <1>1, <1>2 DEF OneFlush
<1> QED BY <1>1, <1>3 DEF ChartIsCurrent, ChartInv, Sound, Placed, EndOf

(* ChartView, fed by a ChartConsumer and moved by its user, is current at   *)
(* every step: samples that were appended are painted or a repaint of them  *)
(* is posted, the cursor is on a sample, and, when nothing is owed, the     *)
(* window, the section and the scroll bar are where the newest samples and  *)
(* live mode want them.                                                     *)
THEOREM FeedIsCurrent == FeedSpec => []ChartIsCurrent
<1>1. FeedInit => FeedInv
  BY FeedInvInit
<1>2. FeedInv /\ [FeedNext]_feedVars => FeedInv'
  BY FeedInvStep
<1>3. FeedInv => ChartIsCurrent
  BY ChartIsCurrentOf
<1> QED BY <1>1, <1>2, <1>3, PTL DEF FeedSpec

(* The steps of ChartRows are steps of the session it extends, or leave it. *)
LEMMA RowsStepIsFeedStep ==
  [RowsNext]_rowsVars => FeedNext \/ UNCHANGED <<chart, feed, posted, stale>>
<1> SUFFICES ASSUME [RowsNext]_rowsVars PROVE FeedNext \/ UNCHANGED <<chart, feed, posted, stale>>
  OBVIOUS
<1>1. CASE HandleForRows
  BY <1>1 DEF HandleForRows, FeedNext
<1>2. CASE ConnectForRows
  BY <1>2 DEF ConnectForRows, FeedNext
<1>3. CASE FeedForRows
  BY <1>3 DEF FeedForRows, FeedNext
<1>4. CASE ViewGesture
  BY <1>4 DEF ViewGesture, FeedNext
<1>5. CASE ZoomGesture
  BY <1>5 DEF ZoomGesture, FeedNext, ZoomsByButton, ZoomsByKey
<1>6. CASE \/ ScaleButton \/ ScaleWheel \/ AutoButton \/ FitKey \/ Escape \/ ResetButton
           \/ PressRow \/ DragRow \/ ReleaseRow \/ ClickRow \/ OpenMenu
  <2>1. UserOnRows
    BY <1>6 DEF ScaleButton, ScaleWheel, AutoButton, FitKey, Escape, ResetButton, PressRow, DragRow,
                ReleaseRow, ClickRow, OpenMenu
  <2> QED BY <2>1 DEF UserOnRows, User
<1>7. CASE ChooseInMenu
  BY <1>7 DEF ChooseInMenu, feedVars
<1>8. CASE UNCHANGED rowsVars
  BY <1>8 DEF rowsVars, feedVars
<1> QED BY <1>1, <1>2, <1>3, <1>4, <1>5, <1>6, <1>7, <1>8 DEF RowsNext

LEMMA RowsKeepFeedInv == FeedInv /\ [RowsNext]_rowsVars => FeedInv'
<1> SUFFICES ASSUME FeedInv, [RowsNext]_rowsVars PROVE FeedInv'
  OBVIOUS
<1>1. CASE FeedNext
  BY <1>1, FeedInvStep
<1>2. CASE UNCHANGED <<chart, feed, posted, stale>>
  BY <1>2 DEF FeedInv, FeedTypes
<1> QED BY <1>1, <1>2, RowsStepIsFeedStep

(* The same with the ranges of the rows, the Auto Y mode, the selection and *)
(* the context menu beside it, none of which touches the horizontal view.   *)
THEOREM RowsAreCurrent == RowsSpec => []ChartIsCurrent
<1>1. RowsInit => FeedInv
  BY FeedInvInit DEF RowsInit
<1>2. FeedInv /\ [RowsNext]_rowsVars => FeedInv'
  BY RowsKeepFeedInv
<1>3. FeedInv => ChartIsCurrent
  BY ChartIsCurrentOf
<1> QED BY <1>1, <1>2, <1>3, PTL DEF RowsSpec
-----------------------------------------------------------------------------
RowFields ==
  {"range", "digital", "autoFit", "selected", "scaleEnabled", "menu", "drag", "unfit"}

(* A row for each series, and each fits when Auto Y has nothing to catch up *)
(* with.                                                                    *)
RowTypes(r, c) ==
  DOMAIN r = RowFields /\ r.autoFit \in BOOLEAN /\ r.unfit \in BOOLEAN /\ RowNames(r) = DOMAIN c.series

RowsFit(r, c) ==
  /\ RowTypes(r, c)
  /\ r.autoFit /\ ~r.unfit /\ ~c.flushQueued => \A n \in RowNames(r) : IsFit(r, c, n)

RowsInv == FeedInv /\ RowsFit(rows, chart)

(* What is visible of a series depends on its samples and the window.       *)
LEMMA SameVisible ==
  ASSUME NEW c, NEW d, NEW n, d.series[n] = c.series[n],
         d.origin = c.origin, d.scroll = c.scroll, d.pps = c.pps
  PROVE  VisibleValues(d, n) = VisibleValues(c, n)
  BY DEF VisibleValues

LEMMA NothingVisible ==
  ASSUME NEW c, ChartTypes(c), NEW n, c.series[n].data = <<>>
  PROVE  VisibleValues(c, n) = {}
<1> DEFINE q == c.scroll \div c.pps
           p == (c.scroll + ViewWidth) \div c.pps
<1>1. c.pps \in Nat \ {0} /\ c.scroll \in Nat /\ c.origin \in Nat /\ c.scroll + ViewWidth \in Nat
  BY ChartAssumption DEF ChartTypes
<1>2. q \in Nat /\ p \in Nat
  BY <1>1, Quotient
<1> DEFINE first == c.origin + q
           last == AtMost(Len(c.series[n].data) - 1, c.origin + p)
<1>3. VisibleValues(c, n) = {Signal[c.series[n].data[i + 1][2]] : i \in first .. last}
  BY DEF VisibleValues
<1>4. Len(c.series[n].data) = 0
  OBVIOUS
<1> HIDE DEF q, p
<1>5. first \in Nat /\ last \in Int /\ last < first
  BY <1>1, <1>2, <1>4 DEF AtMost
<1> HIDE DEF first, last
<1>6. first .. last = {}
  BY <1>5
<1> QED BY <1>3, <1>6

LEMMA FitYIs ==
  ASSUME NEW r, NEW c, RowTypes(r, c)
  PROVE  RowsFit(FitY(r, c), c) /\ FitY(r, c).autoFit = r.autoFit
<1> DEFINE fit == [n \in DOMAIN r.range |-> IF VisibleValues(c, n) = {} THEN r.range[n]
                                            ELSE VisibleRange(VisibleValues(c, n))]
           s == FitY(r, c)
<1>1. s = [r EXCEPT !.range = fit, !.unfit = FALSE]
  BY DEF FitY
<1>2. DOMAIN fit = RowNames(r) /\ \A n \in RowNames(r) : VisibleValues(c, n) # {} => fit[n] = VisibleRange(VisibleValues(c, n))
  BY DEF RowNames
<1> HIDE DEF fit, s
<1>3. DOMAIN s = RowFields /\ s.range = fit /\ s.unfit = FALSE /\ s.autoFit = r.autoFit
  BY <1>1 DEF RowTypes, RowFields
<1>4. RowNames(s) = RowNames(r)
  BY <1>2, <1>3 DEF RowNames
<1>5. \A n \in RowNames(s) : IsFit(s, c, n)
  BY <1>2, <1>3, <1>4 DEF IsFit
<1> QED BY <1>3, <1>4, <1>5 DEF RowTypes, RowsFit, s

LEMMA AutoFitYIs ==
  ASSUME NEW r, NEW c, RowTypes(r, c)
  PROVE  RowsFit(AutoFitY(r, c), c)
<1>1. CASE r.autoFit
  BY <1>1, FitYIs DEF AutoFitY
<1>2. CASE ~r.autoFit
  BY <1>2 DEF AutoFitY, RowsFit
<1> QED BY <1>1, <1>2

(* Rows whose ranges have not changed, over a view that has not.            *)
LEMMA RowsUntouched ==
  ASSUME NEW r, NEW c, RowsFit(r, c), NEW s, DOMAIN s = RowFields,
         s.range = r.range, s.autoFit = r.autoFit, s.unfit = r.unfit
  PROVE  RowsFit(s, c)
<1>1. RowNames(s) = RowNames(r)
  BY DEF RowNames
<1>2. \A n \in RowNames(r) : IsFit(r, c, n) => IsFit(s, c, n)
  BY DEF IsFit
<1> QED BY <1>1, <1>2 DEF RowsFit, RowTypes

LEMMA ViewUntouched ==
  ASSUME NEW r, NEW c, RowsFit(r, c), NEW d, d.series = c.series,
         d.origin = c.origin, d.scroll = c.scroll, d.pps = c.pps, d.flushQueued = c.flushQueued
  PROVE  RowsFit(r, d)
<1>1. \A n \in RowNames(r) : IsFit(r, c, n) => IsFit(r, d, n)
  BY SameVisible DEF IsFit
<1> QED BY <1>1 DEF RowsFit, RowTypes

LEMMA SetRangeIs ==
  ASSUME NEW r, NEW c, RowTypes(r, c), NEW names, NEW range
  PROVE  LET s == SetRange(r, names, range)
         IN  RowTypes(s, c) /\ s.autoFit = r.autoFit /\ s.unfit = r.unfit
<1> DEFINE new == [n \in DOMAIN r.range |-> IF n \in names THEN range ELSE r.range[n]]
           s == SetRange(r, names, range)
<1>1. s = [r EXCEPT !.range = new]
  BY DEF SetRange
<1>2. DOMAIN new = RowNames(r)
  BY DEF RowNames
<1> HIDE DEF new, s
<1>3. DOMAIN s = RowFields /\ s.range = new /\ s.autoFit = r.autoFit /\ s.unfit = r.unfit
  BY <1>1 DEF RowTypes, RowFields
<1>4. RowNames(s) = RowNames(r)
  BY <1>2, <1>3 DEF RowNames
<1> QED BY <1>3, <1>4 DEF RowTypes, s

LEMMA ByHandIs ==
  ASSUME NEW r, NEW c, RowsFit(r, c), NEW names, NEW range
  PROVE  RowsFit(ByHand(r, names, range), c)
<1>1. CASE names \cap RowNames(r) = {}
  BY <1>1 DEF ByHand
<1>2. CASE names \cap RowNames(r) # {}
  <2> DEFINE s == SetRange(r, names, range)
             t == ByHand(r, names, range)
  <2>1. RowTypes(s, c)
    BY SetRangeIs DEF RowsFit
  <2>2. t = [s EXCEPT !.unfit = s.autoFit]
    BY <1>2 DEF ByHand, Unfit
  <2> HIDE DEF s, t
  <2>3. DOMAIN t = RowFields /\ t.range = s.range /\ t.unfit = s.autoFit /\ t.autoFit = s.autoFit
    BY <2>1, <2>2 DEF RowTypes, RowFields
  <2>4. RowNames(t) = RowNames(s)
    BY <2>3 DEF RowNames
  <2> QED BY <2>1, <2>3, <2>4 DEF RowsFit, RowTypes, t
<1> QED BY <1>1, <1>2

LEMMA AutoOff ==
  ASSUME NEW r, RowTypes(r, chart)
  PROVE  LET s == SetAutoFitY(r, FALSE)
         IN  RowsFit(s, chart) /\ s.autoFit = FALSE
<1> DEFINE s == SetAutoFitY(r, FALSE)
<1>1. CASE r.autoFit = FALSE
  BY <1>1 DEF SetAutoFitY, RowsFit
<1>2. CASE r.autoFit = TRUE
  <2>1. s = [r EXCEPT !.autoFit = FALSE, !.unfit = FALSE]
    BY <1>2 DEF SetAutoFitY
  <2> HIDE DEF s
  <2>2. DOMAIN s = RowFields /\ s.range = r.range /\ s.autoFit = FALSE /\ s.unfit = FALSE
    BY <2>1 DEF RowTypes, RowFields
  <2>3. RowNames(s) = RowNames(r)
    BY <2>2 DEF RowNames
  <2> QED BY <2>2, <2>3 DEF RowTypes, RowsFit, s
<1> QED BY <1>1, <1>2 DEF RowTypes

LEMMA AutoSet ==
  ASSUME NEW r, RowsFit(r, chart), NEW on \in BOOLEAN
  PROVE  RowsFit(SetAutoFitY(r, on), chart)
<1>1. CASE on = FALSE
  BY <1>1, AutoOff DEF RowsFit
<1>2. CASE on = TRUE /\ r.autoFit = TRUE
  BY <1>2 DEF SetAutoFitY
<1>3. CASE on = TRUE /\ r.autoFit = FALSE
  <2> DEFINE s == [r EXCEPT !.autoFit = TRUE]
  <2>1. DOMAIN s = RowFields /\ s.range = r.range /\ s.autoFit = TRUE /\ s.unfit = r.unfit
    BY DEF RowsFit, RowTypes, RowFields
  <2>2. SetAutoFitY(r, on) = FitY(s, chart)
    BY <1>3 DEF SetAutoFitY
  <2> HIDE DEF s
  <2>3. RowTypes(s, chart)
    BY <2>1 DEF RowsFit, RowTypes, RowNames
  <2> QED BY <2>2, <2>3, FitYIs
<1> QED BY <1>1, <1>2, <1>3 DEF RowsFit, RowTypes

(* Zooming a scale takes Auto Y off.                                        *)
LEMMA ScaleZoomedIs ==
  ASSUME NEW r, RowTypes(r, chart), NEW names
  PROVE  RowsFit(ScaleZoomed(r, names), chart)
<1> DEFINE off == SetAutoFitY(r, FALSE)
           some == {n \in names : HasBounds(off, n)}
           none == {n \in names : ~HasBounds(off, n)}
           s == SetRange(off, some, Scale("set"))
           t == SetRange(s, none, Scale("auto"))
<1>1. ScaleZoomed(r, names) = t
  BY DEF ScaleZoomed
<1>2. RowTypes(off, chart) /\ off.autoFit = FALSE
  BY AutoOff DEF RowsFit
<1> HIDE DEF off, some, none
<1>3. RowTypes(s, chart) /\ s.autoFit = FALSE
  BY <1>2, SetRangeIs
<1> HIDE DEF s
<1>4. RowTypes(t, chart) /\ t.autoFit = FALSE
  BY <1>3, SetRangeIs
<1> HIDE DEF t
<1> QED BY <1>1, <1>4 DEF RowsFit

LEMMA ResetRowsIs ==
  ASSUME NEW r, RowsFit(r, chart)
  PROVE  RowsFit(ResetRows(r), chart)
  BY ByHandIs DEF ResetRows
-----------------------------------------------------------------------------
(* The steps.                                                               *)
(* The ranges of the rows, step by step.                                    *)
LEMMA RowsInvInit == RowsInit => RowsInv
<1> SUFFICES ASSUME RowsInit PROVE RowsInv
  OBVIOUS
<1>1. FeedInv /\ DOMAIN chart.series = {}
  BY FeedInvInit DEF RowsInit, FeedInit, EmptyChart
<1>2. /\ DOMAIN rows = RowFields /\ DOMAIN rows.range = {} /\ rows.autoFit = FALSE /\ rows.unfit = FALSE
  BY DEF RowsInit, RowFields
<1> QED BY <1>1, <1>2 DEF RowsInv, RowsFit, RowTypes, RowNames

LEMMA HeaderForRows ==
  ASSUME RowsInv, NEW items \in Seq(Config), chart' = AddAll(chart, items), ChartInv(chart'), RowsAdd(items)
  PROVE  RowsFit(rows', chart')
<1> DEFINE names == {items[i].name : i \in DOMAIN items}
           more == {items[i].name : i \in {j \in DOMAIN items : items[j].digital}}
           range == [n \in DOMAIN rows.range \cup names |-> IF n \in DOMAIN rows.range THEN rows.range[n] ELSE Scale("auto")]
           added == [rows EXCEPT !.range = range, !.digital = @ \cup more]
<1>0. RowsFit(rows, chart) /\ ChartInv(chart)
  BY DEF RowsInv, FeedInv
<1>1. rows' = IF chart'.scroll # chart.scroll THEN AutoFitY(added, chart') ELSE added
  BY DEF RowsAdd
<1>2. Added(chart, items, Len(items), chart')
  <2>1. Len(items) \in Nat /\ \A i \in 1 .. Len(items) : items[i].type \in Types
    <3>1. Len(items) \in Nat /\ \A i \in 1 .. Len(items) : items[i] \in Config
      OBVIOUS
    <3> QED BY <3>1 DEF Config
  <2> QED BY <1>0, <2>1, AddAllIs
<1>3. names = Named(items, Len(items))
  BY DEF Named
<1>4. /\ DOMAIN range = RowNames(rows) \cup names
      /\ \A n \in RowNames(rows) : range[n] = rows.range[n]
  BY DEF RowNames
<1> HIDE DEF range, more
<1>5. /\ DOMAIN added = RowFields /\ added.range = range
      /\ added.autoFit = rows.autoFit /\ added.unfit = rows.unfit
  BY <1>0 DEF RowsFit, RowTypes, RowFields
<1> HIDE DEF added, names
<1>6. RowNames(added) = RowNames(rows) \cup names
  BY <1>4, <1>5 DEF RowNames
<1>7. RowTypes(added, chart')
  BY <1>0, <1>2, <1>3, <1>5, <1>6 DEF RowsFit, RowTypes, Added
<1>8. CASE chart'.scroll # chart.scroll
  BY <1>1, <1>7, <1>8, AutoFitYIs
<1>9. CASE chart'.scroll = chart.scroll
  <2>1. ASSUME rows.autoFit, ~rows.unfit, ~chart'.flushQueued, NEW n \in RowNames(added)
        PROVE  IsFit(added, chart', n)
    <3>1. /\ ~chart.flushQueued /\ chart'.pps = chart.pps
          /\ chart'.origin = chart.origin /\ chart'.scroll = chart.scroll
      BY <1>2, <2>1 DEF Added
    <3>2. CASE n \in RowNames(rows)
      <4>1. IsFit(rows, chart, n)
        BY <1>0, <2>1, <3>1, <3>2 DEF RowsFit
      <4>2. chart'.series[n] = chart.series[n]
        BY <1>0, <1>2, <3>2 DEF Added, RowsFit, RowTypes
      <4>3. VisibleValues(chart', n) = VisibleValues(chart, n)
        BY <3>1, <4>2, SameVisible
      <4> QED BY <1>4, <1>5, <3>2, <4>1, <4>3 DEF IsFit
    <3>3. CASE n \notin RowNames(rows)
      <4>1. chart'.series[n].data = <<>>
        BY <1>0, <1>2, <1>3, <1>6, <3>3 DEF Added, RowsFit, RowTypes
      <4>2. VisibleValues(chart', n) = {}
        BY <4>1, NothingVisible DEF ChartInv, Sound
      <4> QED BY <4>2 DEF IsFit
    <3> QED BY <3>2, <3>3
  <2> QED BY <1>1, <1>5, <1>7, <1>9, <2>1 DEF RowsFit
<1> QED BY <1>8, <1>9

LEMMA HandleKeepsRows ==
  ASSUME RowsInv, FeedInv', HandleForRows
  PROVE  RowsFit(rows', chart')
<1>0. /\ RowsFit(rows, chart) /\ ChartInv(chart) /\ ChartInv(chart')
      /\ posted \in Seq(Events)
  BY DEF RowsInv, FeedInv, FeedTypes
<1> DEFINE e == Head(posted)
<1>1. /\ posted # <<>>
      /\ \/ e.kind = "header" /\ chart' = AddAll(chart, e.items)
         \/ e.kind = "batch" /\ chart' = AppendBatch(chart, WithData(e))
         \/ e.kind = "flush" /\ \E away \in BOOLEAN : chart' = FlushPendingAppend(chart, away)
  BY DEF HandleForRows, Handle
<1>2. e \in Events
  BY <1>0, <1>1
<1>3. CASE e.kind = "header"
  <2>1. RowsAdd(e.items)
    BY <1>3 DEF HandleForRows
  <2> HIDE DEF e
  <2>2. e.items \in Seq(Config) /\ chart' = AddAll(chart, e.items)
    BY <1>1, <1>2, <1>3 DEF Events
  <2> QED BY <1>0, <2>1, <2>2, HeaderForRows
<1>4. CASE e.kind = "batch"
  <2>1. rows' = rows
    BY <1>4 DEF HandleForRows
  <2> HIDE DEF e
  <2>2. Batch(WithData(e)) /\ chart' = AppendBatch(chart, WithData(e))
    BY <1>1, <1>2, <1>4, BatchOf
  <2>3. (chart' = chart \/ chart'.flushQueued) /\ DOMAIN chart'.series = DOMAIN chart.series
    BY <1>0, <2>2, AppendBatchIs
  <2> QED BY <1>0, <2>1, <2>3 DEF RowsFit, RowTypes
<1>5. CASE e.kind = "flush"
  <2>1. rows' = AutoFitY(rows, chart')
    BY <1>5 DEF HandleForRows
  <2>2. chart'.series = chart.series
    BY <1>0, <1>1, <1>5, FlushIs
  <2>3. RowTypes(rows, chart')
    BY <1>0, <2>2 DEF RowsFit, RowTypes
  <2> QED BY <2>1, <2>3, AutoFitYIs
<1> QED BY <1>1, <1>3, <1>4, <1>5

LEMMA ViewGestureKeepsRows ==
  ASSUME RowsInv, ViewGesture
  PROVE  RowsFit(rows', chart')
<1>0. RowsFit(rows, chart) /\ ChartInv(chart)
  BY DEF RowsInv, FeedInv
<1>1. CASE Points /\ UNCHANGED rows
  <2>1. chart'.scroll = chart.scroll /\ \A f \in Fields \ View : chart'[f] = chart[f]
    BY <1>0, <1>1, PointsIs DEF Points
  <2>2. /\ chart'.series = chart.series /\ chart'.origin = chart.origin /\ chart'.pps = chart.pps
        /\ chart'.flushQueued = chart.flushQueued
    BY <2>1 DEF Fields, View
  <2>3. RowsFit(rows, chart')
    BY <1>0, <2>1, <2>2, ViewUntouched
  <2> QED BY <1>1, <2>3
<1>2. CASE Scrolls /\ RowsFollowScroll
  <2>1. \A f \in Fields \ View : chart'[f] = chart[f]
    BY <1>0, <1>2, ScrollsIs DEF Scrolls
  <2>2. /\ chart'.series = chart.series /\ chart'.origin = chart.origin /\ chart'.pps = chart.pps
        /\ chart'.flushQueued = chart.flushQueued
    BY <2>1 DEF Fields, View
  <2>3. RowTypes(rows, chart')
    BY <1>0, <2>2 DEF RowsFit, RowTypes
  <2>4. CASE chart'.scroll = chart.scroll
    <3>1. RowsFit(rows, chart') /\ rows' = rows
      BY <1>0, <1>2, <2>2, <2>4, ViewUntouched DEF RowsFollowScroll
    <3> QED BY <3>1
  <2>5. CASE chart'.scroll # chart.scroll
    <3>1. rows' = AutoFitY(rows, chart')
      BY <1>2, <2>5 DEF RowsFollowScroll
    <3> QED BY <2>3, <3>1, AutoFitYIs
  <2> QED BY <2>4, <2>5
<1>3. CASE ZoomsByWheel /\ rows' = AutoFitY(rows, chart')
  <2>1. \E wider \in BOOLEAN, x \in 0 .. ViewWidth - 1 : chart' = ZoomWheel(chart, wider, x)
    BY <1>3 DEF ZoomsByWheel
  <2>2. \A x \in 0 .. ViewWidth - 1 : x \in Nat
    BY ChartAssumption
  <2>3. chart'.series = chart.series
    BY <1>0, <2>1, <2>2, ZoomWheelIs DEF Kept
  <2>4. RowTypes(rows, chart')
    BY <1>0, <2>3 DEF RowsFit, RowTypes
  <2> QED BY <1>3, <2>4, AutoFitYIs
<1> QED BY <1>1, <1>2, <1>3 DEF ViewGesture

LEMMA UnfitIs ==
  ASSUME NEW r, NEW c, RowTypes(r, c)
  PROVE  RowsFit(Unfit(r), c)
<1> DEFINE s == Unfit(r)
<1>1. DOMAIN s = RowFields /\ s.range = r.range /\ s.unfit = r.autoFit /\ s.autoFit = r.autoFit
  BY DEF Unfit, RowTypes, RowFields
<1> HIDE DEF s
<1>2. RowNames(s) = RowNames(r)
  BY <1>1 DEF RowNames
<1> QED BY <1>1, <1>2 DEF RowsFit, RowTypes, s

LEMMA ZoomGestureKeepsRows ==
  ASSUME RowsInv, ZoomGesture
  PROVE  RowsFit(rows', chart')
<1>0. RowsFit(rows, chart) /\ ChartInv(chart)
  BY DEF RowsInv, FeedInv
<1>1. ASSUME NEW wider \in BOOLEAN, chart' = ZoomButton(chart, wider),
             rows' = IF chart'.scroll # chart.scroll THEN AutoFitY(rows, chart')
                     ELSE IF chart'.pps # chart.pps THEN Unfit(rows)
                     ELSE rows
      PROVE  RowsFit(rows', chart')
  <2>1. chart'.series = chart.series /\ (chart'.pps = chart.pps => chart' = chart)
    BY <1>0, <1>1, ZoomButtonIs DEF Kept
  <2>2. RowTypes(rows, chart')
    BY <1>0, <2>1 DEF RowsFit, RowTypes
  <2>3. CASE chart'.scroll # chart.scroll
    BY <1>1, <2>2, <2>3, AutoFitYIs
  <2>4. CASE chart'.scroll = chart.scroll /\ chart'.pps # chart.pps
    BY <1>1, <2>2, <2>4, UnfitIs
  <2>5. CASE chart'.scroll = chart.scroll /\ chart'.pps = chart.pps
    BY <1>0, <1>1, <2>1, <2>5
  <2> QED BY <2>3, <2>4, <2>5
<1>2. ASSUME NEW wider \in BOOLEAN, chart' = ZoomKey(chart, wider),
             rows' = IF {chart.scroll, chart'.scroll} # {ZoomButton(chart, wider).scroll} THEN AutoFitY(rows, chart')
                     ELSE IF chart'.pps # chart.pps THEN Unfit(rows)
                     ELSE rows
      PROVE  RowsFit(rows', chart')
  <2> DEFINE z == ZoomButton(chart, wider)
  <2>1. /\ chart'.series = chart.series /\ chart'.flushQueued = chart.flushQueued
        /\ chart'.pps = z.pps /\ chart'.origin = z.origin
        /\ z.pps = chart.pps => z = chart
    BY <1>0, <1>2, ZoomKeyIs DEF Kept
  <2>2. RowTypes(rows, chart')
    BY <1>0, <2>1 DEF RowsFit, RowTypes
  <2>3. CASE {chart.scroll, chart'.scroll} # {z.scroll}
    BY <1>2, <2>2, <2>3, AutoFitYIs
  <2>4. CASE {chart.scroll, chart'.scroll} = {z.scroll} /\ chart'.pps # chart.pps
    BY <1>2, <2>2, <2>4, UnfitIs
  <2>5. CASE {chart.scroll, chart'.scroll} = {z.scroll} /\ chart'.pps = chart.pps
    <3>1. chart'.origin = chart.origin
      BY <2>1, <2>5
    <3>2. chart'.scroll = chart.scroll
      <4>1. chart'.scroll = z.scroll /\ chart.scroll = z.scroll
        <5> HIDE DEF z
        <5> QED BY <2>5
      <4> QED BY <4>1
    <3>3. RowsFit(rows, chart')
      BY <1>0, <2>1, <2>5, <3>1, <3>2, ViewUntouched
    <3>4. rows' = rows
      BY <1>2, <2>5
    <3> QED BY <3>3, <3>4
  <2> QED BY <2>3, <2>4, <2>5
<1> QED BY <1>1, <1>2 DEF ZoomGesture

(* The tool bar, the drags and the menu leave the view alone.               *)
LEMMA RowActionsKeepRows ==
  ASSUME RowsInv,
         \/ ScaleButton \/ ScaleWheel \/ AutoButton \/ FitKey \/ Escape \/ ResetButton
         \/ PressRow \/ DragRow \/ ReleaseRow \/ ClickRow \/ OpenMenu
  PROVE  RowsFit(rows', chart')
<1>0. RowsFit(rows, chart) /\ RowTypes(rows, chart)
  BY DEF RowsInv, RowsFit
<1>1. chart' = chart
  BY DEF ScaleButton, ScaleWheel, AutoButton, FitKey, Escape, ResetButton, PressRow, DragRow,
         ReleaseRow, ClickRow, OpenMenu, UserOnRows
<1>2. SUFFICES RowsFit(rows', chart)
  BY <1>1
<1>3. CASE ScaleButton \/ ScaleWheel
  BY <1>0, <1>3, ScaleZoomedIs DEF ScaleButton, ScaleWheel
<1>4. CASE AutoButton
  <2>1. rows' = SetAutoFitY(rows, ~rows.autoFit) /\ (~rows.autoFit) \in BOOLEAN
    BY <1>0, <1>4 DEF AutoButton, RowTypes
  <2> QED BY <1>0, <2>1, AutoSet
<1>5. CASE FitKey
  <2>1. rows' = FitY(SetAutoFitY(rows, FALSE), chart) /\ RowTypes(SetAutoFitY(rows, FALSE), chart)
    BY <1>0, <1>5, AutoOff DEF FitKey, RowsFit
  <2> QED BY <2>1, FitYIs
<1>6. CASE Escape
  <2>1. rows' = SetAutoFitY(ResetRows(rows), FALSE) /\ RowTypes(ResetRows(rows), chart)
    BY <1>0, <1>6, ResetRowsIs DEF Escape, RowsFit
  <2> QED BY <2>1, AutoOff
<1>7. CASE ResetButton
  BY <1>0, <1>7, ResetRowsIs DEF ResetButton
<1>8. CASE PressRow \/ ReleaseRow \/ ClickRow \/ OpenMenu
  <2>1. /\ DOMAIN rows' = RowFields /\ rows'.range = rows.range
        /\ rows'.autoFit = rows.autoFit /\ rows'.unfit = rows.unfit
    <3>1. CASE PressRow
      BY <1>0, <3>1 DEF PressRow, RowTypes, RowFields
    <3>2. CASE ReleaseRow
      BY <1>0, <3>2 DEF ReleaseRow, RowTypes, RowFields
    <3>3. CASE ClickRow
      BY <1>0, <3>3 DEF ClickRow, RowTypes, RowFields
    <3>4. CASE OpenMenu
      BY <1>0, <3>4 DEF OpenMenu, RowTypes, RowFields
    <3> QED BY <1>8, <3>1, <3>2, <3>3, <3>4
  <2> QED BY <1>0, <2>1, RowsUntouched
<1>9. CASE DragRow
  BY <1>0, <1>9, ByHandIs DEF DragRow
<1> QED BY <1>3, <1>4, <1>5, <1>6, <1>7, <1>8, <1>9

LEMMA MenuShuts ==
  ASSUME NEW r, NEW c, RowsFit(r, c)
  PROVE  RowsFit([r EXCEPT !.menu = NoMenu], c)
<1> DEFINE s == [r EXCEPT !.menu = NoMenu]
<1>1. DOMAIN s = RowFields /\ s.range = r.range /\ s.autoFit = r.autoFit /\ s.unfit = r.unfit
  BY DEF RowsFit, RowTypes, RowFields
<1> HIDE DEF s
<1>2. RowsFit(s, c)
  BY <1>1, RowsUntouched
<1> QED BY <1>2 DEF s

LEMMA ChoiceKeepsRows ==
  ASSUME RowsInv, ChooseInMenu
  PROVE  RowsFit(rows', chart')
<1> DEFINE shut == [rows EXCEPT !.menu = NoMenu]
           done(r) == [r EXCEPT !.menu = NoMenu]
<1>0. RowsFit(rows, chart) /\ RowTypes(rows, chart)
  BY DEF RowsInv, RowsFit
<1>1. chart' = chart
  BY DEF ChooseInMenu, feedVars
<1>2. SUFFICES RowsFit(rows', chart)
  BY <1>1
<1>3. RowsFit(shut, chart) /\ RowTypes(shut, chart)
  BY <1>0, MenuShuts DEF RowsFit
<1>4. \/ rows' = shut
      \/ rows' = SetAutoFitY(shut, ~rows.autoFit)
      \/ rows' = FitY(SetAutoFitY(shut, FALSE), chart)
      \/ rows' \in {done(SyncScale(rows)), done(OverlayOnto(rows))}
      \/ rows' = done(ResetSelected(rows))
      \/ rows' = ResetRows(shut)
  BY DEF ChooseInMenu
<1> HIDE DEF shut
<1>5. CASE rows' = shut
  BY <1>3, <1>5
<1>6. CASE rows' = SetAutoFitY(shut, ~rows.autoFit)
  <2>1. (~rows.autoFit) \in BOOLEAN
    BY <1>0 DEF RowTypes
  <2> QED BY <1>3, <1>6, <2>1, AutoSet
<1>7. CASE rows' = FitY(SetAutoFitY(shut, FALSE), chart)
  <2>1. RowTypes(SetAutoFitY(shut, FALSE), chart)
    BY <1>3, AutoOff DEF RowsFit
  <2> QED BY <1>7, <2>1, FitYIs
<1>8. CASE rows' \in {done(SyncScale(rows)), done(OverlayOnto(rows))}
  <2>1. RowsFit(SyncScale(rows), chart)
    BY <1>0, ByHandIs DEF SyncScale
  <2>2. RowsFit(OverlayOnto(rows), chart)
    BY <1>0, ByHandIs DEF OverlayOnto
  <2> QED BY <1>8, <2>1, <2>2, MenuShuts
<1>9. CASE rows' = done(ResetSelected(rows))
  <2>1. RowsFit(ResetSelected(rows), chart)
    BY <1>0, ByHandIs DEF ResetSelected
  <2> QED BY <1>9, <2>1, MenuShuts
<1>10. CASE rows' = ResetRows(shut)
  BY <1>3, <1>10, ResetRowsIs
<1> QED BY <1>4, <1>5, <1>6, <1>7, <1>8, <1>9, <1>10

LEMMA RowsInvStep == RowsInv /\ [RowsNext]_rowsVars => RowsInv'
<1> SUFFICES ASSUME RowsInv, [RowsNext]_rowsVars PROVE RowsInv'
  OBVIOUS
<1>1. FeedInv'
  BY RowsKeepFeedInv DEF RowsInv
<1>2. RowsFit(rows, chart) /\ ChartInv(chart)
  BY DEF RowsInv, FeedInv
<1>3. SUFFICES RowsFit(rows', chart')
  BY <1>1 DEF RowsInv
<1>4. CASE HandleForRows
  BY <1>1, <1>4, HandleKeepsRows
<1>5. CASE ConnectForRows
  <2>1. /\ chart' = ClearAll(chart)
        /\ rows' = [rows EXCEPT !.range = [n \in {} |-> Scale("auto")], !.digital = {}]
    BY <1>5 DEF ConnectForRows, Connect, RowsForget
  <2>2. DOMAIN chart'.series = {}
    BY <1>2, <2>1, ClearAllIs
  <2>3. /\ DOMAIN rows' = RowFields /\ DOMAIN rows'.range = {}
        /\ rows'.autoFit = rows.autoFit /\ rows'.unfit = rows.unfit
    BY <1>2, <2>1 DEF RowsFit, RowTypes, RowFields
  <2> QED BY <1>2, <2>2, <2>3 DEF RowsFit, RowTypes, RowNames
<1>6. CASE FeedForRows
  <2>1. UNCHANGED <<chart, rows>>
    BY <1>6 DEF FeedForRows, FeedStarts, FeedConsumes, FeedEnds, Disconnect
  <2> QED BY <1>2, <2>1
<1>7. CASE ViewGesture
  BY <1>7, ViewGestureKeepsRows
<1>8. CASE ZoomGesture
  BY <1>8, ZoomGestureKeepsRows
<1>9. CASE \/ ScaleButton \/ ScaleWheel \/ AutoButton \/ FitKey \/ Escape \/ ResetButton
           \/ PressRow \/ DragRow \/ ReleaseRow \/ ClickRow \/ OpenMenu
  BY <1>9, RowActionsKeepRows
<1>10. CASE ChooseInMenu
  BY <1>10, ChoiceKeepsRows
<1>11. CASE UNCHANGED rowsVars
  BY <1>2, <1>11 DEF rowsVars, feedVars
<1> QED BY <1>4, <1>5, <1>6, <1>7, <1>8, <1>9, <1>10, <1>11 DEF RowsNext

(* Auto Y fits continuously: when it is on and no flush is owed, each row   *)
(* with a visible sample shows exactly the range of the visible ones,       *)
(* except for what the zooms that do not scroll, a menu or a drag have left *)
(* until the next fit.                                                      *)
THEOREM AutoYIsCaughtUp == RowsSpec => []AutoYCatchesUp
<1>1. RowsInit => RowsInv
  BY RowsInvInit
<1>2. RowsInv /\ [RowsNext]_rowsVars => RowsInv'
  BY RowsInvStep
<1>3. RowsInv => AutoYCatchesUp
  BY DEF RowsInv, RowsFit, AutoYCatchesUp
<1> QED BY <1>1, <1>2, <1>3, PTL DEF RowsSpec
-----------------------------------------------------------------------------
(* What a posted event carries for a connection, and what all of them do.   *)
Piece(event, gen) == IF event.kind = "batch" /\ event.gen = gen THEN event.data ELSE <<>>

Carries(f, events, gen) ==
  /\ f[0] = <<>>
  /\ \A i \in 1 .. Len(events) : f[i] = f[i - 1] \o Piece(events[i], gen)

LEMMA PieceIs ==
  ASSUME NEW s \in Seq(Events), NEW gen, NEW i \in 1 .. Len(s)
  PROVE  Piece(s[i], gen) \in Seq(Sample)
<1>1. s[i] \in Events
  OBVIOUS
<1>2. s[i].data \in Seq(Sample)
  BY <1>1 DEF Events
<1>3. <<>> \in Seq(Sample)
  OBVIOUS
<1> QED BY <1>2, <1>3 DEF Piece

LEMMA CarriedIs ==
  ASSUME NEW s \in Seq(Events), NEW gen, NEW f, Carries(f, s, gen)
  PROVE  \A i \in 0 .. Len(s) : f[i] \in Seq(Sample)
<1> DEFINE N == Len(s)
           S == {n \in Nat : f[n] \in Seq(Sample)}
<1>0. N \in Nat
  OBVIOUS
<1>1. 0 \in S
  <2>1. <<>> \in Seq(Sample)
    OBVIOUS
  <2> QED BY <2>1 DEF Carries
<1>2. \A n \in 0 .. N - 1 : n \in S => n + 1 \in S
  <2> TAKE n \in 0 .. N - 1
  <2> HAVE n \in S
  <2> DEFINE m == n + 1
  <2>1. m \in 1 .. N /\ m - 1 = n /\ m \in Nat
    BY <1>0
  <2> HIDE DEF m
  <2>2. f[m] = f[m - 1] \o Piece(s[m], gen) /\ Piece(s[m], gen) \in Seq(Sample)
    BY <2>1, PieceIs DEF Carries
  <2>3. f[m] \in Seq(Sample)
    BY <2>1, <2>2
  <2> QED BY <2>1, <2>3 DEF m
<1> HIDE DEF S, N
<1>3. \A n \in 0 .. N : n \in S
  BY <1>0, <1>1, <1>2, CountingUp
<1> QED BY <1>3 DEF S, N

LEMMA OneCarry ==
  ASSUME NEW s, NEW t, NEW N \in Nat, N <= Len(s), N <= Len(t), Len(s) \in Nat, Len(t) \in Nat,
         \A i \in 1 .. N : s[i] = t[i],
         NEW gen, NEW f, Carries(f, s, gen), NEW h, Carries(h, t, gen)
  PROVE  f[N] = h[N]
<1> DEFINE S == {n \in Nat : f[n] = h[n]}
<1>1. 0 \in S
  BY DEF Carries
<1>2. \A n \in 0 .. N - 1 : n \in S => n + 1 \in S
  <2> TAKE n \in 0 .. N - 1
  <2> HAVE n \in S
  <2> DEFINE m == n + 1
  <2>1. m \in 1 .. N /\ m \in 1 .. Len(s) /\ m \in 1 .. Len(t) /\ m - 1 = n /\ m \in Nat
    OBVIOUS
  <2> HIDE DEF m
  <2>2. f[m] = f[m - 1] \o Piece(s[m], gen)
    BY <2>1 DEF Carries
  <2>3. h[m] = h[m - 1] \o Piece(t[m], gen)
    BY <2>1 DEF Carries
  <2>4. f[m] = h[m]
    BY <2>1, <2>2, <2>3
  <2> QED BY <2>1, <2>4 DEF m
<1> HIDE DEF S
<1>3. \A n \in 0 .. N : n \in S
  BY <1>1, <1>2, CountingUp
<1> QED BY <1>3 DEF S

LEMMA CarriesSome ==
  ASSUME NEW s \in Seq(Events), NEW gen
  PROVE  \E f : Carries(f, s, gen) /\ OnTheWay(s, gen) = f[Len(s)]
<1> DEFINE N == Len(s)
           Upto(n, f) == f = [i \in 0 .. n |-> IF i = 0 THEN <<>> ELSE f[i - 1] \o Piece(s[i], gen)]
           S == {n \in Nat : \E f : Upto(n, f)}
<1>0. N \in Nat
  OBVIOUS
<1>1. 0 \in S
  <2>1. Upto(0, [i \in 0 .. 0 |-> <<>>])
    OBVIOUS
  <2> QED BY <2>1
<1>2. ASSUME NEW n \in 0 .. N - 1, n \in S
      PROVE  n + 1 \in S
  <2>0. n \in Nat
    BY <1>0
  <2>1. PICK f : Upto(n, f)
    BY <1>2
  <2> DEFINE g == [i \in 0 .. n + 1 |-> IF i = n + 1 THEN f[n] \o Piece(s[n + 1], gen) ELSE f[i]]
  <2>2. ASSUME NEW i \in 0 .. n + 1
        PROVE  g[i] = IF i = 0 THEN <<>> ELSE g[i - 1] \o Piece(s[i], gen)
    <3>1. CASE i = n + 1
      BY <2>0, <3>1
    <3>2. CASE i # n + 1
      <4> i \in 0 .. n
        BY <2>0, <3>2
      <4>1. f[i] = IF i = 0 THEN <<>> ELSE f[i - 1] \o Piece(s[i], gen)
        BY <2>1
      <4> QED BY <2>0, <3>2, <4>1
    <3> QED BY <3>1, <3>2
  <2>3. Upto(n + 1, g)
    BY <2>2
  <2>4. n + 1 \in Nat
    BY <2>0
  <2> HIDE DEF Upto, g
  <2> QED BY <2>3, <2>4
<1>3. N \in S
  <2> HIDE DEF S, N
  <2>1. \A n \in 0 .. N - 1 : n \in S => n + 1 \in S
    BY <1>2
  <2>2. \A n \in 0 .. N : n \in S
    BY <1>0, <1>1, <2>1, CountingUp
  <2> QED BY <1>0, <2>2
<1> DEFINE F == CHOOSE f : Upto(N, f)
<1>4. \E f : Upto(N, f)
  BY <1>3
<1>5. Upto(N, F)
  BY <1>4
<1>6. OnTheWay(s, gen) = F[N]
  BY DEF OnTheWay, Piece
<1> HIDE DEF F
<1>7. Carries(F, s, gen)
  <2>1. \A i \in 0 .. N : F[i] = IF i = 0 THEN <<>> ELSE F[i - 1] \o Piece(s[i], gen)
    BY <1>5
  <2> HIDE DEF N
  <2>2. 0 \in 0 .. N /\ \A i \in 1 .. N : i \in 0 .. N /\ i # 0
    BY <1>0
  <2>3. F[0] = <<>> /\ \A i \in 1 .. N : F[i] = F[i - 1] \o Piece(s[i], gen)
    BY <2>1, <2>2
  <2> QED BY <2>3 DEF Carries, N
<1> QED BY <1>6, <1>7

LEMMA OnTheWayIs ==
  ASSUME NEW s \in Seq(Events), NEW gen
  PROVE  OnTheWay(s, gen) \in Seq(Sample)
<1>1. PICK f : Carries(f, s, gen) /\ OnTheWay(s, gen) = f[Len(s)]
  BY CarriesSome
<1>2. Len(s) \in 0 .. Len(s)
  OBVIOUS
<1> QED BY <1>1, <1>2, CarriedIs

LEMMA NothingOnTheWay ==
  ASSUME NEW s \in Seq(Events), NEW gen, \A i \in 1 .. Len(s) : s[i].kind = "batch" => s[i].gen # gen
  PROVE  OnTheWay(s, gen) = <<>>
<1> DEFINE N == Len(s)
<1>0. N \in Nat
  OBVIOUS
<1>1. PICK f : Carries(f, s, gen) /\ OnTheWay(s, gen) = f[N]
  BY CarriesSome
<1> DEFINE S == {n \in Nat : f[n] = <<>>}
<1>2. 0 \in S
  BY <1>1 DEF Carries
<1>3. \A n \in 0 .. N - 1 : n \in S => n + 1 \in S
  <2> TAKE n \in 0 .. N - 1
  <2> HAVE n \in S
  <2> DEFINE m == n + 1
  <2>1. m \in 1 .. N /\ m - 1 = n /\ m \in Nat
    BY <1>0
  <2> HIDE DEF m
  <2>2. f[m] = f[m - 1] \o Piece(s[m], gen) /\ Piece(s[m], gen) = <<>>
    BY <1>1, <2>1 DEF Carries, Piece
  <2>3. f[m] = <<>>
    BY <2>1, <2>2
  <2> QED BY <2>1, <2>3 DEF m
<1> HIDE DEF S, N
<1>4. \A n \in 0 .. N : n \in S
  BY <1>0, <1>2, <1>3, CountingUp
<1>5. N \in S
  BY <1>0, <1>4
<1> QED BY <1>1, <1>5 DEF S

LEMMA PostedBehind ==
  ASSUME NEW s \in Seq(Events), NEW e \in Events, NEW gen
  PROVE  OnTheWay(s \o <<e>>, gen) = OnTheWay(s, gen) \o Piece(e, gen)
<1> DEFINE u == s \o <<e>>
           N == Len(s)
<1>1. u \in Seq(Events) /\ N \in Nat /\ Len(u) = N + 1 /\ u[N + 1] = e /\ \A i \in 1 .. N : s[i] = u[i]
  OBVIOUS
<1> HIDE DEF u
<1>2. PICK f : Carries(f, s, gen) /\ OnTheWay(s, gen) = f[N]
  BY CarriesSome
<1> DEFINE M == Len(u)
<1> HIDE DEF N
<1>3. PICK h : Carries(h, u, gen) /\ OnTheWay(u, gen) = h[M]
  BY <1>1, CarriesSome
<1>4. M = N + 1 /\ M \in 1 .. Len(u) /\ M - 1 = N /\ Len(u) \in Nat /\ N <= Len(u)
  BY <1>1
<1>5. f[N] = h[N]
  <2>1. Len(s) \in Nat /\ Len(u) \in Nat /\ N \in Nat /\ N <= Len(s) /\ N <= Len(u)
    BY <1>1, <1>4 DEF N
  <2>2. Carries(f, s, gen) /\ Carries(h, u, gen) /\ \A i \in 1 .. N : s[i] = u[i]
    BY <1>1, <1>2, <1>3
  <2> HIDE DEF M
  <2> QED BY <2>1, <2>2, OneCarry
<1> HIDE DEF M
<1>6. h[M] = h[M - 1] \o Piece(u[M], gen)
  BY <1>3, <1>4 DEF Carries
<1>7. u[M] = e /\ h[M - 1] = f[N]
  BY <1>1, <1>4, <1>5
<1> QED BY <1>2, <1>3, <1>6, <1>7 DEF u

LEMMA HandledFirst ==
  ASSUME NEW s \in Seq(Events), s # <<>>, NEW gen
  PROVE  OnTheWay(s, gen) = Piece(Head(s), gen) \o OnTheWay(Tail(s), gen)
<1> DEFINE t == Tail(s)
           N == Len(s)
           p == Piece(s[1], gen)
<1>1. /\ t \in Seq(Events) /\ N \in Nat \ {0} /\ Len(t) = N - 1 /\ Head(s) = s[1]
      /\ \A i \in 1 .. N - 1 : t[i] = s[i + 1]
  OBVIOUS
<1>2. p \in Seq(Sample)
  <2>1. 1 \in 1 .. Len(s)
    BY <1>1
  <2> QED BY <2>1, PieceIs
<1> HIDE DEF t
<1>3. PICK f : Carries(f, s, gen) /\ OnTheWay(s, gen) = f[N]
  BY CarriesSome
<1>4. PICK h : Carries(h, t, gen) /\ OnTheWay(t, gen) = h[Len(t)]
  BY <1>1, CarriesSome
<1>5. \A i \in 0 .. Len(t) : h[i] \in Seq(Sample)
  BY <1>1, <1>4, CarriedIs
<1> DEFINE K == N - 1
           S == {n \in Nat : f[n + 1] = p \o h[n]}
<1>6. K \in Nat /\ K = Len(t) /\ N = K + 1
  BY <1>1
<1>7. f[0] = <<>> /\ \A i \in 1 .. N : f[i] = f[i - 1] \o Piece(s[i], gen)
  BY <1>3 DEF Carries
<1>8. h[0] = <<>> /\ \A i \in 1 .. K : h[i] = h[i - 1] \o Piece(t[i], gen)
  BY <1>4, <1>6 DEF Carries
<1>9. \A i \in 1 .. K : Piece(t[i], gen) \in Seq(Sample)
  BY <1>1, <1>6, PieceIs
<1> HIDE DEF p
<1>10. 0 \in S
  <2>1. 1 \in 1 .. N /\ 1 - 1 = 0
    BY <1>1
  <2>2. f[1] = f[1 - 1] \o Piece(s[1], gen)
    BY <1>7, <2>1
  <2>3. f[1] = <<>> \o p
    BY <1>7, <2>1, <2>2 DEF p
  <2>4. f[1] = p /\ p \o h[0] = p
    BY <1>2, <1>8, <2>3
  <2> QED BY <2>4
<1>11. \A n \in 0 .. K - 1 : n \in S => n + 1 \in S
  <2> TAKE n \in 0 .. K - 1
  <2> HAVE n \in S
  <2> DEFINE m == n + 1
             k == n + 2
             q == Piece(t[m], gen)
  <2>1. /\ m \in 1 .. K /\ m - 1 = n /\ m \in Nat /\ n \in 0 .. Len(t)
        /\ k \in 1 .. N /\ k - 1 = m /\ m + 1 = k
    BY <1>6
  <2>2. t[m] = s[k]
    BY <1>1, <2>1
  <2> HIDE DEF m, k, q
  <2>3. f[k] = f[k - 1] \o Piece(s[k], gen)
    BY <1>7, <2>1
  <2>4. h[m] = h[m - 1] \o Piece(t[m], gen)
    BY <1>8, <2>1
  <2>5. f[k] = f[m] \o q /\ h[m] = h[n] \o q
    BY <2>1, <2>2, <2>3, <2>4 DEF q
  <2>6. f[m] = p \o h[n]
    BY DEF m
  <2>7. h[n] \in Seq(Sample) /\ q \in Seq(Sample)
    BY <1>5, <1>9, <2>1 DEF q
  <2> DEFINE a == h[n]
  <2> HIDE DEF a
  <2>8. (p \o a) \o q = p \o (a \o q)
    <3>1. a \in Seq(Sample)
      BY <2>7 DEF a
    <3> QED BY <1>2, <2>7, <3>1, ConcatAssociative, SMTT(30)
  <2>9. f[k] = p \o h[m]
    BY <2>5, <2>6, <2>8 DEF a
  <2> QED BY <2>1, <2>9 DEF m
<1> HIDE DEF S, K, N
<1>12. \A n \in 0 .. K : n \in S
  BY <1>6, <1>10, <1>11, CountingUp
<1>13. K \in S
  BY <1>6, <1>12
<1>14. f[N] = p \o h[K]
  BY <1>6, <1>13 DEF S
<1> QED BY <1>1, <1>3, <1>4, <1>6, <1>14 DEF p, t
-----------------------------------------------------------------------------
(* A batch appends its samples to each of its series, when it names each    *)
(* once and they are there with their types.                                *)
LEMMA AppendOneExact ==
  ASSUME NEW c, ChartTypes(c), NEW item, item.type \in Types, item.data \in Seq(Sample),
         item.name \in DOMAIN c.series, c.series[item.name].type = item.type,
         NEW d, d = AppendToSeries(c, item)
  PROVE  /\ d.series[item.name].data = c.series[item.name].data \o item.data
         /\ d.series[item.name].type = item.type
         /\ \A n \in DOMAIN c.series : n # item.name => d.series[n] = c.series[n]
<1>1. CASE item.data = <<>>
  <2>1. d = c
    BY <1>1 DEF AppendToSeries, TakesSamples
  <2>2. c.series[item.name].data \in Seq(Sample)
    BY DEF ChartTypes, SeriesOK, Series
  <2>3. c.series[item.name].data \o <<>> = c.series[item.name].data
    BY <2>2, ConcatEmptySeq
  <2> QED BY <1>1, <2>1, <2>3
<1>2. CASE item.data # <<>>
  <2>1. TakesSamples(c, item)
    BY <1>2 DEF TakesSamples
  <2> DEFINE m == item.name
             new == [type |-> item.type, data |-> c.series[m].data \o item.data]
  <2>2. d.series = [c.series EXCEPT ![m] = new]
    BY <2>1, AppendToSeriesIs
  <2>3. new.type = item.type /\ new.data = c.series[m].data \o item.data /\ m \in DOMAIN c.series
    OBVIOUS
  <2> HIDE DEF new, m
  <2>4. d.series[m] = new /\ \A n \in DOMAIN c.series : n # m => d.series[n] = c.series[n]
    BY <2>2, <2>3
  <2> QED BY <2>3, <2>4 DEF m
<1> QED BY <1>1, <1>2

Appended(c, items, data, n, d) ==
  /\ Grown(c, d)
  /\ \A i \in 1 .. n : /\ d.series[items[i].name].data = c.series[items[i].name].data \o data
                       /\ d.series[items[i].name].type = items[i].type
  /\ \A i \in n + 1 .. Len(items) : d.series[items[i].name] = c.series[items[i].name]

LEMMA AppendedOneMore ==
  ASSUME NEW c, ChartTypes(c), NEW items, Batch(items), Distinct(items), NEW data \in Seq(Sample),
         \A i \in 1 .. Len(items) : /\ items[i].data = data /\ items[i].name \in DOMAIN c.series
                                    /\ c.series[items[i].name].type = items[i].type,
         NEW n \in Nat, n + 1 \in 1 .. Len(items), NEW x, Appended(c, items, data, n, x)
  PROVE  Appended(c, items, data, n + 1, AppendToSeries(x, items[n + 1]))
<1> DEFINE m == n + 1
           item == items[m]
           name(i) == items[i].name
           y == AppendToSeries(x, item)
           N == Len(items)
<1>1. m \in 1 .. N /\ N \in Nat /\ m \in n + 1 .. N
  BY DEF Batch
<1>2. item.type \in Types /\ item.data \in Seq(Sample) /\ item.data = data
  BY <1>1 DEF Batch
<1>3. ChartTypes(x) /\ DOMAIN x.series = DOMAIN c.series /\ Grown(c, x)
  BY GrownCount DEF Appended, Grown
<1>4. x.series[name(m)] = c.series[name(m)] /\ name(m) \in DOMAIN c.series
  BY <1>1 DEF Appended
<1>5. c.series[name(m)].type = item.type
  BY <1>1
<1>y. y = AppendToSeries(x, item)
  OBVIOUS
<1>n. item.name = name(m)
  OBVIOUS
<1>d. \A i, j \in 1 .. N : name(i) = name(j) => i = j
  BY DEF Distinct
<1>o. /\ \A i \in 1 .. n : i \in 1 .. N /\ i # m
      /\ \A i \in m + 1 .. N : i \in 1 .. N /\ i # m /\ i \in n + 1 .. N
      /\ \A i \in 1 .. m : i \in 1 .. n \/ i = m
  BY <1>1
<1>r. \A i \in 1 .. N : name(i) \in DOMAIN c.series
  OBVIOUS
<1> HIDE DEF y, item, N
<1>6. /\ y.series[item.name].data = x.series[item.name].data \o item.data
      /\ y.series[item.name].type = item.type
      /\ \A k \in DOMAIN x.series : k # item.name => y.series[k] = x.series[k]
  <2>1. item.name \in DOMAIN x.series
    BY <1>3, <1>4, <1>n
  <2>2. x.series[item.name].type = item.type
    BY <1>4, <1>5, <1>n
  <2>3. ChartTypes(x) /\ item.type \in Types /\ item.data \in Seq(Sample)
    BY <1>2, <1>3
  <2> DEFINE Exact(d) == /\ d.series[item.name].data = x.series[item.name].data \o item.data
                         /\ d.series[item.name].type = item.type
                         /\ \A k \in DOMAIN x.series : k # item.name => d.series[k] = x.series[k]
  <2>4. \A d : d = AppendToSeries(x, item) => Exact(d)
    BY <2>1, <2>2, <2>3, AppendOneExact
  <2> QED BY <1>y, <2>4
<1>7. Grown(c, y)
  <2>1. Grown(x, y)
    BY <1>2, <1>3, <1>y, AppendToSeriesIs
  <2> QED BY <1>3, <2>1, GrownTransitive
<1>8. \A i \in 1 .. n : y.series[name(i)] = x.series[name(i)]
  BY <1>1, <1>3, <1>6, <1>d, <1>n, <1>o, <1>r
<1>9. \A i \in m + 1 .. N : y.series[name(i)] = x.series[name(i)]
  BY <1>1, <1>3, <1>6, <1>d, <1>n, <1>o, <1>r
<1>10. \A i \in m + 1 .. N : x.series[name(i)] = c.series[name(i)]
  BY <1>o DEF Appended, N
<1>11. \A i \in 1 .. n : /\ x.series[name(i)].data = c.series[name(i)].data \o data
                         /\ x.series[name(i)].type = items[i].type
  BY DEF Appended
<1>12. \A i \in 1 .. m : /\ y.series[name(i)].data = c.series[name(i)].data \o data
                         /\ y.series[name(i)].type = items[i].type
  <2> TAKE i \in 1 .. m
  <2>1. CASE i \in 1 .. n
    BY <1>8, <1>11, <2>1
  <2>2. CASE i = m
    BY <1>2, <1>4, <1>6, <1>n, <2>2 DEF item
  <2> QED BY <1>o, <2>1, <2>2
<1>13. \A i \in m + 1 .. N : y.series[name(i)] = c.series[name(i)]
  BY <1>9, <1>10
<1>14. Appended(c, items, data, m, y)
  BY <1>7, <1>12, <1>13 DEF Appended, N
<1> QED BY <1>14, <1>y DEF item

LEMMA AppendAllExact ==
  ASSUME NEW c, ChartTypes(c), NEW items, Batch(items), Distinct(items), NEW data \in Seq(Sample),
         \A i \in 1 .. Len(items) : /\ items[i].data = data /\ items[i].name \in DOMAIN c.series
                                    /\ c.series[items[i].name].type = items[i].type
  PROVE  Appended(c, items, data, Len(items), AppendAll(c, items))
<1> DEFINE N == Len(items)
<1>1. PICK f : /\ f = [i \in 0 .. N |-> IF i = 0 THEN c ELSE AppendToSeries(f[i - 1], items[i])]
               /\ AppendAll(c, items) = f[N]
  BY AppendingOneByOne DEF Batch
<1>2. N \in Nat
  BY DEF Batch
<1> HIDE DEF N
<1>3. f[0] = c /\ \A n \in 0 .. N - 1 : f[n + 1] = AppendToSeries(f[n], items[n + 1])
  BY <1>1, <1>2
<1> DEFINE S == {n \in Nat : Appended(c, items, data, n, f[n])}
<1>4. 0 \in S
  <2>1. Grown(c, c)
    <3>1. \A n \in DOMAIN c.series : Len(c.series[n].data) <= Len(c.series[n].data)
      BY DEF ChartTypes, SeriesOK, Series
    <3> QED BY <3>1 DEF Grown, ChartTypes
  <2>2. Appended(c, items, data, 0, c)
    BY <2>1 DEF Appended
  <2> QED BY <1>3, <2>2
<1>5. \A n \in 0 .. N - 1 : n \in S => n + 1 \in S
  <2> TAKE n \in 0 .. N - 1
  <2> HAVE n \in S
  <2>1. n \in Nat /\ n + 1 \in 1 .. Len(items) /\ n + 1 \in Nat
    BY <1>2 DEF N
  <2>2. Appended(c, items, data, n, f[n])
    OBVIOUS
  <2>3. Appended(c, items, data, n + 1, AppendToSeries(f[n], items[n + 1]))
    BY <2>1, <2>2, AppendedOneMore
  <2>4. Appended(c, items, data, n + 1, f[n + 1])
    BY <1>3, <2>3
  <2> QED BY <2>1, <2>4
<1> HIDE DEF S
<1>6. \A n \in 0 .. N : n \in S
  BY <1>2, <1>4, <1>5, CountingUp
<1>7. N \in S
  BY <1>2, <1>6
<1> QED BY <1>1, <1>7 DEF S, N
-----------------------------------------------------------------------------
(* The order of the posted events of a connection: later connections post   *)
(* later, its header comes first, and once that has been handled nothing of *)
(* an earlier connection is left.                                           *)
Own(e, f) == e.kind # "flush" /\ e.gen = f.gen

HeaderIn(events, gen) == \E i \in 1 .. Len(events) : events[i].kind = "header" /\ events[i].gen = gen

InOrder(events, f) ==
  LET N == Len(events)
  IN  /\ \A i \in 1 .. N : events[i].gen <= f.gen
      /\ \A i, j \in 1 .. N : i < j /\ events[i].kind # "flush" /\ events[j].kind # "flush"
                                => events[i].gen <= events[j].gen
      /\ f.pc = "starting" \/ f.gen = 0 => \A i \in 1 .. N : ~Own(events[i], f)
      /\ \A i \in 1 .. N : Own(events[i], f) => events[i].items = f.configs
      /\ \A i, j \in 1 .. N : Own(events[i], f) /\ Own(events[j], f) /\ events[j].kind = "header" => j <= i
      /\ f.pc # "starting" /\ ~HeaderIn(events, f.gen)
           => \A i \in 1 .. N : events[i].kind # "flush" => events[i].gen = f.gen

FeedIsSane(f) ==
  /\ f.pc = "starting" =>
       f.gen # 0 /\ f.batch = <<>> /\ f.consumed = 0 /\ \E k \in 1 .. MaxConnects : f.shape = Shapes[k]
  /\ f.gen = 0 => f.pc = "none" /\ f.configs = <<>> /\ f.batch = <<>> /\ f.consumed = 0
  /\ Distinct(f.configs)

Ahead(events, f) == OnTheWay(events, f.gen) \o f.batch
AllOf(f) == [k \in 1 .. f.consumed |-> <<f.gen, k>>]

Shown(c, events, f) ==
  IF f.pc = "starting" \/ HeaderIn(events, f.gen)
    THEN c.order = <<>> /\ DOMAIN c.series = {} /\ Ahead(events, f) = AllOf(f)
    ELSE /\ c.order = [i \in 1 .. Len(f.configs) |-> f.configs[i].name]
         /\ DOMAIN c.series = Named(f.configs, Len(f.configs))
         /\ \A i \in 1 .. Len(f.configs) : c.series[f.configs[i].name].type = f.configs[i].type
         /\ \A n \in DOMAIN c.series : c.series[n].data \o Ahead(events, f) = AllOf(f)

StreamInv == InOrder(posted, feed) /\ FeedIsSane(feed) /\ (~stale => Shown(chart, posted, feed))

LEMMA GenOf ==
  ASSUME NEW s \in Seq(Events)
  PROVE  \A i \in 1 .. Len(s) : s[i].gen \in Nat
<1>1. \A i \in 1 .. Len(s) : s[i] \in Events
  OBVIOUS
<1> QED BY <1>1 DEF Events

(* Posting one more event of the connection, behind its header.             *)
LEMMA OrderPosted ==
  ASSUME NEW s \in Seq(Events), NEW f \in Feeds, InOrder(s, f), f.pc # "starting", f.gen # 0,
         NEW e \in Events, e.kind = "batch", e.gen = f.gen, e.items = f.configs
  PROVE  /\ InOrder(s \o <<e>>, f)
         /\ HeaderIn(s \o <<e>>, f.gen) <=> HeaderIn(s, f.gen)
<1> DEFINE u == s \o <<e>>
           N == Len(s)
           M == N + 1
<1>1. /\ u \in Seq(Events) /\ N \in Nat /\ Len(u) = M /\ u[M] = e /\ \A i \in 1 .. N : u[i] = s[i]
      /\ \A i \in 1 .. M : i \in 1 .. N \/ i = M
      /\ \A i \in 1 .. N : i \in 1 .. M /\ i < M
      /\ M \in 1 .. M
  OBVIOUS
<1>2. \A i \in 1 .. N : s[i].gen \in Nat
  BY GenOf
<1>3. f.gen \in Nat
  BY DEF Feeds
<1> HIDE DEF u, N, M
<1>4. HeaderIn(u, f.gen) <=> HeaderIn(s, f.gen)
  BY <1>1 DEF HeaderIn, N
<1>5. \A i \in 1 .. M : u[i].gen <= f.gen
  BY <1>1, <1>3 DEF InOrder, N
<1>6. \A i, j \in 1 .. M : i < j /\ u[i].kind # "flush" /\ u[j].kind # "flush" => u[i].gen <= u[j].gen
  <2> SUFFICES ASSUME NEW i \in 1 .. M, NEW j \in 1 .. M, i < j, u[i].kind # "flush", u[j].kind # "flush"
               PROVE  u[i].gen <= u[j].gen
    OBVIOUS
  <2>1. CASE j = M
    BY <1>1, <1>5, <2>1
  <2>2. CASE j \in 1 .. N
    <3>1. i \in 1 .. N
      <4>1. M = N + 1
        BY DEF M
      <4> QED BY <1>1, <2>2, <4>1
    <3> QED BY <1>1, <2>2, <3>1 DEF InOrder, N
  <2> QED BY <1>1, <2>1, <2>2
<1>7. \A i \in 1 .. M : Own(u[i], f) => u[i].items = f.configs
  BY <1>1 DEF InOrder, N
<1>8. \A i, j \in 1 .. M : Own(u[i], f) /\ Own(u[j], f) /\ u[j].kind = "header" => j <= i
  <2> SUFFICES ASSUME NEW i \in 1 .. M, NEW j \in 1 .. M, Own(u[i], f), Own(u[j], f), u[j].kind = "header"
               PROVE  j <= i
    OBVIOUS
  <2>1. j \in 1 .. N
    BY <1>1
  <2>2. CASE i = M
    BY <1>1, <2>1, <2>2
  <2>3. CASE i \in 1 .. N
    BY <1>1, <2>1, <2>3 DEF InOrder, N
  <2> QED BY <1>1, <2>2, <2>3
<1>9. ~HeaderIn(u, f.gen) => \A i \in 1 .. M : u[i].kind # "flush" => u[i].gen = f.gen
  BY <1>1, <1>4 DEF InOrder, N
<1>10. InOrder(u, f)
  BY <1>1, <1>5, <1>6, <1>7, <1>8, <1>9 DEF InOrder
<1> QED BY <1>4, <1>10 DEF u

(* The header itself, the first event of a new connection.                  *)
LEMMA OrderAnnounced ==
  ASSUME NEW s \in Seq(Events), NEW f \in Feeds, InOrder(s, f), f.pc = "starting", f.gen # 0,
         NEW g \in Feeds, g.gen = f.gen, g.pc # "starting",
         NEW e \in Events, e.kind = "header", e.gen = g.gen, e.items = g.configs
  PROVE  InOrder(s \o <<e>>, g) /\ HeaderIn(s \o <<e>>, g.gen)
<1> DEFINE u == s \o <<e>>
           N == Len(s)
           M == N + 1
<1>1. /\ u \in Seq(Events) /\ N \in Nat /\ Len(u) = M /\ u[M] = e /\ \A i \in 1 .. N : u[i] = s[i]
      /\ \A i \in 1 .. M : i \in 1 .. N \/ i = M
      /\ \A i \in 1 .. N : i \in 1 .. M /\ i < M
      /\ M \in 1 .. M
  OBVIOUS
<1>2. \A i \in 1 .. N : s[i].gen \in Nat /\ ~Own(s[i], f)
  BY GenOf DEF InOrder
<1>3. f.gen \in Nat
  BY DEF Feeds
<1> HIDE DEF u, N, M
<1>4. HeaderIn(u, g.gen)
  BY <1>1 DEF HeaderIn
<1>5. \A i \in 1 .. M : u[i].gen <= g.gen
  BY <1>1, <1>3 DEF InOrder, N
<1>6. \A i, j \in 1 .. M : i < j /\ u[i].kind # "flush" /\ u[j].kind # "flush" => u[i].gen <= u[j].gen
  <2> SUFFICES ASSUME NEW i \in 1 .. M, NEW j \in 1 .. M, i < j, u[i].kind # "flush", u[j].kind # "flush"
               PROVE  u[i].gen <= u[j].gen
    OBVIOUS
  <2>1. CASE j = M
    BY <1>1, <1>5, <2>1
  <2>2. CASE j \in 1 .. N
    <3>1. i \in 1 .. N
      <4>1. M = N + 1
        BY DEF M
      <4> QED BY <1>1, <2>2, <4>1
    <3> QED BY <1>1, <2>2, <3>1 DEF InOrder, N
  <2> QED BY <1>1, <2>1, <2>2
<1>7. \A i \in 1 .. M : Own(u[i], g) => i = M
  BY <1>1, <1>2 DEF Own
<1>8. \A i \in 1 .. M : Own(u[i], g) => u[i].items = g.configs
  BY <1>1, <1>7
<1>9. \A i, j \in 1 .. M : Own(u[i], g) /\ Own(u[j], g) /\ u[j].kind = "header" => j <= i
  <2> SUFFICES ASSUME NEW i \in 1 .. M, NEW j \in 1 .. M, Own(u[i], g), Own(u[j], g)
               PROVE  j <= i
    OBVIOUS
  <2>1. i = M /\ j = M /\ M \in Int
    BY <1>1, <1>7 DEF M
  <2> QED BY <2>1
<1>10. InOrder(u, g)
  BY <1>1, <1>4, <1>5, <1>6, <1>8, <1>9 DEF InOrder
<1> QED BY <1>4, <1>10 DEF u

LEMMA OrderFlushed ==
  ASSUME NEW s \in Seq(Events), NEW f \in Feeds, InOrder(s, f)
  PROVE  /\ InOrder(s \o <<FlushEvent>>, f)
         /\ HeaderIn(s \o <<FlushEvent>>, f.gen) <=> HeaderIn(s, f.gen)
         /\ OnTheWay(s \o <<FlushEvent>>, f.gen) = OnTheWay(s, f.gen)
<1> DEFINE e == FlushEvent
           u == s \o <<e>>
           N == Len(s)
           M == N + 1
<1>0. e \in Events /\ e.kind = "flush" /\ e.gen = 0
  BY FlushIsEvent DEF FlushEvent
<1> HIDE DEF e
<1>1. /\ u \in Seq(Events) /\ N \in Nat /\ Len(u) = M /\ u[M] = e /\ \A i \in 1 .. N : u[i] = s[i]
      /\ \A i \in 1 .. M : i \in 1 .. N \/ i = M
      /\ \A i \in 1 .. N : i \in 1 .. M /\ i < M
      /\ M \in 1 .. M
  BY <1>0
<1>3. f.gen \in Nat
  BY DEF Feeds
<1>o. OnTheWay(u, f.gen) = OnTheWay(s, f.gen)
  <2>1. Piece(e, f.gen) = <<>>
    BY <1>0 DEF Piece
  <2>2. OnTheWay(u, f.gen) = OnTheWay(s, f.gen) \o <<>>
    BY <1>0, <2>1, PostedBehind
  <2>3. OnTheWay(s, f.gen) \in Seq(Sample)
    BY OnTheWayIs
  <2> QED BY <2>2, <2>3, ConcatEmptySeq
<1> HIDE DEF u, N, M
<1>4. HeaderIn(u, f.gen) <=> HeaderIn(s, f.gen)
  BY <1>0, <1>1 DEF HeaderIn, N
<1>5. \A i \in 1 .. M : u[i].gen <= f.gen
  BY <1>0, <1>1, <1>3 DEF InOrder, N
<1>6. \A i \in 1 .. M : u[i].kind # "flush" => i \in 1 .. N /\ u[i] = s[i]
  BY <1>0, <1>1
<1>7. InOrder(u, f)
  BY <1>1, <1>4, <1>5, <1>6 DEF InOrder, Own, N
<1> QED BY <1>4, <1>7, <1>o DEF u, e

(* Handling the first event.                                                *)
LEMMA OrderHandled ==
  ASSUME NEW s \in Seq(Events), NEW f \in Feeds, InOrder(s, f), s # <<>>
  PROVE  /\ InOrder(Tail(s), f)
         /\ Head(s).kind = "header" /\ Head(s).gen = f.gen => ~HeaderIn(Tail(s), f.gen) /\ HeaderIn(s, f.gen)
         /\ ~ (Head(s).kind = "header" /\ Head(s).gen = f.gen) =>
              (HeaderIn(Tail(s), f.gen) <=> HeaderIn(s, f.gen))
         /\ Head(s).kind = "batch" /\ Head(s).gen = f.gen =>
              ~HeaderIn(s, f.gen) /\ f.pc # "starting" /\ Head(s).items = f.configs
         /\ Head(s).kind = "header" /\ Head(s).gen = f.gen => f.pc # "starting" /\ Head(s).items = f.configs
         /\ Head(s).kind # "flush" /\ Head(s).gen # f.gen =>
              (f.pc = "starting" \/ HeaderIn(s, f.gen)) /\ Head(s).gen < f.gen
<1> DEFINE t == Tail(s)
           N == Len(s)
           K == N - 1
           e == Head(s)
<1>1. /\ t \in Seq(Events) /\ N \in Nat \ {0} /\ Len(t) = K /\ e = s[1] /\ 1 \in 1 .. N
      /\ \A i \in 1 .. K : t[i] = s[i + 1] /\ i + 1 \in 1 .. N /\ i + 1 # 1 /\ 1 < i + 1
      /\ \A i \in 1 .. N : i = 1 \/ (i - 1 \in 1 .. K /\ s[i] = t[i - 1])
  OBVIOUS
<1>2. /\ \A i \in 1 .. N : s[i].gen \in Nat /\ s[i].gen <= f.gen
      /\ \A i, j \in 1 .. N : i < j /\ s[i].kind # "flush" /\ s[j].kind # "flush" => s[i].gen <= s[j].gen
      /\ f.pc = "starting" \/ f.gen = 0 => \A i \in 1 .. N : ~Own(s[i], f)
      /\ \A i \in 1 .. N : Own(s[i], f) => s[i].items = f.configs
      /\ \A i, j \in 1 .. N : Own(s[i], f) /\ Own(s[j], f) /\ s[j].kind = "header" => j <= i
      /\ f.pc # "starting" /\ ~HeaderIn(s, f.gen) => \A i \in 1 .. N : s[i].kind # "flush" => s[i].gen = f.gen
  <2>1. \A i \in 1 .. N : s[i].gen \in Nat
    BY GenOf
  <2> QED BY <2>1 DEF InOrder
<1>3. f.gen \in Nat
  BY DEF Feeds
<1> HIDE DEF t, e, N, K
<1>4. HeaderIn(s, f.gen) <=> (e.kind = "header" /\ e.gen = f.gen) \/ HeaderIn(t, f.gen)
  <2>1. HeaderIn(t, f.gen) => HeaderIn(s, f.gen)
    BY <1>1 DEF HeaderIn, N, K
  <2>2. e.kind = "header" /\ e.gen = f.gen => HeaderIn(s, f.gen)
    BY <1>1 DEF HeaderIn, N
  <2>3. HeaderIn(s, f.gen) => (e.kind = "header" /\ e.gen = f.gen) \/ HeaderIn(t, f.gen)
    BY <1>1 DEF HeaderIn, N
  <2> QED BY <2>1, <2>2, <2>3
<1>5. ASSUME e.kind = "header", e.gen = f.gen PROVE ~HeaderIn(t, f.gen)
  <2> SUFFICES ASSUME NEW i \in 1 .. K, t[i].kind = "header", t[i].gen = f.gen PROVE FALSE
    BY <1>1 DEF HeaderIn
  <2>1. Own(s[1], f) /\ Own(s[i + 1], f) /\ s[i + 1].kind = "header"
    BY <1>1, <1>5 DEF Own
  <2>2. i + 1 <= 1
    BY <1>1, <1>2, <2>1
  <2> QED BY <2>2
<1>6. ASSUME e.kind = "batch", e.gen = f.gen
      PROVE  ~HeaderIn(s, f.gen)
  <2> SUFFICES ASSUME NEW i \in 1 .. N, s[i].kind = "header", s[i].gen = f.gen PROVE FALSE
    BY DEF HeaderIn, N
  <2>1. Own(s[1], f) /\ Own(s[i], f)
    BY <1>1, <1>6 DEF Own
  <2>2. i <= 1
    BY <1>1, <1>2, <2>1
  <2>3. i = 1
    BY <2>2
  <2> QED BY <1>1, <1>6, <2>3
<1>7. ASSUME f.pc # "starting", ~HeaderIn(t, f.gen), NEW i \in 1 .. K, t[i].kind # "flush"
      PROVE  t[i].gen = f.gen
  <2>1. CASE HeaderIn(s, f.gen)
    <3>1. e.kind = "header" /\ e.gen = f.gen
      BY <1>4, <1>7, <2>1
    <3>2. s[1].gen <= s[i + 1].gen
      BY <1>1, <1>2, <1>7, <3>1
    <3> QED BY <1>1, <1>2, <1>3, <3>1, <3>2
  <2>2. CASE ~HeaderIn(s, f.gen)
    BY <1>1, <1>2, <1>7, <2>2
  <2> QED BY <2>1, <2>2
<1>8. InOrder(t, f)
  <2>1. \A i, j \in 1 .. K : i < j /\ t[i].kind # "flush" /\ t[j].kind # "flush" => t[i].gen <= t[j].gen
    <3> SUFFICES ASSUME NEW i \in 1 .. K, NEW j \in 1 .. K, i < j, t[i].kind # "flush", t[j].kind # "flush"
                 PROVE  t[i].gen <= t[j].gen
      OBVIOUS
    <3>1. i + 1 < j + 1
      OBVIOUS
    <3> QED BY <1>1, <1>2, <3>1
  <2>2. \A i, j \in 1 .. K : Own(t[i], f) /\ Own(t[j], f) /\ t[j].kind = "header" => j <= i
    <3> SUFFICES ASSUME NEW i \in 1 .. K, NEW j \in 1 .. K, Own(t[i], f), Own(t[j], f), t[j].kind = "header"
                 PROVE  j <= i
      OBVIOUS
    <3>1. j + 1 <= i + 1
      BY <1>1, <1>2
    <3> QED BY <3>1
  <2>3. \A i \in 1 .. K : t[i].gen <= f.gen
    BY <1>1, <1>2
  <2>4. f.pc = "starting" \/ f.gen = 0 => \A i \in 1 .. K : ~Own(t[i], f)
    BY <1>1, <1>2
  <2>5. \A i \in 1 .. K : Own(t[i], f) => t[i].items = f.configs
    BY <1>1, <1>2
  <2>6. f.pc # "starting" /\ ~HeaderIn(t, f.gen) => \A i \in 1 .. K : t[i].kind # "flush" => t[i].gen = f.gen
    BY <1>7
  <2> QED BY <1>1, <2>1, <2>2, <2>3, <2>4, <2>5, <2>6 DEF InOrder
<1>9. e.kind # "flush" /\ e.gen = f.gen => f.pc # "starting" /\ e.items = f.configs
  BY <1>1, <1>2 DEF Own
<1>10. e.kind # "flush" /\ e.gen # f.gen => (f.pc = "starting" \/ HeaderIn(s, f.gen)) /\ e.gen < f.gen
  BY <1>1, <1>2, <1>3
<1> QED BY <1>4, <1>5, <1>6, <1>8, <1>9, <1>10 DEF t, e
-----------------------------------------------------------------------------

(* What the chart and its feed look like to the stream: only the order and  *)
(* the series of the chart count.                                           *)
LEMMA ShownElsewhere ==
  ASSUME NEW c, NEW s, NEW f, Shown(c, s, f), NEW d, d.order = c.order, d.series = c.series
  PROVE  Shown(d, s, f)
  BY DEF Shown

LEMMA AheadIs ==
  ASSUME NEW s \in Seq(Events), NEW f \in Feeds
  PROVE  Ahead(s, f) \in Seq(Sample) /\ OnTheWay(s, f.gen) \in Seq(Sample) /\ f.batch \in Seq(Sample)
<1>1. f.batch \in Seq(Sample)
  BY DEF Feeds
<1>2. OnTheWay(s, f.gen) \in Seq(Sample)
  BY OnTheWayIs
<1> QED BY <1>1, <1>2 DEF Ahead

(* Events that carry nothing leave the records that are ahead.              *)
LEMMA SameAhead ==
  ASSUME NEW c, NEW s, NEW f, Shown(c, s, f), NEW t, NEW g,
         g.configs = f.configs, AllOf(g) = AllOf(f), Ahead(t, g) = Ahead(s, f),
         (g.pc = "starting" \/ HeaderIn(t, g.gen)) <=> (f.pc = "starting" \/ HeaderIn(s, f.gen))
  PROVE  Shown(c, t, g)
  BY DEF Shown

(* A record goes into the batch.                                            *)
LEMMA StreamConsumed ==
  ASSUME NEW c, ChartInv(c), NEW s \in Seq(Events), NEW f \in Feeds, Shown(c, s, f), f.pc # "starting",
         NEW g \in Feeds, g.pc # "starting", g.gen = f.gen, g.configs = f.configs, g.consumed = f.consumed + 1,
         g.batch = Append(f.batch, <<f.gen, f.consumed + 1>>)
  PROVE  Shown(c, s, g)
<1> DEFINE x == <<f.gen, f.consumed + 1>>
           o == OnTheWay(s, f.gen)
           b == f.batch
           k == f.consumed
           n == k + 1
<1>1. o \in Seq(Sample) /\ b \in Seq(Sample) /\ Ahead(s, f) = o \o b
  BY AheadIs DEF Ahead
<1>2. x \in Sample /\ k \in Nat /\ n \in Nat
  BY DEF Feeds, Sample
<1>3. AllOf(g) = Append(AllOf(f), x)
  <2> DEFINE p == [i \in 1 .. k |-> <<f.gen, i>>]
             r == [i \in 1 .. n |-> <<f.gen, i>>]
  <2>1. AllOf(f) = p /\ AllOf(g) = r
    BY DEF AllOf
  <2>2. \A i \in 1 .. n : <<f.gen, i>> \in Sample
    BY <1>2, SMTT(30) DEF Feeds, Sample
  <2>3. \A i \in 1 .. k : <<f.gen, i>> \in Sample /\ i \in 1 .. n
    BY <1>2, <2>2
  <2>x. x = <<f.gen, n>> /\ n = k + 1
    OBVIOUS
  <2> HIDE DEF x, n, k
  <2>4. p \in Seq(Sample) /\ Len(p) = k /\ r \in Seq(Sample) /\ Len(r) = n
    BY <1>2, <2>2, <2>3, IsASeq
  <2>5. /\ Append(p, x) \in Seq(Sample) /\ Len(Append(p, x)) = k + 1
        /\ \A i \in 1 .. k : Append(p, x)[i] = p[i]
        /\ Append(p, x)[k + 1] = x
    BY <1>2, <2>4
  <2>6. \A i \in 1 .. n : i \in 1 .. k \/ i = n
    BY <1>2, <2>x
  <2>7. \A i \in 1 .. n : r[i] = Append(p, x)[i]
    BY <2>3, <2>5, <2>6, <2>x
  <2>8. r = Append(p, x)
    <3> HIDE DEF r, p
    <3> QED BY <2>4, <2>5, <2>7, <2>x, SeqEqual
  <2> QED BY <2>1, <2>8
<1>4. AllOf(f) \in Seq(Sample)
  <2> DEFINE e(i) == <<f.gen, i>>
  <2>1. \A i \in 1 .. k : e(i) \in Sample
    BY <1>2, SMTT(30) DEF Feeds, Sample
  <2>2. [i \in 1 .. k |-> e(i)] \in Seq(Sample)
    <3> HIDE DEF k, e
    <3> QED BY <1>2, <2>1, IsASeq
  <2> QED BY <2>2 DEF AllOf
<1>g. OnTheWay(s, g.gen) = o /\ g.batch = Append(b, x)
  OBVIOUS
<1> HIDE DEF x, o, b
<1>5. Ahead(s, g) = Append(o \o b, x)
  <2>1. Ahead(s, g) = o \o Append(b, x)
    BY <1>g DEF Ahead
  <2>2. o \o Append(b, x) = Append(o \o b, x)
    BY <1>1, <1>2, SMTT(30)
  <2> QED BY <2>1, <2>2
<1> DEFINE a == o \o b
<1>6. a \in Seq(Sample)
  BY <1>1
<1>7. Ahead(s, f) = a /\ Ahead(s, g) = Append(a, x)
  BY <1>1, <1>5
<1> HIDE DEF a
<1>8. \A d \in Seq(Sample) : d \o Append(a, x) = Append(d \o a, x)
  BY <1>2, <1>6, SMTT(30)
<1>9. \A m \in DOMAIN c.series : c.series[m].data \in Seq(Sample)
  BY DEF ChartInv, Sound, ChartTypes, SeriesOK, Series
<1>10. \A m \in DOMAIN c.series : c.series[m].data \o a = AllOf(f) => c.series[m].data \o Append(a, x) = AllOf(g)
  BY <1>3, <1>8, <1>9
<1>11. a = AllOf(f) => Append(a, x) = AllOf(g)
  BY <1>3
<1> QED BY <1>7, <1>10, <1>11 DEF Shown

(* The batch is posted, if there is one: by the clock, or as the last one.  *)
LEMMA StreamPosted ==
  ASSUME NEW s \in Seq(Events), NEW f \in Feeds, InOrder(s, f), f.pc # "starting", f.gen # 0,
         NEW g \in Feeds, g.pc # "starting", g.gen = f.gen, g.configs = f.configs, g.consumed = f.consumed,
         g.batch = <<>>
  PROVE  /\ InOrder(s \o LastBatch(f), g)
         /\ \A c : Shown(c, s, f) => Shown(c, s \o LastBatch(f), g)
<1> DEFINE e == BatchEvent(f)
           o == OnTheWay(s, f.gen)
           b == f.batch
<1>1. o \in Seq(Sample) /\ b \in Seq(Sample) /\ Ahead(s, f) = o \o b
  BY AheadIs DEF Ahead
<1>2. AllOf(g) = AllOf(f)
  BY DEF AllOf
<1>3. e \in Events /\ e.kind = "batch" /\ e.gen = f.gen /\ e.items = f.configs /\ e.data = b
  BY StoppedIs DEF BatchEvent
<1>l. LastBatch(f) = IF b = <<>> THEN <<>> ELSE <<e>>
  BY DEF LastBatch
<1> HIDE DEF e
<1>4. CASE b # <<>>
  <2> DEFINE u == s \o <<e>>
  <2>1. InOrder(u, f) /\ (HeaderIn(u, f.gen) <=> HeaderIn(s, f.gen))
    BY <1>3, OrderPosted
  <2>2. OnTheWay(u, f.gen) = o \o b
    <3>1. OnTheWay(u, f.gen) = o \o Piece(e, f.gen)
      BY <1>3, PostedBehind
    <3> QED BY <1>3, <3>1 DEF Piece
  <2>3. u = s \o LastBatch(f) /\ u \in Seq(Events)
    BY <1>3, <1>l, <1>4
  <2> HIDE DEF u
  <2>4. Ahead(u, g) = Ahead(s, f)
    <3>1. Ahead(u, g) = (o \o b) \o <<>> /\ o \o b \in Seq(Sample)
      BY <1>1, <2>2 DEF Ahead
    <3> QED BY <1>1, <3>1, ConcatEmptySeq
  <2>5. InOrder(u, g)
    BY <2>1 DEF InOrder, Own
  <2>6. (g.pc = "starting" \/ HeaderIn(u, g.gen)) <=> (f.pc = "starting" \/ HeaderIn(s, f.gen))
    BY <2>1
  <2>7. \A c : Shown(c, s, f) => Shown(c, u, g)
    BY <1>2, <2>4, <2>6, SameAhead
  <2> QED BY <2>3, <2>5, <2>7
<1>5. CASE b = <<>>
  <2>1. s \o LastBatch(f) = s
    BY <1>l, <1>5, ConcatEmptySeq
  <2>2. Ahead(s, g) = Ahead(s, f)
    BY <1>5 DEF Ahead
  <2>3. InOrder(s, g)
    BY DEF InOrder, Own
  <2>4. \A c : Shown(c, s, f) => Shown(c, s, g)
    BY <1>2, <2>2, SameAhead
  <2> QED BY <2>1, <2>3, <2>4
<1> QED BY <1>4, <1>5

(* The header is posted.                                                    *)
LEMMA StreamStarted ==
  ASSUME NEW s \in Seq(Events), NEW f \in Feeds, InOrder(s, f), f.pc = "starting", f.gen # 0,
         NEW g, g = Started(f), NEW u, u = s \o <<HeaderEvent(g)>>
  PROVE  /\ u \in Seq(Events) /\ g \in Feeds /\ g.pc = "running" /\ g.gen = f.gen /\ g.configs = Configs(f.shape)
         /\ g.batch = f.batch /\ g.consumed = f.consumed
         /\ InOrder(u, g) /\ \A c : Shown(c, s, f) => Shown(c, u, g)
<1> DEFINE e == HeaderEvent(g)
<1>1. /\ g \in Feeds /\ g.pc = "running" /\ g.gen = f.gen /\ g.configs = Configs(f.shape)
      /\ g.batch = f.batch /\ g.consumed = f.consumed
  BY StartedIs DEF Started, Feeds
<1>2. e \in Events /\ e.kind = "header" /\ e.gen = g.gen /\ e.items = g.configs
  BY <1>1, StartedIs DEF HeaderEvent
<1> HIDE DEF e
<1>u. u = s \o <<e>>
  BY DEF e
<1>3. u \in Seq(Events)
  BY <1>2, <1>u
<1>4. InOrder(u, g) /\ HeaderIn(u, g.gen)
  BY <1>1, <1>2, <1>u, OrderAnnounced
<1>5. Ahead(u, g) = Ahead(s, f)
  <2>1. OnTheWay(u, f.gen) = OnTheWay(s, f.gen) \o Piece(e, f.gen)
    BY <1>2, <1>u, PostedBehind
  <2>2. Piece(e, f.gen) = <<>>
    BY <1>2 DEF Piece
  <2>3. OnTheWay(s, f.gen) \in Seq(Sample)
    BY OnTheWayIs
  <2>4. OnTheWay(u, f.gen) = OnTheWay(s, f.gen)
    BY <2>1, <2>2, <2>3, ConcatEmptySeq
  <2> QED BY <1>1, <2>4 DEF Ahead
<1>6. AllOf(g) = AllOf(f)
  BY <1>1 DEF AllOf
<1>7. \A c : Shown(c, s, f) => Shown(c, u, g)
  BY <1>4, <1>5, <1>6 DEF Shown
<1> QED BY <1>1, <1>3, <1>4, <1>7

(* A new connection resets the chart before anything of it can arrive.      *)
LEMMA StreamConnected ==
  ASSUME NEW s \in Seq(Events), NEW f \in Feeds, InOrder(s, f),
         NEW g \in Feeds, g.pc = "starting", g.gen = f.gen + 1, g.configs = <<>>, g.batch = <<>>, g.consumed = 0,
         NEW c, c.order = <<>>, DOMAIN c.series = {}
  PROVE  InOrder(s, g) /\ Shown(c, s, g)
<1> DEFINE N == Len(s)
<1>1. N \in Nat /\ \A i \in 1 .. N : s[i].gen \in Nat
  BY GenOf
<1>2. f.gen \in Nat /\ g.gen \in Nat
  BY DEF Feeds
<1>3. \A i \in 1 .. N : s[i].gen <= f.gen
  BY DEF InOrder
<1>o. \A i, j \in 1 .. N : i < j /\ s[i].kind # "flush" /\ s[j].kind # "flush" => s[i].gen <= s[j].gen
  BY DEF InOrder
<1> HIDE DEF N
<1>4. \A i \in 1 .. N : s[i].gen <= g.gen /\ s[i].gen # g.gen
  BY <1>1, <1>2, <1>3
<1>5. InOrder(s, g)
  BY <1>4, <1>o DEF InOrder, Own, N
<1>6. OnTheWay(s, g.gen) = <<>>
  BY <1>4, NothingOnTheWay DEF N
<1>7. Ahead(s, g) = <<>>
  BY <1>6 DEF Ahead
<1>8. AllOf(g) = <<>>
  BY DEF AllOf
<1> QED BY <1>5, <1>7, <1>8 DEF Shown

(* Handling the first event: a header makes the series of its connection,   *)
(* a batch of this connection goes into each of them, one of an earlier     *)
(* connection finds no series to go into, a flush changes none.             *)
Headed(c, s, f, d) ==
  Head(s).kind = "header" /\ Head(s).gen = f.gen /\ d = AddAll(c, Head(s).items)

LEMMA HeaderShown ==
  ASSUME NEW c, ChartInv(c), NEW s \in Seq(Events), s # <<>>, NEW f \in Feeds, InOrder(s, f), FeedIsSane(f),
         Shown(c, s, f), NEW d, Headed(c, s, f, d)
  PROVE  Shown(d, Tail(s), f)
<1> DEFINE t == Tail(s)
           cs == f.configs
           N == Len(cs)
<1>1. /\ f.pc # "starting" /\ HeaderIn(s, f.gen) /\ ~HeaderIn(t, f.gen) /\ Head(s).items = cs
  BY OrderHandled DEF Headed
<1>2. c.order = <<>> /\ DOMAIN c.series = {} /\ Ahead(s, f) = AllOf(f)
  BY <1>1 DEF Shown
<1>3. N \in Nat /\ Distinct(cs) /\ \A i \in 1 .. N : cs[i].type \in Types
  <2>1. N \in Nat /\ \A i \in 1 .. N : cs[i] \in Config
    BY DEF Feeds
  <2> QED BY <2>1 DEF Config, FeedIsSane
<1>4. d = AddAll(c, cs)
  BY <1>1 DEF Headed
<1>t. t \in Seq(Events)
  OBVIOUS
<1> HIDE DEF t, cs
<1>5. Added(c, cs, N, d)
  <2> QED BY <1>3, <1>4, AddAllIs
<1>6. Ahead(t, f) = Ahead(s, f)
  <2>1. OnTheWay(s, f.gen) = Piece(Head(s), f.gen) \o OnTheWay(t, f.gen)
    BY HandledFirst DEF t
  <2>2. Piece(Head(s), f.gen) = <<>>
    BY DEF Piece, Headed
  <2>3. OnTheWay(t, f.gen) \in Seq(Sample)
    BY <1>t, OnTheWayIs
  <2>4. OnTheWay(s, f.gen) = OnTheWay(t, f.gen)
    BY <2>1, <2>2, <2>3, ConcatEmptySeq
  <2> QED BY <2>4 DEF Ahead
<1>7. <<>> \o Ahead(t, f) = Ahead(t, f)
  <2>1. Ahead(t, f) \in Seq(Sample)
    BY <1>t, AheadIs
  <2> QED BY <2>1, ConcatEmptySeq
<1>8. /\ DOMAIN d.series = Named(cs, N)
      /\ \A m \in DOMAIN d.series : d.series[m].data = <<>>
      /\ d.order = [i \in 1 .. N |-> cs[i].name]
      /\ \A i \in 1 .. N : d.series[cs[i].name].type = cs[i].type
  BY <1>2, <1>3, <1>5 DEF Added
<1> HIDE DEF N
<1>9. \A m \in DOMAIN d.series : d.series[m].data \o Ahead(t, f) = AllOf(f)
  BY <1>2, <1>6, <1>7, <1>8
<1> QED BY <1>1, <1>8, <1>9 DEF Shown, t, cs, N

LEMMA BatchShown ==
  ASSUME NEW c, ChartInv(c), NEW s \in Seq(Events), s # <<>>, NEW f \in Feeds, InOrder(s, f), FeedIsSane(f),
         Shown(c, s, f), Head(s).kind = "batch", Head(s).gen = f.gen,
         NEW d, d = AppendBatch(c, WithData(Head(s)))
  PROVE  Shown(d, Tail(s), f)
<1> DEFINE t == Tail(s)
           e == Head(s)
           w == WithData(e)
           cs == f.configs
           N == Len(cs)
           o == OnTheWay(t, f.gen)
           b == f.batch
<1>1. /\ f.pc # "starting" /\ ~HeaderIn(s, f.gen) /\ ~HeaderIn(t, f.gen) /\ e.items = cs
  BY OrderHandled
<1>2. /\ c.order = [i \in 1 .. N |-> cs[i].name]
      /\ DOMAIN c.series = Named(cs, N)
      /\ \A i \in 1 .. N : c.series[cs[i].name].type = cs[i].type
      /\ \A n \in DOMAIN c.series : c.series[n].data \o Ahead(s, f) = AllOf(f)
  BY <1>1 DEF Shown
<1>3. t \in Seq(Events) /\ e \in Events
  OBVIOUS
<1>4. e.data \in Seq(Sample) /\ N \in Nat
  BY <1>1, <1>3 DEF Events
<1> HIDE DEF w, cs, e, N
<1>5. /\ Batch(w) /\ Len(w) = N
      /\ \A i \in 1 .. N : w[i].name = cs[i].name /\ w[i].type = cs[i].type /\ w[i].data = e.data
  <2>1. /\ Batch(w) /\ Len(w) = N
        /\ \A i \in 1 .. N : w[i] = [name |-> cs[i].name, type |-> cs[i].type, data |-> e.data]
    BY <1>1, <1>3, BatchOf DEF w, N
  <2> QED BY <2>1
<1>6. Distinct(w)
  <2>1. \A i, j \in 1 .. N : cs[i].name = cs[j].name => i = j
    BY DEF FeedIsSane, Distinct, cs, N
  <2>2. \A i \in 1 .. N : w[i].name = cs[i].name
    BY <1>5
  <2> QED BY <1>5, <2>1, <2>2 DEF Distinct
<1> DEFINE data == e.data
<1>7. \A i \in 1 .. Len(w) : /\ w[i].data = data /\ w[i].name \in DOMAIN c.series
                             /\ c.series[w[i].name].type = w[i].type
                             /\ w[i].name = cs[i].name /\ w[i].type = cs[i].type
  BY <1>2, <1>5 DEF Named
<1>8. data \in Seq(Sample)
  BY <1>4
<1>d. d = AppendBatch(c, w)
  BY DEF w, e
<1>p. Piece(e, f.gen) = data
  BY DEF Piece, e
<1> HIDE DEF data
<1>9. Appended(c, w, data, Len(w), AppendAll(c, w))
  BY <1>5, <1>6, <1>7, <1>8, AppendAllExact DEF ChartInv, Sound
<1>10. /\ d.series = AppendAll(c, w).series /\ d.order = c.order /\ DOMAIN d.series = DOMAIN c.series
  BY <1>5, <1>d, AppendBatchIs
<1>11. \A i \in 1 .. N : /\ d.series[cs[i].name].data = c.series[cs[i].name].data \o data
                         /\ d.series[cs[i].name].type = cs[i].type
  BY <1>5, <1>7, <1>9, <1>10, ZenonT(60) DEF Appended
<1>12. OnTheWay(s, f.gen) = data \o o /\ o \in Seq(Sample) /\ b \in Seq(Sample)
  <2>1. OnTheWay(s, f.gen) = Piece(e, f.gen) \o o
    BY HandledFirst DEF e
  <2> QED BY <1>3, <1>p, <2>1, AheadIs
<1>13. Ahead(s, f) = (data \o o) \o b /\ Ahead(t, f) = o \o b
  BY <1>12 DEF Ahead
<1> HIDE DEF o, b, t
<1>14. \A x \in Seq(Sample) : (x \o data) \o (o \o b) = x \o ((data \o o) \o b)
  <2> TAKE x \in Seq(Sample)
  <2> DEFINE a == o \o b
  <2>1. (data \o o) \o b = data \o a
    BY <1>8, <1>12, ConcatAssociative, SMTT(30)
  <2>2. a \in Seq(Sample)
    BY <1>12
  <2> HIDE DEF a
  <2>3. (x \o data) \o a = x \o (data \o a)
    BY <1>8, <2>2, ConcatAssociative, SMTT(30)
  <2> QED BY <2>1, <2>3 DEF a
<1>15. ASSUME NEW n \in DOMAIN d.series
       PROVE  d.series[n].data \o Ahead(t, f) = AllOf(f)
  <2>1. PICK i \in 1 .. N : n = cs[i].name
    BY <1>2, <1>10 DEF Named
  <2>2. d.series[n].data = c.series[n].data \o data
    BY <1>11, <2>1
  <2>3. c.series[n].data \in Seq(Sample) /\ n \in DOMAIN c.series
    BY <1>10 DEF ChartInv, Sound, ChartTypes, SeriesOK, Series
  <2>4. c.series[n].data \o Ahead(s, f) = AllOf(f)
    BY <1>2, <2>3
  <2> DEFINE x == c.series[n].data
  <2>5. x \in Seq(Sample) /\ x \o Ahead(s, f) = AllOf(f) /\ d.series[n].data = x \o data
    BY <2>2, <2>3, <2>4
  <2> HIDE DEF x
  <2> QED BY <1>13, <1>14, <2>5
<1> QED BY <1>1, <1>2, <1>10, <1>11, <1>15 DEF Shown, t, cs, N

LEMMA LateBatchShown ==
  ASSUME NEW c, ChartInv(c), NEW s \in Seq(Events), s # <<>>, NEW f \in Feeds, InOrder(s, f),
         Shown(c, s, f), Head(s).kind = "batch", Head(s).gen # f.gen,
         NEW d, d = AppendBatch(c, WithData(Head(s)))
  PROVE  Shown(d, Tail(s), f)
<1> DEFINE t == Tail(s)
           e == Head(s)
           w == WithData(e)
<1>1. /\ f.pc = "starting" \/ HeaderIn(s, f.gen)
      /\ HeaderIn(t, f.gen) <=> HeaderIn(s, f.gen)
  BY OrderHandled
<1>2. DOMAIN c.series = {}
  BY <1>1 DEF Shown
<1>3. t \in Seq(Events) /\ e \in Events
  OBVIOUS
<1> HIDE DEF w
<1>4. Batch(w)
  <2> HIDE DEF e
  <2> QED BY <1>3, BatchOf DEF w
<1>5. \A i \in 1 .. Len(w) : ~TakesSamples(c, w[i])
  BY <1>2 DEF TakesSamples
<1>6. d = c
  <2>1. d = AppendBatch(c, w)
    BY DEF w
  <2> QED BY <1>4, <1>5, <2>1, AppendBatchIs
<1>7. Ahead(t, f) = Ahead(s, f)
  <2>1. OnTheWay(s, f.gen) = Piece(e, f.gen) \o OnTheWay(t, f.gen)
    BY HandledFirst
  <2>2. Piece(e, f.gen) = <<>>
    BY DEF Piece
  <2>3. OnTheWay(t, f.gen) \in Seq(Sample)
    BY <1>3, OnTheWayIs
  <2>4. OnTheWay(s, f.gen) = OnTheWay(t, f.gen)
    BY <2>1, <2>2, <2>3, ConcatEmptySeq
  <2> QED BY <2>4 DEF Ahead
<1> QED BY <1>1, <1>6, <1>7, SameAhead

LEMMA FlushShown ==
  ASSUME NEW c, ChartInv(c), NEW s \in Seq(Events), s # <<>>, NEW f \in Feeds, InOrder(s, f),
         Shown(c, s, f), Head(s).kind = "flush",
         NEW d, \E away \in BOOLEAN : d = FlushPendingAppend(c, away)
  PROVE  Shown(d, Tail(s), f)
<1> DEFINE t == Tail(s)
           e == Head(s)
<1>1. HeaderIn(t, f.gen) <=> HeaderIn(s, f.gen)
  BY OrderHandled
<1>2. d.series = c.series /\ d.order = c.order
  BY FlushIs
<1>3. t \in Seq(Events)
  OBVIOUS
<1>4. Ahead(t, f) = Ahead(s, f)
  <2>1. OnTheWay(s, f.gen) = Piece(e, f.gen) \o OnTheWay(t, f.gen)
    BY HandledFirst
  <2>2. Piece(e, f.gen) = <<>>
    BY DEF Piece
  <2>3. OnTheWay(t, f.gen) \in Seq(Sample)
    BY <1>3, OnTheWayIs
  <2>4. OnTheWay(s, f.gen) = OnTheWay(t, f.gen)
    BY <2>1, <2>2, <2>3, ConcatEmptySeq
  <2> QED BY <2>4 DEF Ahead
<1>5. Shown(c, t, f)
  BY <1>1, <1>4, SameAhead
<1> QED BY <1>2, <1>5, ShownElsewhere

LEMMA HandleKeepsStream == FeedInv /\ StreamInv /\ Handle => StreamInv'
<1> SUFFICES ASSUME FeedInv, StreamInv, Handle PROVE StreamInv'
  OBVIOUS
<1> DEFINE e == Head(posted)
           t == Tail(posted)
<1>1. /\ posted # <<>> /\ UNCHANGED feed
      /\ \/ e.kind = "header" /\ chart' = AddAll(chart, e.items)
         \/ e.kind = "batch" /\ chart' = AppendBatch(chart, WithData(e))
         \/ e.kind = "flush" /\ \E away \in BOOLEAN : chart' = FlushPendingAppend(chart, away)
      /\ posted' = t \o (IF PostsFlush(chart, chart') THEN <<FlushEvent>> ELSE <<>>)
      /\ stale' = (stale \/ (e.kind = "header" /\ e.gen < feed.gen))
  BY DEF Handle
<1>2. ChartInv(chart) /\ feed \in Feeds /\ posted \in Seq(Events)
  BY DEF FeedInv, FeedTypes
<1>3. t \in Seq(Events)
  BY <1>1, <1>2
<1>4. InOrder(posted, feed) /\ FeedIsSane(feed) /\ (~stale => Shown(chart, posted, feed))
  BY DEF StreamInv
<1>5. InOrder(t, feed)
  BY <1>1, <1>2, <1>4, OrderHandled
<1>6. ~stale' => Shown(chart', t, feed)
  <2> SUFFICES ASSUME ~stale' PROVE Shown(chart', t, feed)
    OBVIOUS
  <2>1. Shown(chart, posted, feed) /\ ~(e.kind = "header" /\ e.gen < feed.gen)
    BY <1>1, <1>4
  <2>2. CASE e.kind = "header" /\ chart' = AddAll(chart, e.items)
    <3>1. e.gen = feed.gen
      BY <1>1, <1>2, <1>4, <2>1, <2>2, OrderHandled
    <3> QED BY <1>1, <1>2, <1>4, <2>1, <2>2, <3>1, HeaderShown DEF Headed
  <2>3. CASE e.kind = "batch" /\ chart' = AppendBatch(chart, WithData(e))
    <3>1. CASE e.gen = feed.gen
      BY <1>1, <1>2, <1>4, <2>1, <2>3, <3>1, BatchShown
    <3>2. CASE e.gen # feed.gen
      BY <1>1, <1>2, <1>4, <2>1, <2>3, <3>2, LateBatchShown
    <3> QED BY <3>1, <3>2
  <2>4. CASE e.kind = "flush" /\ \E away \in BOOLEAN : chart' = FlushPendingAppend(chart, away)
    BY <1>1, <1>2, <1>4, <2>1, <2>4, FlushShown
  <2> QED BY <1>1, <2>2, <2>3, <2>4
<1> HIDE DEF t, e
<1>7. InOrder(posted', feed) /\ (~stale' => Shown(chart', posted', feed))
  <2>1. CASE PostsFlush(chart, chart')
    <3> DEFINE u == t \o <<FlushEvent>>
    <3>1. /\ InOrder(u, feed) /\ (HeaderIn(u, feed.gen) <=> HeaderIn(t, feed.gen))
          /\ OnTheWay(u, feed.gen) = OnTheWay(t, feed.gen)
      BY <1>2, <1>3, <1>5, OrderFlushed
    <3>2. posted' = u
      BY <1>1, <2>1
    <3> HIDE DEF u
    <3>3. Ahead(u, feed) = Ahead(t, feed)
      BY <3>1 DEF Ahead
    <3> QED BY <1>6, <3>1, <3>2, <3>3, SameAhead
  <2>2. CASE ~PostsFlush(chart, chart')
    <3>1. posted' = t \o <<>>
      BY <1>1, <2>2
    <3>2. posted' = t
      BY <1>3, <3>1, ConcatEmptySeq
    <3> QED BY <1>5, <1>6, <3>2
  <2> QED BY <2>1, <2>2
<1> QED BY <1>1, <1>4, <1>7 DEF StreamInv

(* The names that a connection announces differ.                            *)
NamesDiffer == \A k \in 1 .. MaxConnects : Distinct(Configs(Shapes[k]))

LEMMA ThreadKeepsStream ==
  ASSUME NamesDiffer, FeedInv, StreamInv, FeedStarts \/ FeedConsumes \/ FeedEnds
  PROVE  StreamInv'
<1>1. ChartInv(chart) /\ feed \in Feeds /\ posted \in Seq(Events)
  BY DEF FeedInv, FeedTypes
<1>2. InOrder(posted, feed) /\ FeedIsSane(feed) /\ (~stale => Shown(chart, posted, feed))
  BY DEF StreamInv
<1>3. feed.gen = 0 => feed.pc = "none"
  BY <1>2 DEF FeedIsSane
<1>4. CASE FeedStarts
  <2> DEFINE g == Started(feed)
             u == posted \o <<HeaderEvent(g)>>
  <2>1. feed.pc = "starting" /\ feed' = g /\ UNCHANGED <<chart, stale>> /\ posted' = Append(posted, HeaderEvent(g))
    BY <1>4 DEF FeedStarts
  <2> HIDE DEF g
  <2>2. posted' = u
    BY <1>1, <2>1
  <2> HIDE DEF u
  <2>3. /\ g.pc = "running" /\ g.gen = feed.gen /\ g.configs = Configs(feed.shape)
        /\ InOrder(u, g) /\ \A c : Shown(c, posted, feed) => Shown(c, u, g)
    BY <1>1, <1>2, <1>3, <2>1, StreamStarted DEF g, u
  <2>4. FeedIsSane(g)
    BY <1>2, <1>3, <2>1, <2>3 DEF FeedIsSane, NamesDiffer
  <2> QED BY <1>2, <2>1, <2>2, <2>3, <2>4 DEF StreamInv
<1>5. CASE FeedConsumes
  <2> DEFINE x == Append(feed.batch, <<feed.gen, feed.consumed + 1>>)
             k == feed.consumed + 1
             more == [feed EXCEPT !.batch = x, !.consumed = k]
             rest == [more EXCEPT !.batch = <<>>]
  <2>1. /\ feed.pc = "running" /\ UNCHANGED <<chart, stale>>
        /\ \/ feed' = more /\ posted' = posted
           \/ feed' = rest /\ posted' = Append(posted, BatchEvent(more))
    BY <1>5 DEF FeedConsumes
  <2>2. x \in Seq(Sample) /\ k \in Nat
    <3>1. <<feed.gen, feed.consumed + 1>> \in Sample /\ feed.batch \in Seq(Sample)
      BY <1>1 DEF Feeds, Sample
    <3>2. k \in Nat
      BY <1>1 DEF Feeds
    <3> QED BY <3>1, <3>2
  <2>3. x # <<>>
    <3> DEFINE b == feed.batch
               y == <<feed.gen, feed.consumed + 1>>
    <3>1. b \in Seq(Sample) /\ x = Append(b, y)
      BY <1>1 DEF Feeds
    <3> HIDE DEF b, y, x
    <3> QED BY <3>1
  <2> HIDE DEF x, k
  <2>4. /\ more \in Feeds /\ more.pc = "running" /\ more.gen = feed.gen /\ more.configs = feed.configs
        /\ more.consumed = k /\ more.batch = x
    BY <1>1, <2>1, <2>2 DEF Feeds
  <2> HIDE DEF more
  <2>5. /\ rest \in Feeds /\ rest.pc = "running" /\ rest.gen = more.gen /\ rest.configs = more.configs
        /\ rest.consumed = more.consumed /\ rest.batch = <<>>
    <3>1. <<>> \in Seq(Sample)
      OBVIOUS
    <3> QED BY <2>4, <3>1 DEF Feeds
  <2> HIDE DEF rest
  <2>6. ~stale => Shown(chart, posted, more)
    BY <1>1, <1>2, <2>1, <2>4, StreamConsumed DEF x, k
  <2>7. InOrder(posted, more)
    BY <1>2, <2>1, <2>4 DEF InOrder, Own
  <2>8. FeedIsSane(more) /\ FeedIsSane(rest)
    BY <1>2, <1>3, <2>1, <2>4, <2>5 DEF FeedIsSane
  <2>9. CASE feed' = more /\ posted' = posted
    BY <2>1, <2>6, <2>7, <2>8, <2>9 DEF StreamInv
  <2>10. CASE feed' = rest /\ posted' = Append(posted, BatchEvent(more))
    <3> DEFINE u == posted \o LastBatch(more)
    <3>1. LastBatch(more) = <<BatchEvent(more)>>
      BY <2>3, <2>4 DEF LastBatch
    <3>2. posted' = u
      BY <1>1, <2>10, <3>1
    <3> HIDE DEF u
    <3>3. InOrder(u, rest) /\ \A c : Shown(c, posted, more) => Shown(c, u, rest)
      <4>1. more.pc # "starting" /\ more.gen # 0 /\ rest.pc # "starting"
        BY <1>3, <2>1, <2>4, <2>5
      <4> QED BY <1>1, <2>4, <2>5, <2>7, <4>1, StreamPosted DEF u
    <3> QED BY <2>1, <2>6, <2>8, <2>10, <3>2, <3>3 DEF StreamInv
  <2> QED BY <2>1, <2>9, <2>10
<1>6. CASE FeedEnds
  <2> DEFINE g == Stopped(feed)
             u == posted \o LastBatch(feed)
  <2>1. feed.pc = "running" /\ feed' = g /\ posted' = u /\ UNCHANGED <<chart, stale>>
    BY <1>6 DEF FeedEnds
  <2>2. g \in Feeds
    BY <1>1, StoppedIs
  <2>3. /\ g.pc = "ended" /\ g.gen = feed.gen /\ g.configs = feed.configs
        /\ g.consumed = feed.consumed /\ g.batch = <<>>
    BY <1>1 DEF Stopped, Feeds
  <2> HIDE DEF g, u
  <2>4. InOrder(u, g) /\ \A c : Shown(c, posted, feed) => Shown(c, u, g)
    <3>1. feed.pc # "starting" /\ feed.gen # 0 /\ g.pc # "starting"
      BY <1>3, <2>1, <2>3
    <3> QED BY <1>1, <1>2, <2>2, <2>3, <3>1, StreamPosted DEF u
  <2>5. FeedIsSane(g)
    BY <1>2, <1>3, <2>1, <2>3 DEF FeedIsSane
  <2> QED BY <1>2, <2>1, <2>4, <2>5 DEF StreamInv
<1> QED BY <1>4, <1>5, <1>6

LEMMA ConnectionsKeepStream ==
  ASSUME NamesDiffer, FeedInv, StreamInv, Connect \/ Disconnect
  PROVE  StreamInv'
<1>1. ChartInv(chart) /\ feed \in Feeds /\ posted \in Seq(Events)
  BY DEF FeedInv, FeedTypes
<1>2. InOrder(posted, feed) /\ FeedIsSane(feed) /\ (~stale => Shown(chart, posted, feed))
  BY DEF StreamInv
<1>3. feed.gen = 0 => feed.pc = "none"
  BY <1>2 DEF FeedIsSane
<1>4. feed.gen \in Nat
  BY <1>1 DEF Feeds
<1>5. CASE Connect
  <2>1. /\ feed.gen < MaxConnects /\ chart' = ClearAll(chart) /\ UNCHANGED <<posted, stale>>
        /\ feed' = [NoFeed EXCEPT !.pc = "starting", !.gen = feed.gen + 1, !.shape = Shapes[feed.gen + 1]]
    BY <1>5 DEF Connect
  <2> DEFINE k == feed.gen + 1
             shape == Shapes[k]
  <2>2. k \in 1 .. MaxConnects
    BY <1>4, <2>1, FeedAssumption
  <2>3. feed' = [pc |-> "starting", gen |-> k, configs |-> <<>>, shape |-> shape, batch |-> <<>>, consumed |-> 0]
    BY <2>1 DEF NoFeed
  <2>4. shape \in Seq(Attributes)
    BY <2>2, FeedAssumption
  <2>5. <<>> \in Seq(Config) /\ <<>> \in Seq(Sample) /\ k \in Nat /\ k # 0
    BY <1>4
  <2>k. k = feed.gen + 1 /\ shape = Shapes[k]
    OBVIOUS
  <2> HIDE DEF k, shape
  <2>6. /\ feed' \in Feeds /\ feed'.pc = "starting" /\ feed'.gen = k /\ feed'.configs = <<>>
        /\ feed'.shape = shape /\ feed'.batch = <<>> /\ feed'.consumed = 0
    BY <2>3, <2>4, <2>5 DEF Feeds
  <2> DEFINE g == feed'
             c == chart'
  <2>7. c.order = <<>> /\ DOMAIN c.series = {}
    BY <1>1, <2>1, ClearAllIs
  <2> HIDE DEF g, c
  <2>8. InOrder(posted, g) /\ Shown(c, posted, g)
    BY <1>1, <1>2, <2>6, <2>7, <2>k, StreamConnected DEF g
  <2>9. FeedIsSane(g)
    <3>1. Distinct(<<>>)
      BY DEF Distinct
    <3> QED BY <2>2, <2>5, <2>6, <2>k, <3>1 DEF FeedIsSane, g
  <2> QED BY <2>1, <2>8, <2>9 DEF StreamInv, g, c
<1>6. CASE Disconnect
  <2> DEFINE f == IF feed.pc = "starting" THEN Started(feed) ELSE feed
             h == IF feed.pc = "starting" THEN <<HeaderEvent(f)>> ELSE <<>>
             s == posted \o h
             u == s \o LastBatch(f)
             g == [Stopped(f) EXCEPT !.pc = "none"]
  <2>1. feed.pc # "none" /\ feed' = g /\ posted' = u /\ UNCHANGED <<chart, stale>>
    BY <1>6 DEF Disconnect
  <2> HIDE DEF g, u
  <2>2. feed.gen # 0
    BY <1>3, <2>1
  <2>3. /\ s \in Seq(Events) /\ f \in Feeds /\ f.gen = feed.gen /\ f.pc # "starting"
        /\ InOrder(s, f) /\ FeedIsSane(f) /\ \A c : Shown(c, posted, feed) => Shown(c, s, f)
    <3>1. CASE feed.pc = "starting"
      <4>1. f = Started(feed) /\ s = posted \o <<HeaderEvent(f)>>
        BY <3>1
      <4> HIDE DEF f, s
      <4>2. /\ s \in Seq(Events) /\ f \in Feeds /\ f.pc = "running" /\ f.gen = feed.gen
            /\ f.configs = Configs(feed.shape)
            /\ InOrder(s, f) /\ \A c : Shown(c, posted, feed) => Shown(c, s, f)
        BY <1>1, <1>2, <2>2, <3>1, <4>1, StreamStarted
      <4>3. FeedIsSane(f)
        BY <1>2, <2>2, <3>1, <4>2 DEF FeedIsSane, NamesDiffer
      <4> QED BY <4>2, <4>3
    <3>2. CASE feed.pc # "starting"
      <4>1. f = feed /\ s = posted
        BY <1>1, <3>2, ConcatEmptySeq
      <4> HIDE DEF f, s
      <4> QED BY <1>1, <1>2, <3>2, <4>1
    <3> QED BY <3>1, <3>2
  <2> HIDE DEF f, s
  <2>4. /\ g \in Feeds /\ g.pc = "none" /\ g.gen = f.gen /\ g.configs = f.configs
        /\ g.consumed = f.consumed /\ g.batch = <<>>
    <3>1. g \in Feeds
      BY <2>3, StoppedIs DEF g
    <3> QED BY <2>3, <3>1 DEF g, Stopped, Feeds
  <2>5. InOrder(u, g) /\ \A c : Shown(c, s, f) => Shown(c, u, g)
    <3>1. f.gen # 0 /\ g.pc # "starting"
      BY <2>2, <2>3, <2>4
    <3> QED BY <2>3, <2>4, <3>1, StreamPosted DEF u
  <2>6. FeedIsSane(g)
    BY <2>2, <2>3, <2>4 DEF FeedIsSane
  <2> QED BY <1>2, <2>1, <2>3, <2>5, <2>6 DEF StreamInv
<1> QED BY <1>5, <1>6

LEMMA GesturesKeepStream ==
  ASSUME FeedInv, StreamInv, Points \/ Scrolls \/ ZoomsByButton \/ ZoomsByKey \/ ZoomsByWheel
  PROVE  StreamInv'
<1>1. ChartInv(chart)
  BY DEF FeedInv
<1>2. UNCHANGED <<feed, posted, stale>>
  BY DEF Points, Scrolls, ZoomsByButton, ZoomsByKey, ZoomsByWheel, User
<1>3. chart'.order = chart.order /\ chart'.series = chart.series
  <2>1. CASE Points
    <3>1. \A f \in Fields \ View : chart'[f] = chart[f]
      BY <1>1, <2>1, PointsIs DEF Points
    <3> QED BY <3>1 DEF Fields, View
  <2>2. CASE Scrolls
    <3>1. \A f \in Fields \ View : chart'[f] = chart[f]
      BY <1>1, <2>2, ScrollsIs DEF Scrolls
    <3> QED BY <3>1 DEF Fields, View
  <2>3. CASE ZoomsByButton
    BY <1>1, <2>3, ZoomButtonIs DEF ZoomsByButton, Kept
  <2>4. CASE ZoomsByKey
    BY <1>1, <2>4, ZoomKeyIs DEF ZoomsByKey, Kept
  <2>5. CASE ZoomsByWheel
    <3>1. \A x \in 0 .. ViewWidth - 1 : x \in Nat
      BY ChartAssumption
    <3> QED BY <1>1, <2>5, <3>1, ZoomWheelIs DEF ZoomsByWheel, Kept
  <2> QED BY <2>1, <2>2, <2>3, <2>4, <2>5
<1> QED BY <1>2, <1>3, ShownElsewhere DEF StreamInv

LEMMA StreamInvStep ==
  ASSUME NamesDiffer
  PROVE  FeedInv /\ StreamInv /\ [FeedNext]_feedVars => StreamInv'
<1> SUFFICES ASSUME FeedInv, StreamInv, [FeedNext]_feedVars PROVE StreamInv'
  OBVIOUS
<1>1. CASE FeedStarts \/ FeedConsumes \/ FeedEnds
  BY <1>1, ThreadKeepsStream
<1>2. CASE Connect \/ Disconnect
  BY <1>2, ConnectionsKeepStream
<1>3. CASE Handle
  BY <1>3, HandleKeepsStream
<1>4. CASE Points \/ Scrolls \/ ZoomsByButton \/ ZoomsByKey \/ ZoomsByWheel
  BY <1>4, GesturesKeepStream
<1>5. CASE UNCHANGED feedVars
  BY <1>5 DEF feedVars, StreamInv
<1> QED BY <1>1, <1>2, <1>3, <1>4, <1>5 DEF FeedNext

LEMMA StreamInvInit == FeedInit => StreamInv
<1> SUFFICES ASSUME FeedInit PROVE StreamInv
  OBVIOUS
<1>1. chart = EmptyChart /\ feed = NoFeed /\ posted = <<>>
  BY DEF FeedInit
<1>2. Len(posted) = 0 /\ posted \in Seq(Events)
  BY <1>1
<1>3. /\ feed.pc = "none" /\ feed.gen = 0 /\ feed.configs = <<>> /\ feed.batch = <<>> /\ feed.consumed = 0
  BY <1>1 DEF NoFeed
<1>4. InOrder(posted, feed)
  BY <1>2, <1>3 DEF InOrder
<1>5. FeedIsSane(feed)
  BY <1>3 DEF FeedIsSane, Distinct
<1>6. Shown(chart, posted, feed)
  <2>1. chart.order = <<>> /\ DOMAIN chart.series = {}
    BY <1>1 DEF EmptyChart
  <2>2. ~HeaderIn(posted, feed.gen)
    BY <1>2 DEF HeaderIn
  <2>3. Named(<<>>, 0) = {}
    BY DEF Named
  <2> QED BY <1>3, <2>1, <2>2, <2>3 DEF Shown
<1> QED BY <1>4, <1>5, <1>6 DEF StreamInv

LEMMA StreamShown == FeedInv /\ StreamInv => ChartShowsTheStream
<1> SUFFICES ASSUME FeedInv, StreamInv, ~stale PROVE ChartShowsTheStream
  BY DEF ChartShowsTheStream
<1>1. DOMAIN posted = 1 .. Len(posted) /\ DOMAIN feed.configs = 1 .. Len(feed.configs)
  BY DEF FeedInv, FeedTypes, Feeds
<1>2. Shown(chart, posted, feed)
  BY DEF StreamInv
<1> QED BY <1>1, <1>2 DEF Shown, ChartShowsTheStream, Ahead, AllOf, HeaderIn

(* Every record that a ChartConsumer has consumed in its connection is in   *)
(* each of its series, in a posted batch or in the batch that grows, once   *)
(* and in the order of the stream, whatever the clock, the end of the       *)
(* thread, disconnecting and connecting again post and reset in between;    *)
(* except after a header of an earlier connection was handled late. It is   *)
(* assumed that the names a connection announces differ, as addSeries finds *)
(* a series by its name.                                                    *)
THEOREM FeedShowsTheStream ==
  ASSUME NamesDiffer
  PROVE  FeedSpec => []ChartShowsTheStream
<1>1. FeedInit => FeedInv /\ StreamInv
  BY FeedInvInit, StreamInvInit
<1>2. FeedInv /\ StreamInv /\ [FeedNext]_feedVars => FeedInv' /\ StreamInv'
  BY FeedInvStep, StreamInvStep
<1>3. FeedInv /\ StreamInv => ChartShowsTheStream
  BY StreamShown
<1> QED BY <1>1, <1>2, <1>3, PTL DEF FeedSpec

(* The same with the rows beside the feed.                                  *)
THEOREM RowsShowTheStream ==
  ASSUME NamesDiffer
  PROVE  RowsSpec => []ChartShowsTheStream
<1>1. RowsInit => FeedInv /\ StreamInv
  BY FeedInvInit, StreamInvInit DEF RowsInit
<1>2. FeedInv /\ StreamInv /\ [RowsNext]_rowsVars => FeedInv' /\ StreamInv'
  <2> SUFFICES ASSUME FeedInv, StreamInv, [RowsNext]_rowsVars PROVE FeedInv' /\ StreamInv'
    OBVIOUS
  <2>1. FeedInv'
    BY RowsKeepFeedInv
  <2>2. CASE FeedNext
    BY <2>1, <2>2, StreamInvStep
  <2>3. CASE UNCHANGED <<chart, feed, posted, stale>>
    BY <2>1, <2>3 DEF StreamInv
  <2> QED BY <2>1, <2>2, <2>3, RowsStepIsFeedStep
<1>3. FeedInv /\ StreamInv => ChartShowsTheStream
  BY StreamShown
<1> QED BY <1>1, <1>2, <1>3, PTL DEF RowsSpec
=============================================================================
