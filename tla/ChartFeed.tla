------------------------------ MODULE ChartFeed -----------------------------
(***************************************************************************)
(* A session of the receiver application: a ChartConsumer whose thread     *)
(* reads records and posts events, and the GUI thread (TcpSessionWidget,   *)
(* the chart, its user), which handles posted events in the order in which *)
(* they were posted.  Record k of the g-th connection is <<g, k>>; every   *)
(* series takes one sample of it.                                          *)
(***************************************************************************)
EXTENDS Chart

CONSTANTS Shapes,       \* the attributes announced in the first, second .. connection
          MaxConnects,  \* bound: successful connections
          MaxSamples,   \* bound: records consumed in a connection
          MaxPosted,    \* bound: events posted when another record is consumed
          MaxGestures   \* bound: actions of the user on the chart

Attributes == [name : STRING, type : STRING, count : Nat, bits : Seq(STRING)]

ASSUME FeedAssumption ==
  /\ MaxConnects \in Nat /\ Shapes \in Seq(Seq(Attributes)) /\ Len(Shapes) >= MaxConnects

VARIABLES chart,
          feed,      \* the ChartConsumer and its thread
          posted,    \* events posted to the GUI thread
          stale,     \* was a header of an earlier connection handled late?
          gestures

feedVars == <<chart, feed, posted, stale, gestures>>

NoFeed == [pc |-> "none", gen |-> 0, configs |-> <<>>, shape |-> <<>>, batch |-> <<>>, consumed |-> 0]

FeedInit ==
  chart = EmptyChart /\ feed = NoFeed /\ posted = <<>> /\ stale = FALSE /\ gestures = 0
-----------------------------------------------------------------------------
(* mapFieldType *)
SampleType(type) ==
  CASE type = "Bool" -> "UInt8"
    [] type = "Char" -> "Int8"
    [] type \in {"Undefine", "Void", "Ptr", "Double"} -> "Float64"
    [] type = "Float" -> "Float32"
    [] OTHER -> type

(* The series of an attribute [name, type, count, bits]: itself and its     *)
(* named bits, or one for each element.                                     *)
ConfigsOf(attr) ==
  IF attr.bits # <<>>
    THEN <<[name |-> <<attr.name>>, type |-> SampleType(attr.type), digital |-> FALSE]>>
           \o [i \in DOMAIN attr.bits |->
                 [name |-> <<attr.bits[i]>>, type |-> "UInt8", digital |-> TRUE]]
    ELSE [i \in 1 .. AtLeast(1, attr.count) |->
            [name |-> IF attr.count > 1 THEN <<attr.name, i - 1>> ELSE <<attr.name>>,
             type |-> SampleType(attr.type), digital |-> FALSE]]

Configs(shape) ==
  LET upTo[k \in 0 .. Len(shape)] == IF k = 0 THEN <<>> ELSE upTo[k - 1] \o ConfigsOf(shape[k])
  IN  upTo[Len(shape)]

HeaderEvent(f) == [kind |-> "header", gen |-> f.gen, items |-> f.configs, data |-> <<>>]
BatchEvent(f)  == [kind |-> "batch", gen |-> f.gen, items |-> f.configs, data |-> f.batch]
FlushEvent == [kind |-> "flush", gen |-> 0, items |-> <<>>, data |-> <<>>]

(* onConsumeStart, onConsumeStop: what the thread posts. *)
Started(f) == [f EXCEPT !.pc = "running", !.configs = Configs(f.shape)]

LastBatch(f) == IF f.batch = <<>> THEN <<>> ELSE <<BatchEvent(f)>>

Stopped(f) == [f EXCEPT !.pc = "ended", !.batch = <<>>]

FeedStarts ==
  /\ feed.pc = "starting"
  /\ feed' = Started(feed) /\ posted' = Append(posted, HeaderEvent(feed'))
  /\ UNCHANGED <<chart, stale, gestures>>

(* Mutant of FeedConsumes: the batch that was emitted is kept. *)
FeedConsumesTwice ==
  LET more == [feed EXCEPT !.batch = Append(@, <<feed.gen, feed.consumed + 1>>), !.consumed = @ + 1]
  IN  /\ feed.pc = "running" /\ feed.consumed < MaxSamples /\ Len(posted) < MaxPosted
      /\ \/ feed' = more /\ UNCHANGED posted
         \/ feed' = more /\ posted' = Append(posted, BatchEvent(more))
      /\ UNCHANGED <<chart, stale, gestures>>

(* consumeRecord: whether the interval has elapsed is up to the clock. *)
FeedConsumes ==
  LET more == [feed EXCEPT !.batch = Append(@, <<feed.gen, feed.consumed + 1>>), !.consumed = @ + 1]
  IN  /\ feed.pc = "running" /\ feed.consumed < MaxSamples /\ Len(posted) < MaxPosted
      /\ \/ feed' = more /\ UNCHANGED posted
         \/ feed' = [more EXCEPT !.batch = <<>>] /\ posted' = Append(posted, BatchEvent(more))
      /\ UNCHANGED <<chart, stale, gestures>>

(* The reader gives up: the connection has ended. *)
FeedEnds ==
  /\ feed.pc = "running"
  /\ feed' = Stopped(feed) /\ posted' = posted \o LastBatch(feed)
  /\ UNCHANGED <<chart, stale, gestures>>
-----------------------------------------------------------------------------
(* tryConnect with a new receiver succeeds. *)
Connect ==
  /\ feed.pc = "none" /\ feed.gen < MaxConnects
  /\ feed' = [NoFeed EXCEPT !.pc = "starting", !.gen = feed.gen + 1,
                            !.shape = Shapes[feed.gen + 1]]
  /\ chart' = ClearAll(chart)
  /\ UNCHANGED <<posted, stale, gestures>>

(* stopConnection: the GUI thread waits for the consumer's, which may only  *)
(* now begin, and then leaves its loop.                                     *)
Disconnect ==
  LET f == IF feed.pc = "starting" THEN Started(feed) ELSE feed
  IN  /\ feed.pc # "none"
      /\ feed' = [Stopped(f) EXCEPT !.pc = "none"]
      /\ posted' = posted \o (IF feed.pc = "starting" THEN <<HeaderEvent(f)>> ELSE <<>>) \o LastBatch(f)
      /\ UNCHANGED <<chart, stale, gestures>>

AddAll(c, items) ==
  LET upTo[i \in 0 .. Len(items)] ==
        IF i = 0 THEN c ELSE AddSeries(upTo[i - 1], items[i].name, items[i].type)
  IN  upTo[Len(items)]

WithData(event) ==
  [i \in DOMAIN event.items |->
     [name |-> event.items[i].name, type |-> event.items[i].type, data |-> event.data]]

Handle ==
  LET event == Head(posted)
  IN  /\ posted # <<>>
      /\ \/ event.kind = "header" /\ chart' = AddAll(chart, event.items)
         \/ event.kind = "batch" /\ chart' = AppendBatch(chart, WithData(event))
         \/ event.kind = "flush" /\ \E away \in BOOLEAN : chart' = FlushPendingAppend(chart, away)
      /\ posted' = Tail(posted) \o (IF PostsFlush(chart, chart') THEN <<FlushEvent>> ELSE <<>>)
      /\ stale' = (stale \/ (event.kind = "header" /\ event.gen < feed.gen))
      /\ UNCHANGED <<feed, gestures>>

(* What the user does to the horizontal view; "gestures" bounds it.         *)
User == gestures < MaxGestures /\ gestures' = gestures + 1 /\ UNCHANGED <<feed, posted, stale>>

Points ==
  /\ User
  /\ \/ \E x \in 0 .. ViewWidth - 1 : chart' = Hover(chart, x)
     \/ chart' = Leave(chart)
     \/ chart' = PressRight(chart)
     \/ chart' = Release(chart)

Scrolls ==
  /\ User
  /\ \/ \E px \in 0 .. SectionCap - ViewWidth : chart' \in {Pan(chart, px), UseScrollBar(chart, px)}
     \/ \E on \in BOOLEAN : chart' = SetLiveMode(chart, on)

ZoomsByButton == User /\ \E wider \in BOOLEAN : chart' = ZoomButton(chart, wider)
ZoomsByKey    == User /\ \E wider \in BOOLEAN : chart' = ZoomKey(chart, wider)

ZoomsByWheel ==
  User /\ \E wider \in BOOLEAN, x \in 0 .. ViewWidth - 1 : chart' = ZoomWheel(chart, wider, x)

FeedNext ==
  \/ FeedStarts \/ FeedConsumes \/ FeedEnds
  \/ Connect \/ Disconnect \/ Handle
  \/ Points \/ Scrolls \/ ZoomsByButton \/ ZoomsByKey \/ ZoomsByWheel

FeedSpec == FeedInit /\ [][FeedNext]_feedVars
-----------------------------------------------------------------------------
(* The records in the batches posted in a connection. *)
OnTheWay(events, gen) ==
  LET upTo[i \in 0 .. Len(events)] ==
        IF i = 0 THEN <<>>
        ELSE upTo[i - 1] \o (IF events[i].kind = "batch" /\ events[i].gen = gen
                                THEN events[i].data ELSE <<>>)
  IN  upTo[Len(events)]

(* Every record consumed is on its way or in the chart, once and in order,  *)
(* and in every series of its connection: batches flushed by the clock, the *)
(* remainder at the end of the thread, and the reset at a new connection    *)
(* with events of the old one still posted lose and repeat nothing.         *)
(* Excepted: a header handled after the next connection was made.           *)
ChartShowsTheStream ==
  LET ahead == OnTheWay(posted, feed.gen) \o feed.batch
      all   == [k \in 1 .. feed.consumed |-> <<feed.gen, k>>]
  IN  ~stale =>
        IF \/ feed.pc = "starting"
           \/ \E i \in DOMAIN posted : posted[i].kind = "header" /\ posted[i].gen = feed.gen
          THEN chart.order = <<>> /\ ahead = all
          ELSE /\ chart.order = [i \in DOMAIN feed.configs |-> feed.configs[i].name]
               /\ \A n \in DOMAIN chart.series : chart.series[n].data \o ahead = all

(* ChartView.h:97-101 and ChartView.cpp:254-259: appended samples are       *)
(* painted or a repaint of them is queued, the section shows the newest     *)
(* samples within its cap, the cursor is on a sample, and live mode shows   *)
(* the newest one, whatever zooms, scrolls and resets come in between.      *)
ChartIsCurrent ==
  /\ chart.unpainted # {} => chart.flushQueued
  /\ chart.flushQueued <=> FlushEvent \in ToSet(posted)
  /\ chart.cursor < MaxSampleCount(chart) /\ chart.section <= SectionCap
  /\ ~chart.flushQueued =>
       /\ chart.origin = WindowOrigin(chart) /\ chart.section = ChartPixelWidth(chart)
       /\ (chart.live /\ ~chart.moved) => chart.scroll = AtLeast(0, chart.section - ViewWidth)
=============================================================================
