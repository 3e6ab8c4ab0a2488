-------------------------------- MODULE Chart -------------------------------
(***************************************************************************)
(* ChartModel and ChartView, on the GUI thread: the series, the window of  *)
(* samples that fits into a header section, scrolling, zoom, live mode and *)
(* the coalesced repaint of appended samples.  Operators map a chart to    *)
(* the chart after a call, the slots connected to its signals included.    *)
(* Of Qt it is assumed that a scroll bar keeps its value inside its range, *)
(* which follows the section, and that the changes the model announces     *)
(* with dataChanged, layoutChanged, rowsInserted and modelReset repaint    *)
(* the view.  Vertical ranges, row heights and colours are left out.       *)
(***************************************************************************)
EXTENDS Integers, Sequences, SequencesExt

CONSTANTS SectionCap,  \* kMaxSectionPx
          ViewWidth,   \* width of the viewport, in pixels
          MaxPps       \* kMaxPps; kMinPps is 1 here and a zoom step doubles

ASSUME ChartAssumption ==
  /\ ViewWidth \in Nat \ {0} /\ MaxPps \in Nat \ {0}
  /\ SectionCap \in Nat /\ SectionCap >= MaxPps /\ SectionCap >= ViewWidth

(* "unpainted": samples whose columns no repaint was asked for since they   *)
(* were appended; "moved": the user has scrolled or zoomed since the view   *)
(* was last taken to the end.                                               *)
EmptyChart ==
  [order |-> <<>>, series |-> [n \in {} |-> <<>>], pps |-> 1, origin |-> 0, cursor |-> -1,
   pendingOld |-> 0, pendingNew |-> 0, flushQueued |-> FALSE,
   section |-> 0, scroll |-> 0, live |-> FALSE, panning |-> FALSE,
   unpainted |-> {}, moved |-> FALSE]

AtMost(x, y)  == IF x < y THEN x ELSE y
AtLeast(x, y) == IF x > y THEN x ELSE y

MaxSampleCount(c) ==
  IF DOMAIN c.series = {} THEN 0 ELSE Max({Len(c.series[n].data) : n \in DOMAIN c.series})

ChartPixelWidth(c) == AtLeast(0, MaxSampleCount(c) - c.origin) * c.pps

Repainted(c) == [c EXCEPT !.unpainted = {}]

(* The window covers the newest samples that fit. *)
WindowOrigin(c) == AtLeast(0, MaxSampleCount(c) - SectionCap \div c.pps)

UpdateDisplayOrigin(c) ==
  LET origin == WindowOrigin(c)
  IN  IF origin = c.origin THEN c ELSE Repainted([c EXCEPT !.origin = origin])

ScrollTo(c, px) == [c EXCEPT !.scroll = AtLeast(0, AtMost(px, c.section - ViewWidth))]

ResizeSection(c) == ScrollTo([c EXCEPT !.section = ChartPixelWidth(c)], c.scroll)

SyncColumnWidth(c) == ResizeSection(UpdateDisplayOrigin(c))
-----------------------------------------------------------------------------
AddSeries(c, name, type) ==
  IF name \in DOMAIN c.series THEN c
  ELSE LET added == [c EXCEPT !.order = Append(@, name),
                              !.series = [n \in DOMAIN @ \cup {name} |->
                                            IF n = name THEN [type |-> type, data |-> <<>>] ELSE @[n]]]
       IN  Repainted(SyncColumnWidth(added))

(* appendToSeries: an empty series takes the type of what arrives, another  *)
(* one refuses samples of a different type.                                 *)
TakesSamples(c, item) ==
  /\ item.name \in DOMAIN c.series /\ item.data # <<>>
  /\ LET s == c.series[item.name] IN s.data = <<>> \/ s.type = item.type

AppendToSeries(c, item) ==
  IF TakesSamples(c, item)
    THEN [c EXCEPT !.series[item.name] = [type |-> item.type, data |-> @.data \o item.data]]
    ELSE c

AppendAll(c, items) ==
  LET upTo[i \in 0 .. Len(items)] == IF i = 0 THEN c ELSE AppendToSeries(upTo[i - 1], items[i])
  IN  upTo[Len(items)]

(* appendBatch: the signals follow when all samples are in; onDataAppended  *)
(* notes the largest count and posts one flush for all of them.             *)
AppendBatch(c, items) ==
  LET after  == AppendAll(c, items)
      totals == {Len(after.series[items[i].name].data) : i \in {j \in DOMAIN items : TakesSamples(c, items[j])}}
  IN  IF totals = {} THEN after
      ELSE [after EXCEPT !.pendingNew = Max(totals \cup {@}), !.flushQueued = TRUE,
                         !.unpainted = @ \cup (MaxSampleCount(c) .. MaxSampleCount(after) - 1)]

PostsFlush(before, after) == after.flushQueued /\ ~before.flushQueued

(* Mutant of ClearAll: the view keeps the counts of the chart that was. *)
ClearAllStale(c) ==
  Repainted(SyncColumnWidth(
    [c EXCEPT !.order = <<>>, !.series = EmptyChart.series, !.origin = 0, !.cursor = -1, !.scroll = 0]))

(* clearAll and the view's slot for modelReset. *)
ClearAll(c) ==
  Repainted(SyncColumnWidth(
    [c EXCEPT !.order = <<>>, !.series = EmptyChart.series, !.origin = 0, !.cursor = -1,
              !.pendingOld = 0, !.pendingNew = 0, !.scroll = 0]))
-----------------------------------------------------------------------------
NewestSample(c) == MaxSampleCount(c) - 1

(* The range of the scroll bar is extended first if it lags behind. *)
ScrollToEnd(c) ==
  [c EXCEPT !.scroll = AtLeast(0, ChartPixelWidth(c) - ViewWidth), !.moved = FALSE]

SetLiveMode(c, on) ==
  IF c.live = on THEN c
  ELSE IF on THEN ScrollToEnd([c EXCEPT !.live = TRUE]) ELSE [c EXCEPT !.live = FALSE]

(* flushPendingAppend: only the columns from the old count on are painted,  *)
(* unless the window has moved.  "away": the mouse is not over the view.    *)
FlushPendingAppend(c, away) ==
  LET taken   == [c EXCEPT !.flushQueued = FALSE, !.pendingOld = c.pendingNew,
                           !.unpainted = {s \in @ : s < c.pendingOld}]
      resized == SyncColumnWidth(taken)
  IN  IF ~c.live THEN resized
      ELSE LET end == ScrollToEnd(resized)
           IN  IF away THEN [end EXCEPT !.cursor = NewestSample(end)] ELSE end

(* viewXToSample: -1 right of the data. *)
SampleAt(c, x) ==
  LET sample == c.origin + (2 * (x + c.scroll) + c.pps) \div (2 * c.pps)
  IN  IF sample >= MaxSampleCount(c) THEN -1 ELSE sample

Hover(c, x) == IF c.panning THEN c ELSE [c EXCEPT !.cursor = SampleAt(c, x)]

Leave(c) == [c EXCEPT !.cursor = IF c.live THEN NewestSample(c) ELSE -1]

(* The right button pans, which ends live mode. *)
PressRight(c) == [SetLiveMode(c, FALSE) EXCEPT !.panning = TRUE]
Pan(c, px)    == IF c.panning THEN [ScrollTo(c, px) EXCEPT !.moved = TRUE] ELSE c
Release(c)    == [c EXCEPT !.panning = FALSE]

(* The scroll bar itself leaves live mode on. *)
UseScrollBar(c, px) == [ScrollTo(c, px) EXCEPT !.moved = TRUE]
-----------------------------------------------------------------------------
Zoomed(c, wider) == IF wider THEN AtMost(2 * c.pps, MaxPps) ELSE AtLeast(1, c.pps \div 2)

(* setPixelsPerSample, as the buttons of the tool bar use it. *)
ZoomButton(c, wider) ==
  IF Zoomed(c, wider) = c.pps THEN c
  ELSE Repainted(SyncColumnWidth([c EXCEPT !.pps = Zoomed(c, wider), !.moved = TRUE]))

(* The scroll that keeps the sample that was under pixel x there, rounded.  *)
KeepingInPlace(before, after, x) ==
  LET px2 == 2 * after.pps * ((before.origin - after.origin) * before.pps + before.scroll + x)
  IN  AtLeast(0, (px2 + before.pps) \div (2 * before.pps) - x)

ZoomKey(c, wider) ==
  LET zoomed == ZoomButton(c, wider)
  IN  [ScrollTo(zoomed, KeepingInPlace(c, zoomed, ViewWidth \div 2)) EXCEPT !.moved = TRUE]

(* Ctrl and the wheel: no layoutChanged; the view counts what is there as   *)
(* painted and repaints itself.                                             *)
ZoomWheel(c, wider, x) ==
  LET sized  == SyncColumnWidth([c EXCEPT !.pps = Zoomed(c, wider)])
      zoomed == ScrollTo(sized, KeepingInPlace(c, sized, x))
  IN  Repainted([zoomed EXCEPT !.pendingOld = MaxSampleCount(c), !.pendingNew = MaxSampleCount(c),
                               !.cursor = SampleAt(zoomed, x), !.moved = TRUE])
=============================================================================
