------------------------------ MODULE ChartRows ------------------------------
(***************************************************************************)
(* The vertical side of the chart, beside its feed: the range of values    *)
(* each row shows, the Auto Y mode, the selection in ChartHeaderView with  *)
(* its context menu, and the actions of ChartWidget's tool bar that act on *)
(* the selection.  While the menu is open posted events and the timer that *)
(* connects again go on.                                                   *)
(* A range that was set by hand is a kind of range, its numbers are left   *)
(* out, and so are row heights and the width of the header.                *)
(***************************************************************************)
EXTENDS ChartFeed

CONSTANT Signal \* the values of the records of a connection

VARIABLE rows

rowsVars == <<feedVars, rows>>

(* viewLo, viewHi: "auto" is NaN, "fit" has been computed from the window,  *)
(* "set" is by hand.                                                        *)
Scale(kind) == [kind |-> kind, lo |-> 0, hi |-> 0]
FitTo(lo, hi) == [kind |-> "fit", lo |-> lo, hi |-> hi]

NoMenu == [open |-> FALSE, row |-> 0, multi |-> FALSE]
NoDrag == [on |-> FALSE, name |-> <<>>, empty |-> FALSE]

(* "unfit": has a zoom without a scroll, or a hand on the scales, come      *)
(* since Auto Y last fitted the rows?                                       *)
RowsInit ==
  /\ FeedInit
  /\ rows = [range |-> [n \in {} |-> Scale("auto")], digital |-> {}, autoFit |-> FALSE,
             selected |-> {}, scaleEnabled |-> FALSE, menu |-> NoMenu, drag |-> NoDrag, unfit |-> FALSE]
-----------------------------------------------------------------------------
RowNames(r) == DOMAIN r.range

(* series(row): nothing for a row that does not exist. *)
SeriesAt(selection) == {chart.order[k] : k \in selection \cap DOMAIN chart.order}

SetRange(r, names, range) ==
  [r EXCEPT !.range = [n \in DOMAIN @ |-> IF n \in names THEN range ELSE @[n]]]

(* effectiveViewBounds: is there an interval to draw in?  A digital row has *)
(* one before its first sample.                                             *)
HasBounds(r, n) == r.range[n].kind # "auto" \/ chart.series[n].data # <<>> \/ n \in r.digital

(* visibleRangeForRow: the samples of a row inside the viewport. *)
VisibleValues(c, n) ==
  LET data  == c.series[n].data
      first == c.origin + c.scroll \div c.pps
      last  == AtMost(Len(data) - 1, c.origin + (c.scroll + ViewWidth) \div c.pps)
  IN  {Signal[data[i + 1][2]] : i \in first .. last}

VisibleRange(values) ==
  IF Min(values) = Max(values) THEN FitTo(Min(values) - 1, Max(values) + 1)
  ELSE FitTo(Min(values), Max(values))

IsFit(r, c, n) ==
  VisibleValues(c, n) # {} => r.range[n] = VisibleRange(VisibleValues(c, n))

(* The rows without a visible sample keep their range. *)
FitY(r, c) ==
  [r EXCEPT !.range = [n \in DOMAIN @ |-> IF VisibleValues(c, n) = {} THEN @[n]
                                          ELSE VisibleRange(VisibleValues(c, n))],
            !.unfit = FALSE]

AutoFitY(r, c) == IF r.autoFit THEN FitY(r, c) ELSE r

SetAutoFitY(r, on) ==
  IF r.autoFit = on THEN r
  ELSE IF on THEN FitY([r EXCEPT !.autoFit = TRUE], chart)
  ELSE [r EXCEPT !.autoFit = FALSE, !.unfit = FALSE]

(* Only Auto Y has to catch up. *)
Unfit(r) == [r EXCEPT !.unfit = r.autoFit]

ByHand(r, names, range) ==
  IF names \cap RowNames(r) = {} THEN r ELSE Unfit(SetRange(r, names, range))
-----------------------------------------------------------------------------
(* The slots of the feed's signals. *)
RowsForget ==
  rows' = [rows EXCEPT !.range = [n \in {} |-> Scale("auto")], !.digital = {}]

RowsAdd(items) ==
  LET names == {items[i].name : i \in DOMAIN items}
      added == [rows EXCEPT !.range = [n \in DOMAIN @ \cup names |->
                                         IF n \in DOMAIN @ THEN @[n] ELSE Scale("auto")],
                            !.digital = @ \cup {items[i].name : i \in {j \in DOMAIN items : items[j].digital}}]
  IN  rows' = IF chart'.scroll # chart.scroll THEN AutoFitY(added, chart') ELSE added

RowsFollowScroll ==
  rows' = IF chart'.scroll # chart.scroll THEN AutoFitY(rows, chart') ELSE rows

(* Mutant of HandleForRows: samples that arrive without a scroll do not fit. *)
HandleForRowsLazily ==
  /\ Handle
  /\ IF Head(posted).kind = "header" THEN RowsAdd(Head(posted).items) ELSE RowsFollowScroll

(* flushPendingAppend fits when everything else is done. *)
HandleForRows ==
  /\ Handle
  /\ CASE Head(posted).kind = "header" -> RowsAdd(Head(posted).items)
       [] Head(posted).kind = "batch" -> UNCHANGED rows
       [] Head(posted).kind = "flush" -> rows' = AutoFitY(rows, chart')

ConnectForRows == Connect /\ RowsForget

FeedForRows == (FeedStarts \/ FeedConsumes \/ FeedEnds \/ Disconnect) /\ UNCHANGED rows
-----------------------------------------------------------------------------
(* The horizontal gestures: Auto Y follows the scroll bar, and the wheel.   *)
(* No mouse move while a row is dragged moves the cursor.                   *)
ViewGesture ==
  /\ ~rows.menu.open
  /\ \/ Points /\ (rows.drag.on => chart'.cursor = chart.cursor) /\ UNCHANGED rows
     \/ Scrolls /\ RowsFollowScroll
     \/ ZoomsByWheel /\ rows' = AutoFitY(rows, chart')

(* A zoom that leaves the scroll bar where it is does not fit. *)
ZoomGesture ==
  /\ ~rows.menu.open
  /\ \/ \E wider \in BOOLEAN :
          /\ chart' = ZoomButton(chart, wider)
          /\ rows' = IF chart'.scroll # chart.scroll THEN AutoFitY(rows, chart')
                     ELSE IF chart'.pps # chart.pps THEN Unfit(rows)
                     ELSE rows
     \/ \E wider \in BOOLEAN :
          LET sized == ZoomButton(chart, wider)
          IN  /\ chart' = ZoomKey(chart, wider)
              /\ rows' = IF {chart.scroll, chart'.scroll} # {sized.scroll} THEN AutoFitY(rows, chart')
                         ELSE IF chart'.pps # chart.pps THEN Unfit(rows)
                         ELSE rows
  /\ User
-----------------------------------------------------------------------------
UserOnRows == ~rows.menu.open /\ User /\ UNCHANGED chart

(* applyYScaleZoom: an empty row falls back to auto.  Auto Y goes off, so   *)
(* that nothing is left to catch up.                                        *)
ScaleZoomed(r, names) ==
  LET off == SetAutoFitY(r, FALSE)
  IN  SetRange(SetRange(off, {n \in names : HasBounds(off, n)}, Scale("set")),
               {n \in names : ~HasBounds(off, n)}, Scale("auto"))

(* The buttons of the tool bar are enabled by the selection's signal. *)
ScaleButton == UserOnRows /\ rows.scaleEnabled /\ rows' = ScaleZoomed(rows, SeriesAt(rows.selected))

(* Shift and the wheel over a row. *)
ScaleWheel ==
  /\ UserOnRows
  /\ \E n \in ToSet(chart.order) : HasBounds(rows, n) /\ rows' = ScaleZoomed(rows, {n})

AutoButton == UserOnRows /\ rows' = SetAutoFitY(rows, ~rows.autoFit)

FitKey == UserOnRows /\ rows' = FitY(SetAutoFitY(rows, FALSE), chart)

ResetRows(r) == ByHand(r, RowNames(r), Scale("auto"))

Escape      == UserOnRows /\ rows' = SetAutoFitY(ResetRows(rows), FALSE)
ResetButton == UserOnRows /\ rows' = ResetRows(rows)

(* The left button on a row; the drag remembers the series by its name. *)
PressRow ==
  /\ UserOnRows /\ ~rows.drag.on
  /\ \E n \in ToSet(chart.order) :
       rows' = [rows EXCEPT !.drag = [on |-> TRUE, name |-> n, empty |-> ~HasBounds(rows, n)]]

DragRow ==
  /\ UserOnRows /\ rows.drag.on /\ ~chart.panning
  /\ rows' = ByHand(rows, {rows.drag.name}, Scale(IF rows.drag.empty THEN "auto" ELSE "set"))

ReleaseRow == UserOnRows /\ rows.drag.on /\ rows' = [rows EXCEPT !.drag = NoDrag]
-----------------------------------------------------------------------------
Toggled(k) == IF k \in rows.selected THEN rows.selected \ {k} ELSE rows.selected \cup {k}

(* A click on a row of the header; the signal enables the tool bar. *)
ClickRow ==
  /\ UserOnRows /\ ~rows.drag.on
  /\ \E k \in DOMAIN chart.order :
       \E selected \in {Toggled(k), IF rows.selected = {k} THEN {} ELSE {k}} :
         rows' = [rows EXCEPT !.selected = selected, !.scaleEnabled = selected # {}]

(* The menu takes a row into the selection without the signal. *)
OpenMenu ==
  /\ UserOnRows /\ ~rows.drag.on
  /\ \E k \in DOMAIN chart.order \cup {0} :
       LET selected == IF k = 0 \/ k \in rows.selected THEN rows.selected ELSE {k}
       IN  rows' = [rows EXCEPT !.selected = selected,
                                !.menu = [open |-> TRUE, row |-> k, multi |-> \E i, j \in selected : i # j]]

(* syncScale: the other selected rows take the source's units per pixel. *)
SyncScale(r) ==
  LET source == SeriesAt({r.menu.row})
  IN  IF \A n \in source : ~HasBounds(r, n) THEN r
      ELSE ByHand(r, SeriesAt(r.selected) \ source, Scale("set"))

OverlayOnto(r) ==
  IF \E n \in SeriesAt(r.selected) : HasBounds(r, n)
    THEN ByHand(r, SeriesAt(r.selected), Scale("set"))
    ELSE r

ResetSelected(r) ==
  ByHand(r, SeriesAt(IF r.menu.multi THEN r.selected ELSE {r.menu.row}), Scale("auto"))

(* The choice, by now perhaps with other series than when the menu opened.  *)
ChooseInMenu ==
  LET shut == [rows EXCEPT !.menu = NoMenu]
      done(r) == [r EXCEPT !.menu = NoMenu]
  IN  /\ rows.menu.open /\ UNCHANGED <<feedVars>>
      /\ \/ rows' = shut
         \/ rows' = SetAutoFitY(shut, ~rows.autoFit)
         \/ rows' = FitY(SetAutoFitY(shut, FALSE), chart)
         \/ rows.menu.row # 0 /\ rows.menu.multi /\ rows' \in {done(SyncScale(rows)), done(OverlayOnto(rows))}
         \/ rows.menu.row # 0 /\ rows' = done(ResetSelected(rows))
         \/ rows' = ResetRows(shut)

RowsNext ==
  \/ HandleForRows \/ ConnectForRows \/ FeedForRows
  \/ ViewGesture \/ ZoomGesture
  \/ ScaleButton \/ ScaleWheel \/ AutoButton \/ FitKey \/ Escape \/ ResetButton
  \/ PressRow \/ DragRow \/ ReleaseRow
  \/ ClickRow \/ OpenMenu \/ ChooseInMenu

RowsSpec == RowsInit /\ [][RowsNext]_rowsVars
-----------------------------------------------------------------------------
(* ChartView.h:88, Auto Y fits continuously: when it is on and no flush is  *)
(* owed, every row with a visible sample shows exactly the range of the     *)
(* visible ones, although appends, the window that drops old samples, the   *)
(* scroll bar, zooms and new connections change them at times of their own, *)
(* and none of the actions that zoom a scale leaves Auto Y on.  Excepted is *)
(* what a zoom without a scroll, or a menu or a drag under Auto Y, leaves   *)
(* until the next fit.                                                      *)
AutoYCatchesUp ==
  rows.autoFit /\ ~rows.unfit /\ ~chart.flushQueued
    => \A n \in RowNames(rows) : IsFit(rows, chart, n)

=============================================================================
