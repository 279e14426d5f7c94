------------------------------- MODULE Views -------------------------------
(***************************************************************************)
(* The tabs of the user interface (pulse-tui/src/app/mod.rs, View and App) *)
(* over an index that grows while a source is followed.                    *)
(*                                                                         *)
(* The loop of the interface draws, then handles every key and click that  *)
(* is waiting, and moves the cursor by what the arrow keys and the wheel   *)
(* added up to.  Text typed at a prompt counts when it is entered.         *)
(*                                                                         *)
(* A record is [ts, sev, text]; a search, a query and a field filter each  *)
(* name the text they match.  Rows are record numbers, from 0 as in the    *)
(* code.                                                                   *)
(*                                                                         *)
(* A cached histogram is [hist, bars, over, left].  It is keyed by bars and *)
(* by the view's generation, which moves only where the cache is dropped,  *)
(* so the cache stands for it.  The code keeps neither over, the zoom it   *)
(* was built over if any, nor left, whether that zoom has ended since      *)
(* while another tab was on screen: no action reads them.                  *)
(***************************************************************************)
EXTENDS Timeline, Sequences

CONSTANTS
  Log,         (* the records, in the order they are indexed               *)
  Backfill,    (* how many of them are there at the start                  *)
  Tallied,     (* whether the load counted the untimed ones among them     *)
  Texts,       (* what records say and filters look for                    *)
  BadRegex,    (* a search that is no regular expression                   *)
  NoText,      (* no search, no query                                      *)
  Buckets,     (* the severity sets of the number keys, in their order     *)
  MaxSev,      (* severity::FATAL                                          *)
  Screens,     (* sizes: bars of the timeline, body the table's rows       *)
  Visible,     (* rows taken to be on screen when the cursor moves (20)    *)
  MaxViews,    (* bound on the tabs                                        *)
  MaxKeys      (* bound on the keys pressed                                *)

ASSUME ViewsAssumption ==
  /\ Log \in Seq([ts : Nat \cup {Untimed}, sev : 0 .. MaxSev, text : Texts])
  /\ Backfill \in 0 .. Len(Log)
  /\ Tallied \in BOOLEAN
  /\ BadRegex \notin Texts /\ NoText \notin Texts /\ BadRegex # NoText
  /\ Buckets \in Seq(SUBSET (1 .. MaxSev)) /\ Len(Buckets) < MaxViews
  /\ Screens \subseteq [bars : Nat, body : Nat] /\ Screens # {}
  /\ None \notin [hist : [rows : SUBSET Nat, bins : Nat, t_min : Int, t_max : Int],
                  bars : Nat, over : (Int \X Int) \cup {None}, left : BOOLEAN]
  /\ None \notin [bin : Nat, zoom : (Int \X Int) \cup {None}]
  /\ Visible \in Nat \ {0} /\ MaxViews \in Nat \ {0} /\ MaxKeys \in Nat

VARIABLES
  total,      (* records in the index                                      *)
  views,      (* the tabs                                                  *)
  active_tab, (* the one on screen                                         *)
  hitboxes,   (* how many tabs the last draw made clickable                *)
  scrub,      (* the scrub's cursor and zoom, or None                      *)
  screen,     (* the size of the last draw                                 *)
  wheel,      (* how far the cursor is to move                             *)
  phase,      (* "tick", "drawn" until the first key, "keys", "leaving",   *)
              (* "quit" or "panicked"                                      *)
  keys        (* keys pressed so far                                       *)

vars == <<total, views, active_tab, hitboxes, scrub, screen, wheel, phase, keys>>

Ts == [r \in 0 .. Len(Log) - 1 |-> Log[r + 1].ts]
Rows(n) == 0 .. n - 1

(* table::lower_bound, and the row found at a position. *)
Pos(rows, r) == Cardinality({q \in rows : q < r})
Nth(rows, i) == CHOOSE r \in rows : Pos(rows, r) = i

-----------------------------------------------------------------------------
(* Engine::has_timestamps.  Only the load of a plain file counts its       *)
(* untimed records, and those that come live are never counted.            *)
HasTimestamps(n) ==
  LET untimed == IF Tallied THEN {r \in Rows(Backfill) : Ts[r] = Untimed} ELSE {}
  IN  (n - Cardinality(untimed)) * 2 > n

(* expand_min: min mode adds every level above the lowest one chosen. *)
Levels(v) ==
  IF v.min_mode /\ v.levels # {} THEN v.levels \cup Min(v.levels) .. MaxSev ELSE v.levels

NoFilter(v) ==
  /\ v.regex = NoText /\ v.dsl = NoText
  /\ v.fields = {} /\ v.levels = {} /\ v.range = None

(* The records a view's filters let through. *)
Matching(v, n) ==
  {r \in Rows(n) :
     LET rec == Log[r + 1]
     IN  /\ v.regex \in {NoText, rec.text}
         /\ v.dsl \in {NoText, rec.text}
         /\ v.fields \subseteq {rec.text}
         /\ v.levels = {} \/ rec.sev \in Levels(v)
         /\ v.range = None \/ (rec.ts # Untimed /\ rec.ts \in v.range[1] .. v.range[2])}

(* table::snap_cursor: the closest survivor, the one before if there is.   *)
Snap(rows, cursor) ==
  LET before == {r \in rows : r <= cursor}
  IN  IF before # {} THEN Max(before) ELSE Min(rows)

(* Faulty: the histogram of the rows before is kept. *)
RebuiltCached(v, n) ==
  LET rows == Matching(v, n)
      snap == IF rows = {} THEN v.cursor ELSE Snap(rows, v.cursor)
  IN  IF v.regex = BadRegex THEN v
      ELSE [v EXCEPT !.rows = rows, !.cursor = snap,
                     !.top = IF rows = {} THEN v.top ELSE snap]

(* View::rebuild_view.  A search that does not compile leaves everything   *)
(* as it was. *)
Rebuilt(v, n) ==
  LET rows == Matching(v, n)
      snap == IF rows = {} THEN v.cursor ELSE Snap(rows, v.cursor)
  IN  IF v.regex = BadRegex THEN v
      ELSE [v EXCEPT !.rows = rows, !.cursor = snap,
                     !.top = IF rows = {} THEN v.top ELSE snap,
                     !.cache = None]

NewView(n) ==
  [rows |-> Rows(n), cursor |-> 0, top |-> 0,
   regex |-> NoText, dsl |-> NoText, fields |-> {},
   levels |-> {}, min_mode |-> FALSE, range |-> None,
   cache |-> None, bookmarks |-> {}]

(* Faulty: a filtered view waits for its next filter to see new records. *)
GrownUnfiltered(v, n) ==
  IF NoFilter(v) THEN [v EXCEPT !.rows = Rows(n), !.cache = None] ELSE [v EXCEPT !.cache = None]

(* drain_live_channel: every view sees the records that came. *)
Grown(v, n) ==
  LET w == [v EXCEPT !.cache = None]
  IN  IF NoFilter(v) THEN [w EXCEPT !.rows = @ \cup Cardinality(@) .. n - 1]
      ELSE Rebuilt(w, n)

-----------------------------------------------------------------------------
(* Moving about in a view. *)

(* Faulty: the last visible row is taken to be below the screen. *)
ScrolledShort(v) ==
  LET top == Pos(v.rows, v.top)
      cur == Pos(v.rows, v.cursor)
  IN  IF cur > top + Visible
      THEN [v EXCEPT !.top = Nth(v.rows, cur + 1 - Visible)]
      ELSE IF cur < top THEN [v EXCEPT !.top = v.cursor] ELSE v

(* View::ensure_cursor_visible. *)
Scrolled(v) ==
  LET top == Pos(v.rows, v.top)
      cur == Pos(v.rows, v.cursor)
  IN  IF cur < top THEN [v EXCEPT !.top = v.cursor]
      ELSE IF cur >= top + Visible
      THEN [v EXCEPT !.top = Nth(v.rows, cur + 1 - Visible)]
      ELSE v

(* View::move_cursor. *)
Moved(v, delta) ==
  IF v.rows = {} THEN v
  ELSE LET last == Cardinality(v.rows) - 1
           i == AtLeast(0, AtMost(last, Pos(v.rows, v.cursor) + delta))
       IN  Scrolled([v EXCEPT !.cursor = Nth(v.rows, i)])

GoTo(v, r) == [v EXCEPT !.cursor = r, !.top = r]

(* View::cursor_to_start, View::cursor_to_end. *)
AtStart(v) == IF v.rows = {} THEN v ELSE GoTo(v, Min(v.rows))

AtEnd(v) ==
  IF v.rows = {} THEN v
  ELSE [v EXCEPT !.cursor = Max(v.rows),
                 !.top = Nth(v.rows, AtLeast(Cardinality(v.rows) - Visible, 0))]

(* View::jump_to_time. *)
AtTime(v, t) ==
  LET later == {r \in Timed(Ts, v.rows) : Ts[r] >= t}
  IN  IF later = {} THEN v ELSE GoTo(v, Min(later))

(* View::toggle_bookmark, on the cursor whether its row is shown or not. *)
Marked(v) ==
  [v EXCEPT !.bookmarks =
     IF v.cursor \in @ THEN @ \ {v.cursor} ELSE @ \cup {v.cursor}]

(* View::jump_next_bookmark. *)
AtBookmark(v) ==
  LET after == {b \in v.bookmarks : b > v.cursor}
      next  == IF after # {} THEN Min(after) ELSE Min(v.bookmarks)
  IN  IF v.bookmarks = {} \/ next \notin v.rows THEN v ELSE GoTo(v, next)

-----------------------------------------------------------------------------
(* App::new_with_source: one tab for all records and, if most carry a      *)
(* severity, one for each bucket.                                          *)
HasSeverity == Cardinality({r \in Rows(Backfill) : Log[r + 1].sev # 0}) * 2 > Backfill

Init ==
  /\ total = Backfill
  /\ views = <<NewView(Backfill)>> \o
             [i \in IF HasSeverity THEN DOMAIN Buckets ELSE {} |->
                Rebuilt([NewView(Backfill) EXCEPT !.levels = Buckets[i]], Backfill)]
  /\ active_tab = 1
  /\ hitboxes = 0
  /\ scrub = None
  /\ screen \in Screens
  /\ wheel = 0
  /\ phase = "tick"
  /\ keys = 0

V == views[active_tab]
Zoom == IF scrub = None THEN None ELSE scrub.zoom

(* The histogram of all rows, or of those in a zoom's window.              *)
Built(rows, bars, zoom) ==
  IF zoom = None THEN BuildOver(Ts, rows, bars)
  ELSE BuildOverRange(rows, bars, zoom[1], zoom[2])

(* View::histogram.  A zoom is never taken from the cache, but kept there  *)
(* under the key of the full histogram.                                    *)
Drawn(v, bars) ==
  IF Zoom = None /\ v.cache # None /\ v.cache.bars = bars THEN v
  ELSE [v EXCEPT !.cache = [hist |-> Built(v.rows, bars, Zoom), bars |-> bars,
                            over |-> Zoom, left |-> FALSE]]

(* The top of the loop: what came is indexed, the active view is drawn,    *)
(* on a terminal of the size it has by now.  A single tab has no tab bar.  *)
Draw ==
  /\ phase = "tick"
  /\ \E n \in total .. Len(Log), size \in Screens :
       LET seen == IF n = total THEN views ELSE [i \in DOMAIN views |-> Grown(views[i], n)]
       IN  /\ total' = n
           /\ screen' = size
           /\ views' = [seen EXCEPT ![active_tab] = Drawn(@, size.bars)]
  /\ hitboxes' = IF Len(views) = 1 THEN 0 ELSE Len(views)
  /\ phase' = "drawn"
  /\ UNCHANGED <<active_tab, scrub, wheel, keys>>

(* The end of the batch: the cursor moves. *)
BatchEnds ==
  /\ phase \in {"drawn", "keys", "leaving"} /\ active_tab \in DOMAIN views
  /\ views' = [views EXCEPT ![active_tab] = IF wheel = 0 THEN @ ELSE Moved(@, wheel)]
  /\ wheel' = 0
  /\ phase' = IF phase = "leaving" THEN "quit" ELSE "tick"
  /\ UNCHANGED <<total, active_tab, hitboxes, scrub, screen, keys>>

(* A key or click.  After the one that quits, the rest of the batch is     *)
(* handled like any other. *)
AnyKey ==
  /\ phase \in {"drawn", "keys", "leaving"} /\ keys < MaxKeys
  /\ keys' = keys + 1

Handled == phase' = IF phase = "leaving" THEN phase ELSE "keys"

(* One that looks at the active tab. *)
Key == AnyKey /\ active_tab \in DOMAIN views

(* Keys that change the active view alone. *)
Change(v) ==
  /\ Key /\ Handled
  /\ views' = [views EXCEPT ![active_tab] = v]
  /\ UNCHANGED <<total, active_tab, hitboxes, scrub, screen>>

Filter(v) == Change(Rebuilt(v, total)) /\ UNCHANGED wheel

Search == \E t \in Texts \cup {BadRegex, NoText} : Filter([V EXCEPT !.regex = t])
Query == \E t \in Texts \cup {NoText} : Filter([V EXCEPT !.dsl = t])
AddField == \E t \in Texts : Filter([V EXCEPT !.fields = @ \cup {t}])
SetSeverity ==
  \E b \in {Buckets[i] : i \in DOMAIN Buckets} \cup {{}} : Filter([V EXCEPT !.levels = b])
ToggleMin == Filter([V EXCEPT !.min_mode = ~@])

JumpTime ==
  /\ HasTimestamps(total)
  /\ \E r \in Timed(Ts, DOMAIN Ts) : Change(AtTime(V, Ts[r])) /\ UNCHANGED wheel

Bookmark == Change(Marked(V)) /\ UNCHANGED wheel

NextBookmark == Change(AtBookmark(V)) /\ wheel' = 0
Start == Change(AtStart(V)) /\ wheel' = 0
End == Change(AtEnd(V)) /\ wheel' = 0

Wheel ==
  /\ Key /\ Handled
  /\ wheel' \in {wheel - Visible, wheel - 1, wheel + 1, wheel + Visible}
  /\ UNCHANGED <<total, views, active_tab, hitboxes, scrub, screen>>

(* R: the schema is scanned again and every histogram dropped. *)
Rescan ==
  /\ Key /\ Handled
  /\ views' = [i \in DOMAIN views |-> [views[i] EXCEPT !.cache = None]]
  /\ UNCHANGED <<total, active_tab, hitboxes, scrub, screen, wheel>>

-----------------------------------------------------------------------------
(* Tabs.  These keys do not look at the active tab. *)
SwitchTab ==
  /\ AnyKey /\ Handled
  /\ active_tab' \in
       IF Len(views) = 1 THEN {active_tab}
       ELSE {(active_tab % Len(views)) + 1,
             IF active_tab = 1 THEN Len(views) ELSE active_tab - 1}
  /\ UNCHANGED <<total, views, hitboxes, scrub, screen, wheel>>

OpenTab ==
  /\ AnyKey /\ Handled
  /\ Len(views) < MaxViews
  /\ views' = Append(views, NewView(total))
  /\ active_tab' = Len(views) + 1
  /\ UNCHANGED <<total, hitboxes, scrub, screen, wheel>>

CloseTab ==
  /\ Len(views) > 1
  /\ Key /\ Handled
  /\ views' = SubSeq(views, 1, active_tab - 1) \o SubSeq(views, active_tab + 1, Len(views))
  /\ active_tab' = AtMost(active_tab, Len(views) - 1)
  /\ UNCHANGED <<total, hitboxes, scrub, screen, wheel>>

(* q, or the last tab closed. *)
Leave ==
  /\ AnyKey
  /\ phase' = "leaving"
  /\ UNCHANGED <<total, views, active_tab, hitboxes, scrub, screen, wheel>>

(* A click on a tab as it was last drawn: it may be gone by now, and then  *)
(* what next looks at the active tab is out of bounds.                     *)
Click ==
  /\ AnyKey /\ Handled
  /\ active_tab' \in 1 .. hitboxes
  /\ UNCHANGED <<total, views, hitboxes, scrub, screen, wheel>>

OutOfBounds ==
  /\ active_tab \notin DOMAIN views /\ phase # "panicked"
  /\ phase' = "panicked"
  /\ UNCHANGED <<total, views, active_tab, hitboxes, scrub, screen, wheel, keys>>

-----------------------------------------------------------------------------
(* The scrub. *)
ScrubSteps == {-10, -1, 1, 10}

Bins(v) ==
  IF v.cache # None /\ v.cache.hist.bins > 0 THEN v.cache.hist.bins ELSE DefaultBins

(* A zoom that ends drops the histogram of the tab on screen.  Others that *)
(* were drawn zoomed keep theirs.                                          *)
Left(v) ==
  IF v.cache # None /\ v.cache.over # None THEN [v EXCEPT !.cache.left = TRUE] ELSE v

ZoomEnds(v) ==
  [i \in DOMAIN views |-> IF i = active_tab THEN [v EXCEPT !.cache = None] ELSE Left(views[i])]

ScrubMove ==
  /\ Key /\ Handled
  /\ total > 0 /\ HasTimestamps(total)
  /\ \E delta \in ScrubSteps :
       LET bin == IF scrub = None THEN Bins(V) \div 2 ELSE scrub.bin
       IN  scrub' = [bin |-> AtLeast(0, AtMost(bin + delta, Bins(V) - 1)), zoom |-> Zoom]
  /\ UNCHANGED <<total, views, active_tab, hitboxes, screen, wheel>>

(* The range of all timed records, the zoom's limits. *)
Full == LET times == {Ts[r] : r \in Timed(Ts, Rows(total))} IN <<Min(times), Max(times)>>

ScrubZoom ==
  /\ Key /\ Handled
  /\ scrub # None
  /\ IF V.cache = None \/ Timed(Ts, Rows(total)) = {}
     THEN UNCHANGED <<scrub, views>>
     ELSE \E dir \in {"in", "out"} :
            LET zoom == Zoomed(V.cache.hist, scrub.bin, Zoom, Full, dir)
            IN  /\ scrub' = [scrub EXCEPT !.zoom = zoom]
                /\ views' = IF zoom = None THEN ZoomEnds(V)
                            ELSE [views EXCEPT ![active_tab].cache = None]
  /\ UNCHANGED <<total, active_tab, hitboxes, screen, wheel>>

ScrubApply ==
  /\ Key /\ Handled
  /\ scrub # None
  /\ IF V.cache = None
     THEN UNCHANGED <<scrub, views>>
     ELSE /\ LET v == [V EXCEPT !.range = Picked(V.cache.hist, scrub.bin, scrub.zoom)]
             IN  views' = ZoomEnds(Rebuilt(v, total))
          /\ scrub' = None
  /\ UNCHANGED <<total, active_tab, hitboxes, screen, wheel>>

(* Faulty: Esc leaves the zoomed histogram to the next draw. *)
EscapeCached ==
  /\ Key /\ Handled
  /\ scrub' = None
  /\ views' = IF scrub # None
              THEN [i \in DOMAIN views |-> IF i = active_tab THEN V ELSE Left(views[i])]
              ELSE [views EXCEPT ![active_tab] =
                      Rebuilt([@ EXCEPT !.regex = NoText, !.dsl = NoText, !.fields = {},
                                        !.levels = {}, !.range = None], total)]
  /\ UNCHANGED <<total, active_tab, hitboxes, screen, wheel>>

(* Esc cancels the scrub, or else clears the filters. *)
Escape ==
  /\ Key /\ Handled
  /\ scrub' = None
  /\ views' = IF scrub # None THEN ZoomEnds(V)
              ELSE [views EXCEPT ![active_tab] =
                      Rebuilt([@ EXCEPT !.regex = NoText, !.dsl = NoText, !.fields = {},
                                        !.levels = {}, !.range = None], total)]
  /\ UNCHANGED <<total, active_tab, hitboxes, screen, wheel>>

-----------------------------------------------------------------------------
Stopped == phase \in {"quit", "panicked"} /\ UNCHANGED vars

Next ==
  \/ Draw \/ BatchEnds
  \/ Search \/ Query \/ AddField \/ SetSeverity \/ ToggleMin
  \/ JumpTime \/ Bookmark \/ NextBookmark \/ Start \/ End \/ Wheel \/ Rescan
  \/ SwitchTab \/ OpenTab \/ CloseTab \/ Leave \/ Click \/ OutOfBounds
  \/ ScrubMove \/ ScrubZoom \/ ScrubApply \/ Escape
  \/ Stopped

Spec == Init /\ [][Next]_vars

-----------------------------------------------------------------------------
(* Every view, on screen or not, shows exactly the records of the whole    *)
(* index that its filters let through, unless its search does not compile. *)
RowsTrue ==
  \A i \in DOMAIN views :
    views[i].regex # BadRegex => views[i].rows = Matching(views[i], total)

(* The rows that the last draw put on the screen. *)
OnScreenRows == {r \in V.rows : Pos(V.rows, r) - Pos(V.rows, V.top) \in 0 .. screen.body - 1}

(* The cursor is on a row of its view, and so is the row the screen begins *)
(* with, whatever filters, jumps and records came between.  The keys take  *)
(* Visible rows to be on screen: the cursor stays within so many, and is   *)
(* drawn where the table has room for them.  The tab that is drawn exists, *)
(* and the scrub has not left its left end.                                *)
CursorShown ==
  /\ phase \in {"tick", "drawn"} => active_tab \in DOMAIN views
  /\ scrub # None => scrub.bin >= 0
  /\ \A i \in DOMAIN views :
       LET v == views[i]
       IN  v.rows # {} =>
             /\ v.cursor \in v.rows /\ v.top \in v.rows
             /\ Pos(v.rows, v.cursor) - Pos(v.rows, v.top) \in 0 .. Visible - 1
  /\ phase = "drawn" /\ V.rows # {} /\ screen.body >= Visible => V.cursor \in OnScreenRows

(* ensure_cursor_visible, table.rs: the cursor is among the rows drawn,    *)
(* however few the table has room for.  The code does not keep this.       *)
CursorOnScreen == phase = "drawn" /\ V.rows # {} /\ screen.body > 0 => V.cursor \in OnScreenRows

(* A cached histogram is that of its view's rows as they are now, over the *)
(* zoom it was built for.  What is drawn has a bar for each column and     *)
(* shows the zoom there is, or all rows if there is none, except in a tab  *)
(* that was drawn zoomed and was not on screen when the zoom ended.        *)
CacheTrue ==
  /\ \A i \in DOMAIN views :
       LET v == views[i]
       IN  v.cache # None => v.cache.hist = Built(v.rows, v.cache.bars, v.cache.over)
  /\ phase = "drawn" =>
       /\ V.cache # None /\ V.cache.bars = screen.bars
       /\ V.cache.over = Zoom \/ (Zoom = None /\ V.cache.left)

(* "Zoom bypasses the cache" (app/mod.rs:472): without a zoom, the full    *)
(* histogram is drawn, in every tab.  The code does not keep this.         *)
FullWithoutZoom ==
  phase = "drawn" /\ Zoom = None => V.cache.hist = Built(V.rows, screen.bars, None)

(* A zoom window stays within the records' own range and is never empty,   *)
(* though the histogram it is computed from may be older than the index or *)
(* belong to another tab.                                                  *)
ZoomInside ==
  Zoom # None => Full[1] <= Zoom[1] /\ Zoom[1] <= Zoom[2] /\ Zoom[2] <= Full[2]
=============================================================================
