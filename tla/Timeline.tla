------------------------------ MODULE Timeline ------------------------------
(***************************************************************************)
(* The timeline of a view (mgi-pulse-core/src/engine/histogram.rs) and the *)
(* arithmetic of its scrub (pulse-tui/src/app/mod.rs), as operators.       *)
(*                                                                         *)
(* A histogram is [rows, bins, t_min, t_max]: the records it was built     *)
(* over, the number of its bins, and the span they divide, t_max excluded. *)
(* The tally of a bin is that of the timed rows that fall into it.  Times  *)
(* are far from the ends of i64, so its saturation does not show.          *)
(***************************************************************************)
EXTENDS Integers, FiniteSets, FiniteSetsExt

CONSTANTS
  DefaultBins,   (* DEFAULT_SCRUB_BINS *)
  None           (* an absent zoom, range, scrub or histogram *)

ASSUME TimelineAssumption == DefaultBins \in Nat \ {0}

(* A record without a timestamp. *)
Untimed == -1

AtLeast(a, b) == IF a >= b THEN a ELSE b
AtMost(a, b) == IF a <= b THEN a ELSE b

NoBins(rows) == [rows |-> rows, bins |-> 0, t_min |-> 0, t_max |-> 0]

Timed(ts, rows) == {r \in rows : ts[r] # Untimed}

(* Histogram::build_over: the bins span the timed rows. *)
BuildOver(ts, rows, bars) ==
  LET times == {ts[r] : r \in Timed(ts, rows)}
  IN  IF bars = 0 \/ times = {} THEN NoBins(rows)
      ELSE [rows |-> rows, bins |-> bars, t_min |-> Min(times), t_max |-> Max(times) + 1]

(* Histogram::build_over_range: they span a window, both ends included. *)
BuildOverRange(rows, bars, lo, hi) ==
  IF bars = 0 \/ rows = {} \/ hi < lo THEN NoBins(rows)
  ELSE [rows |-> rows, bins |-> bars, t_min |-> lo, t_max |-> hi + 1]

Span(h) == AtLeast(h.t_max - h.t_min, 1)

-----------------------------------------------------------------------------
(* Faulty: the window is not pushed back into the data. *)
ZoomedUnclamped(h, bin, zoom, full, dir) ==
  LET bins     == AtLeast(h.bins, 1)
      cur      == AtMost(bin, bins - 1)
      anchor   == h.t_min + cur * (Span(h) \div bins) + (Span(h) \div bins) \div 2
      window   == IF zoom # None THEN zoom ELSE <<h.t_min, h.t_max - 1>>
      width    == AtLeast(window[2] - window[1], 1)
      wanted   == IF dir = "in" THEN AtLeast(width \div 2, 1) ELSE width * 2
      new      == AtMost(wanted, full[2] - full[1])
      lo       == anchor - new \div 2
      hi       == anchor + new - new \div 2
  IN  IF lo <= full[1] /\ hi >= full[2] THEN None ELSE <<lo, hi>>

(* handle_scrub_zoom: half or twice the window, around the middle of the   *)
(* bin under the cursor, pushed back into the range of all records; no     *)
(* zoom if that is all of it.                                              *)
Zoomed(h, bin, zoom, full, dir) ==
  LET bins     == AtLeast(h.bins, 1)
      cur      == AtMost(bin, bins - 1)
      bin_span == Span(h) \div bins
      anchor   == h.t_min + cur * bin_span + bin_span \div 2
      window   == IF zoom # None THEN zoom ELSE <<h.t_min, h.t_max - 1>>
      width    == AtLeast(window[2] - window[1], 1)
      wanted   == IF dir = "in" THEN AtLeast(width \div 2, 1) ELSE width * 2
      new      == AtMost(wanted, full[2] - full[1])
      lo0      == anchor - new \div 2
      hi0      == anchor + new - new \div 2
      lo1      == AtLeast(lo0, full[1])
      hi1      == IF lo0 < full[1] THEN AtMost(hi0 + full[1] - lo0, full[2]) ELSE hi0
      hi       == AtMost(hi1, full[2])
      lo       == IF hi1 > full[2] THEN AtLeast(lo1 - (hi1 - full[2]), full[1]) ELSE lo1
  IN  IF lo <= full[1] /\ hi >= full[2] THEN None ELSE <<lo, hi>>

(* handle_scrub_apply: the range that Enter filters by is the zoom window, *)
(* or else the bin under the cursor.                                       *)
Picked(h, bin, zoom) ==
  LET bins     == AtLeast(h.bins, 1)
      cur      == AtMost(bin, bins - 1)
      bin_span == AtLeast(Span(h) \div bins, 1)
      start    == h.t_min + cur * bin_span
  IN  IF zoom # None THEN zoom ELSE <<start, start + bin_span - 1>>

=============================================================================
