---------------------------- MODULE ViewsProofs ----------------------------
(***************************************************************************)
(* What the tabs show, for any log, any filters, any size of the screen    *)
(* and of the timeline: the right rows, the cursor among them, a histogram *)
(* of them, and a zoom that stays within the times there are.              *)
(***************************************************************************)
EXTENDS Views, FiniteSetTheorems, SequenceTheorems, WellFoundedInduction, TLAPS

-----------------------------------------------------------------------------
(* A set of naturals has a least element, *)
LEMMA Least ==
  ASSUME NEW T \in SUBSET Nat, T # {}
  PROVE  Min(T) \in T /\ \A y \in T : Min(T) <= y
<1> DEFINE R == OpToRel(<, Nat)
<1>1. IsWellFoundedOn(R, Nat)
  BY NatLessThanWellFounded
<1>2. \A x, y \in Nat : x < y => <<x, y>> \in R
  BY DEF OpToRel
<1> HIDE DEF R
<1>3. PICK x \in T : \A y \in T : ~(<<y, x>> \in R)
  BY <1>1, WFMin, Zenon
<1>4. ASSUME NEW y \in T PROVE x <= y
  <2>1. x \in Nat /\ y \in Nat
    OBVIOUS
  <2>2. ~(y < x)
    BY <1>2, <1>3, <2>1
  <2> QED BY <2>1, <2>2
<1> QED BY <1>4 DEF Min

(* and a greatest one if it is finite: few are above it. *)
LEMMA Greatest ==
  ASSUME NEW T \in SUBSET Int, IsFiniteSet(T), T # {}
  PROVE  Max(T) \in T /\ \A y \in T : Max(T) >= y
<1> DEFINE Above(x) == {y \in T : y > x}
           U == {Cardinality(Above(x)) : x \in T}
<1>1. ASSUME NEW x \in T PROVE IsFiniteSet(Above(x)) /\ Cardinality(Above(x)) \in Nat
  <2>1. Above(x) \in SUBSET T
    OBVIOUS
  <2> HIDE DEF Above
  <2> QED BY <2>1, FS_Subset, FS_CardinalityType
<1>2. U \in SUBSET Nat /\ U # {}
  <2> HIDE DEF Above
  <2> QED BY <1>1
<1>3. PICK u \in U : \A y \in U : u <= y
  BY <1>2, Least
<1>4. PICK x \in T : u = Cardinality(Above(x))
  OBVIOUS
<1>5. ASSUME NEW y \in T PROVE x >= y
  <2>1. SUFFICES ASSUME y > x PROVE FALSE
    OBVIOUS
  <2>2. y \in Above(x) /\ y \notin Above(y) /\ Above(y) \in SUBSET Above(x)
    <3>1. x \in Int /\ y \in Int /\ \A w \in T : w \in Int
      OBVIOUS
    <3>2. \A w \in T : w > y => w > x
      BY <2>1, <3>1
    <3>3. y \in Above(x)
      BY <2>1
    <3>4. ~(y > y)
      BY <3>1
    <3>5. y \notin Above(y)
      BY <3>4
    <3>6. ASSUME NEW w \in Above(y) PROVE w \in Above(x)
      BY <3>2
    <3> HIDE DEF Above
    <3> QED BY <3>3, <3>5, <3>6
  <2>3. Cardinality(Above(x)) <= Cardinality(Above(y))
    BY <1>3, <1>4
  <2> HIDE DEF Above
  <2>4. /\ Cardinality(Above(y)) <= Cardinality(Above(x))
        /\ Cardinality(Above(x)) = Cardinality(Above(y)) => Above(x) = Above(y)
    BY <1>1, <2>2, FS_Subset
  <2> QED BY <1>1, <2>2, <2>3, <2>4
<1> QED BY <1>5 DEF Max

-----------------------------------------------------------------------------
(* Positions count the rows before. *)
LEMMA PosType ==
  ASSUME NEW n \in Nat, NEW S \in SUBSET Rows(n)
  PROVE  /\ IsFiniteSet(S) /\ Cardinality(S) \in Nat
         /\ \A r : Pos(S, r) \in Nat
         /\ \A r \in S : Pos(S, r) < Cardinality(S)
<1>1. IsFiniteSet(Rows(n))
  BY FS_Interval DEF Rows
<1>2. IsFiniteSet(S) /\ Cardinality(S) \in Nat
  BY <1>1, FS_Subset, FS_CardinalityType
<1>3. ASSUME NEW r PROVE Pos(S, r) \in Nat
  <2>1. {q \in S : q < r} \in SUBSET S
    OBVIOUS
  <2> QED BY <1>2, <2>1, FS_Subset, FS_CardinalityType DEF Pos
<1>4. ASSUME NEW r \in S PROVE Pos(S, r) < Cardinality(S)
  <2> DEFINE B == {q \in S : q < r}
  <2>1. r \in Nat /\ r \notin B /\ B \in SUBSET S /\ B # S
    BY DEF Rows
  <2> HIDE DEF B
  <2>2. Cardinality(B) <= Cardinality(S) /\ Cardinality(B) # Cardinality(S)
    BY <1>2, <2>1, FS_Subset
  <2>3. Pos(S, r) = Cardinality(B)
    BY DEF Pos, B
  <2> QED BY <1>2, <1>3, <2>2, <2>3
<1> QED BY <1>2, <1>3, <1>4

(* A row further down has a greater position. *)
LEMMA PosLess ==
  ASSUME NEW n \in Nat, NEW S \in SUBSET Rows(n), NEW q \in S, NEW r \in S, q < r
  PROVE  Pos(S, q) < Pos(S, r)
<1> DEFINE A == {x \in S : x < q}
           B == {x \in S : x < r}
<1>1. \A x \in S : x \in Nat
  BY DEF Rows
<1>2. q \in B /\ q \notin A /\ A \in SUBSET B /\ B \in SUBSET S
  BY <1>1
<1>3. Pos(S, q) = Cardinality(A) /\ Pos(S, r) = Cardinality(B)
  BY DEF Pos
<1> HIDE DEF A, B
<1>4. IsFiniteSet(B)
  BY <1>2, PosType, FS_Subset
<1>5. Cardinality(A) <= Cardinality(B) /\ Cardinality(A) # Cardinality(B)
  BY <1>2, <1>4, FS_Subset
<1> QED BY <1>3, <1>5, PosType

(* There is a row at every position. *)
LEMMA NthIs ==
  ASSUME NEW n \in Nat, NEW S \in SUBSET Rows(n), NEW i \in 0 .. Cardinality(S) - 1
  PROVE  Nth(S, i) \in S /\ Pos(S, Nth(S, i)) = i
<1> DEFINE f == [r \in S |-> Pos(S, r)]
           T == 0 .. Cardinality(S) - 1
<1>1. f \in [S -> T]
  BY PosType
<1>2. ASSUME NEW a \in S, NEW b \in S, f[a] = f[b] PROVE a = b
  <2>1. a \in Nat /\ b \in Nat
    BY DEF Rows
  <2>2. f[a] = Pos(S, a) /\ f[b] = Pos(S, b) /\ Pos(S, a) \in Nat /\ Pos(S, b) \in Nat
    BY PosType
  <2>3. ~(a < b) /\ ~(b < a)
    BY <1>2, <2>2, PosLess
  <2> QED BY <2>1, <2>3
<1>3. \A r \in S : f[r] = Pos(S, r)
  OBVIOUS
<1>4. IsFiniteSet(T) /\ Cardinality(T) = Cardinality(S) /\ IsFiniteSet(S)
  <2>1. Cardinality(S) \in Nat /\ IsFiniteSet(S)
    BY PosType
  <2> QED BY <2>1, FS_Interval
<1> HIDE DEF f
<1>5. f \in Injection(S, T)
  <2>1. DOMAIN f = S
    BY <1>1
  <2> QED BY <1>1, <1>2, <2>1 DEF Injection, IsInjective
<1>6. f \in Surjection(S, T)
  BY <1>4, <1>5, FS_Injection
<1>7. PICK r \in S : f[r] = i
  BY <1>6 DEF Surjection
<1> QED BY <1>3, <1>7 DEF Nth

(* The last row has the last position. *)
LEMMA LastPos ==
  ASSUME NEW n \in Nat, NEW S \in SUBSET Rows(n), S # {}
  PROVE  Max(S) \in S /\ Pos(S, Max(S)) = Cardinality(S) - 1
<1>1. S \in SUBSET Int /\ S \in SUBSET Nat /\ IsFiniteSet(S)
  BY PosType DEF Rows
<1>2. PICK m : m = Max(S)
  OBVIOUS
<1>3. m \in S /\ \A y \in S : m >= y
  BY <1>1, <1>2, Greatest
<1>4. {q \in S : q < m} = S \ {m}
  <2>1. m \in Nat /\ \A q \in S : q \in Nat
    BY <1>1, <1>3
  <2>2. \A q \in S : q < m <=> q # m
    BY <1>3, <2>1
  <2> QED BY <2>2
<1>5. Cardinality(S \ {m}) = Cardinality(S) - 1
  BY <1>3, PosType, FS_RemoveElement
<1> QED BY <1>2, <1>3, <1>4, <1>5 DEF Pos

-----------------------------------------------------------------------------
(* What holds of a view, a histogram and the zoom, whatever came before.   *)
Histogram(rows) == [rows : {rows}, bins : Nat, t_min : Int, t_max : Int]

Field == {"rows", "cursor", "top", "regex", "dsl", "fields", "levels", "min_mode", "range",
          "cache", "bookmarks"}

IsView(v) == v = [x \in Field |-> v[x]]

(* A cached histogram is what its view's rows make of it.                  *)
Cached(rows) ==
  {c \in [hist : Histogram(rows), bars : Nat, over : (Int \X Int) \cup {None}, left : BOOLEAN] :
     c.hist = Built(rows, c.bars, c.over)}

OnScreen(rows, c, t) ==
  /\ c \in rows /\ t \in rows
  /\ Pos(rows, c) - Pos(rows, t) \in 0 .. Visible - 1

(* The part that a change of the filters leaves alone, *)
Sound(v, n, z) ==
  /\ IsView(v)
  /\ v.rows \subseteq Rows(n)
  /\ v.cache # None =>
       /\ v.cache \in Cached(v.rows)
       /\ z = None => v.cache.over = None \/ v.cache.left
  /\ v.rows # {} => OnScreen(v.rows, v.cursor, v.top)
  /\ n = 0 => v.cursor = 0 /\ v.top = 0

(* and the part that the rebuild restores. *)
Good(v, n, z) ==
  /\ Sound(v, n, z)
  /\ v.regex # BadRegex => v.rows = Matching(v, n)

Tabs(s, n, z) == \E S : s \in Seq(S) /\ \A v \in S : Good(v, n, z)

Times(n) == {Ts[r] : r \in Timed(Ts, Rows(n))}

Inside(z, n) ==
  /\ z \in Int \X Int /\ Times(n) # {}
  /\ Min(Times(n)) <= z[1] /\ z[1] <= z[2] /\ z[2] <= Max(Times(n))

ScrubGood(s, n) ==
  s # None =>
    /\ s = [bin |-> s.bin, zoom |-> s.zoom]
    /\ s.bin \in Nat
    /\ s.zoom # None => Inside(s.zoom, n)

Whole ==
  /\ total \in 0 .. Len(Log)
  /\ Tabs(views, total, Zoom) /\ Len(views) > 0
  /\ phase \in {"tick", "drawn"} => active_tab \in DOMAIN views
  /\ phase = "drawn" =>
       /\ V.cache # None /\ V.cache.bars = screen.bars
       /\ V.cache.over = Zoom \/ (Zoom = None /\ V.cache.left)
  /\ wheel \in Int
  /\ screen \in Screens
  /\ ScrubGood(scrub, total)

-----------------------------------------------------------------------------
(* A record has a time or none. *)
LEMMA TsType == \A r \in Rows(Len(Log)) : Ts[r] \in Nat \cup {Untimed}
<1> SUFFICES ASSUME NEW r \in Rows(Len(Log)) PROVE Ts[r] \in Nat \cup {Untimed}
  OBVIOUS
<1>1. Log \in Seq([ts : Nat \cup {Untimed}, sev : 0 .. MaxSev, text : Texts])
  BY ViewsAssumption
<1>2. Len(Log) \in Nat
  BY <1>1, LenProperties
<1>3. r \in 0 .. Len(Log) - 1 /\ r + 1 \in 1 .. Len(Log)
  BY <1>2 DEF Rows
<1>4. Log[r + 1] \in [ts : Nat \cup {Untimed}, sev : 0 .. MaxSev, text : Texts]
  BY <1>1, <1>3, ElementOfSeq
<1>5. Ts[r] = Log[r + 1].ts
  BY <1>3 DEF Ts
<1> QED BY <1>4, <1>5

(* The times of some rows are finitely many naturals. *)
LEMMA TimesOf ==
  ASSUME NEW n \in 0 .. Len(Log), NEW S \in SUBSET Rows(n)
  PROVE  LET times == {Ts[r] : r \in Timed(Ts, S)}
         IN  times \in SUBSET Nat /\ IsFiniteSet(times)
<1> DEFINE times == {Ts[r] : r \in Timed(Ts, S)}
           f == [r \in Timed(Ts, S) |-> Ts[r]]
<1>1. Len(Log) \in Nat
  BY ViewsAssumption, LenProperties
<1>2. Rows(n) \subseteq Rows(Len(Log)) /\ n \in Nat
  BY <1>1 DEF Rows
<1>3. Timed(Ts, S) \subseteq S
  BY DEF Timed
<1>4. times \in SUBSET Nat
  BY <1>2, <1>3, TsType DEF Timed
<1>5. f \in Surjection(Timed(Ts, S), times)
  BY DEF Surjection
<1>6. IsFiniteSet(Timed(Ts, S))
  BY <1>2, <1>3, PosType, FS_Subset
<1>7. IsFiniteSet(times)
  <2> HIDE DEF f, times
  <2> QED BY <1>5, <1>6, FS_Surjection
<1> QED BY <1>4, <1>7

(* A histogram of some rows is a histogram. *)
LEMMA Builds ==
  ASSUME NEW n \in 0 .. Len(Log), NEW S \in SUBSET Rows(n), NEW bars \in Nat
  PROVE  /\ BuildOver(Ts, S, bars) \in Histogram(S)
         /\ \A lo, hi \in Int : BuildOverRange(S, bars, lo, hi) \in Histogram(S)
<1>1. NoBins(S) \in Histogram(S)
  BY DEF NoBins, Histogram
<1>2. BuildOver(Ts, S, bars) \in Histogram(S)
  <2> DEFINE times == {Ts[r] : r \in Timed(Ts, S)}
  <2>1. CASE bars = 0 \/ times = {}
    BY <1>1, <2>1 DEF BuildOver
  <2>2. CASE bars # 0 /\ times # {}
    <3>1. times \in SUBSET Nat /\ IsFiniteSet(times) /\ times \in SUBSET Int
      BY TimesOf
    <3>2. BuildOver(Ts, S, bars) =
            [rows |-> S, bins |-> bars, t_min |-> Min(times), t_max |-> Max(times) + 1]
      BY <2>2 DEF BuildOver
    <3> HIDE DEF times
    <3>3. Min(times) \in Nat /\ Max(times) \in Nat
      BY <2>2, <3>1, Least, Greatest
    <3> QED BY <3>2, <3>3 DEF Histogram
  <2> QED BY <2>1, <2>2
<1>3. ASSUME NEW lo \in Int, NEW hi \in Int
      PROVE  BuildOverRange(S, bars, lo, hi) \in Histogram(S)
  <2>1. CASE bars = 0 \/ S = {} \/ hi < lo
    BY <1>1, <2>1 DEF BuildOverRange
  <2>2. CASE ~(bars = 0 \/ S = {} \/ hi < lo)
    BY <2>2 DEF BuildOverRange, Histogram
  <2> QED BY <2>1, <2>2
<1> QED BY <1>2, <1>3

(* None is no cached histogram. *)
LEMMA Kept ==
  ASSUME NEW n \in Nat, NEW S \in SUBSET Rows(n),
         NEW c \in [hist : Histogram(S), bars : Nat, over : (Int \X Int) \cup {None},
                    left : BOOLEAN]
  PROVE  c # None
<1>1. S \in SUBSET Nat
  BY DEF Rows
<1>2. c \in [hist : [rows : SUBSET Nat, bins : Nat, t_min : Int, t_max : Int],
             bars : Nat, over : (Int \X Int) \cup {None}, left : BOOLEAN]
  BY <1>1 DEF Histogram
<1> QED BY <1>2, ViewsAssumption

(* What the zoom keys compute. *)
LEMMA Clamps ==
  ASSUME NEW n \in 0 .. Len(Log), Times(n) # {}, NEW S, NEW h \in Histogram(S), NEW bin \in Nat,
         NEW z, z # None => z \in Int \X Int, NEW dir
  PROVE  LET new == Zoomed(h, bin, z, <<Min(Times(n)), Max(Times(n))>>, dir)
         IN  new # None => Inside(new, n)
<1>1. /\ Times(n) \in SUBSET Nat /\ IsFiniteSet(Times(n)) /\ Times(n) \in SUBSET Int
  <2>1. Rows(n) \in SUBSET Rows(n)
    OBVIOUS
  <2>2. Times(n) \in SUBSET Nat /\ IsFiniteSet(Times(n))
    BY <2>1, TimesOf DEF Times
  <2> QED BY <2>2
<1>2. PICK full : full = <<Min(Times(n)), Max(Times(n))>>
  OBVIOUS
<1>3. full[1] = Min(Times(n)) /\ full[2] = Max(Times(n))
  BY <1>2
<1>4. full[1] \in Nat /\ full[2] \in Nat /\ full[1] <= full[2]
  BY <1>1, <1>3, Least, Greatest
<1> DEFINE bins     == AtLeast(h.bins, 1)
           cur      == AtMost(bin, bins - 1)
           bin_span == Span(h) \div bins
           anchor   == h.t_min + cur * bin_span + bin_span \div 2
           window   == IF z # None THEN z ELSE <<h.t_min, h.t_max - 1>>
           width_   == AtLeast(window[2] - window[1], 1)
           wanted   == IF dir = "in" THEN AtLeast(width_ \div 2, 1) ELSE width_ * 2
           new      == AtMost(wanted, full[2] - full[1])
<1>5. bins \in Nat /\ bins > 0 /\ h.t_min \in Int /\ h.t_max \in Int
  BY DEF Histogram, AtLeast
<1>6. anchor \in Int
  <2>1. Span(h) \in Int /\ cur \in Int
    BY <1>5 DEF Span, AtLeast, AtMost
  <2> HIDE DEF bins, cur
  <2>2. bin_span \in Int
    BY <1>5, <2>1
  <2> HIDE DEF bin_span
  <2>3. bin_span \div 2 \in Int /\ cur * bin_span \in Int
    BY <2>1, <2>2
  <2> QED BY <1>5, <2>3
<1>7. new \in Nat /\ new <= full[2] - full[1]
  <2>1. window[1] \in Int /\ window[2] \in Int
    BY <1>5
  <2> HIDE DEF window
  <2>2. width_ \in Nat /\ width_ >= 1
    BY <2>1 DEF AtLeast
  <2> HIDE DEF width_
  <2>3. width_ \div 2 \in Int /\ width_ * 2 \in Nat /\ width_ * 2 >= 1
    BY <2>2
  <2>4. wanted \in Nat
    BY <2>3 DEF AtLeast
  <2> HIDE DEF wanted
  <2> QED BY <1>4, <2>4 DEF AtMost
<1> DEFINE lo0 == anchor - new \div 2
           hi0 == anchor + new - new \div 2
           lo1 == AtLeast(lo0, full[1])
           hi1 == IF lo0 < full[1] THEN AtMost(hi0 + full[1] - lo0, full[2]) ELSE hi0
           hi  == AtMost(hi1, full[2])
           lo  == IF hi1 > full[2] THEN AtLeast(lo1 - (hi1 - full[2]), full[1]) ELSE lo1
<1>8. Zoomed(h, bin, z, full, dir) =
        IF lo <= full[1] /\ hi >= full[2] THEN None ELSE <<lo, hi>>
  BY DEF Zoomed
<1> HIDE DEF anchor, new
<1>9. lo0 \in Int /\ hi0 \in Int /\ hi0 = lo0 + new
  <2>1. new \div 2 \in Int
    BY <1>7
  <2> QED BY <1>6, <1>7, <2>1
<1> HIDE DEF lo0, hi0
<1>10. lo \in Int /\ hi \in Int /\ full[1] <= lo /\ lo <= hi /\ hi <= full[2]
  <2>1. CASE lo0 < full[1]
    <3>1. lo1 = full[1]
      BY <1>4, <1>9, <2>1 DEF AtLeast
    <3>2. hi1 \in Int /\ full[1] <= hi1 /\ hi1 <= full[2]
      BY <1>4, <1>7, <1>9, <2>1 DEF AtMost
    <3> HIDE DEF lo1, hi1
    <3>3. hi = hi1 /\ lo = lo1
      BY <1>4, <3>2 DEF AtMost
    <3> QED BY <1>4, <3>1, <3>2, <3>3
  <2>2. CASE ~(lo0 < full[1])
    <3>1. lo1 = lo0 /\ hi1 = hi0
      BY <1>4, <1>9, <2>2 DEF AtLeast
    <3> HIDE DEF lo1, hi1
    <3>2. CASE hi1 > full[2]
      <4>1. lo1 - (hi1 - full[2]) = full[2] - new
        BY <1>4, <1>7, <1>9, <3>1
      <4>2. lo = full[2] - new /\ hi = full[2]
        BY <1>4, <1>7, <1>9, <3>1, <3>2, <4>1 DEF AtLeast, AtMost
      <4> QED BY <1>4, <1>7, <4>2
    <3>3. CASE ~(hi1 > full[2])
      <4>1. lo = lo0 /\ hi = hi0
        BY <1>4, <1>9, <3>1, <3>3 DEF AtMost
      <4> QED BY <1>4, <1>7, <1>9, <2>2, <3>1, <3>3, <4>1
    <3> QED BY <3>2, <3>3
  <2> QED BY <2>1, <2>2
<1> HIDE DEF lo, hi
<1> QED BY <1>2, <1>3, <1>8, <1>10 DEF Inside

-----------------------------------------------------------------------------
(* Two views with the same filters let the same records through. *)
SameFilter(v, w) ==
  /\ w.regex = v.regex /\ w.dsl = v.dsl /\ w.fields = v.fields
  /\ w.levels = v.levels /\ w.min_mode = v.min_mode /\ w.range = v.range

(* The filters alone decide. *)
LEMMA SameMatching ==
  ASSUME NEW v, NEW w, SameFilter(v, w), NEW n
  PROVE  Matching(w, n) = Matching(v, n)
<1>1. Levels(w) = Levels(v)
  BY DEF SameFilter, Levels
<1> QED BY <1>1 DEF SameFilter, Matching

(* Where the cursor lands after a change of the filters. *)
LEMMA SnapIs ==
  ASSUME NEW n \in Nat, NEW S \in SUBSET Rows(n), S # {}, NEW c
  PROVE  Snap(S, c) \in S
<1> DEFINE before == {r \in S : r <= c}
<1>1. S \in SUBSET Nat /\ IsFiniteSet(S)
  <2>1. IsFiniteSet(S)
    BY PosType
  <2> QED BY <2>1 DEF Rows
<1>2. before \in SUBSET S
  OBVIOUS
<1>3. Snap(S, c) = IF before # {} THEN Max(before) ELSE Min(S)
  BY DEF Snap
<1> HIDE DEF before
<1>4. before \in SUBSET Int /\ IsFiniteSet(before)
  <2>1. IsFiniteSet(before)
    BY <1>1, <1>2, FS_Subset
  <2> QED BY <1>1, <1>2, <2>1
<1> QED BY <1>1, <1>2, <1>3, <1>4, Least, Greatest

(* A row is on a screen that begins with it. *)
LEMMA Top ==
  ASSUME NEW n \in Nat, NEW S \in SUBSET Rows(n), NEW r \in S
  PROVE  OnScreen(S, r, r)
<1>1. Pos(S, r) \in Nat /\ Visible \in Nat \ {0}
  BY PosType, ViewsAssumption
<1>2. Pos(S, r) - Pos(S, r) \in 0 .. Visible - 1
  BY <1>1
<1> QED BY <1>2 DEF OnScreen

(* The number of records fits the log. *)
LEMMA LogType ==
  ASSUME NEW n \in 0 .. Len(Log)
  PROVE  n \in Nat /\ Len(Log) \in Nat
<1>1. Len(Log) \in Nat
  BY ViewsAssumption, LenProperties
<1> QED BY <1>1

(* A rebuilt view is good, whatever its filters were changed to. *)
LEMMA RebuiltGood ==
  ASSUME NEW z, NEW n \in 0 .. Len(Log), NEW v, Sound(v, n, z)
  PROVE  Good(Rebuilt(v, n), n, z)
<1>1. CASE v.regex = BadRegex
  BY <1>1 DEF Rebuilt, Good
<1>2. CASE v.regex # BadRegex
  <2> DEFINE rows == Matching(v, n)
             snap == IF rows = {} THEN v.cursor ELSE Snap(rows, v.cursor)
             top  == IF rows = {} THEN v.top ELSE snap
             w    == [v EXCEPT !.rows = rows, !.cursor = snap, !.top = top, !.cache = None]
  <2>1. Rebuilt(v, n) = w
    BY <1>2 DEF Rebuilt
  <2>2. rows \in SUBSET Rows(n) /\ n \in Nat
    BY LogType DEF Matching
  <2> HIDE DEF rows
  <2>3. rows # {} => OnScreen(rows, snap, top)
    BY <2>2, SnapIs, Top
  <2>4. n = 0 => snap = 0 /\ top = 0
    BY <2>2 DEF Sound, Rows
  <2> HIDE DEF snap, top
  <2>5. /\ IsView(w) /\ w.rows = rows /\ w.cursor = snap /\ w.top = top /\ w.cache = None
        /\ SameFilter(v, w)
    BY DEF Sound, IsView, Field, SameFilter
  <2> HIDE DEF w
  <2>6. Matching(w, n) = rows
    BY <2>5, SameMatching DEF rows
  <2> QED BY <2>1, <2>2, <2>3, <2>4, <2>5, <2>6 DEF Good, Sound
<1> QED BY <1>1, <1>2

(* A view without filters shows every record, and is the only one that     *)
(* NoFilter lets grow by the new rows.                                     *)
LEMMA UnfilteredAll ==
  ASSUME NEW v, NoFilter(v), NEW n
  PROVE  Matching(v, n) = Rows(n) /\ v.regex # BadRegex
BY ViewsAssumption DEF NoFilter, Matching

(* New records do not move the old ones. *)
LEMMA GrownScreen ==
  ASSUME NEW m \in Nat, NEW n \in Nat, m <= n, NEW c, NEW t,
         Rows(m) # {} => OnScreen(Rows(m), c, t), m = 0 => c = 0 /\ t = 0, n # 0
  PROVE  OnScreen(Rows(n), c, t)
<1>1. CASE m = 0
  <2>1. 0 \in Rows(n) /\ c = 0 /\ t = 0
    BY <1>1 DEF Rows
  <2> QED BY <2>1, Top
<1>2. CASE m # 0
  <2>1. OnScreen(Rows(m), c, t) /\ Rows(m) \subseteq Rows(n)
    BY <1>2 DEF Rows
  <2>2. ASSUME NEW r \in Rows(m) PROVE Pos(Rows(n), r) = Pos(Rows(m), r)
    <3>1. {q \in Rows(n) : q < r} = {q \in Rows(m) : q < r}
      BY <2>2 DEF Rows
    <3> QED BY <3>1 DEF Pos
  <2> QED BY <2>1, <2>2 DEF OnScreen
<1> QED BY <1>1, <1>2

(* A view that took in the new records is good again. *)
LEMMA GrownGood ==
  ASSUME NEW z, NEW m \in 0 .. Len(Log), NEW n \in m .. Len(Log), NEW v, Good(v, m, z)
  PROVE  Good(Grown(v, n), n, z)
<1> DEFINE w == [v EXCEPT !.cache = None]
<1>1. m \in Nat /\ n \in Nat /\ m <= n /\ n \in 0 .. Len(Log)
  BY LogType
<1>2. /\ IsView(w) /\ w.rows = v.rows /\ w.cursor = v.cursor /\ w.top = v.top /\ w.cache = None
      /\ SameFilter(v, w)
  BY DEF Good, Sound, IsView, Field, SameFilter
<1>3. Rows(m) \subseteq Rows(n)
  BY <1>1 DEF Rows
<1>4. CASE NoFilter(v)
  <2> DEFINE x == [w EXCEPT !.rows = @ \cup Cardinality(@) .. n - 1]
  <2>1. Grown(v, n) = x
    BY <1>4 DEF Grown
  <2>2. v.rows = Rows(m)
    BY <1>4, UnfilteredAll DEF Good
  <2>3. Cardinality(Rows(m)) = m
    BY <1>1, FS_Interval DEF Rows
  <2>4. Rows(m) \cup m .. n - 1 = Rows(n)
    BY <1>1 DEF Rows
  <2>5. w.rows \cup Cardinality(w.rows) .. n - 1 = Rows(n)
    BY <1>2, <2>2, <2>3, <2>4
  <2> HIDE DEF w
  <2>6. /\ IsView(x) /\ x.rows = Rows(n) /\ x.cursor = v.cursor /\ x.top = v.top /\ x.cache = None
        /\ SameFilter(v, x)
    BY <1>2, <2>5 DEF IsView, Field, SameFilter
  <2> HIDE DEF x
  <2>7. Matching(x, n) = Rows(n)
    BY <1>4, <2>6, SameMatching, UnfilteredAll
  <2>8. /\ Rows(m) # {} => OnScreen(Rows(m), v.cursor, v.top)
        /\ m = 0 => v.cursor = 0 /\ v.top = 0
    BY <2>2 DEF Good, Sound
  <2>9. n # 0 => OnScreen(Rows(n), v.cursor, v.top)
    BY <1>1, <2>8, GrownScreen
  <2>10. n = 0 => Rows(n) = {} /\ m = 0
    BY <1>1 DEF Rows
  <2> QED BY <2>1, <2>6, <2>7, <2>8, <2>9, <2>10 DEF Good, Sound
<1>5. CASE ~NoFilter(v)
  <2>1. Grown(v, n) = Rebuilt(w, n)
    BY <1>5 DEF Grown
  <2>2. n = 0 => m = 0
    BY <1>1
  <2> HIDE DEF w
  <2>3. Sound(w, n, z)
    BY <1>2, <1>3, <2>2 DEF Good, Sound
  <2> QED BY <1>1, <2>1, <2>3, RebuiltGood
<1> QED BY <1>4, <1>5

-----------------------------------------------------------------------------
(* A view whose cursor went to another row of the screen is as good. *)
LEMMA MovesGood ==
  ASSUME NEW z, NEW n \in 0 .. Len(Log), NEW v, Good(v, n, z), v.rows # {},
         NEW w, IsView(w), SameFilter(v, w), w.rows = v.rows, w.cache = v.cache,
         OnScreen(v.rows, w.cursor, w.top)
  PROVE  Good(w, n, z)
<1>1. n # 0
  BY DEF Good, Sound, Rows
<1>2. Matching(w, n) = Matching(v, n) /\ w.regex = v.regex
  BY SameMatching DEF SameFilter
<1> QED BY <1>1, <1>2 DEF Good, Sound

(* ensure_cursor_visible puts the cursor on the screen. *)
LEMMA ScrolledShows ==
  ASSUME NEW n \in 0 .. Len(Log), NEW v, IsView(v), v.rows \subseteq Rows(n),
         v.cursor \in v.rows, v.top \in v.rows
  PROVE  LET w == Scrolled(v)
         IN  /\ IsView(w) /\ SameFilter(v, w) /\ w.rows = v.rows /\ w.cache = v.cache
             /\ OnScreen(v.rows, w.cursor, w.top)
<1> DEFINE top == Pos(v.rows, v.top)
           cur == Pos(v.rows, v.cursor)
<1>1. /\ n \in Nat /\ v.rows \in SUBSET Rows(n) /\ Visible \in Nat \ {0}
  BY LogType, ViewsAssumption
<1>2. /\ top \in Nat /\ cur \in Nat /\ Cardinality(v.rows) \in Nat
      /\ cur < Cardinality(v.rows)
  BY <1>1, PosType
<1>3. ASSUME NEW t, OnScreen(v.rows, v.cursor, t), Scrolled(v) = [v EXCEPT !.top = t]
      PROVE  LET w == Scrolled(v)
             IN  /\ IsView(w) /\ SameFilter(v, w) /\ w.rows = v.rows /\ w.cache = v.cache
                 /\ OnScreen(v.rows, w.cursor, w.top)
  <2> DEFINE w == [v EXCEPT !.top = t]
  <2>1. /\ IsView(w) /\ SameFilter(v, w) /\ w.rows = v.rows /\ w.cache = v.cache
        /\ w.cursor = v.cursor /\ w.top = t
    BY DEF IsView, Field, SameFilter
  <2> HIDE DEF w
  <2>2. Scrolled(v) = w
    BY <1>3 DEF w
  <2> QED BY <1>3, <2>1, <2>2
<1>4. CASE cur < top
  <2>1. Scrolled(v) = [v EXCEPT !.top = v.cursor]
    BY <1>4 DEF Scrolled
  <2> QED BY <1>1, <1>3, <2>1, Top
<1>5. CASE ~(cur < top) /\ cur >= top + Visible
  <2> DEFINE t == Nth(v.rows, cur + 1 - Visible)
  <2>1. cur + 1 - Visible \in 0 .. Cardinality(v.rows) - 1
    BY <1>1, <1>2, <1>5
  <2>2. t \in v.rows /\ Pos(v.rows, t) = cur + 1 - Visible
    BY <1>1, <2>1, NthIs
  <2>3. cur - (cur + 1 - Visible) \in 0 .. Visible - 1
    BY <1>1, <1>2
  <2>4. OnScreen(v.rows, v.cursor, t)
    BY <2>2, <2>3 DEF OnScreen
  <2>5. Scrolled(v) = [v EXCEPT !.top = t]
    BY <1>5 DEF Scrolled
  <2> QED BY <1>3, <2>4, <2>5
<1>6. CASE ~(cur < top) /\ ~(cur >= top + Visible)
  <2>1. Scrolled(v) = v
    BY <1>6 DEF Scrolled
  <2>2. cur - top \in 0 .. Visible - 1
    BY <1>1, <1>2, <1>6
  <2> QED BY <2>1, <2>2 DEF OnScreen, SameFilter
<1> QED BY <1>4, <1>5, <1>6

(* The arrow keys and the wheel. *)
LEMMA MovedGood ==
  ASSUME NEW z, NEW n \in 0 .. Len(Log), NEW v, Good(v, n, z), NEW delta \in Int
  PROVE  Good(Moved(v, delta), n, z)
<1>1. CASE v.rows = {}
  BY <1>1 DEF Moved
<1>2. CASE v.rows # {}
  <2> DEFINE last == Cardinality(v.rows) - 1
             i == AtLeast(0, AtMost(last, Pos(v.rows, v.cursor) + delta))
             w == [v EXCEPT !.cursor = Nth(v.rows, i)]
  <2>1. n \in Nat /\ v.rows \in SUBSET Rows(n) /\ OnScreen(v.rows, v.cursor, v.top) /\ IsView(v)
    BY <1>2, LogType DEF Good, Sound
  <2>2. Pos(v.rows, v.cursor) \in Nat /\ last \in Nat
    <3>1. /\ Pos(v.rows, v.cursor) \in Nat /\ Cardinality(v.rows) \in Nat
          /\ Pos(v.rows, v.cursor) < Cardinality(v.rows)
      BY <2>1, PosType DEF OnScreen
    <3> QED BY <3>1
  <2>3. i \in 0 .. last
    BY <2>2 DEF AtLeast, AtMost
  <2>4. Nth(v.rows, i) \in v.rows
    BY <2>1, <2>3, NthIs
  <2>5. Moved(v, delta) = Scrolled(w)
    BY <1>2 DEF Moved
  <2> HIDE DEF i
  <2>6. /\ IsView(w) /\ SameFilter(v, w) /\ w.rows = v.rows /\ w.cache = v.cache
        /\ w.cursor = Nth(v.rows, i) /\ w.top = v.top
    BY <2>1 DEF IsView, Field, SameFilter
  <2> HIDE DEF w
  <2>7. /\ IsView(Scrolled(w)) /\ SameFilter(w, Scrolled(w)) /\ Scrolled(w).rows = v.rows
        /\ Scrolled(w).cache = v.cache
        /\ OnScreen(v.rows, Scrolled(w).cursor, Scrolled(w).top)
    BY <2>1, <2>4, <2>6, ScrolledShows DEF OnScreen
  <2>8. SameFilter(v, Scrolled(w))
    BY <2>6, <2>7 DEF SameFilter
  <2> QED BY <1>2, <2>5, <2>7, <2>8, MovesGood
<1> QED BY <1>1, <1>2

(* A jump to a row puts it at the top of the screen. *)
LEMMA GoToGood ==
  ASSUME NEW z, NEW n \in 0 .. Len(Log), NEW v, Good(v, n, z), NEW r \in v.rows
  PROVE  Good(GoTo(v, r), n, z)
<1> DEFINE w == [v EXCEPT !.cursor = r, !.top = r]
<1>1. n \in Nat /\ v.rows \in SUBSET Rows(n) /\ IsView(v)
  BY LogType DEF Good, Sound
<1>2. /\ IsView(w) /\ SameFilter(v, w) /\ w.rows = v.rows /\ w.cache = v.cache
      /\ w.cursor = r /\ w.top = r
  BY <1>1 DEF IsView, Field, SameFilter
<1>3. GoTo(v, r) = w
  BY DEF GoTo
<1> HIDE DEF w
<1> QED BY <1>1, <1>2, <1>3, Top, MovesGood

(* Home and End. *)
LEMMA EndsGood ==
  ASSUME NEW z, NEW n \in 0 .. Len(Log), NEW v, Good(v, n, z)
  PROVE  Good(AtStart(v), n, z) /\ Good(AtEnd(v), n, z)
<1>1. n \in Nat /\ v.rows \in SUBSET Rows(n) /\ v.rows \in SUBSET Nat /\ IsView(v)
  BY LogType DEF Good, Sound, Rows
<1>2. CASE v.rows = {}
  BY <1>2 DEF AtStart, AtEnd
<1>3. CASE v.rows # {}
  <2>1. Good(AtStart(v), n, z)
    BY <1>1, <1>3, Least, GoToGood DEF AtStart
  <2> DEFINE m == AtLeast(Cardinality(v.rows) - Visible, 0)
             c == Max(v.rows)
             t == Nth(v.rows, m)
             w == [v EXCEPT !.cursor = c, !.top = t]
  <2>2. /\ Cardinality(v.rows) \in Nat /\ Visible \in Nat \ {0}
        /\ c \in v.rows /\ Pos(v.rows, c) = Cardinality(v.rows) - 1
    BY <1>1, <1>3, PosType, LastPos, ViewsAssumption
  <2>3. Cardinality(v.rows) > 0
    BY <1>1, <1>3, <2>2, PosType
  <2>4. m \in 0 .. Cardinality(v.rows) - 1 /\ Cardinality(v.rows) - 1 - m \in 0 .. Visible - 1
    BY <2>2, <2>3 DEF AtLeast
  <2>5. t \in v.rows /\ Pos(v.rows, t) = m
    BY <1>1, <2>4, NthIs
  <2>6. AtEnd(v) = w
    BY <1>3 DEF AtEnd
  <2> HIDE DEF m, c, t
  <2>7. OnScreen(v.rows, c, t)
    BY <2>2, <2>4, <2>5 DEF OnScreen
  <2>8. /\ IsView(w) /\ SameFilter(v, w) /\ w.rows = v.rows /\ w.cache = v.cache
        /\ w.cursor = c /\ w.top = t
    BY <1>1 DEF IsView, Field, SameFilter
  <2> HIDE DEF w
  <2>9. Good(AtEnd(v), n, z)
    BY <1>3, <2>6, <2>7, <2>8, MovesGood
  <2> QED BY <2>1, <2>9
<1> QED BY <1>2, <1>3

(* A jump to a time or to a bookmark. *)
LEMMA JumpsGood ==
  ASSUME NEW z, NEW n \in 0 .. Len(Log), NEW v, Good(v, n, z)
  PROVE  (\A t : Good(AtTime(v, t), n, z)) /\ Good(AtBookmark(v), n, z)
<1>1. v.rows \in SUBSET Nat
  BY LogType DEF Good, Sound, Rows
<1>2. ASSUME NEW t PROVE Good(AtTime(v, t), n, z)
  <2> DEFINE later == {r \in Timed(Ts, v.rows) : Ts[r] >= t}
  <2>1. later \in SUBSET v.rows
    BY DEF Timed
  <2>2. AtTime(v, t) = IF later = {} THEN v ELSE GoTo(v, Min(later))
    BY DEF AtTime
  <2> HIDE DEF later
  <2>3. later # {} => Min(later) \in later
    BY <1>1, <2>1, Least
  <2> QED BY <2>1, <2>2, <2>3, GoToGood
<1>3. Good(AtBookmark(v), n, z)
  <2> DEFINE after == {b \in v.bookmarks : b > v.cursor}
             next  == IF after # {} THEN Min(after) ELSE Min(v.bookmarks)
  <2>1. AtBookmark(v) = IF v.bookmarks = {} \/ next \notin v.rows THEN v ELSE GoTo(v, next)
    BY DEF AtBookmark
  <2> HIDE DEF next
  <2> QED BY <2>1, GoToGood
<1> QED BY <1>2, <1>3

(* A view is as good with other bookmarks or another histogram of its rows. *)
LEMMA LeavesGood ==
  ASSUME NEW z, NEW n \in 0 .. Len(Log), NEW v, Good(v, n, z),
         NEW w, IsView(w), SameFilter(v, w), w.rows = v.rows, w.cursor = v.cursor, w.top = v.top,
         w.cache # None => /\ w.cache \in Cached(w.rows)
                           /\ z = None => w.cache.over = None \/ w.cache.left
  PROVE  Good(w, n, z)
<1>1. Matching(w, n) = Matching(v, n) /\ w.regex = v.regex
  BY SameMatching DEF SameFilter
<1> QED BY <1>1 DEF Good, Sound

(* So a bookmark, *)
LEMMA MarkedGood ==
  ASSUME NEW z, NEW n \in 0 .. Len(Log), NEW v, Good(v, n, z)
  PROVE  Good(Marked(v), n, z)
<1> DEFINE b == IF v.cursor \in v.bookmarks THEN v.bookmarks \ {v.cursor}
                                            ELSE v.bookmarks \cup {v.cursor}
           w == [v EXCEPT !.bookmarks = b]
<1>1. Marked(v) = w
  BY DEF Marked, Good, Sound, IsView, Field
<1> HIDE DEF b
<1>2. /\ IsView(w) /\ SameFilter(v, w) /\ w.rows = v.rows /\ w.cursor = v.cursor /\ w.top = v.top
      /\ w.cache = v.cache
  BY DEF Good, Sound, IsView, Field, SameFilter
<1> HIDE DEF w
<1>3. Matching(w, n) = Matching(v, n) /\ w.regex = v.regex
  BY <1>2, SameMatching DEF SameFilter
<1>4. Good(w, n, z)
  BY <1>2, <1>3 DEF Good, Sound
<1> QED BY <1>1, <1>4

(* and a histogram that is thrown away, leave a view good, whatever comes  *)
(* of the zoom.                                                            *)
LEMMA DroppedGood ==
  ASSUME NEW z, NEW n \in 0 .. Len(Log), NEW v, Good(v, n, z), NEW y
  PROVE  Good([v EXCEPT !.cache = None], n, y)
<1> DEFINE w == [v EXCEPT !.cache = None]
<1>1. /\ IsView(w) /\ SameFilter(v, w) /\ w.rows = v.rows /\ w.cursor = v.cursor /\ w.top = v.top
      /\ w.cache = None
  BY DEF Good, Sound, IsView, Field, SameFilter
<1> HIDE DEF w
<1>2. Matching(w, n) = Matching(v, n) /\ w.regex = v.regex
  BY <1>1, SameMatching DEF SameFilter
<1>3. Good(w, n, y)
  BY <1>1, <1>2 DEF Good, Sound
<1> QED BY <1>3 DEF w

(* A zoom that begins or goes on disturbs no view, *)
LEMMA ZoomedGood ==
  ASSUME NEW z, NEW n, NEW v, Good(v, n, z), NEW y, y = None => z = None
  PROVE  Good(v, n, y)
BY DEF Good, Sound

(* and one that ends leaves its mark. *)
LEMMA LeftGood ==
  ASSUME NEW z, NEW n \in 0 .. Len(Log), NEW v, Good(v, n, z)
  PROVE  Good(Left(v), n, None)
<1>1. CASE ~(v.cache # None /\ v.cache.over # None)
  BY <1>1 DEF Left, Good, Sound
<1>2. CASE v.cache # None /\ v.cache.over # None
  <2> DEFINE c == [v.cache EXCEPT !.left = TRUE]
             w == [v EXCEPT !.cache = c]
  <2>1. v.cache \in Cached(v.rows) /\ IsView(v)
    BY <1>2 DEF Good, Sound
  <2>2. c \in Cached(v.rows) /\ c.left
    BY <2>1 DEF Cached
  <2> HIDE DEF c
  <2>3. /\ IsView(w) /\ SameFilter(v, w) /\ w.rows = v.rows /\ w.cursor = v.cursor /\ w.top = v.top
        /\ w.cache = c
    BY <2>1 DEF IsView, Field, SameFilter
  <2> HIDE DEF w
  <2>4. Matching(w, n) = Matching(v, n) /\ w.regex = v.regex
    BY <2>3, SameMatching DEF SameFilter
  <2>5. Good(w, n, None)
    BY <2>2, <2>3, <2>4 DEF Good, Sound
  <2>6. Left(v) = w
    BY <1>2 DEF Left, w, c
  <2> QED BY <2>5, <2>6
<1> QED BY <1>1, <1>2

(* What is drawn is a histogram of the rows, as wide as the screen. *)
LEMMA DrawnGood ==
  ASSUME NEW n \in 0 .. Len(Log), NEW v, Good(v, n, Zoom), NEW bars \in Nat, ScrubGood(scrub, n)
  PROVE  LET c == Drawn(v, bars).cache
         IN  /\ Good(Drawn(v, bars), n, Zoom)
             /\ c # None /\ c.bars = bars
             /\ c.over = Zoom \/ (Zoom = None /\ c.left)
<1>1. v.rows \in SUBSET Rows(n) /\ IsView(v)
  BY DEF Good, Sound
<1>2. CASE Zoom = None /\ v.cache # None /\ v.cache.bars = bars
  BY <1>2 DEF Drawn, Good, Sound
<1>3. CASE ~(Zoom = None /\ v.cache # None /\ v.cache.bars = bars)
  <2> DEFINE h == Built(v.rows, bars, Zoom)
             c == [hist |-> h, bars |-> bars, over |-> Zoom, left |-> FALSE]
             w == [v EXCEPT !.cache = c]
  <2>1. Zoom # None => Zoom \in Int \X Int /\ Zoom[1] \in Int /\ Zoom[2] \in Int
    BY DEF Zoom, ScrubGood, Inside
  <2>2. h \in Histogram(v.rows)
    <3>1. CASE Zoom = None
      BY <1>1, <3>1, Builds DEF Built
    <3>2. CASE Zoom # None
      BY <1>1, <2>1, <3>2, Builds DEF Built
    <3> QED BY <3>1, <3>2
  <2>3. Zoom \in (Int \X Int) \cup {None}
    BY <2>1
  <2> HIDE DEF h
  <2>4. /\ c \in [hist : Histogram(v.rows), bars : Nat, over : (Int \X Int) \cup {None},
                  left : BOOLEAN]
        /\ c.hist = h /\ c.bars = bars /\ c.over = Zoom
    BY <2>2, <2>3
  <2>5. c # None
    <3>1. n \in Nat
      BY LogType
    <3> HIDE DEF c
    <3> QED BY <1>1, <2>4, <3>1, Kept
  <2> HIDE DEF c
  <2>6. c \in Cached(v.rows)
    BY <2>4 DEF Cached, h
  <2>7. /\ IsView(w) /\ SameFilter(v, w) /\ w.rows = v.rows /\ w.cursor = v.cursor /\ w.top = v.top
        /\ w.cache = c
    BY <1>1 DEF IsView, Field, SameFilter
  <2>8. Drawn(v, bars) = w
    BY <1>3 DEF Drawn, c, h
  <2> HIDE DEF w
  <2>9. Good(w, n, Zoom)
    BY <2>4, <2>6, <2>7, LeavesGood
  <2> QED BY <2>4, <2>5, <2>7, <2>8, <2>9
<1> QED BY <1>2, <1>3

-----------------------------------------------------------------------------
(* What the tabs have in common. *)
LEMMA TabsType ==
  ASSUME NEW z, NEW n, NEW s, Tabs(s, n, z)
  PROVE  /\ Len(s) \in Nat /\ DOMAIN s = 1 .. Len(s)
         /\ \A i \in DOMAIN s : Good(s[i], n, z)
<1>1. PICK S : s \in Seq(S) /\ \A v \in S : Good(v, n, z)
  BY DEF Tabs
<1>2. Len(s) \in Nat /\ DOMAIN s = 1 .. Len(s)
  BY <1>1, LenProperties
<1>3. \A i \in 1 .. Len(s) : s[i] \in S
  BY <1>1, ElementOfSeq
<1> QED BY <1>1, <1>2, <1>3

(* A sequence of good views is good, *)
LEMMA TabsFun ==
  ASSUME NEW z, NEW n, NEW k \in Nat, NEW t, t = [i \in 1 .. k |-> t[i]],
         \A i \in 1 .. k : Good(t[i], n, z)
  PROVE  Tabs(t, n, z) /\ Len(t) = k
<1> DEFINE S == {t[i] : i \in 1 .. k}
<1>1. \A i \in 1 .. k : t[i] \in S
  OBVIOUS
<1>2. \A v \in S : Good(v, n, z)
  OBVIOUS
<1> HIDE DEF S
<1>3. t \in [1 .. k -> S]
  BY <1>1
<1>4. t \in Seq(S) /\ Len(t) = k
  BY <1>3
<1> QED BY <1>2, <1>4 DEF Tabs

(* as are two of them in a row, *)
LEMMA TabsConcat ==
  ASSUME NEW z, NEW n, NEW s, Tabs(s, n, z), NEW t, Tabs(t, n, z)
  PROVE  Tabs(s \o t, n, z) /\ Len(s \o t) = Len(s) + Len(t)
<1>1. PICK S : s \in Seq(S) /\ \A v \in S : Good(v, n, z)
  BY DEF Tabs
<1>2. PICK T : t \in Seq(T) /\ \A v \in T : Good(v, n, z)
  BY DEF Tabs
<1>3. s \in Seq(S \cup T) /\ t \in Seq(S \cup T)
  BY <1>1, <1>2, SeqMonotonic
<1>4. s \o t \in Seq(S \cup T) /\ Len(s \o t) = Len(s) + Len(t)
  BY <1>3, ConcatProperties
<1>5. \A v \in S \cup T : Good(v, n, z)
  BY <1>1, <1>2
<1> QED BY <1>4, <1>5 DEF Tabs

(* one with another view at its end, *)
LEMMA TabsAppend ==
  ASSUME NEW z, NEW n, NEW s, Tabs(s, n, z), NEW w, Good(w, n, z)
  PROVE  Tabs(Append(s, w), n, z) /\ Len(Append(s, w)) = Len(s) + 1
<1>1. PICK S : s \in Seq(S) /\ \A v \in S : Good(v, n, z)
  BY DEF Tabs
<1>2. s \in Seq(S \cup {w})
  BY <1>1, SeqMonotonic
<1>3. Append(s, w) \in Seq(S \cup {w}) /\ Len(Append(s, w)) = Len(s) + 1
  BY <1>2, AppendProperties
<1>4. \A v \in S \cup {w} : Good(v, n, z)
  BY <1>1
<1> QED BY <1>3, <1>4 DEF Tabs

(* and a stretch of one. *)
LEMMA TabsPart ==
  ASSUME NEW z, NEW n, NEW s, Tabs(s, n, z), NEW a \in Int, NEW b \in Int, 1 <= a, b <= Len(s)
  PROVE  /\ Tabs(SubSeq(s, a, b), n, z)
         /\ Len(SubSeq(s, a, b)) = IF a <= b THEN b - a + 1 ELSE 0
<1>1. PICK S : s \in Seq(S) /\ \A v \in S : Good(v, n, z)
  BY DEF Tabs
<1>2. \A i \in a .. b : s[i] \in S
  <2>1. Len(s) \in Nat
    BY <1>1, LenProperties
  <2>2. \A i \in a .. b : i \in 1 .. Len(s)
    BY <2>1
  <2> QED BY <1>1, <2>2, ElementOfSeq
<1>3. /\ SubSeq(s, a, b) \in Seq(S)
      /\ Len(SubSeq(s, a, b)) = IF a <= b THEN b - a + 1 ELSE 0
  BY <1>2, SubSeqProperties
<1> QED BY <1>1, <1>3 DEF Tabs

(* A view with other filters, before it is rebuilt. *)
LEMMA OtherFilter ==
  ASSUME NEW z, NEW n, NEW v, Sound(v, n, z), NEW w, IsView(w), w.rows = v.rows, w.cursor = v.cursor,
         w.top = v.top, w.cache = v.cache
  PROVE  Sound(w, n, z)
BY DEF Sound

(* A new tab shows everything. *)
LEMMA NewGood ==
  ASSUME NEW z, NEW n \in 0 .. Len(Log)
  PROVE  Good(NewView(n), n, z)
<1> DEFINE v == NewView(n)
<1>1. /\ IsView(v) /\ v.rows = Rows(n) /\ v.cursor = 0 /\ v.top = 0 /\ v.cache = None /\ NoFilter(v)
  BY DEF NewView, IsView, Field, NoFilter
<1> HIDE DEF v
<1>2. Matching(v, n) = Rows(n)
  BY <1>1, UnfilteredAll
<1>3. Rows(n) # {} => OnScreen(Rows(n), 0, 0)
  <2>1. n \in Nat
    BY LogType
  <2>2. Rows(n) # {} => 0 \in Rows(n)
    BY <2>1 DEF Rows
  <2> QED BY <2>1, <2>2, Top
<1>4. Good(v, n, z)
  BY <1>1, <1>2, <1>3 DEF Good, Sound
<1> QED BY <1>4 DEF v

(* The records' times spread as more of them come, so a zoom stays inside. *)
LEMMA ScrubGrown ==
  ASSUME NEW m \in 0 .. Len(Log), NEW n \in m .. Len(Log), NEW s, ScrubGood(s, m)
  PROVE  ScrubGood(s, n)
<1>1. m \in Nat /\ n \in Nat /\ m <= n /\ n \in 0 .. Len(Log)
  BY LogType
<1>2. Times(m) \subseteq Times(n)
  <2>1. Rows(m) \subseteq Rows(n)
    BY <1>1 DEF Rows
  <2> QED BY <2>1 DEF Times, Timed
<1>3. /\ Times(n) \in SUBSET Nat /\ IsFiniteSet(Times(n)) /\ Times(m) \in SUBSET Nat
      /\ IsFiniteSet(Times(m)) /\ Times(n) \in SUBSET Int /\ Times(m) \in SUBSET Int
  <2>1. Rows(n) \in SUBSET Rows(n) /\ Rows(m) \in SUBSET Rows(m)
    OBVIOUS
  <2>2. /\ Times(n) \in SUBSET Nat /\ IsFiniteSet(Times(n))
        /\ Times(m) \in SUBSET Nat /\ IsFiniteSet(Times(m))
    BY <1>1, <2>1, TimesOf DEF Times
  <2> QED BY <2>2
<1>4. ASSUME NEW z, Inside(z, m) PROVE Inside(z, n)
  <2>1. Times(m) # {} /\ Times(n) # {} /\ z[1] \in Int /\ z[2] \in Int
    BY <1>2, <1>4 DEF Inside
  <2>2. Min(Times(m)) \in Times(n) /\ Max(Times(m)) \in Times(n)
    BY <1>2, <1>3, <2>1, Least, Greatest
  <2>3. Min(Times(n)) <= Min(Times(m)) /\ Max(Times(m)) <= Max(Times(n))
    BY <1>3, <2>1, <2>2, Least, Greatest
  <2>4. /\ Min(Times(n)) \in Int /\ Min(Times(m)) \in Int
        /\ Max(Times(n)) \in Int /\ Max(Times(m)) \in Int
    BY <1>3, <2>1, <2>2, Least, Greatest
  <2> QED BY <1>4, <2>1, <2>3, <2>4 DEF Inside
<1> QED BY <1>4 DEF ScrubGood

-----------------------------------------------------------------------------
(* The tabs that are opened at the start. *)
LEMMA WholeInit == Init => Whole
<1> SUFFICES ASSUME Init PROVE Whole
  OBVIOUS
<1>1. Backfill \in 0 .. Len(Log) /\ Len(Buckets) \in Nat /\ DOMAIN Buckets = 1 .. Len(Buckets)
  BY ViewsAssumption, LenProperties
<1> DEFINE k == IF HasSeverity THEN Len(Buckets) ELSE 0
           B(i) == [NewView(Backfill) EXCEPT !.levels = Buckets[i]]
           t == [i \in IF HasSeverity THEN DOMAIN Buckets ELSE {} |-> Rebuilt(B(i), Backfill)]
<1>2. Good(NewView(Backfill), Backfill, None)
  BY <1>1, NewGood
<1>3. ASSUME NEW i PROVE Good(Rebuilt(B(i), Backfill), Backfill, None)
  <2> DEFINE v == NewView(Backfill)
             w == [v EXCEPT !.levels = Buckets[i]]
  <2>1. IsView(v)
    BY <1>2 DEF Good, Sound
  <2> HIDE DEF v
  <2>2. /\ IsView(w) /\ w.rows = v.rows /\ w.cursor = v.cursor /\ w.top = v.top
        /\ w.cache = v.cache
    BY <2>1 DEF IsView, Field
  <2> HIDE DEF w
  <2>3. Sound(w, Backfill, None)
    BY <1>2, <2>2, OtherFilter DEF Good, v
  <2>4. Good(Rebuilt(w, Backfill), Backfill, None)
    BY <1>1, <2>3, RebuiltGood
  <2> QED BY <2>4 DEF v, w
<1> HIDE DEF B
<1>4. Tabs(t, Backfill, None) /\ Len(t) = k
  <2>1. k \in Nat /\ (IF HasSeverity THEN DOMAIN Buckets ELSE {}) = 1 .. k
    BY <1>1
  <2> HIDE DEF k
  <2>2. t = [i \in 1 .. k |-> t[i]] /\ \A i \in 1 .. k : Good(t[i], Backfill, None)
    BY <1>3, <2>1
  <2> HIDE DEF t
  <2> QED BY <2>1, <2>2, TabsFun
<1>5. Tabs(<<NewView(Backfill)>>, Backfill, None) /\ Len(<<NewView(Backfill)>>) = 1
  <2>1. PICK v : v = <<NewView(Backfill)>>
    OBVIOUS
  <2>2. v = [i \in 1 .. 1 |-> v[i]] /\ \A i \in 1 .. 1 : v[i] = NewView(Backfill)
    BY <2>1
  <2> QED BY <1>2, <2>1, <2>2, TabsFun
<1>6. total = Backfill /\ views = <<NewView(Backfill)>> \o t /\ active_tab = 1
      /\ phase = "tick" /\ wheel = 0 /\ scrub = None /\ screen \in Screens
  BY DEF Init, B
<1>7. k \in Nat
  BY <1>1
<1> HIDE DEF t, k
<1>8. Tabs(views, total, Zoom) /\ Len(views) = 1 + k
  <2>1. Zoom = None
    BY <1>6 DEF Zoom
  <2>2. /\ Tabs(<<NewView(Backfill)>> \o t, Backfill, None)
        /\ Len(<<NewView(Backfill)>> \o t) = 1 + k
    <3>1. Tabs(<<NewView(Backfill)>>, Backfill, None) /\ Tabs(t, Backfill, None)
      BY <1>4, <1>5
    <3>2. /\ Tabs(<<NewView(Backfill)>> \o t, Backfill, None)
          /\ Len(<<NewView(Backfill)>> \o t) = Len(<<NewView(Backfill)>>) + Len(t)
      BY <3>1, TabsConcat
    <3> QED BY <1>4, <1>5, <3>2
  <2> QED BY <1>6, <2>1, <2>2
<1>9. active_tab \in DOMAIN views /\ Len(views) > 0
  BY <1>6, <1>7, <1>8, TabsType
<1> QED BY <1>1, <1>6, <1>8, <1>9 DEF Whole, ScrubGood

(* The zoom is the scrub's. *)
LEMMA SameZoom == ASSUME scrub' = scrub PROVE Zoom' = Zoom
BY DEF Zoom

LEMMA NewZoom ==
  ASSUME NEW b \in Nat, NEW z \in (Int \X Int) \cup {None}, scrub' = [bin |-> b, zoom |-> z]
  PROVE  Zoom' = z
<1>1. scrub' \in [bin : Nat, zoom : (Int \X Int) \cup {None}] /\ scrub'.zoom = z
  OBVIOUS
<1>2. scrub' # None
  BY <1>1, ViewsAssumption
<1> QED BY <1>1, <1>2 DEF Zoom

(* A key or a click: what it may change, *)
LEMMA WholeTabs ==
  ASSUME Whole, Tabs(views', total, Zoom'), Len(views') > 0, total' = total, wheel' \in Int,
         screen' = screen, ScrubGood(scrub', total), phase' \notin {"tick", "drawn"}
  PROVE  Whole'
BY DEF Whole, Tabs, ScrubGood

(* and one that changes the active tab alone. *)
LEMMA WholeChange ==
  ASSUME Whole, active_tab \in DOMAIN views, NEW w, Good(w, total, Zoom'),
         Zoom' = None => Zoom = None,
         views' = [views EXCEPT ![active_tab] = w], total' = total, wheel' \in Int,
         screen' = screen, ScrubGood(scrub', total), phase' \notin {"tick", "drawn"}
  PROVE  Whole'
<1>1. Tabs(views, total, Zoom) /\ Len(views) > 0
  BY DEF Whole
<1>2. PICK s : s = [views EXCEPT ![active_tab] = w]
  OBVIOUS
<1>3. Tabs(s, total, Zoom') /\ Len(s) = Len(views)
  <2>1. Len(views) \in Nat /\ DOMAIN views = 1 .. Len(views) /\ \A i \in DOMAIN views : Good(views[i], total, Zoom)
    BY <1>1, TabsType
  <2>2. /\ s = [i \in 1 .. Len(views) |-> s[i]]
        /\ \A i \in 1 .. Len(views) : s[i] = w \/ s[i] = views[i]
    BY <1>2, <2>1
  <2>3. \A i \in 1 .. Len(views) : Good(views[i], total, Zoom')
    BY <2>1, ZoomedGood
  <2>4. \A i \in 1 .. Len(views) : Good(s[i], total, Zoom')
    BY <2>2, <2>3
  <2>5. PICK k \in Nat : k = Len(views)
    BY <2>1
  <2>6. s = [i \in 1 .. k |-> s[i]] /\ \A i \in 1 .. k : Good(s[i], total, Zoom')
    BY <2>2, <2>4, <2>5
  <2>7. Tabs(s, total, Zoom') /\ Len(s) = k
    BY <2>6, TabsFun
  <2> QED BY <2>5, <2>7
<1>4. Tabs(views', total, Zoom') /\ Len(views') > 0
  BY <1>1, <1>2, <1>3
<1> QED BY <1>4, WholeTabs

(* One that ends the zoom. *)
LEMMA WholeZoomEnds ==
  ASSUME Whole, active_tab \in DOMAIN views, NEW w, Good(w, total, Zoom),
         views' = ZoomEnds(w), Zoom' = None, total' = total, wheel' \in Int,
         screen' = screen, ScrubGood(scrub', total), phase' \notin {"tick", "drawn"}
  PROVE  Whole'
<1>1. total \in 0 .. Len(Log) /\ Tabs(views, total, Zoom) /\ Len(views) > 0
  BY DEF Whole
<1>2. /\ Len(views) \in Nat /\ DOMAIN views = 1 .. Len(views)
      /\ \A i \in DOMAIN views : Good(views[i], total, Zoom)
  BY <1>1, TabsType
<1>3. PICK s : s = ZoomEnds(w)
  OBVIOUS
<1>4. PICK d : d = [w EXCEPT !.cache = None]
  OBVIOUS
<1>5. Good(d, total, None)
  BY <1>1, <1>4, DroppedGood
<1>6. \A i \in DOMAIN views : Good(Left(views[i]), total, None)
  BY <1>1, <1>2, LeftGood
<1>7. /\ s = [i \in 1 .. Len(views) |-> s[i]]
      /\ \A i \in 1 .. Len(views) : s[i] = d \/ s[i] = Left(views[i])
  BY <1>2, <1>3, <1>4 DEF ZoomEnds
<1>8. \A i \in 1 .. Len(views) : Good(s[i], total, None)
  BY <1>2, <1>5, <1>6, <1>7
<1>9. Tabs(s, total, None) /\ Len(s) = Len(views)
  <2>1. Len(views) \in Nat /\ s = [i \in 1 .. Len(views) |-> s[i]]
    BY <1>2, <1>7
  <2> QED BY <1>8, <2>1, TabsFun
<1>10. Tabs(views', total, Zoom') /\ Len(views') > 0
  BY <1>1, <1>3, <1>9
<1> QED BY <1>10, WholeTabs

(* A search, a query, a field or a severity. *)
LEMMA WholeFilter ==
  ASSUME Whole, NEW v, Filter(v),
         IsView(V) => /\ IsView(v) /\ v.rows = V.rows /\ v.cursor = V.cursor
                      /\ v.top = V.top /\ v.cache = V.cache
  PROVE  Whole'
<1>1. /\ active_tab \in DOMAIN views /\ views' = [views EXCEPT ![active_tab] = Rebuilt(v, total)]
      /\ UNCHANGED <<total, screen, scrub, wheel>> /\ phase' \in {"leaving", "keys"}
  BY DEF Filter, Change, Key, Handled
<1>2. /\ total \in 0 .. Len(Log) /\ Tabs(views, total, Zoom) /\ wheel \in Int /\ ScrubGood(scrub, total)
  BY DEF Whole
<1>3. Good(V, total, Zoom)
  BY <1>1, <1>2, TabsType DEF V
<1>4. Good(Rebuilt(v, total), total, Zoom)
  <2>1. Sound(v, total, Zoom)
    <3>1. Sound(V, total, Zoom) /\ IsView(V)
      BY <1>3 DEF Good, Sound
    <3> QED BY <3>1, OtherFilter
  <2> QED BY <1>2, <2>1, RebuiltGood
<1>5. Zoom' = Zoom
  BY <1>1, SameZoom
<1> QED BY <1>1, <1>2, <1>4, <1>5, WholeChange

(* The top of the loop: what came is taken in, and the active tab drawn. *)
LEMMA WholeDraw == ASSUME Whole, Draw PROVE Whole'
<1>1. PICK n \in total .. Len(Log), w \in Screens :
        /\ total' = n /\ screen' = w
        /\ views' = [(IF n = total THEN views ELSE [i \in DOMAIN views |-> Grown(views[i], n)])
                       EXCEPT ![active_tab] = Drawn(@, w.bars)]
        /\ phase = "tick" /\ phase' = "drawn" /\ UNCHANGED <<active_tab, scrub, wheel>>
  BY DEF Draw
<1>2. /\ total \in 0 .. Len(Log) /\ Tabs(views, total, Zoom) /\ Len(views) > 0
      /\ active_tab \in DOMAIN views /\ wheel \in Int /\ ScrubGood(scrub, total)
  BY <1>1 DEF Whole
<1>3. PICK seen : seen = IF n = total THEN views ELSE [i \in DOMAIN views |-> Grown(views[i], n)]
  OBVIOUS
<1>4. n \in 0 .. Len(Log) /\ w.bars \in Nat /\ ScrubGood(scrub, n)
  <2>1. n \in 0 .. Len(Log)
    BY <1>2, LogType
  <2> QED BY <1>2, <2>1, ScrubGrown, ViewsAssumption
<1>5. /\ Len(views) \in Nat /\ DOMAIN views = 1 .. Len(views)
      /\ \A i \in DOMAIN views : Good(views[i], total, Zoom)
  BY <1>2, TabsType
<1>6. DOMAIN seen = 1 .. Len(views) /\ \A i \in 1 .. Len(views) : Good(seen[i], n, Zoom)
  <2>1. CASE n = total
    BY <1>3, <1>5, <2>1
  <2>2. CASE n # total
    <3>1. \A i \in DOMAIN views : Good(Grown(views[i], n), n, Zoom)
      BY <1>2, <1>5, GrownGood
    <3> QED BY <1>3, <1>5, <2>2, <3>1
  <2> QED BY <2>1, <2>2
<1>7. PICK d : d = Drawn(seen[active_tab], w.bars)
  OBVIOUS
<1>8. /\ Good(d, n, Zoom) /\ d.cache # None /\ d.cache.bars = w.bars
      /\ d.cache.over = Zoom \/ (Zoom = None /\ d.cache.left)
  <2>1. Good(seen[active_tab], n, Zoom)
    BY <1>2, <1>5, <1>6
  <2>2. PICK v : v = seen[active_tab]
    OBVIOUS
  <2>3. PICK b \in Nat : b = w.bars
    BY <1>4
  <2>4. Good(v, n, Zoom) /\ d = Drawn(v, b)
    BY <1>7, <2>1, <2>2, <2>3
  <2>5. LET c == Drawn(v, b).cache
        IN  /\ Good(Drawn(v, b), n, Zoom)
            /\ c # None /\ c.bars = b
            /\ c.over = Zoom \/ (Zoom = None /\ c.left)
    BY <1>4, <2>4, DrawnGood
  <2> QED BY <2>3, <2>4, <2>5
<1>9. PICK s : s = [seen EXCEPT ![active_tab] = d]
  OBVIOUS
<1>10. /\ s = [i \in 1 .. Len(views) |-> s[i]] /\ s[active_tab] = d
       /\ \A i \in 1 .. Len(views) : s[i] = d \/ s[i] = seen[i]
  BY <1>2, <1>5, <1>6, <1>9
<1>11. \A i \in 1 .. Len(views) : Good(s[i], n, Zoom)
  BY <1>6, <1>8, <1>10
<1>12. Tabs(s, n, Zoom) /\ Len(s) = Len(views)
  <2>1. Len(views) \in Nat /\ s = [i \in 1 .. Len(views) |-> s[i]]
    BY <1>5, <1>10
  <2> QED BY <1>11, <2>1, TabsFun
<1>13. views' = s
  BY <1>1, <1>3, <1>7, <1>9
<1>14. DOMAIN s = DOMAIN views
  BY <1>5, <1>10
<1>15. Zoom' = Zoom
  BY <1>1, SameZoom
<1>16. /\ Tabs(views', total', Zoom') /\ Len(views') > 0 /\ active_tab' \in DOMAIN views'
       /\ V' = d /\ total' \in 0 .. Len(Log) /\ wheel' \in Int /\ ScrubGood(scrub', total')
       /\ screen' \in Screens
  BY <1>1, <1>2, <1>4, <1>10, <1>12, <1>13, <1>14, <1>15 DEF V
<1> QED BY <1>1, <1>8, <1>15, <1>16 DEF Whole

(* The bins that the scrub moves over. *)
LEMMA BinsType ==
  ASSUME Whole, active_tab \in DOMAIN views
  PROVE  Bins(V) \in Nat /\ Bins(V) > 0
<1>1. Good(V, total, Zoom)
  BY TabsType DEF Whole, V
<1>2. V.cache # None => V.cache.hist.bins \in Nat
  BY <1>1 DEF Good, Sound, Cached, Histogram
<1> QED BY <1>2, TimelineAssumption DEF Bins

(* The keys of the scrub. *)
LEMMA WholeScrub == ASSUME Whole, ScrubMove \/ ScrubZoom \/ ScrubApply PROVE Whole'
<1>0. /\ active_tab \in DOMAIN views /\ UNCHANGED <<total, screen, wheel>>
      /\ phase' \in {"leaving", "keys"}
  BY DEF ScrubMove, ScrubZoom, ScrubApply, Key, Handled
<1>1. /\ total \in 0 .. Len(Log) /\ Tabs(views, total, Zoom) /\ Len(views) > 0 /\ wheel \in Int
      /\ ScrubGood(scrub, total) /\ Good(V, total, Zoom)
  BY <1>0, TabsType DEF Whole, V
<1>2. CASE ScrubMove
  <2>1. views' = views
    BY <1>2 DEF ScrubMove
  <2>2. PICK delta \in ScrubSteps :
          LET bin == IF scrub = None THEN Bins(V) \div 2 ELSE scrub.bin
          IN  scrub' = [bin |-> AtLeast(0, AtMost(bin + delta, Bins(V) - 1)), zoom |-> Zoom]
    BY <1>2 DEF ScrubMove
  <2> DEFINE b == IF scrub = None THEN Bins(V) \div 2 ELSE scrub.bin
             p == AtLeast(0, AtMost(b + delta, Bins(V) - 1))
  <2>3. Bins(V) \in Nat /\ Bins(V) > 0
    BY <1>0, BinsType
  <2>4. b \in Int /\ delta \in Int
    <3>1. Bins(V) \div 2 \in Int
      BY <2>3
    <3>2. scrub # None => scrub.bin \in Nat
      BY <1>1 DEF ScrubGood
    <3> QED BY <3>1, <3>2 DEF ScrubSteps
  <2>5. scrub' = [bin |-> p, zoom |-> Zoom]
    BY <2>2
  <2> HIDE DEF b
  <2>6. p \in Nat
    BY <2>3, <2>4 DEF AtLeast, AtMost
  <2> HIDE DEF p
  <2>7. Zoom # None => Inside(Zoom, total)
    BY <1>1 DEF Zoom, ScrubGood
  <2>8. ScrubGood([bin |-> p, zoom |-> Zoom], total)
    BY <2>6, <2>7 DEF ScrubGood
  <2>9. ScrubGood(scrub', total)
    BY <2>5, <2>8
  <2>10. Zoom' = Zoom
    BY <2>5, <2>6, <2>7, NewZoom DEF Inside
  <2> QED BY <1>0, <1>1, <2>1, <2>9, <2>10, WholeTabs
<1>3. CASE ScrubZoom
  <2>1. CASE V.cache = None \/ Timed(Ts, Rows(total)) = {}
    <3>1. UNCHANGED <<scrub, views>>
      BY <1>3, <2>1 DEF ScrubZoom
    <3> QED BY <1>0, <1>1, <3>1, SameZoom, WholeTabs
  <2>2. CASE ~(V.cache = None \/ Timed(Ts, Rows(total)) = {})
    <3>1. PICK dir \in {"in", "out"} :
            LET zoom == Zoomed(V.cache.hist, scrub.bin, Zoom, Full, dir)
            IN  /\ scrub' = [scrub EXCEPT !.zoom = zoom]
                /\ views' = IF zoom = None THEN ZoomEnds(V)
                            ELSE [views EXCEPT ![active_tab].cache = None]
      BY <1>3, <2>2 DEF ScrubZoom
    <3>2. scrub # None
      BY <1>3 DEF ScrubZoom
    <3>3. Times(total) # {} /\ V.cache.hist \in Histogram(V.rows)
      BY <1>1, <2>2 DEF Times, Good, Sound, Cached
    <3>4. /\ scrub = [bin |-> scrub.bin, zoom |-> scrub.zoom] /\ scrub.bin \in Nat
          /\ Zoom # None => Inside(Zoom, total)
      BY <1>1, <3>2 DEF ScrubGood, Zoom
    <3>5. Full = <<Min(Times(total)), Max(Times(total))>>
      BY DEF Full, Times
    <3>6. PICK z : z = Zoomed(V.cache.hist, scrub.bin, Zoom, Full, dir)
      OBVIOUS
    <3>7. Zoom # None => Zoom \in Int \X Int
      BY <3>4 DEF Inside
    <3>8. z # None => Inside(z, total)
      BY <1>1, <3>3, <3>4, <3>5, <3>6, <3>7, Clamps
    <3>9. scrub' = [scrub EXCEPT !.zoom = z]
      BY <3>1, <3>6
    <3>10. scrub' = [bin |-> scrub.bin, zoom |-> z]
      BY <3>4, <3>9
    <3>11. ScrubGood([bin |-> scrub.bin, zoom |-> z], total)
      BY <3>4, <3>8 DEF ScrubGood
    <3>12. ScrubGood(scrub', total)
      BY <3>10, <3>11
    <3>13. Zoom' = z
      BY <3>4, <3>8, <3>10, NewZoom DEF Inside
    <3>14. CASE z = None
      <4>1. views' = ZoomEnds(V)
        BY <3>1, <3>6, <3>14
      <4> QED BY <1>0, <1>1, <3>12, <3>13, <3>14, <4>1, WholeZoomEnds
    <3>15. CASE z # None
      <4>1. views' = [views EXCEPT ![active_tab] = [V EXCEPT !.cache = None]]
        BY <3>1, <3>6, <3>15 DEF V
      <4>2. Good([V EXCEPT !.cache = None], total, Zoom')
        BY <1>1, DroppedGood
      <4> QED BY <1>0, <1>1, <3>12, <3>13, <3>15, <4>1, <4>2, WholeChange
    <3> QED BY <3>14, <3>15
  <2> QED BY <2>1, <2>2
<1>4. CASE ScrubApply
  <2>1. CASE V.cache = None
    <3>1. UNCHANGED <<scrub, views>>
      BY <1>4, <2>1 DEF ScrubApply
    <3> QED BY <1>0, <1>1, <3>1, SameZoom, WholeTabs
  <2>2. CASE V.cache # None
    <3> DEFINE range == Picked(V.cache.hist, scrub.bin, scrub.zoom)
               v == [V EXCEPT !.range = range]
    <3>1. views' = ZoomEnds(Rebuilt(v, total)) /\ scrub' = None
      BY <1>4, <2>2 DEF ScrubApply
    <3> HIDE DEF range
    <3>2. /\ IsView(v) /\ v.rows = V.rows /\ v.cursor = V.cursor /\ v.top = V.top
          /\ v.cache = V.cache
      BY <1>1 DEF Good, Sound, IsView, Field
    <3> HIDE DEF v
    <3>3. Sound(v, total, Zoom)
      BY <1>1, <3>2, OtherFilter DEF Good
    <3>4. Good(Rebuilt(v, total), total, Zoom)
      BY <1>1, <3>3, RebuiltGood
    <3>5. ScrubGood(scrub', total) /\ Zoom' = None
      BY <3>1 DEF ScrubGood, Zoom
    <3> QED BY <1>0, <1>1, <3>1, <3>4, <3>5, WholeZoomEnds
  <2> QED BY <2>1, <2>2
<1> QED BY <1>2, <1>3, <1>4

(* Esc. *)
LEMMA WholeEscape == ASSUME Whole, Escape PROVE Whole'
<1>0. /\ active_tab \in DOMAIN views /\ UNCHANGED <<total, screen, wheel>> /\ scrub' = None
      /\ phase' \in {"leaving", "keys"}
  BY DEF Escape, Key, Handled
<1>1. /\ total \in 0 .. Len(Log) /\ Tabs(views, total, Zoom) /\ Len(views) > 0 /\ wheel \in Int
      /\ Good(V, total, Zoom) /\ ScrubGood(scrub', total) /\ Zoom' = None
  BY <1>0, TabsType DEF Whole, V, ScrubGood, Zoom
<1>2. CASE scrub # None
  <2>1. views' = ZoomEnds(V)
    BY <1>2 DEF Escape
  <2> QED BY <1>0, <1>1, <2>1, WholeZoomEnds
<1>3. CASE scrub = None
  <2> DEFINE v == [V EXCEPT !.regex = NoText, !.dsl = NoText, !.fields = {},
                            !.levels = {}, !.range = None]
  <2>1. views' = [views EXCEPT ![active_tab] = Rebuilt(v, total)]
    BY <1>3 DEF Escape, V
  <2>2. /\ IsView(v) /\ v.rows = V.rows /\ v.cursor = V.cursor /\ v.top = V.top
        /\ v.cache = V.cache
    BY <1>1 DEF Good, Sound, IsView, Field
  <2> HIDE DEF v
  <2>3. Good(Rebuilt(v, total), total, Zoom)
    BY <1>1, <2>2, OtherFilter, RebuiltGood DEF Good
  <2>4. Zoom = None
    BY <1>3 DEF Zoom
  <2> QED BY <1>0, <1>1, <2>1, <2>3, <2>4, WholeChange
<1> QED BY <1>2, <1>3

(* The tabs themselves. *)
LEMMA WholeTab == ASSUME Whole, OpenTab \/ CloseTab \/ Rescan PROVE Whole'
<1>0. /\ UNCHANGED <<total, screen, wheel, scrub>> /\ Zoom' = Zoom /\ phase' \in {"leaving", "keys"}
  BY SameZoom DEF OpenTab, CloseTab, Rescan, AnyKey, Key, Handled
<1>1. /\ total \in 0 .. Len(Log) /\ Tabs(views, total, Zoom) /\ Len(views) > 0 /\ wheel \in Int
      /\ ScrubGood(scrub, total) /\ Len(views) \in Nat /\ DOMAIN views = 1 .. Len(views)
      /\ \A i \in DOMAIN views : Good(views[i], total, Zoom)
  BY TabsType DEF Whole
<1>2. CASE OpenTab
  <2>1. views' = Append(views, NewView(total))
    BY <1>2 DEF OpenTab
  <2>2. PICK s : s = Append(views, NewView(total))
    OBVIOUS
  <2>3. Tabs(s, total, Zoom) /\ Len(s) = Len(views) + 1
    BY <1>1, <2>2, NewGood, TabsAppend
  <2>4. Tabs(views', total, Zoom) /\ Len(views') > 0
    BY <1>1, <2>1, <2>2, <2>3
  <2> QED BY <1>0, <1>1, <2>4, WholeTabs
<1>3. CASE CloseTab
  <2>1. /\ Len(views) > 1 /\ active_tab \in 1 .. Len(views)
        /\ views' = SubSeq(views, 1, active_tab - 1) \o SubSeq(views, active_tab + 1, Len(views))
    BY <1>1, <1>3 DEF CloseTab, Key
  <2>2. PICK a : a = SubSeq(views, 1, active_tab - 1)
    OBVIOUS
  <2>3. PICK b : b = SubSeq(views, active_tab + 1, Len(views))
    OBVIOUS
  <2>4. /\ 1 \in Int /\ active_tab - 1 \in Int /\ active_tab + 1 \in Int /\ Len(views) \in Int
        /\ 1 <= 1 /\ active_tab - 1 <= Len(views) /\ 1 <= active_tab + 1 /\ Len(views) <= Len(views)
    BY <1>1, <2>1
  <2>5. Tabs(a, total, Zoom) /\ Len(a) = active_tab - 1
    <3>1. Tabs(a, total, Zoom) /\ Len(a) = IF 1 <= active_tab - 1 THEN active_tab - 1 - 1 + 1 ELSE 0
      BY <1>1, <2>2, <2>4, TabsPart
    <3> QED BY <1>1, <2>1, <3>1
  <2>6. Tabs(b, total, Zoom) /\ Len(b) = Len(views) - active_tab
    <3>1. Tabs(b, total, Zoom) /\ Len(b) = IF active_tab + 1 <= Len(views)
                                     THEN Len(views) - (active_tab + 1) + 1 ELSE 0
      BY <1>1, <2>3, <2>4, TabsPart
    <3>2. Len(views) \in Nat /\ active_tab \in Nat /\ active_tab <= Len(views)
      BY <1>1, <2>1
    <3>3. \A l, p \in Nat : p <= l => (IF p + 1 <= l THEN l - (p + 1) + 1 ELSE 0) = l - p
      OBVIOUS
    <3> QED BY <3>1, <3>2, <3>3
  <2>7. PICK s : s = a \o b
    OBVIOUS
  <2>8. Tabs(s, total, Zoom) /\ Len(s) = Len(a) + Len(b)
    <3>1. Tabs(a, total, Zoom) /\ Tabs(b, total, Zoom)
      BY <2>5, <2>6
    <3>2. Tabs(a \o b, total, Zoom) /\ Len(a \o b) = Len(a) + Len(b)
      BY <3>1, TabsConcat
    <3> QED BY <2>7, <3>2
  <2>9. Len(s) > 0
    BY <1>1, <2>1, <2>5, <2>6, <2>8
  <2>10. Tabs(views', total, Zoom) /\ Len(views') > 0
    BY <2>1, <2>2, <2>3, <2>7, <2>8, <2>9
  <2> QED BY <1>0, <1>1, <2>10, WholeTabs
<1>4. CASE Rescan
  <2>1. views' = [i \in DOMAIN views |-> [views[i] EXCEPT !.cache = None]]
    BY <1>4 DEF Rescan
  <2>2. PICK s : s = [i \in DOMAIN views |-> [views[i] EXCEPT !.cache = None]]
    OBVIOUS
  <2>3. \A i \in DOMAIN views : Good([views[i] EXCEPT !.cache = None], total, Zoom)
    BY <1>1, DroppedGood
  <2>4. s = [i \in 1 .. Len(views) |-> s[i]] /\ \A i \in 1 .. Len(views) : Good(s[i], total, Zoom)
    BY <1>1, <2>2, <2>3
  <2>5. Tabs(s, total, Zoom) /\ Len(s) = Len(views)
    BY <1>1, <2>4, TabsFun
  <2>6. Tabs(views', total, Zoom) /\ Len(views') > 0
    BY <1>1, <2>1, <2>2, <2>5
  <2> QED BY <1>0, <1>1, <2>6, WholeTabs
<1> QED BY <1>2, <1>3, <1>4

(* Every step leaves every tab good. *)
LEMMA WholeStep == Whole /\ [Next]_vars => Whole'
<1> SUFFICES ASSUME Whole, [Next]_vars PROVE Whole'
  OBVIOUS
<1>0. /\ total \in 0 .. Len(Log) /\ Tabs(views, total, Zoom) /\ Len(views) > 0 /\ wheel \in Int
      /\ ScrubGood(scrub, total)
  BY DEF Whole
<1>1. CASE Draw
  BY <1>1, WholeDraw
<1>2. CASE BatchEnds
  <2>1. /\ active_tab \in DOMAIN views /\ phase' \in {"quit", "tick"} /\ wheel' = 0
        /\ UNCHANGED <<total, screen, active_tab, scrub>>
        /\ views' = [views EXCEPT ![active_tab] = IF wheel = 0 THEN V ELSE Moved(V, wheel)]
    BY <1>2 DEF BatchEnds, V
  <2>2. PICK w : w = IF wheel = 0 THEN V ELSE Moved(V, wheel)
    OBVIOUS
  <2>3. /\ Len(views) \in Nat /\ DOMAIN views = 1 .. Len(views)
        /\ \A i \in DOMAIN views : Good(views[i], total, Zoom)
    BY <1>0, TabsType
  <2>4. Good(w, total, Zoom)
    BY <1>0, <2>1, <2>2, <2>3, MovedGood DEF V
  <2>5. PICK s : s = [views EXCEPT ![active_tab] = w]
    OBVIOUS
  <2>6. /\ s = [i \in 1 .. Len(views) |-> s[i]] /\ \A i \in 1 .. Len(views) : Good(s[i], total, Zoom)
    BY <2>3, <2>4, <2>5
  <2>7. Tabs(s, total, Zoom) /\ Len(s) = Len(views) /\ DOMAIN s = DOMAIN views
    BY <2>3, <2>6, TabsFun
  <2>8. views' = s
    BY <2>1, <2>2, <2>5
  <2>9. active_tab' \in DOMAIN views' /\ Tabs(views', total, Zoom) /\ Len(views') > 0
    BY <1>0, <2>1, <2>7, <2>8
  <2>10. phase' # "drawn" /\ wheel' \in Int /\ ScrubGood(scrub', total) /\ Zoom' = Zoom
    BY <1>0, <2>1, SameZoom
  <2> QED BY <1>0, <2>1, <2>9, <2>10 DEF Whole
<1>3. CASE Search
  <2>1. PICK t : Filter([V EXCEPT !.regex = t])
    BY <1>3 DEF Search
  <2> DEFINE v == [V EXCEPT !.regex = t]
  <2>2. IsView(V) => /\ IsView(v) /\ v.rows = V.rows /\ v.cursor = V.cursor
                     /\ v.top = V.top /\ v.cache = V.cache
    BY DEF IsView, Field
  <2> QED BY <2>1, <2>2, WholeFilter
<1>4. CASE Query
  <2>1. PICK t : Filter([V EXCEPT !.dsl = t])
    BY <1>4 DEF Query
  <2> DEFINE v == [V EXCEPT !.dsl = t]
  <2>2. IsView(V) => /\ IsView(v) /\ v.rows = V.rows /\ v.cursor = V.cursor
                     /\ v.top = V.top /\ v.cache = V.cache
    BY DEF IsView, Field
  <2> QED BY <2>1, <2>2, WholeFilter
<1>5. CASE AddField
  <2>1. PICK t : Filter([V EXCEPT !.fields = @ \cup {t}])
    BY <1>5 DEF AddField
  <2> DEFINE v == [V EXCEPT !.fields = @ \cup {t}]
  <2>2. IsView(V) => /\ IsView(v) /\ v.rows = V.rows /\ v.cursor = V.cursor
                     /\ v.top = V.top /\ v.cache = V.cache
    BY DEF IsView, Field
  <2> QED BY <2>1, <2>2, WholeFilter
<1>6. CASE SetSeverity
  <2>1. PICK b : Filter([V EXCEPT !.levels = b])
    BY <1>6 DEF SetSeverity
  <2> DEFINE v == [V EXCEPT !.levels = b]
  <2>2. IsView(V) => /\ IsView(v) /\ v.rows = V.rows /\ v.cursor = V.cursor
                     /\ v.top = V.top /\ v.cache = V.cache
    BY DEF IsView, Field
  <2> QED BY <2>1, <2>2, WholeFilter
<1>7. CASE ToggleMin
  <2>1. Filter([V EXCEPT !.min_mode = ~@])
    BY <1>7 DEF ToggleMin
  <2> DEFINE v == [V EXCEPT !.min_mode = ~@]
  <2>2. IsView(V) => /\ IsView(v) /\ v.rows = V.rows /\ v.cursor = V.cursor
                     /\ v.top = V.top /\ v.cache = V.cache
    BY DEF IsView, Field
  <2> QED BY <2>1, <2>2, WholeFilter
<1>8. ASSUME NEW w, Change(w), wheel' \in Int, Good(V, total, Zoom) => Good(w, total, Zoom) PROVE Whole'
  <2>1. /\ active_tab \in DOMAIN views /\ views' = [views EXCEPT ![active_tab] = w]
        /\ UNCHANGED <<total, screen, scrub>> /\ phase' \in {"leaving", "keys"}
    BY <1>8 DEF Change, Key, Handled
  <2>2. Good(V, total, Zoom) /\ Zoom' = Zoom
    BY <1>0, <2>1, TabsType, SameZoom DEF V
  <2> QED BY <1>0, <1>8, <2>1, <2>2, WholeChange
<1>9. CASE JumpTime
  <2>1. PICK t : Change(AtTime(V, t)) /\ wheel' = wheel
    BY <1>9 DEF JumpTime
  <2> QED BY <1>0, <1>8, <2>1, JumpsGood
<1>10. CASE Bookmark
  <2>1. Change(Marked(V)) /\ wheel' = wheel
    BY <1>10 DEF Bookmark
  <2> QED BY <1>0, <1>8, <2>1, MarkedGood
<1>11. CASE NextBookmark
  <2>1. Change(AtBookmark(V)) /\ wheel' = 0
    BY <1>11 DEF NextBookmark
  <2> QED BY <1>0, <1>8, <2>1, JumpsGood
<1>12. CASE Start
  <2>1. Change(AtStart(V)) /\ wheel' = 0
    BY <1>12 DEF Start
  <2> QED BY <1>0, <1>8, <2>1, EndsGood
<1>13. CASE End
  <2>1. Change(AtEnd(V)) /\ wheel' = 0
    BY <1>13 DEF End
  <2> QED BY <1>0, <1>8, <2>1, EndsGood
<1>14. CASE Wheel \/ SwitchTab \/ Leave \/ Click
  <2>1. /\ UNCHANGED <<total, screen, views, scrub>> /\ phase' \in {"leaving", "keys"}
    BY <1>14 DEF Wheel, SwitchTab, Leave, Click, Key, AnyKey, Handled
  <2>2. wheel' \in Int
    <3>1. CASE Wheel
      <4>1. wheel' \in {wheel - Visible, wheel - 1, wheel + 1, wheel + Visible}
        BY <3>1 DEF Wheel
      <4> QED BY <1>0, <4>1, ViewsAssumption
    <3>2. CASE SwitchTab \/ Leave \/ Click
      BY <1>0, <3>2 DEF SwitchTab, Leave, Click
    <3> QED BY <1>14, <3>1, <3>2
  <2> QED BY <1>0, <2>1, <2>2, SameZoom, WholeTabs
<1>15. CASE OpenTab \/ CloseTab \/ Rescan
  BY <1>15, WholeTab
<1>16. CASE OutOfBounds
  <2>1. /\ UNCHANGED <<total, screen, views, scrub, wheel>> /\ phase' = "panicked"
    BY <1>16 DEF OutOfBounds
  <2> QED BY <1>0, <2>1, SameZoom, WholeTabs
<1>17. CASE ScrubMove \/ ScrubZoom \/ ScrubApply
  BY <1>17, WholeScrub
<1>18. CASE Escape
  BY <1>18, WholeEscape
<1>19. CASE Stopped \/ UNCHANGED vars
  <2>1. UNCHANGED <<total, views, active_tab, scrub, screen, wheel, phase>>
    BY <1>19 DEF Stopped, vars
  <2>2. Zoom' = Zoom /\ V' = V
    BY <2>1, SameZoom DEF V
  <2> QED BY <2>1, <2>2 DEF Whole
<1> QED BY <1>1, <1>2, <1>3, <1>4, <1>5, <1>6, <1>7, <1>9, <1>10, <1>11, <1>12, <1>13, <1>14,
           <1>15, <1>16, <1>17, <1>18, <1>19 DEF Next

-----------------------------------------------------------------------------
(* rebuild_view and drain_live_channel: whatever was typed, clicked and    *)
(* indexed, every tab shows the records its filters let through.           *)
THEOREM AlwaysRowsTrue == Spec => []RowsTrue
<1>1. Whole => RowsTrue
  BY TabsType DEF Whole, RowsTrue, Good
<1> QED BY WholeInit, WholeStep, <1>1, PTL DEF Spec

(* move_cursor, ensure_cursor_visible, snap_cursor and every jump: the     *)
(* cursor never leaves the rows, nor the stretch of them that the keys     *)
(* take to be visible, whatever the filters; and it is drawn on every      *)
(* terminal whose table has room for so many.                              *)
THEOREM AlwaysCursorShown == Spec => []CursorShown
<1>1. Whole => CursorShown
  <2> SUFFICES ASSUME Whole PROVE CursorShown
    OBVIOUS
  <2>1. \A i \in DOMAIN views : Good(views[i], total, Zoom)
    BY TabsType DEF Whole
  <2>2. scrub # None => scrub.bin >= 0
    <3>1. scrub # None => scrub.bin \in Nat
      BY DEF Whole, ScrubGood
    <3> QED BY <3>1
  <2>3. phase \in {"tick", "drawn"} => active_tab \in DOMAIN views
    BY DEF Whole
  <2>4. ASSUME NEW i \in DOMAIN views, views[i].rows # {}
        PROVE  OnScreen(views[i].rows, views[i].cursor, views[i].top)
    BY <2>1, <2>4 DEF Good, Sound
  <2>5. ASSUME phase = "drawn", V.rows # {}, screen.body >= Visible
        PROVE  V.cursor \in OnScreenRows
    <3>1. OnScreen(V.rows, V.cursor, V.top)
      BY <2>3, <2>4, <2>5 DEF V
    <3>2. screen.body \in Nat /\ Visible \in Nat
      <4>1. screen \in [bars : Nat, body : Nat]
        BY ViewsAssumption DEF Whole
      <4> QED BY <4>1, ViewsAssumption
    <3>3. \A i : i \in 0 .. Visible - 1 => i \in 0 .. screen.body - 1
      BY <2>5, <3>2
    <3> QED BY <3>1, <3>3 DEF OnScreen, OnScreenRows
  <2> QED BY <2>2, <2>3, <2>4, <2>5 DEF CursorShown, OnScreen
<1> QED BY WholeInit, WholeStep, <1>1, PTL DEF Spec

(* View::histogram: no cached timeline outlives the rows or the width it   *)
(* was built for; what is drawn shows the zoom there is, and without one   *)
(* everything, except in a tab that was drawn zoomed and not on screen     *)
(* when the zoom ended.                                                    *)
THEOREM AlwaysCacheTrue == Spec => []CacheTrue
<1>1. Whole => CacheTrue
  <2> SUFFICES ASSUME Whole PROVE CacheTrue
    OBVIOUS
  <2>1. \A i \in DOMAIN views : Good(views[i], total, Zoom)
    BY TabsType DEF Whole
  <2>2. ASSUME NEW i \in DOMAIN views, views[i].cache # None
        PROVE  LET v == views[i]
               IN  v.cache.hist = Built(v.rows, v.cache.bars, v.cache.over)
    BY <2>1, <2>2 DEF Good, Sound, Cached
  <2>3. phase = "drawn" =>
          /\ V.cache # None /\ V.cache.bars = screen.bars
          /\ V.cache.over = Zoom \/ (Zoom = None /\ V.cache.left)
    BY DEF Whole
  <2> QED BY <2>2, <2>3 DEF CacheTrue
<1> QED BY WholeInit, WholeStep, <1>1, PTL DEF Spec

(* handle_scrub_zoom: however often one zooms, in whichever tab, and       *)
(* whatever comes in between, the window is not empty and lies within the  *)
(* times of the records.                                                   *)
THEOREM AlwaysZoomInside == Spec => []ZoomInside
<1>1. Whole => ZoomInside
  <2> SUFFICES ASSUME Whole, Zoom # None PROVE ZoomInside
    BY DEF ZoomInside
  <2>1. Inside(Zoom, total)
    BY DEF Whole, ScrubGood, Zoom
  <2>2. Full[1] = Min(Times(total)) /\ Full[2] = Max(Times(total))
    BY DEF Full, Times
  <2> QED BY <2>1, <2>2 DEF Inside, ZoomInside
<1> QED BY WholeInit, WholeStep, <1>1, PTL DEF Spec

=============================================================================
