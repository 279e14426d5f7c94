-------------------------- MODULE CollapserProofs --------------------------
(***************************************************************************)
(* Collapser keeps its promises for every set of keys, window, table size  *)
(* and clock.  The inductive invariant Good is stated for a table, a set   *)
(* of summaries handed out and a history, so that the steps of one         *)
(* operation (close the stale window, clear a full table, insert) can be   *)
(* taken one after the other: each of them preserves Good.                 *)
(***************************************************************************)
EXTENDS Collapser, FiniteSetTheorems, TLAPS

-----------------------------------------------------------------------------
HistoryRecord == [key : Keys, at : Time, home : Nat]

HeldByIn(h, s) == {i \in DOMAIN h : i # s /\ h[i].home = s}

WindowsIn(c, r) == OpenWindows(c) \cup c.closed \cup r

Typed(c, r, h) ==
  /\ IsTable(c)
  /\ r \subseteq SummaryType
  /\ h \in Seq(HistoryRecord)

Bounded(c) ==
  /\ IsFiniteSet(DOMAIN c.entries)
  /\ Cardinality(DOMAIN c.entries) <= MaxKeys

Behind(h) ==
  \A i \in DOMAIN h :
    LET s == h[i].home
    IN  s # i => /\ s \in 1 .. (i - 1)
                 /\ h[s].home = s
                 /\ h[s].key = h[i].key
                 /\ h[i].at - h[s].at < Window

TrueIn(w, h) ==
  /\ w.count = Cardinality(HeldByIn(h, w.sample))
  /\ w.count > 0 => /\ w.last \in HeldByIn(h, w.sample)
                    /\ \A i \in HeldByIn(h, w.sample) : i <= w.last
  /\ w.sample \in DOMAIN h
  /\ h[w.sample].key = w.key /\ h[w.sample].home = w.sample

Covered(c, r, h) ==
  \A i \in DOMAIN h : h[i].home # i => \E w \in WindowsIn(c, r) : w.sample = h[i].home

Distinct(c, r) ==
  /\ \A v, w \in WindowsIn(c, r) : v.sample = w.sample => v = w
  /\ OpenWindows(c) \cap c.closed = {}
  /\ (OpenWindows(c) \cup c.closed) \cap r = {}

(* The clock reading kept with a window is the one its opener came with. *)
Stamped(c, h) ==
  \A k \in DOMAIN c.entries :
    /\ c.entries[k].sample \in DOMAIN h
    /\ c.entries[k].opened = h[c.entries[k].sample].at

Good(c, r, h) ==
  /\ Typed(c, r, h)
  /\ Bounded(c)
  /\ Behind(h)
  /\ \A w \in WindowsIn(c, r) : TrueIn(w, h)
  /\ Covered(c, r, h)
  /\ Distinct(c, r)
  /\ Stamped(c, h)

-----------------------------------------------------------------------------
(* The window is a span of time, and none is longer than time is.          *)
LEMMA WindowType == Window \in Time /\ Window \in Nat /\ Window <= TimeMax
BY CollapseAssumption DEF Window, Time

(* A saturated difference compares with the window as the exact one does. *)
LEMMA Saturation ==
  ASSUME NEW x \in Time, NEW y \in Time
  PROVE  (SatSub(x, y) < Window) <=> (x - y < Window)
BY CollapseAssumption, WindowType DEF SatSub, Time

(* The parts of a table whose windows of the keys in S were closed. *)
LEMMA ShutParts ==
  ASSUME NEW c, NEW S, IsTable(c)
  PROVE  LET d == Shut(c, S)
         IN  /\ IsTable(d)
             /\ DOMAIN d.entries = DOMAIN c.entries \ S
             /\ \A k \in DOMAIN d.entries : d.entries[k] = c.entries[k]
             /\ OpenWindows(d) \subseteq OpenWindows(c)
             /\ c.closed \subseteq d.closed
             /\ d.closed \subseteq c.closed \cup OpenWindows(c)
<1> DEFINE d == Shut(c, S)
           gone == {j \in DOMAIN c.entries \cap S : c.entries[j].count > 0}
<1>1. /\ d = [entries |-> d.entries, closed |-> d.closed]
      /\ d.entries = [k \in DOMAIN c.entries \ S |-> c.entries[k]]
      /\ d.closed = c.closed \cup {Summary(k, c.entries[k]) : k \in gone}
  BY DEF Shut, Restrict
<1>2. /\ DOMAIN d.entries = DOMAIN c.entries \ S
      /\ \A k \in DOMAIN d.entries : d.entries[k] = c.entries[k]
  BY <1>1
<1>3. \A k \in DOMAIN c.entries : c.entries[k] \in Entry
  BY DEF IsTable
<1>4. \A k \in DOMAIN c.entries : Summary(k, c.entries[k]) \in SummaryType
  BY <1>3 DEF IsTable, Entry, Summary, SummaryType
<1>5. IsTable(d)
  <2>1. d.entries \in [DOMAIN d.entries -> Entry]
    BY <1>1, <1>3
  <2>2. d.closed \subseteq SummaryType
    BY <1>1, <1>4 DEF IsTable
  <2> QED
    BY <1>1, <1>2, <2>1, <2>2 DEF IsTable
<1>6. OpenWindows(d) \subseteq OpenWindows(c)
  BY <1>2 DEF OpenWindows
<1>7. d.closed \subseteq c.closed \cup OpenWindows(c)
  BY <1>1 DEF OpenWindows
<1> QED
  BY <1>1, <1>2, <1>5, <1>6, <1>7

(* What is held by a key is finite.                                        *)
LEMMA HeldByFinite ==
  ASSUME NEW h \in Seq(HistoryRecord), NEW s
  PROVE  /\ IsFiniteSet(HeldByIn(h, s))
         /\ Cardinality(HeldByIn(h, s)) \in Nat
         /\ \A i \in HeldByIn(h, s) : Cardinality(HeldByIn(h, s)) > 0
<1>1. DOMAIN h = 1 .. Len(h) /\ Len(h) \in Nat
  OBVIOUS
<1>5. IsFiniteSet(1 .. Len(h)) /\ HeldByIn(h, s) \subseteq 1 .. Len(h)
  BY <1>1, FS_Interval DEF HeldByIn
<1>2. IsFiniteSet(HeldByIn(h, s))
  BY <1>5, FS_Subset
<1>3. Cardinality(HeldByIn(h, s)) \in Nat
  BY <1>2, FS_CardinalityType
<1>4. \A i \in HeldByIn(h, s) : Cardinality(HeldByIn(h, s)) # 0
  BY <1>2, FS_EmptySet
<1> QED
  BY <1>2, <1>3, <1>4

-----------------------------------------------------------------------------
(* Closing windows keeps the invariant: a window leaves the table with a   *)
(* summary unless it held nothing, and then no event needs it.             *)
LEMMA ShutGood ==
  ASSUME NEW c, NEW r, NEW h, NEW S, Good(c, r, h)
  PROVE  Good(Shut(c, S), r, h)
<1> DEFINE d == Shut(c, S)
<1> USE DEF Good
<1>1. IsTable(c) /\ r \subseteq SummaryType /\ h \in Seq(HistoryRecord)
  BY DEF Typed
<1>2. /\ IsTable(d)
      /\ DOMAIN d.entries = DOMAIN c.entries \ S
      /\ \A k \in DOMAIN d.entries : d.entries[k] = c.entries[k]
      /\ OpenWindows(d) \subseteq OpenWindows(c)
      /\ c.closed \subseteq d.closed
      /\ d.closed \subseteq c.closed \cup OpenWindows(c)
  BY <1>1, ShutParts
<1>3. d.closed = c.closed \cup {Summary(k, c.entries[k]) :
                     k \in {j \in DOMAIN c.entries \cap S : c.entries[j].count > 0}}
  BY DEF Shut
<1> HIDE DEF d
<1>4. WindowsIn(d, r) \subseteq WindowsIn(c, r)
  BY <1>2 DEF WindowsIn
<1>5. Typed(d, r, h)
  BY <1>1, <1>2 DEF Typed
<1>6. Bounded(d)
  <2>1. IsFiniteSet(DOMAIN c.entries) /\ DOMAIN d.entries \subseteq DOMAIN c.entries
    BY <1>2 DEF Bounded
  <2>2. /\ IsFiniteSet(DOMAIN d.entries)
        /\ Cardinality(DOMAIN d.entries) <= Cardinality(DOMAIN c.entries)
    BY <2>1, FS_Subset
  <2>3. Cardinality(DOMAIN d.entries) \in Nat /\ Cardinality(DOMAIN c.entries) \in Nat
    BY <2>1, <2>2, FS_CardinalityType
  <2> QED
    BY <2>2, <2>3, CollapseAssumption DEF Bounded
<1>7. \A w \in WindowsIn(d, r) : TrueIn(w, h)
  BY <1>4
<1>8. Covered(d, r, h)
  <2> SUFFICES ASSUME NEW i \in DOMAIN h, h[i].home # i
               PROVE  \E w \in WindowsIn(d, r) : w.sample = h[i].home
    BY DEF Covered
  <2>1. PICK w \in WindowsIn(c, r) : w.sample = h[i].home
    BY DEF Covered
  <2>2. CASE w \in c.closed \cup r
    BY <2>1, <2>2, <1>2 DEF WindowsIn
  <2>3. CASE w \in OpenWindows(c)
    <3>1. PICK k \in DOMAIN c.entries : w = Summary(k, c.entries[k])
      BY <2>3 DEF OpenWindows
    <3>2. i \in HeldByIn(h, w.sample)
      BY <2>1 DEF HeldByIn
    <3>3. w.count = Cardinality(HeldByIn(h, w.sample))
      BY DEF TrueIn
    <3>4. w.count > 0
      BY <3>2, <3>3, <1>1, HeldByFinite
    <3>5. CASE k \in S
      <4>1. c.entries[k].count > 0
        BY <3>1, <3>4 DEF Summary
      <4>2. w \in d.closed
        BY <4>1, <3>1, <3>5, <1>3
      <4> QED
        BY <4>2, <2>1 DEF WindowsIn
    <3>6. CASE k \notin S
      <4>1. k \in DOMAIN d.entries /\ d.entries[k] = c.entries[k]
        BY <3>6, <1>2
      <4>2. w \in OpenWindows(d)
        BY <4>1, <3>1 DEF OpenWindows
      <4> QED
        BY <4>2, <2>1 DEF WindowsIn
    <3> QED
      BY <3>5, <3>6
  <2> QED
    BY <2>2, <2>3 DEF WindowsIn
<1>9. Distinct(d, r)
  <2>1. \A v, w \in WindowsIn(d, r) : v.sample = w.sample => v = w
    BY <1>4 DEF Distinct
  <2>2. ASSUME NEW w, w \in OpenWindows(d), w \in d.closed
        PROVE  FALSE
    <3>1. PICK k \in DOMAIN d.entries : w = Summary(k, d.entries[k])
      BY <2>2 DEF OpenWindows
    <3>2. w \notin c.closed
      BY <2>2, <1>2 DEF Distinct
    <3>3. PICK j \in DOMAIN c.entries \cap S : w = Summary(j, c.entries[j])
      BY <2>2, <3>2, <1>3
    <3>4. k = j
      BY <3>1, <3>3 DEF Summary
    <3> QED
      BY <3>3, <3>4, <1>2
  <2>3. (OpenWindows(d) \cup d.closed) \cap r = {}
    BY <1>2 DEF Distinct
  <2> QED
    BY <2>1, <2>2, <2>3 DEF Distinct
<1>10. Stamped(d, h)
  BY <1>2 DEF Stamped
<1> QED
  BY <1>5, <1>6, <1>7, <1>8, <1>9, <1>10 DEF d

(* Handing the summaries to the caller keeps it too. *)
LEMMA TakenGood ==
  ASSUME NEW c, NEW r, NEW h, Good(c, r, h)
  PROVE  Good(Taken(c), r \cup c.closed, h)
<1> DEFINE d == Taken(c)
<1> USE DEF Good
<1>1. IsTable(c) /\ r \subseteq SummaryType /\ h \in Seq(HistoryRecord)
  BY DEF Typed
<1>7. c = [entries |-> c.entries, closed |-> c.closed]
  BY <1>1 DEF IsTable
<1>8. d = [entries |-> c.entries, closed |-> {}]
  BY <1>7 DEF Taken
<1>2. d.entries = c.entries /\ d.closed = {} /\ IsTable(d)
  BY <1>1, <1>8 DEF IsTable
<1>3. OpenWindows(d) = OpenWindows(c)
  BY <1>2 DEF OpenWindows
<1> HIDE DEF d
<1>4. WindowsIn(d, r \cup c.closed) = WindowsIn(c, r)
  BY <1>2, <1>3 DEF WindowsIn
<1>5. Typed(d, r \cup c.closed, h)
  BY <1>1, <1>2 DEF Typed, IsTable
<1>6. Distinct(d, r \cup c.closed)
  BY <1>2, <1>3, <1>4 DEF Distinct
<1> QED
  BY <1>2, <1>4, <1>5, <1>6 DEF d, Bounded, Covered, Stamped

-----------------------------------------------------------------------------
(* What one more event does to the history. *)
LEMMA Appended ==
  ASSUME NEW h \in Seq(HistoryRecord), NEW k \in Keys, NEW now \in Time, NEW s \in Nat
  PROVE  LET n == Len(h) + 1
             g == Append(h, [key |-> k, at |-> now, home |-> s])
         IN  /\ g \in Seq(HistoryRecord)
             /\ n \in Nat /\ n \notin DOMAIN h
             /\ DOMAIN h = 1 .. (n - 1) /\ DOMAIN g = 1 .. n
             /\ DOMAIN g = DOMAIN h \cup {n}
             /\ \A i \in DOMAIN h : g[i] = h[i]
             /\ g[n] = [key |-> k, at |-> now, home |-> s]
             /\ \A t : HeldByIn(g, t) = HeldByIn(h, t) \cup {i \in {n} : s = t /\ n # t}
<1> DEFINE n == Len(h) + 1
           x == [key |-> k, at |-> now, home |-> s]
           g == Append(h, x)
<1>1. x \in HistoryRecord
  BY DEF HistoryRecord
<1> HIDE DEF x
<1>2. /\ g \in Seq(HistoryRecord)
      /\ n \in Nat /\ n \notin DOMAIN h
      /\ DOMAIN h = 1 .. (n - 1) /\ DOMAIN g = 1 .. n
      /\ \A i \in DOMAIN h : g[i] = h[i]
      /\ g[n] = x
  BY <1>1
<1> HIDE DEF g, n
<1>3. DOMAIN g = DOMAIN h \cup {n}
  <2>1. 1 .. n = (1 .. (n - 1)) \cup {n} /\ n > 0
    BY DEF n
  <2> QED
    BY <1>2, <2>1
<1>4. \A t : HeldByIn(g, t) = HeldByIn(h, t) \cup {i \in {n} : s = t /\ n # t}
  <2> SUFFICES ASSUME NEW t
               PROVE  HeldByIn(g, t) = HeldByIn(h, t) \cup {i \in {n} : s = t /\ n # t}
    OBVIOUS
  <2>1. x.home = s
    BY DEF x
  <2> QED
    BY <2>1, <1>2, <1>3 DEF HeldByIn
<1>5. n = Len(h) + 1 /\ g = Append(h, [key |-> k, at |-> now, home |-> s])
      /\ x = [key |-> k, at |-> now, home |-> s]
  BY DEF g, n, x
<1> QED
  BY <1>2, <1>3, <1>4, <1>5 DEF g, n, x

(* An event that goes out is its own home: every window stays true. *)
LEMMA EmittedGood ==
  ASSUME NEW c, NEW r, NEW h, Good(c, r, h), NEW k \in Keys, NEW now \in Time
  PROVE  LET n == Len(h) + 1
             g == Append(h, [key |-> k, at |-> now, home |-> n])
         IN  /\ Good(c, r, g)
             /\ n \in DOMAIN g /\ g[n] = [key |-> k, at |-> now, home |-> n]
             /\ HeldByIn(g, n) = {}
             /\ \A w \in WindowsIn(c, r) : w.sample # n
<1> DEFINE n == Len(h) + 1
           g == Append(h, [key |-> k, at |-> now, home |-> n])
<1> USE DEF Good
<1>1. h \in Seq(HistoryRecord) /\ n \in Nat
  BY DEF Typed
<1>2. /\ g \in Seq(HistoryRecord)
      /\ n \notin DOMAIN h
      /\ DOMAIN h = 1 .. (n - 1) /\ DOMAIN g = 1 .. n
      /\ DOMAIN g = DOMAIN h \cup {n}
      /\ \A i \in DOMAIN h : g[i] = h[i]
      /\ g[n] = [key |-> k, at |-> now, home |-> n]
      /\ \A t : HeldByIn(g, t) = HeldByIn(h, t) \cup {i \in {n} : n = t /\ n # t}
  BY <1>1, Appended
<1> HIDE DEF g, n
<1>3. \A t : HeldByIn(g, t) = HeldByIn(h, t)
  BY <1>2
<1>4. \A w \in WindowsIn(c, r) : w.sample \in DOMAIN h
  BY DEF TrueIn
<1>5. HeldByIn(g, n) = {}
  <2> SUFFICES ASSUME NEW i \in DOMAIN h, i # n, h[i].home = n
               PROVE  FALSE
    BY <1>3 DEF HeldByIn
  <2>1. n \in 1 .. (i - 1)
    BY DEF Behind
  <2> QED
    BY <2>1, <1>2, <1>1
<1>6. Typed(c, r, g)
  BY <1>2 DEF Typed
<1>7. Behind(g)
  <2> SUFFICES ASSUME NEW i \in DOMAIN g, g[i].home # i
               PROVE  LET s == g[i].home
                      IN  /\ s \in 1 .. (i - 1)
                          /\ g[s].home = s
                          /\ g[s].key = g[i].key
                          /\ g[i].at - g[s].at < Window
    BY DEF Behind
  <2>1. i \in DOMAIN h /\ g[i] = h[i]
    <3>1. g[n].home = n
      BY <1>2
    <3>2. i # n
      BY <3>1
    <3> QED
      BY <3>2, <1>2
  <2>2. /\ h[i].home \in 1 .. (i - 1)
        /\ h[h[i].home].home = h[i].home
        /\ h[h[i].home].key = h[i].key
        /\ h[i].at - h[h[i].home].at < Window
    BY <2>1 DEF Behind
  <2>3. h[i].home \in DOMAIN h
    <3>1. i \in Int /\ i <= n - 1
      BY <2>1, <1>2, <1>1
    <3> QED
      BY <3>1, <2>2, <1>1, <1>2
  <2> QED
    BY <2>1, <2>2, <2>3, <1>2
<1>8. \A w \in WindowsIn(c, r) : TrueIn(w, g)
  BY <1>2, <1>3, <1>4 DEF TrueIn
<1>9. Covered(c, r, g)
  BY <1>2 DEF Covered
<1>10. Stamped(c, g)
  BY <1>2 DEF Stamped
<1>11. \A w \in WindowsIn(c, r) : w.sample # n
  BY <1>2, <1>4
<1> QED
  BY <1>2, <1>5, <1>6, <1>7, <1>8, <1>9, <1>10, <1>11 DEF g, n

(* Inserting a window for an event that just went out. *)
LEMMA OpenedGood ==
  ASSUME NEW c, NEW r, NEW h, Good(c, r, h), NEW n \in DOMAIN h,
         NEW k \in Keys, NEW now \in Time,
         h[n] = [key |-> k, at |-> now, home |-> n],
         HeldByIn(h, n) = {},
         \A w \in WindowsIn(c, r) : w.sample # n,
         k \notin DOMAIN c.entries, ~Full(c)
  PROVE  Good(Opened(c, k, n, now), r, h)
<1> DEFINE d == Opened(c, k, n, now)
           e == [opened |-> now, count |-> 0, sample |-> n, last |-> NoEvent]
           new == Summary(k, e)
<1> USE DEF Good
<1>1. /\ IsTable(c) /\ r \subseteq SummaryType /\ h \in Seq(HistoryRecord)
      /\ n \in Nat
  BY DEF Typed
<1>2. /\ d = [entries |-> d.entries, closed |-> c.closed]
      /\ d.entries = [j \in DOMAIN c.entries \cup {k} |-> IF j = k THEN e ELSE c.entries[j]]
      /\ d.closed = c.closed
  <2>1. c = [entries |-> c.entries, closed |-> c.closed]
    BY <1>1 DEF IsTable
  <2> QED
    BY <2>1 DEF Opened
<1>3. /\ e \in Entry
      /\ new = [key |-> k, count |-> 0, sample |-> n, last |-> NoEvent]
  BY <1>1 DEF Entry, NoEvent, Summary
<1> HIDE DEF d, e, new
<1>4. /\ DOMAIN d.entries = DOMAIN c.entries \cup {k}
      /\ d.entries[k] = e
      /\ \A j \in DOMAIN c.entries : d.entries[j] = c.entries[j]
  BY <1>2
<1>5. OpenWindows(d) = OpenWindows(c) \cup {new}
  <2>1. \A j \in DOMAIN c.entries : Summary(j, d.entries[j]) = Summary(j, c.entries[j])
    BY <1>4
  <2>2. Summary(k, d.entries[k]) = new
    BY <1>4 DEF new
  <2> QED
    BY <1>4, <2>1, <2>2 DEF OpenWindows
<1>6. WindowsIn(d, r) = WindowsIn(c, r) \cup {new}
  BY <1>2, <1>5 DEF WindowsIn
<1>7. new.sample = n /\ new \notin WindowsIn(c, r)
  BY <1>3
<1>8. Typed(d, r, h)
  <2>1. \A j \in DOMAIN c.entries : c.entries[j] \in Entry
    BY <1>1 DEF IsTable
  <2>2. d.entries \in [DOMAIN d.entries -> Entry]
    BY <2>1, <1>2, <1>3, <1>4
  <2>3. DOMAIN d.entries \subseteq Keys /\ d.closed \subseteq SummaryType
    BY <1>1, <1>2, <1>4 DEF IsTable
  <2> QED
    BY <1>1, <1>2, <2>2, <2>3 DEF Typed, IsTable
<1>9. Bounded(d)
  <2>1. IsFiniteSet(DOMAIN c.entries) /\ Cardinality(DOMAIN c.entries) \in Nat
    BY FS_CardinalityType DEF Bounded
  <2>2. /\ IsFiniteSet(DOMAIN d.entries)
        /\ Cardinality(DOMAIN d.entries) = Cardinality(DOMAIN c.entries) + 1
    BY <2>1, <1>4, FS_AddElement
  <2>3. ~(Cardinality(DOMAIN c.entries) >= MaxKeys)
    BY DEF Full
  <2> QED
    BY <2>1, <2>2, <2>3, CollapseAssumption DEF Bounded
<1>10. \A w \in WindowsIn(d, r) : TrueIn(w, h)
  <2>1. new.key = k /\ new.count = 0 /\ new.sample = n
    BY <1>3
  <2>2. /\ new.count = Cardinality(HeldByIn(h, new.sample))
        /\ ~(new.count > 0)
    <3>1. HeldByIn(h, new.sample) = {}
      BY <2>1
    <3>2. Cardinality(HeldByIn(h, new.sample)) = 0
      BY <3>1, FS_EmptySet
    <3> QED
      BY <2>1, <3>2
  <2>3. /\ new.sample \in DOMAIN h
        /\ h[new.sample].key = new.key /\ h[new.sample].home = new.sample
    BY <2>1
  <2>4. TrueIn(new, h)
    BY <2>2, <2>3 DEF TrueIn
  <2> QED
    BY <2>4, <1>6
<1>11. Covered(d, r, h)
  BY <1>6 DEF Covered
<1>12. Distinct(d, r)
  <2>1. new \notin c.closed /\ new \notin r
    BY <1>7 DEF WindowsIn
  <2> QED
    BY <2>1, <1>2, <1>5, <1>6, <1>7 DEF Distinct
<1>13. Stamped(d, h)
  <2>1. e.sample = n /\ e.opened = now /\ h[n].at = now
    BY DEF e
  <2> QED
    BY <2>1, <1>4 DEF Stamped
<1> QED
  BY <1>8, <1>9, <1>10, <1>11, <1>12, <1>13 DEF d

(* Counting a repeat in the open window of its key. *)
LEMMA HoldGood ==
  ASSUME NEW c, NEW r, NEW h, Good(c, r, h), NEW k \in Keys, NEW now \in Time,
         Suppressed(c, k, now)
  PROVE  LET n == Len(h) + 1
         IN  Good(Hold(c, k, n), r,
                  Append(h, [key |-> k, at |-> now, home |-> c.entries[k].sample]))
<1> DEFINE n == Len(h) + 1
           s == c.entries[k].sample
           g == Append(h, [key |-> k, at |-> now, home |-> s])
           d == Hold(c, k, n)
           old == Summary(k, c.entries[k])
           new == Summary(k, d.entries[k])
<1> USE DEF Good
<1>1. /\ IsTable(c) /\ r \subseteq SummaryType /\ h \in Seq(HistoryRecord) /\ n \in Nat
      /\ k \in DOMAIN c.entries /\ c.entries[k] \in Entry
      /\ s \in Nat
  BY DEF Typed, Suppressed, IsTable, Entry
<1>2. /\ g \in Seq(HistoryRecord)
      /\ n \notin DOMAIN h
      /\ DOMAIN h = 1 .. (n - 1) /\ DOMAIN g = 1 .. n
      /\ DOMAIN g = DOMAIN h \cup {n}
      /\ \A i \in DOMAIN h : g[i] = h[i]
      /\ g[n] = [key |-> k, at |-> now, home |-> s]
      /\ \A t : HeldByIn(g, t) = HeldByIn(h, t) \cup {i \in {n} : s = t /\ n # t}
  BY <1>1, Appended
<1>3. /\ d = [entries |-> d.entries, closed |-> c.closed]
      /\ d.closed = c.closed
      /\ DOMAIN d.entries = DOMAIN c.entries
      /\ \A j \in DOMAIN c.entries : j # k => d.entries[j] = c.entries[j]
      /\ d.entries[k] = [opened |-> c.entries[k].opened, count |-> c.entries[k].count + 1,
                         sample |-> s, last |-> n]
      /\ d.entries \in [DOMAIN c.entries -> Entry]
  <2>1. /\ c = [entries |-> c.entries, closed |-> c.closed]
        /\ c.entries \in [DOMAIN c.entries -> Entry]
    BY <1>1 DEF IsTable
  <2> DEFINE y == [opened |-> c.entries[k].opened, count |-> c.entries[k].count + 1,
                   sample |-> s, last |-> n]
  <2>3. y \in Entry
    BY <1>1 DEF Entry
  <2>4. d = [entries |-> [c.entries EXCEPT ![k] = y], closed |-> c.closed]
    BY DEF Hold
  <2> HIDE DEF d, y
  <2>5. d.entries = [c.entries EXCEPT ![k] = y] /\ d.closed = c.closed
    BY <2>4
  <2>6. /\ DOMAIN d.entries = DOMAIN c.entries
        /\ \A j \in DOMAIN c.entries : j # k => d.entries[j] = c.entries[j]
        /\ d.entries[k] = y
        /\ d.entries \in [DOMAIN c.entries -> Entry]
    BY <1>1, <2>1, <2>3, <2>5
  <2> QED
    BY <2>4, <2>5, <2>6 DEF y
<1>4. /\ old = [key |-> k, count |-> c.entries[k].count, sample |-> s,
                last |-> c.entries[k].last]
      /\ new = [key |-> k, count |-> c.entries[k].count + 1, sample |-> s, last |-> n]
      /\ c.entries[k].count \in Nat
  BY <1>1, <1>3 DEF Summary, Entry
<1>5. s \in DOMAIN h /\ h[s].at = c.entries[k].opened
  BY <1>1 DEF Stamped
<1>6. old \in OpenWindows(c) /\ new \in OpenWindows(d)
  BY <1>1, <1>3 DEF OpenWindows
<1> HIDE DEF n, g, d, old, new
<1>7. TrueIn(old, h)
  BY <1>6 DEF WindowsIn
<1>8. \A j \in DOMAIN c.entries : j # k =>
        /\ Summary(j, d.entries[j]) = Summary(j, c.entries[j])
        /\ Summary(j, c.entries[j]) # old
  BY <1>3, <1>4 DEF Summary
<1>9. OpenWindows(d) = (OpenWindows(c) \ {old}) \cup {new}
  <2>1. Summary(k, d.entries[k]) = new /\ Summary(k, c.entries[k]) = old
    BY DEF old, new
  <2> QED
    BY <2>1, <1>1, <1>3, <1>8 DEF OpenWindows
<1>10. old \notin c.closed /\ old \notin r
  BY <1>6 DEF Distinct
<1>11. WindowsIn(d, r) = (WindowsIn(c, r) \ {old}) \cup {new}
  BY <1>3, <1>9, <1>10 DEF WindowsIn
<1>12. old \in WindowsIn(c, r) /\ old.sample = s /\ new.sample = s
  BY <1>4, <1>6 DEF WindowsIn
<1>13. \A w \in WindowsIn(c, r) : w # old => w.sample # s
  BY <1>12 DEF Distinct
<1>14. /\ HeldByIn(g, s) = HeldByIn(h, s) \cup {n}
       /\ n \notin HeldByIn(h, s)
       /\ \A t : t # s => HeldByIn(g, t) = HeldByIn(h, t)
  <2>1. n # s
    BY <1>2, <1>5
  <2> QED
    BY <2>1, <1>2 DEF HeldByIn
<1>15. Typed(d, r, g)
  BY <1>1, <1>2, <1>3 DEF Typed, IsTable
<1>16. Bounded(d)
  BY <1>3 DEF Bounded
<1>17. Behind(g)
  <2>1. /\ h[s].home = s /\ h[s].key = k
    BY <1>4, <1>7 DEF TrueIn
  <2>2. now - h[s].at < Window
    <3>1. c.entries[k].opened \in Time
      BY <1>1 DEF Entry
    <3> QED
      BY <3>1, <1>5, Saturation DEF Suppressed
  <2> SUFFICES ASSUME NEW i \in DOMAIN g, g[i].home # i
               PROVE  /\ g[i].home \in 1 .. (i - 1)
                      /\ g[g[i].home].home = g[i].home
                      /\ g[g[i].home].key = g[i].key
                      /\ g[i].at - g[g[i].home].at < Window
    BY DEF Behind
  <2>3. CASE i = n
    <3>1. /\ g[i].home = s /\ g[i].key = k /\ g[i].at = now /\ g[s] = h[s]
          /\ s \in 1 .. (i - 1)
      BY <2>3, <1>2, <1>5
    <3> QED
      BY <3>1, <2>1, <2>2
  <2>4. CASE i # n
    <3>1. i \in DOMAIN h /\ g[i] = h[i] /\ i \in Int /\ i <= n - 1
      BY <2>4, <1>1, <1>2
    <3>2. /\ h[i].home \in 1 .. (i - 1)
          /\ h[h[i].home].home = h[i].home
          /\ h[h[i].home].key = h[i].key
          /\ h[i].at - h[h[i].home].at < Window
      BY <3>1 DEF Behind
    <3>3. h[i].home \in DOMAIN h
      BY <3>1, <3>2, <1>1, <1>2
    <3> QED
      BY <3>1, <3>2, <3>3, <1>2
  <2> QED
    BY <2>3, <2>4
<1>18. TrueIn(new, g)
  <2>1. Cardinality(HeldByIn(g, s)) = Cardinality(HeldByIn(h, s)) + 1
    <3>1. IsFiniteSet(HeldByIn(h, s))
      BY <1>1, HeldByFinite
    <3>2. HeldByIn(g, s) = HeldByIn(h, s) \cup {n} /\ n \notin HeldByIn(h, s)
      BY <1>14
    <3> HIDE DEF HeldByIn
    <3> QED
      BY <3>1, <3>2, FS_AddElement
  <2>2. new.count = Cardinality(HeldByIn(g, s))
    BY <2>1, <1>4, <1>7, <1>12 DEF TrueIn
  <2>3. n \in HeldByIn(g, s) /\ \A i \in HeldByIn(g, s) : i <= n
    BY <1>1, <1>2, <1>14 DEF HeldByIn
  <2>4. s \in DOMAIN g /\ g[s].key = k /\ g[s].home = s
    BY <1>2, <1>4, <1>5, <1>7 DEF TrueIn
  <2> QED
    BY <2>2, <2>3, <2>4, <1>4 DEF TrueIn
<1>19. \A w \in WindowsIn(d, r) : TrueIn(w, g)
  <2> SUFFICES ASSUME NEW w \in WindowsIn(c, r), w # old
               PROVE  TrueIn(w, g)
    BY <1>11, <1>18
  <2>1. TrueIn(w, h) /\ w.sample # s
    BY <1>13
  <2>2. HeldByIn(g, w.sample) = HeldByIn(h, w.sample)
    BY <2>1, <1>14
  <2> QED
    BY <2>1, <2>2, <1>2 DEF TrueIn
<1>20. Covered(d, r, g)
  <2> SUFFICES ASSUME NEW i \in DOMAIN g, g[i].home # i
               PROVE  \E w \in WindowsIn(d, r) : w.sample = g[i].home
    BY DEF Covered
  <2>1. CASE i = n
    BY <2>1, <1>2, <1>11, <1>12
  <2>2. CASE i # n
    <3>1. i \in DOMAIN h /\ g[i] = h[i]
      BY <2>2, <1>2
    <3>2. PICK w \in WindowsIn(c, r) : w.sample = h[i].home
      BY <3>1 DEF Covered
    <3> QED
      BY <3>1, <3>2, <1>11, <1>12
  <2> QED
    BY <2>1, <2>2
<1>21. Distinct(d, r)
  <2>1. \A w \in WindowsIn(c, r) : w # old => w.sample # new.sample
    BY <1>12, <1>13
  <2>2. \A v, w \in WindowsIn(d, r) : v.sample = w.sample => v = w
    BY <2>1, <1>11 DEF Distinct
  <2>3. new \notin c.closed /\ new \notin r
    BY <1>10, <1>12, <1>13 DEF WindowsIn
  <2> QED
    BY <2>2, <2>3, <1>3, <1>9 DEF Distinct
<1>22. Stamped(d, g)
  BY <1>1, <1>2, <1>3, <1>5 DEF Stamped
<1> QED
  BY <1>15, <1>16, <1>17, <1>19, <1>20, <1>21, <1>22 DEF n, g, d

-----------------------------------------------------------------------------
(* The whole of offer(), for an event that goes out. *)
LEMMA TrackGood ==
  ASSUME NEW c, NEW r, NEW h, Good(c, r, h), NEW k \in Keys, NEW now \in Time,
         ~Suppressed(c, k, now)
  PROVE  LET n == Len(h) + 1
         IN  Good(Track(c, k, n, now), r,
                  Append(h, [key |-> k, at |-> now, home |-> n]))
<1> DEFINE n == Len(h) + 1
           g == Append(h, [key |-> k, at |-> now, home |-> n])
           kept == Shut(c, {k})
           room == Room(c, k, now)
<1>1. Good(kept, r, h)
  BY ShutGood
<1>2. Good(Expire(kept, now), r, h)
  BY <1>1, ShutGood DEF Expire
<1>3. Good(room, r, h)
  BY <1>1, <1>2 DEF Room
<1>4. k \notin DOMAIN room.entries
  <2>1. IsTable(c) /\ IsTable(kept)
    BY <1>1 DEF Good, Typed
  <2>2. k \notin DOMAIN kept.entries
    BY <2>1, ShutParts
  <2>3. DOMAIN Expire(kept, now).entries \subseteq DOMAIN kept.entries
    BY <2>1, ShutParts DEF Expire
  <2> QED
    BY <2>2, <2>3 DEF Room
<1> HIDE DEF n, g, kept, room
<1>5. /\ Good(c, r, g)
      /\ Good(room, r, g)
      /\ n \in DOMAIN g /\ g[n] = [key |-> k, at |-> now, home |-> n]
      /\ HeldByIn(g, n) = {}
      /\ \A w \in WindowsIn(room, r) : w.sample # n
  BY <1>3, EmittedGood DEF n, g
<1>6. CASE Window = 0
  BY <1>5, <1>6 DEF Track, n, g
<1>7. CASE Window # 0 /\ Full(room)
  BY <1>5, <1>7 DEF Track, n, g, room
<1>8. CASE Window # 0 /\ ~Full(room)
  <2>1. Good(Opened(room, k, n, now), r, g)
    BY <1>4, <1>5, <1>8, OpenedGood
  <2> QED
    BY <2>1, <1>8 DEF Track, n, g, room
<1> QED
  BY <1>6, <1>7, <1>8

(* The empty table is good,                                                *)
LEMMA InitGood == Init => Good(table, reported, history)
<1> SUFFICES ASSUME Init PROVE Good(table, reported, history)
  OBVIOUS
<1>1. /\ table.entries = [k \in {} |-> NoEvent] /\ table.closed = {}
      /\ table = [entries |-> table.entries, closed |-> table.closed]
      /\ reported = {} /\ history = <<>>
  BY DEF Init, EmptyTable
<1>2. DOMAIN table.entries = {} /\ DOMAIN history = {}
  BY <1>1
<1>3. OpenWindows(table) = {} /\ WindowsIn(table, reported) = {}
  BY <1>1, <1>2 DEF OpenWindows, WindowsIn
<1>4. Typed(table, reported, history)
  <2>1. table.entries \in [DOMAIN table.entries -> Entry]
    BY <1>1
  <2> QED
    BY <2>1, <1>1, <1>2 DEF Typed, IsTable
<1>5. Bounded(table)
  BY <1>2, FS_EmptySet, CollapseAssumption DEF Bounded
<1> QED
  BY <1>2, <1>3, <1>4, <1>5, <1>1 DEF Good, Behind, Covered, Distinct, Stamped

(* every step keeps it good,                                               *)
LEMMA NextGood ==
  Good(table, reported, history) /\ [Next]_vars => Good(table, reported, history)'
<1> SUFFICES ASSUME Good(table, reported, history), [Next]_vars
             PROVE  Good(table', reported', history')
  OBVIOUS
<1>1. ASSUME NEW k \in Keys, NEW now \in Readings, OfferSuppressed(k, now)
      PROVE  Good(table', reported', history')
  <2>1. now \in Time
    BY ReadingsAssumption
  <2> QED
    BY <1>1, <2>1, HoldGood DEF OfferSuppressed, Record, NextEvent
<1>2. ASSUME NEW k \in Keys, NEW now \in Readings, OfferEmitted(k, now)
      PROVE  Good(table', reported', history')
  <2>1. now \in Time
    BY ReadingsAssumption
  <2> QED
    BY <1>2, <2>1, TrackGood DEF OfferEmitted, Record, NextEvent
<1>3. ASSUME NEW now \in Readings, Flush(now)
      PROVE  Good(table', reported', history')
  <2>1. Good(Expire(table, now), reported, history)
    BY ShutGood DEF Expire
  <2> QED
    BY <1>3, <2>1, TakenGood DEF Flush
<1>4. CASE Finish
  <2>1. Good(Shut(table, DOMAIN table.entries), reported, history)
    BY ShutGood
  <2> QED
    BY <1>4, <2>1, TakenGood DEF Finish
<1>5. CASE UNCHANGED vars
  BY <1>5 DEF vars
<1> QED
  BY <1>1, <1>2, <1>3, <1>4, <1>5 DEF Next

(* and so it always is, from which the properties follow.                  *)
THEOREM AlwaysGood == Spec => []Good(table, reported, history)
BY InitGood, NextGood, PTL DEF Spec

-----------------------------------------------------------------------------
(* The table, the summaries and the history keep their types. *)
THEOREM TypeCorrect == Spec => []TypeOK
<1>1. Good(table, reported, history) => TypeOK
  BY DEF Good, Typed, TypeOK, HistoryRecord
<1> QED
  BY <1>1, AlwaysGood, PTL

(* Every summary's count and last repeat are those of the events it held   *)
(* back.                                                                   *)
THEOREM SummariesAreTrue == Spec => []SummariesTrue
<1>1. Good(table, reported, history) => SummariesTrue
  BY DEF Good, WindowsIn, Windows, TrueIn, SummariesTrue, HeldBy, HeldByIn, Events
<1> QED
  BY <1>1, AlwaysGood, PTL

(* No repeat is lost and none is told of twice. *)
THEOREM NothingLostOrToldTwice == Spec => []HeldOnce
<1>1. Good(table, reported, history) => HeldOnce
  BY DEF Good, WindowsIn, Windows, Covered, Distinct, HeldOnce, Events
<1> QED
  BY <1>1, AlwaysGood, PTL

(* Only repeats of an event that went out less than a window before are    *)
(* held back.                                                              *)
THEOREM HeldBackInTime == Spec => []HeldInWindow
<1>1. Good(table, reported, history) => HeldInWindow
  BY DEF Good, Behind, HeldInWindow, Events
<1> QED
  BY <1>1, AlwaysGood, PTL

(* The table never outgrows MAX_KEYS. *)
THEOREM NeverOutgrown == Spec => []TableBounded
<1>1. Good(table, reported, history) => TableBounded
  BY DEF Good, Bounded, TableBounded
<1> QED
  BY <1>1, AlwaysGood, PTL

-----------------------------------------------------------------------------
(* The refinement of RepeatLedger, for any keys, window, clock and table.  *)
Waiting(c, k) == Claims(OpenWindows(c) \cup c.closed, k)

ShownIn(h, k) == {i \in DOMAIN h : h[i].key = k /\ h[i].home = i}

(* Who claims what.                                                        *)
LEMMA ClaimsMeans ==
  ASSUME NEW W, NEW k
  PROVE  \A p : p \in Claims(W, k) <=>
           \E w \in W : w.key = k /\ p \in {w.sample} \X (1 .. w.count)
  BY DEF Claims

(* Windows that count what they held back make finitely many claims: one   *)
(* for each number below the length of the history at most.                *)
LEMMA ClaimsFinite ==
  ASSUME NEW c, NEW r, NEW h, Good(c, r, h), NEW k,
         NEW W, W \subseteq WindowsIn(c, r)
  PROVE  IsFiniteSet(Claims(W, k)) /\ Cardinality(Claims(W, k)) \in Nat
<1> DEFINE n == Len(h)
           grid == (1 .. n) \X (1 .. n)
<1>1. h \in Seq(HistoryRecord) /\ DOMAIN h = 1 .. n /\ n \in Nat
  BY DEF Good, Typed
<1> HIDE DEF n
<1>2. IsFiniteSet(1 .. n) /\ Cardinality(1 .. n) = n
  BY <1>1, FS_Interval
<1>3. IsFiniteSet(grid)
  BY <1>2, FS_Product
<1>4. Claims(W, k) \subseteq grid
  <2> SUFFICES ASSUME NEW w \in W, NEW p \in {w.sample} \X (1 .. w.count)
               PROVE  p \in grid
    BY ClaimsMeans
  <2>1. TrueIn(w, h)
    BY DEF Good
  <2>2. w.sample \in 1 .. n
    BY <2>1, <1>1 DEF TrueIn
  <2>3. HeldByIn(h, w.sample) \subseteq 1 .. n
    BY <1>1 DEF HeldByIn
  <2>4. Cardinality(HeldByIn(h, w.sample)) <= n /\ Cardinality(HeldByIn(h, w.sample)) \in Nat
    BY <2>3, <1>1, <1>2, FS_Subset, HeldByFinite
  <2>5. w.count \in Nat /\ w.count <= n
    BY <2>1, <2>4 DEF TrueIn
  <2> QED
    BY <2>2, <2>5, <1>1
<1> QED
  BY <1>3, <1>4, FS_Subset, FS_CardinalityType

(* Closing windows moves claims from open to closed windows and loses      *)
(* none, since the windows that leave no summary claim nothing.            *)
LEMMA ShutClaims ==
  ASSUME NEW c, NEW S, NEW k, IsTable(c)
  PROVE  Waiting(Shut(c, S), k) = Waiting(c, k)
<1> DEFINE d == Shut(c, S)
           gone == {j \in DOMAIN c.entries \cap S : c.entries[j].count > 0}
<1>1. /\ DOMAIN d.entries = DOMAIN c.entries \ S
      /\ \A j \in DOMAIN d.entries : d.entries[j] = c.entries[j]
      /\ OpenWindows(d) \subseteq OpenWindows(c)
      /\ c.closed \subseteq d.closed
      /\ d.closed \subseteq c.closed \cup OpenWindows(c)
  BY ShutParts
<1>2. d.closed = c.closed \cup {Summary(j, c.entries[j]) : j \in gone}
  BY DEF Shut
<1> HIDE DEF d
<1>3. OpenWindows(d) \cup d.closed \subseteq OpenWindows(c) \cup c.closed
  BY <1>1
<1>4. ASSUME NEW w \in OpenWindows(c) \cup c.closed, w \notin OpenWindows(d) \cup d.closed
      PROVE  1 .. w.count = {}
  <2>1. PICK j \in DOMAIN c.entries : w = Summary(j, c.entries[j])
    BY <1>1, <1>4 DEF OpenWindows
  <2>2. j \in S
    BY <2>1, <1>1, <1>4 DEF OpenWindows
  <2>3. ~(c.entries[j].count > 0)
    BY <2>1, <2>2, <1>2, <1>4
  <2>4. c.entries[j].count \in Nat /\ w.count = c.entries[j].count
    BY <2>1 DEF IsTable, Entry, Summary
  <2> QED
    BY <2>3, <2>4
<1>5. \A p : p \in Waiting(d, k) <=> p \in Waiting(c, k)
  BY <1>3, <1>4, ClaimsMeans DEF Waiting
<1> QED
  BY <1>5 DEF d, Waiting, Claims

(* Opening a window claims nothing.                                        *)
LEMMA OpenedClaims ==
  ASSUME NEW c, NEW j, NEW n, NEW now, NEW k, IsTable(c), j \notin DOMAIN c.entries
  PROVE  Waiting(Opened(c, j, n, now), k) = Waiting(c, k)
<1> DEFINE d == Opened(c, j, n, now)
           e == [opened |-> now, count |-> 0, sample |-> n, last |-> NoEvent]
<1>1. /\ DOMAIN d.entries = DOMAIN c.entries \cup {j}
      /\ d.entries[j] = e
      /\ \A i \in DOMAIN c.entries : d.entries[i] = c.entries[i]
      /\ d.closed = c.closed
  BY DEF Opened
<1>2. Summary(j, d.entries[j]).count = 0
  BY <1>1 DEF Summary
<1> HIDE DEF d, e
<1>3. \A w \in OpenWindows(d) : w \in OpenWindows(c) \/ w.count = 0
  BY <1>1, <1>2 DEF OpenWindows
<1>4. OpenWindows(c) \subseteq OpenWindows(d)
  BY <1>1 DEF OpenWindows
<1>5. 1 .. 0 = {}
  OBVIOUS
<1>6. \A p : p \in Waiting(d, k) <=> p \in Waiting(c, k)
  BY <1>1, <1>3, <1>4, <1>5, ClaimsMeans DEF Waiting
<1> QED
  BY <1>6 DEF d, Waiting, Claims

(* So nothing offer() does for an event that goes out changes what waits.  *)
LEMMA TrackClaims ==
  ASSUME NEW c, NEW r, NEW h, Good(c, r, h), NEW j \in Keys, NEW n, NEW now, NEW k
  PROVE  Waiting(Track(c, j, n, now), k) = Waiting(c, k)
<1> DEFINE kept == Shut(c, {j})
           room == Room(c, j, now)
<1>1. IsTable(c) /\ IsTable(kept) /\ DOMAIN kept.entries = DOMAIN c.entries \ {j}
      /\ Waiting(kept, k) = Waiting(c, k)
  BY ShutParts, ShutClaims DEF Good, Typed
<1> HIDE DEF kept
<1>2. /\ IsTable(Expire(kept, now)) /\ DOMAIN Expire(kept, now).entries \subseteq DOMAIN kept.entries
      /\ Waiting(Expire(kept, now), k) = Waiting(kept, k)
  BY <1>1, ShutParts, ShutClaims DEF Expire
<1>3. /\ IsTable(room) /\ j \notin DOMAIN room.entries
      /\ Waiting(room, k) = Waiting(c, k)
  BY <1>1, <1>2 DEF Room, kept
<1> HIDE DEF room
<1>4. Waiting(Opened(room, j, n, now), k) = Waiting(room, k)
  BY <1>3, OpenedClaims
<1> QED
  BY <1>3, <1>4 DEF Track, room


(* A repeat adds one claim to its own key and none to any other.           *)
LEMMA HoldClaims ==
  ASSUME NEW c, NEW r, NEW h, Good(c, r, h), NEW j \in Keys, NEW now, NEW n,
         Suppressed(c, j, now), NEW k
  PROVE  Cardinality(Waiting(Hold(c, j, n), k)) =
           Cardinality(Waiting(c, k)) + (IF k = j THEN 1 ELSE 0)
<1> DEFINE d == Hold(c, j, n)
           s == c.entries[j].sample
           m == c.entries[j].count
           old == Summary(j, c.entries[j])
           new == Summary(j, d.entries[j])
<1>1. /\ IsTable(c) /\ j \in DOMAIN c.entries /\ c.entries[j] \in Entry /\ m \in Nat
  BY DEF Good, Typed, Suppressed, IsTable, Entry
<1>2. /\ DOMAIN d.entries = DOMAIN c.entries
      /\ \A i \in DOMAIN c.entries : i # j => d.entries[i] = c.entries[i]
      /\ d.entries[j] = [opened |-> c.entries[j].opened, count |-> m + 1,
                         sample |-> s, last |-> n]
      /\ d.closed = c.closed
  BY <1>1 DEF Hold, IsTable
<1>3. /\ old.key = j /\ old.sample = s /\ old.count = m
      /\ new.key = j /\ new.sample = s /\ new.count = m + 1
  BY <1>2 DEF Summary
<1>4. old \in OpenWindows(c) /\ new \in OpenWindows(d)
  BY <1>1, <1>2 DEF OpenWindows
<1>5. \A w : w.key # j => (w \in OpenWindows(d) <=> w \in OpenWindows(c))
  BY <1>2 DEF OpenWindows, Summary
<1>6. \A w : w.key = j /\ w \in OpenWindows(c) => w = old
  BY DEF OpenWindows, Summary
<1>7. \A w : w.key = j /\ w \in OpenWindows(d) => w = new
  BY DEF OpenWindows, Summary
<1>8. \A w \in OpenWindows(c) \cup c.closed : w.sample = s => w = old
  BY <1>3, <1>4 DEF Good, Distinct, WindowsIn
<1> HIDE DEF d, s, m, old, new
<1>9. CASE k # j
  <2>1. \A p : p \in Waiting(d, k) <=> p \in Waiting(c, k)
    BY <1>2, <1>5, <1>9, ClaimsMeans DEF Waiting
  <2>2. Waiting(d, k) = Waiting(c, k)
    BY <2>1 DEF Waiting, Claims
  <2>3. Cardinality(Waiting(c, k)) \in Nat
    BY ClaimsFinite DEF Waiting, WindowsIn
  <2> QED
    BY <1>9, <2>2, <2>3 DEF d
<1>10. CASE k = j
  <2>1. \A p : p \in {s} \X (1 .. m + 1) <=> p \in {s} \X (1 .. m) \/ p = <<s, m + 1>>
    BY <1>1
  <2>2. \A p : p \in Waiting(d, k) <=> p \in Waiting(c, k) \/ p = <<s, m + 1>>
    <3>1. \A p : p \in Waiting(d, k) <=>
            p \in {s} \X (1 .. m + 1) \/ p \in Claims(c.closed, k)
      BY <1>2, <1>3, <1>4, <1>7, <1>10, ClaimsMeans DEF Waiting
    <3>2. \A p : p \in Waiting(c, k) <=>
            p \in {s} \X (1 .. m) \/ p \in Claims(c.closed, k)
      BY <1>3, <1>4, <1>6, <1>10, ClaimsMeans DEF Waiting
    <3> QED BY <2>1, <3>1, <3>2
  <2>3. Waiting(d, k) = Waiting(c, k) \cup {<<s, m + 1>>}
    <3> HIDE DEF Waiting
    <3> QED BY <2>2
  <2>4. <<s, m + 1>> \notin Waiting(c, k)
    <3> SUFFICES ASSUME NEW w \in OpenWindows(c) \cup c.closed,
                        <<s, m + 1>> \in {w.sample} \X (1 .. w.count)
                 PROVE  FALSE
      BY ClaimsMeans DEF Waiting
    <3>1. w.sample = s /\ m + 1 \in 1 .. w.count
      OBVIOUS
    <3> QED BY <3>1, <1>1, <1>3, <1>8
  <2>5. IsFiniteSet(Waiting(c, k)) /\ Cardinality(Waiting(c, k)) \in Nat
    BY ClaimsFinite DEF Waiting, WindowsIn
  <2>6. Cardinality(Waiting(c, k) \cup {<<s, m + 1>>}) = Cardinality(Waiting(c, k)) + 1
    <3> HIDE DEF Waiting
    <3> QED BY <2>4, <2>5, FS_AddElement
  <2> QED
    BY <1>10, <2>3, <2>6 DEF d
<1> QED
  BY <1>9, <1>10

(* Apart from each other, two finite sets add up.                          *)
LEMMA DisjointUnion ==
  ASSUME NEW A, NEW B, IsFiniteSet(A), IsFiniteSet(B), A \cap B = {}
  PROVE  Cardinality(A \cup B) = Cardinality(A) + Cardinality(B)
<1>1. Cardinality(A \cup B) = Cardinality(A) + Cardinality(B) - Cardinality(A \cap B)
  BY FS_Union
<1>2. Cardinality(A \cap B) = 0
  BY FS_EmptySet
<1>3. Cardinality(A) \in Nat /\ Cardinality(B) \in Nat
  BY FS_CardinalityType
<1> QED
  BY <1>1, <1>2, <1>3

(* Windows that are told of take their claims along.                       *)
LEMMA ClaimsSplit ==
  ASSUME NEW c, NEW r, NEW h, Good(c, r, h), NEW k,
         NEW V, NEW W, V \subseteq WindowsIn(c, r), W \subseteq WindowsIn(c, r),
         V \cap W = {}
  PROVE  Cardinality(Claims(V \cup W, k)) =
           Cardinality(Claims(V, k)) + Cardinality(Claims(W, k))
<1>1. Claims(V \cup W, k) = Claims(V, k) \cup Claims(W, k)
  BY DEF Claims
<1>2. Claims(V, k) \cap Claims(W, k) = {}
  <2> SUFFICES ASSUME NEW v \in V, NEW w \in W, v.sample = w.sample
               PROVE  FALSE
    BY ClaimsMeans
  <2>1. v = w
    BY DEF Good, Distinct
  <2> QED BY <2>1
<1>3. /\ IsFiniteSet(Claims(V, k)) /\ Cardinality(Claims(V, k)) \in Nat
      /\ IsFiniteSet(Claims(W, k)) /\ Cardinality(Claims(W, k)) \in Nat
  BY ClaimsFinite
<1> QED
  BY <1>1, <1>2, <1>3, DisjointUnion

(* What a flush tells is no longer waiting, and nothing else changes.      *)
LEMMA FlushClaims ==
  ASSUME NEW c, NEW r, NEW h, Good(c, r, h), NEW S, NEW k
  PROVE  LET d == Shut(c, S)
         IN  /\ Cardinality(Claims(r \cup d.closed, k)) \in Nat
             /\ Cardinality(Waiting(Taken(d), k)) \in Nat
             /\ Cardinality(Claims(r, k)) \in Nat
             /\ Cardinality(Claims(r \cup d.closed, k)) >= Cardinality(Claims(r, k))
             /\ Cardinality(Claims(r \cup d.closed, k)) + Cardinality(Waiting(Taken(d), k)) =
                  Cardinality(Claims(r, k)) + Cardinality(Waiting(c, k))
<1> DEFINE d == Shut(c, S)
<1>1. Good(d, r, h) /\ Waiting(d, k) = Waiting(c, k)
  BY ShutGood, ShutClaims DEF Good, Typed
<1> HIDE DEF d
<1>2. Waiting(Taken(d), k) = Claims(OpenWindows(d), k)
  <2>1. Taken(d).entries = d.entries /\ Taken(d).closed = {}
    BY DEF Taken
  <2> QED
    BY <2>1 DEF Waiting, OpenWindows
<1>3. /\ OpenWindows(d) \subseteq WindowsIn(d, r) /\ d.closed \subseteq WindowsIn(d, r)
      /\ r \subseteq WindowsIn(d, r)
      /\ OpenWindows(d) \cap d.closed = {} /\ r \cap d.closed = {}
  BY <1>1 DEF WindowsIn, Good, Distinct
<1>4. Cardinality(Waiting(d, k)) =
        Cardinality(Claims(OpenWindows(d), k)) + Cardinality(Claims(d.closed, k))
  BY <1>1, <1>3, ClaimsSplit DEF Waiting
<1>5. Cardinality(Claims(r \cup d.closed, k)) =
        Cardinality(Claims(r, k)) + Cardinality(Claims(d.closed, k))
  BY <1>1, <1>3, ClaimsSplit
<1>6. /\ Cardinality(Claims(OpenWindows(d), k)) \in Nat
      /\ Cardinality(Claims(d.closed, k)) \in Nat /\ Cardinality(Claims(r, k)) \in Nat
  BY <1>1, <1>3, ClaimsFinite
<1> QED
  BY <1>1, <1>2, <1>4, <1>5, <1>6 DEF d

(* What was shown of a key is finite.                                      *)
LEMMA ShownFinite ==
  ASSUME NEW h \in Seq(HistoryRecord), NEW k
  PROVE  IsFiniteSet(ShownIn(h, k)) /\ Cardinality(ShownIn(h, k)) \in Nat
<1>1. DOMAIN h = 1 .. Len(h) /\ Len(h) \in Nat
  OBVIOUS
<1>2. IsFiniteSet(1 .. Len(h)) /\ ShownIn(h, k) \subseteq 1 .. Len(h)
  BY <1>1, FS_Interval DEF ShownIn
<1> QED
  BY <1>2, FS_Subset, FS_CardinalityType

-----------------------------------------------------------------------------
(* Each step of the table is a step of the ledger or changes nothing in    *)
(* it: an event that goes out is shown, a repeat is held, a flush tells.   *)
LEMMA LedgerStep ==
  Good(table, reported, history) /\ [Next]_vars => [Ledger!Next]_(Ledger!vars)
<1> SUFFICES ASSUME Good(table, reported, history), [Next]_vars
             PROVE  [Ledger!Next]_(Ledger!vars)
  OBVIOUS
<1> DEFINE shown == [k \in Keys |-> Cardinality(ShownIn(history, k))]
           held == [k \in Keys |-> Cardinality(Waiting(table, k))]
           told == [k \in Keys |-> Cardinality(Claims(reported, k))]
           shownN == [k \in Keys |-> Cardinality(ShownIn(history', k))]
           heldN == [k \in Keys |-> Cardinality(Waiting(table', k))]
           toldN == [k \in Keys |-> Cardinality(Claims(reported', k))]
<1>1. /\ history \in Seq(HistoryRecord) /\ IsTable(table)
      /\ NextEvent = Len(history) + 1
  BY DEF Good, Typed, NextEvent
<1>2. ASSUME NEW j \in Keys, NEW now \in Readings, OfferEmitted(j, now)
      PROVE  /\ shownN = [shown EXCEPT ![j] = @ + 1]
             /\ heldN = held /\ toldN = told
  <2>1. now \in Time
    BY ReadingsAssumption
  <2> DEFINE n == Len(history) + 1
  <2>2. history' = Append(history, [key |-> j, at |-> now, home |-> n])
    BY <1>1, <1>2 DEF OfferEmitted, Record
  <2>3. /\ n \in Nat /\ n \notin DOMAIN history
        /\ DOMAIN history' = DOMAIN history \cup {n}
        /\ \A i \in DOMAIN history : history'[i] = history[i]
        /\ history'[n] = [key |-> j, at |-> now, home |-> n]
    BY <1>1, <2>1, <2>2, Appended
  <2> HIDE DEF n
  <2>4. ASSUME NEW k \in Keys
        PROVE  /\ IsFiniteSet(ShownIn(history, k)) /\ Cardinality(ShownIn(history, k)) \in Nat
               /\ ShownIn(history', k) = IF k = j THEN ShownIn(history, k) \cup {n}
                                         ELSE ShownIn(history, k)
               /\ n \notin ShownIn(history, k)
    <3>1. IsFiniteSet(ShownIn(history, k)) /\ Cardinality(ShownIn(history, k)) \in Nat
      BY <1>1, ShownFinite
    <3>2. \A i : i \in ShownIn(history', k) <=> i \in ShownIn(history, k) \/ (i = n /\ k = j)
      BY <2>3 DEF ShownIn
    <3>3. n \notin ShownIn(history, k)
      BY <2>3 DEF ShownIn
    <3> HIDE DEF ShownIn
    <3> QED BY <3>1, <3>2, <3>3
  <2>5. \A k \in Keys : Cardinality(ShownIn(history', k)) =
                          IF k = j THEN Cardinality(ShownIn(history, k)) + 1
                          ELSE Cardinality(ShownIn(history, k))
    BY <2>4, FS_AddElement
  <2>6. table' = Track(table, j, NextEvent, now) /\ reported' = reported
    BY <1>2 DEF OfferEmitted
  <2>7. \A k \in Keys : Waiting(table', k) = Waiting(table, k)
    BY <2>6, TrackClaims
  <2> QED
    BY <2>5, <2>6, <2>7
<1>3. ASSUME NEW j \in Keys, NEW now \in Readings, OfferSuppressed(j, now)
      PROVE  /\ shown[j] > 0
             /\ heldN = [held EXCEPT ![j] = @ + 1]
             /\ shownN = shown /\ toldN = told
  <2>1. now \in Time
    BY ReadingsAssumption
  <2> DEFINE n == Len(history) + 1
             s == table.entries[j].sample
  <2>2. /\ history' = Append(history, [key |-> j, at |-> now, home |-> s])
        /\ table' = Hold(table, j, NextEvent) /\ reported' = reported
        /\ Suppressed(table, j, now) /\ j \in DOMAIN table.entries
    BY <1>1, <1>3 DEF OfferSuppressed, Record, Suppressed
  <2>3. s \in DOMAIN history /\ history[s].key = j /\ history[s].home = s
    <3>1. Summary(j, table.entries[j]) \in WindowsIn(table, reported)
      BY <2>2 DEF OpenWindows, WindowsIn
    <3>2. TrueIn(Summary(j, table.entries[j]), history)
      BY <3>1 DEF Good
    <3> QED BY <3>2 DEF TrueIn, Summary
  <2>4. s \in Nat
    BY <1>1, <2>3
  <2>5. /\ n \in Nat /\ n \notin DOMAIN history
        /\ DOMAIN history' = DOMAIN history \cup {n}
        /\ \A i \in DOMAIN history : history'[i] = history[i]
        /\ history'[n] = [key |-> j, at |-> now, home |-> s]
    BY <1>1, <2>1, <2>2, <2>4, Appended
  <2> HIDE DEF n, s
  <2>6. \A k \in Keys : ShownIn(history', k) = ShownIn(history, k)
    BY <2>3, <2>5 DEF ShownIn
  <2>7. shown[j] > 0
    <3>1. s \in ShownIn(history, j)
      BY <2>3 DEF ShownIn
    <3>2. /\ IsFiniteSet(ShownIn(history, j)) /\ Cardinality(ShownIn(history, j)) \in Nat
      BY <1>1, ShownFinite
    <3> QED BY <3>1, <3>2, FS_EmptySet
  <2>8. \A k \in Keys : Cardinality(Waiting(table', k)) =
                          Cardinality(Waiting(table, k)) + (IF k = j THEN 1 ELSE 0)
    BY <2>2, HoldClaims
  <2>9. \A k \in Keys : Cardinality(Waiting(table, k)) \in Nat
    BY ClaimsFinite DEF Waiting, WindowsIn
  <2>10. heldN = [held EXCEPT ![j] = @ + 1]
    <3>1. \A k \in Keys : heldN[k] = IF k = j THEN held[k] + 1 ELSE held[k]
      BY <2>8, <2>9
    <3>2. heldN = [k \in Keys |-> IF k = j THEN held[k] + 1 ELSE held[k]]
      <4> HIDE DEF Waiting
      <4> QED BY <3>1
    <3> QED BY <3>2
  <2>11. shownN = shown /\ toldN = told
    BY <2>2, <2>6
  <2> QED
    BY <2>7, <2>10, <2>11
<1>4. ASSUME NEW S, reported' = reported \cup Shut(table, S).closed,
             table' = Taken(Shut(table, S)), history' = history
      PROVE  /\ \A k \in Keys : toldN[k] >= told[k] /\ toldN[k] + heldN[k] = told[k] + held[k]
             /\ shownN = shown
  BY <1>4, FlushClaims
<1>5. Ledger!vars = <<shown, held, told>> /\ Ledger!vars' = <<shownN, heldN, toldN>>
  BY DEF Ledger!vars, Shown, ShownIn, Events, Waiting
<1>6. /\ \A k \in Keys : Ledger!Show(k) <=> /\ shownN = [shown EXCEPT ![k] = @ + 1]
                                            /\ heldN = held /\ toldN = told
      /\ \A k \in Keys : Ledger!Hold(k) <=> /\ shown[k] > 0
                                            /\ heldN = [held EXCEPT ![k] = @ + 1]
                                            /\ shownN = shown /\ toldN = told
      /\ Ledger!Tell <=> /\ \A k \in Keys : /\ toldN[k] >= told[k]
                                            /\ toldN[k] + heldN[k] = told[k] + held[k]
                         /\ shownN = shown
  BY DEF Ledger!Show, Ledger!Hold, Ledger!Tell, Shown, ShownIn, Events, Waiting
<1> HIDE DEF shown, held, told, shownN, heldN, toldN
<1>7. CASE \E j \in Keys, now \in Readings : OfferSuppressed(j, now) \/ OfferEmitted(j, now)
  BY <1>7, <1>2, <1>3, <1>6 DEF Ledger!Next
<1>8. CASE \E now \in Readings : Flush(now)
  BY <1>8, <1>4, <1>6 DEF Ledger!Next, Flush, Expire
<1>9. CASE Finish
  BY <1>9, <1>4, <1>6 DEF Ledger!Next, Finish
<1>10. CASE UNCHANGED vars
  <2>1. shownN = shown /\ heldN = held /\ toldN = told
    BY <1>10 DEF vars, shown, held, told, shownN, heldN, toldN
  <2> QED
    BY <2>1, <1>5
<1> QED
  BY <1>7, <1>8, <1>9, <1>10 DEF Next

(* Nothing was shown, held or told before the first event.                 *)
LEMMA LedgerInit == Init => Ledger!Init
<1> SUFFICES ASSUME Init PROVE Ledger!Init
  OBVIOUS
<1>1. DOMAIN table.entries = {} /\ table.closed = {} /\ reported = {} /\ DOMAIN history = {}
  BY DEF Init, EmptyTable
<1>2. OpenWindows(table) = {}
  BY <1>1 DEF OpenWindows
<1>3. \A k : Shown(k) = {} /\ Claims({}, k) = {}
  BY <1>1 DEF Shown, Events, Claims
<1> QED
  BY <1>1, <1>2, <1>3, FS_EmptySet DEF Ledger!Init

(* The table implements the ledger: whatever the offers, flushes and clock *)
(* readings, and however many keys share a bounded table, what is shown,   *)
(* held and told adds up for each key.                                     *)
THEOREM TableImplementsLedger == Spec => ImplementsLedger
<1>1. Good(table, reported, history) /\ [Next]_vars => [Ledger!Next]_(Ledger!vars)
  BY LedgerStep
<1> QED
  BY <1>1, LedgerInit, AlwaysGood, PTL DEF Spec, ImplementsLedger, Ledger!Spec

=============================================================================
