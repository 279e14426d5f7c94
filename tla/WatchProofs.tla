---------------------------- MODULE WatchProofs ----------------------------
(***************************************************************************)
(* What a watch owes its reader, for any sources, texts and rules, any     *)
(* capacity of its channel and of its table: every match is told, and a    *)
(* watch that ends by itself has read and told everything.                 *)
(***************************************************************************)
EXTENDS Watch, FiniteSetTheorems, SequenceTheorems, WellFoundedInduction, TLAPS

-----------------------------------------------------------------------------
(* A set of naturals has a least element. *)
LEMMA Least ==
  ASSUME NEW T \in SUBSET Nat, T # {}
  PROVE  \E x \in T : \A y \in T : x <= y
<1> DEFINE R == OpToRel(<, Nat)
<1>1. IsWellFoundedOn(R, Nat)
  BY NatLessThanWellFounded
<1>2. \A x, y \in Nat : x < y => <<x, y>> \in R
  BY DEF OpToRel
<1> HIDE DEF R
<1>3. PICK x \in T : \A y \in T : ~(<<y, x>> \in R)
  BY <1>1, WFMin, Zenon
<1>4. ASSUME NEW y \in T PROVE x <= y
  <2>1. x \in Nat /\ y \in Nat
    OBVIOUS
  <2>2. ~(y < x)
    BY <1>2, <1>3, <2>1
  <2> QED BY <2>1, <2>2
<1> QED BY <1>4

(* The rule of a text is a rule, or none. *)
LEMMA RuleIsRule ==
  ASSUME NEW text \in Texts
  PROVE  RuleOf(text) = 0 \/ RuleOf(text) \in RuleIds
<1> DEFINE hits == {r \in RuleIds : text \in Rules[r]}
<1>1. hits \in SUBSET Nat
  BY DEF RuleIds
<1>2. hits # {} => Min(hits) \in hits
  BY <1>1, Least DEF Min
<1> QED BY <1>2 DEF RuleOf

-----------------------------------------------------------------------------
(* What a table holds back of a key. *)
HeldOf(c, key) == IF key \in DOMAIN c.entries THEN c.entries[key].count ELSE 0

(* Of each key there is one summary at most. *)
OneOfEach(W) == \A w, v \in W : w.key = v.key => w = v

(* What a set of summaries with one of each key says of a key. *)
LEMMA RepeatsOne ==
  ASSUME NEW W, OneOfEach(W), NEW w \in W
  PROVE  Repeats(w.key, W) = w.count
<1>1. Of(w.key, W) = {w}
  BY DEF Of, OneOfEach
<1> QED BY <1>1 DEF Repeats

(* A key with no summary has no repeats. *)
LEMMA RepeatsNone ==
  ASSUME NEW W, NEW key, \A w \in W : w.key # key
  PROVE  Repeats(key, W) = 0
BY DEF Repeats, Of

(* A summary less leaves the others as they are. *)
LEMMA RepeatsLess ==
  ASSUME NEW W, OneOfEach(W), NEW w \in W
  PROVE  /\ OneOfEach(W \ {w}) /\ Repeats(w.key, W \ {w}) = 0
         /\ \A key : key # w.key => Repeats(key, W \ {w}) = Repeats(key, W)
<1>1. OneOfEach(W \ {w}) /\ \A v \in W \ {w} : v.key # w.key
  BY DEF OneOfEach
<1>2. ASSUME NEW key, key # w.key PROVE Repeats(key, W \ {w}) = Repeats(key, W)
  <2>1. CASE \E v \in W : v.key = key
    <3>1. PICK v \in W : v.key = key
      BY <2>1
    <3>2. v \in W \ {w}
      BY <1>2, <3>1
    <3> QED BY <1>1, <3>1, <3>2, RepeatsOne
  <2>2. CASE ~\E v \in W : v.key = key
    BY <2>2, RepeatsNone
  <2> QED BY <2>1, <2>2
<1> QED BY <1>1, <1>2, RepeatsNone

(* A table whose summaries were taken. *)
Clean(c) == IsTable(c) /\ c.closed = {}

(* An open window says what its key holds back.                            *)
LEMMA OpenRepeats ==
  ASSUME NEW c, Clean(c), NEW key
  PROVE  Repeats(key, OpenWindows(c)) = HeldOf(c, key)
<1> DEFINE W == OpenWindows(c)
<1>1. \A w \in W : \E k \in DOMAIN c.entries : w = Summary(k, c.entries[k])
  BY DEF OpenWindows
<1>2. OneOfEach(W)
  BY <1>1 DEF OneOfEach, Summary
<1>3. CASE key \in DOMAIN c.entries
  <2>1. Summary(key, c.entries[key]) \in W
    BY <1>3 DEF OpenWindows
  <2>2. Summary(key, c.entries[key]).key = key /\
        Summary(key, c.entries[key]).count = c.entries[key].count
    BY DEF Summary
  <2> QED BY <1>2, <1>3, <2>1, <2>2, RepeatsOne DEF HeldOf
<1>4. CASE key \notin DOMAIN c.entries
  <2>1. \A w \in W : w.key # key
    BY <1>1, <1>4 DEF Summary
  <2> QED BY <1>4, <2>1, RepeatsNone DEF HeldOf
<1> QED BY <1>3, <1>4

(* What is held back is a number. *)
LEMMA HeldType ==
  ASSUME NEW c, Clean(c), NEW key
  PROVE  HeldOf(c, key) \in Nat
BY DEF Clean, IsTable, Entry, HeldOf

(* Windows that close tell what they held back.                            *)
LEMMA ShutTells ==
  ASSUME NEW c, Clean(c), NEW S
  PROVE  LET d == Shut(c, S)
         IN  /\ Clean(Taken(d)) /\ OneOfEach(d.closed) /\ d.closed \subseteq SummaryType
             /\ DOMAIN Taken(d).entries = DOMAIN c.entries \ S
             /\ \A key \in DOMAIN c.entries \ S : Taken(d).entries[key] = c.entries[key]
             /\ \A key : HeldOf(Taken(d), key) + Repeats(key, d.closed) = HeldOf(c, key)
<1> DEFINE d == Shut(c, S)
<1>1. /\ c.closed = {} /\ DOMAIN c.entries \subseteq Keys
      /\ c.entries \in [DOMAIN c.entries -> Entry]
  BY DEF Clean, IsTable
<1>2. /\ d.entries = [k \in DOMAIN c.entries \ S |-> c.entries[k]]
      /\ d.closed = {Summary(k, c.entries[k]) :
                       k \in {j \in DOMAIN c.entries \cap S : c.entries[j].count > 0}}
  BY <1>1 DEF Shut, Restrict
<1>3. Taken(d) = [entries |-> d.entries, closed |-> {}] /\ Taken(d).entries = d.entries
  BY DEF Taken
<1>4. /\ DOMAIN d.entries = DOMAIN c.entries \ S
      /\ \A key \in DOMAIN c.entries \ S : d.entries[key] = c.entries[key]
  BY <1>2
<1>5. Clean(Taken(d))
  BY <1>1, <1>2, <1>3 DEF Clean, IsTable
<1>6. \A w \in d.closed : \E k \in DOMAIN c.entries \cap S :
        w = Summary(k, c.entries[k]) /\ c.entries[k].count > 0
  BY <1>2
<1>7. OneOfEach(d.closed) /\ d.closed \subseteq SummaryType
  BY <1>1, <1>6 DEF OneOfEach, Summary, SummaryType, Entry
<1> HIDE DEF d
<1>8. ASSUME NEW key PROVE HeldOf(Taken(d), key) + Repeats(key, d.closed) = HeldOf(c, key)
  <2>1. HeldOf(c, key) \in Nat
    BY HeldType
  <2>2. CASE key \in DOMAIN c.entries \cap S /\ c.entries[key].count > 0
    <3>1. Summary(key, c.entries[key]) \in d.closed
      BY <1>2, <2>2
    <3>2. Repeats(key, d.closed) = c.entries[key].count
      <4>1. Summary(key, c.entries[key]).key = key /\
            Summary(key, c.entries[key]).count = c.entries[key].count
        BY DEF Summary
      <4> QED BY <1>7, <3>1, <4>1, RepeatsOne
    <3>3. HeldOf(Taken(d), key) = 0 /\ HeldOf(c, key) = c.entries[key].count
      BY <1>3, <1>4, <2>2 DEF HeldOf
    <3> QED BY <2>1, <3>2, <3>3
  <2>3. CASE ~(key \in DOMAIN c.entries \cap S /\ c.entries[key].count > 0)
    <3>1. \A w \in d.closed : w.key # key
      BY <1>6, <2>3 DEF Summary
    <3>2. Repeats(key, d.closed) = 0
      BY <3>1, RepeatsNone
    <3>3. HeldOf(Taken(d), key) = HeldOf(c, key)
      <4>1. CASE key \in DOMAIN c.entries \cap S
        <5>1. c.entries[key].count \in Nat /\ c.entries[key].count = 0
          BY <1>1, <2>3, <4>1 DEF Entry
        <5> QED BY <1>3, <1>4, <4>1, <5>1 DEF HeldOf
      <4>2. CASE key \notin DOMAIN c.entries \cap S
        BY <1>3, <1>4, <4>2 DEF HeldOf
      <4> QED BY <4>1, <4>2
    <3> QED BY <2>1, <3>2, <3>3
  <2> QED BY <2>2, <2>3
<1> QED BY <1>3, <1>4, <1>5, <1>7, <1>8 DEF d

(* Closing nothing changes nothing. *)
LEMMA ShutNone ==
  ASSUME NEW c, Clean(c), NEW S, DOMAIN c.entries \cap S = {}
  PROVE  Shut(c, S) = c
<1>1. /\ c = [entries |-> c.entries, closed |-> c.closed] /\ c.closed = {}
      /\ c.entries \in [DOMAIN c.entries -> Entry]
  BY DEF Clean, IsTable
<1>2. Restrict(c.entries, DOMAIN c.entries \ S) = c.entries
  BY <1>1 DEF Restrict
<1>3. {Summary(k, c.entries[k]) : k \in {j \in DOMAIN c.entries \cap S : c.entries[j].count > 0}} = {}
  OBVIOUS
<1> QED BY <1>1, <1>2, <1>3 DEF Shut

(* A repeat that is held back is in the window of its key. *)
LEMMA HoldHolds ==
  ASSUME NEW c, Clean(c), NEW k, k \in DOMAIN c.entries
  PROVE  /\ Clean(Hold(c, k, NoEvent))
         /\ HeldOf(Hold(c, k, NoEvent), k) = HeldOf(c, k) + 1
         /\ \A key : key # k => HeldOf(Hold(c, k, NoEvent), key) = HeldOf(c, key)
<1> DEFINE e == c.entries[k]
           counted == [opened |-> e.opened, count |-> e.count + 1,
                       sample |-> e.sample, last |-> NoEvent]
           d == Hold(c, k, NoEvent)
<1>1. /\ c.closed = {} /\ DOMAIN c.entries \subseteq Keys
      /\ c.entries \in [DOMAIN c.entries -> Entry]
  BY DEF Clean, IsTable
<1>2. counted \in Entry /\ counted.count = e.count + 1
  BY <1>1 DEF Entry, NoEvent
<1>3. d = [entries |-> [c.entries EXCEPT ![k] = counted], closed |-> c.closed]
  BY DEF Hold
<1> HIDE DEF counted, d
<1>4. /\ d.closed = {} /\ d = [entries |-> d.entries, closed |-> d.closed]
      /\ DOMAIN d.entries = DOMAIN c.entries
      /\ d.entries \in [DOMAIN c.entries -> Entry] /\ d.entries[k] = counted
      /\ \A key \in DOMAIN c.entries : key # k => d.entries[key] = c.entries[key]
  BY <1>1, <1>2, <1>3
<1>5. Clean(d)
  BY <1>1, <1>4 DEF Clean, IsTable
<1>6. HeldOf(d, k) = HeldOf(c, k) + 1 /\ \A key : key # k => HeldOf(d, key) = HeldOf(c, key)
  BY <1>2, <1>4 DEF HeldOf
<1> QED BY <1>5, <1>6 DEF d

(* An event that is let through, once what was over is closed, opens a     *)
(* window at most and closes none.                                         *)
LEMMA TrackTells ==
  ASSUME NEW c, Clean(c), NEW k \in Keys, NEW now \in Time,
         ExpiredKeys(c, now) = {}, ~Suppressed(c, k, now)
  PROVE  /\ Clean(Track(c, k, NoEvent, now))
         /\ \A key : HeldOf(Track(c, k, NoEvent, now), key) = HeldOf(c, key)
<1>1. /\ c.closed = {} /\ DOMAIN c.entries \subseteq Keys
      /\ c.entries \in [DOMAIN c.entries -> Entry]
  BY DEF Clean, IsTable
<1>2. CASE Window = 0
  BY <1>2 DEF Track
<1>3. CASE Window # 0
  <2>1. k \notin DOMAIN c.entries
    <3>1. SUFFICES ASSUME k \in DOMAIN c.entries PROVE FALSE
      OBVIOUS
    <3>2. c.entries[k].opened \in Time
      BY <1>1, <3>1 DEF Entry
    <3>3. SatSub(now, c.entries[k].opened) \in Int /\ Window \in Int
      BY <3>2, CollapseAssumption DEF SatSub, Time, Window
    <3>4. ~(SatSub(now, c.entries[k].opened) < Window)
      BY <1>3, <3>1 DEF Suppressed
    <3>5. k \in ExpiredKeys(c, now)
      BY <3>1, <3>3, <3>4 DEF ExpiredKeys
    <3> QED BY <3>5
  <2>2. Room(c, k, now) = c
    <3>1. Shut(c, {k}) = c
      BY <2>1, ShutNone
    <3>2. Expire(c, now) = c
      BY ShutNone DEF Expire
    <3> QED BY <3>1, <3>2 DEF Room
  <2>3. CASE Full(c)
    BY <1>3, <2>2, <2>3 DEF Track
  <2>4. CASE ~Full(c)
    <3> DEFINE fresh == [opened |-> now, count |-> 0, sample |-> NoEvent, last |-> NoEvent]
               d == Opened(c, k, NoEvent, now)
    <3>1. Track(c, k, NoEvent, now) = d
      BY <1>3, <2>2, <2>4 DEF Track
    <3>2. fresh \in Entry /\ fresh.count = 0
      BY DEF Entry, NoEvent
    <3>3. d = [entries |-> [j \in DOMAIN c.entries \cup {k} |->
                              IF j = k THEN fresh ELSE c.entries[j]],
               closed |-> c.closed]
      BY DEF Opened
    <3> HIDE DEF fresh, d
    <3>4. /\ d.closed = {} /\ d = [entries |-> d.entries, closed |-> d.closed]
          /\ DOMAIN d.entries = DOMAIN c.entries \cup {k}
          /\ d.entries \in [DOMAIN c.entries \cup {k} -> Entry] /\ d.entries[k] = fresh
          /\ \A key \in DOMAIN c.entries : d.entries[key] = c.entries[key]
      BY <1>1, <2>1, <3>2, <3>3
    <3>5. Clean(d)
      BY <1>1, <3>4 DEF Clean, IsTable
    <3>6. \A key : HeldOf(d, key) = HeldOf(c, key)
      BY <2>1, <3>2, <3>4 DEF HeldOf
    <3> QED BY <3>1, <3>5, <3>6
  <2> QED BY <2>3, <2>4
<1> QED BY <1>2, <1>3

(* What was over is closed, and nothing is over any more. *)
LEMMA ExpireAll ==
  ASSUME NEW c, Clean(c), NEW now
  PROVE  ExpiredKeys(Taken(Expire(c, now)), now) = {}
<1>1. /\ DOMAIN Taken(Expire(c, now)).entries = DOMAIN c.entries \ ExpiredKeys(c, now)
      /\ \A key \in DOMAIN c.entries \ ExpiredKeys(c, now) :
           Taken(Expire(c, now)).entries[key] = c.entries[key]
  BY ShutTells DEF Expire
<1> QED BY <1>1 DEF ExpiredKeys

-----------------------------------------------------------------------------
Event == [source : Sources, text : Texts, ts : Stamps]

Msg == [type : {"event"}, event : Event] \cup [type : {"ended"}, source : Sources]

(* What travels from the readers to the main thread, and when. *)
Typed ==
  /\ pump \in [Sources -> {"reading", "sending", "ending", "done"}]
  /\ hand \in [Sources -> Event \cup {None}]
  /\ \A s \in Sources : pump[s] = "sending" => hand[s] \in Event
  /\ chan \in Seq(Msg)
  /\ clock \in Nat /\ clock <= Horizon + Window
  /\ phase \in {"receive", "finish", "print", "exited"}

(* The notices of a step: a summary of each key at most, and one match.    *)
Notices(b) ==
  /\ b = [repeats |-> b.repeats, match |-> b.match]
  /\ b.repeats \subseteq SummaryType /\ OneOfEach(b.repeats)
  /\ b.match \subseteq Keys /\ \A k, l \in b.match : k = l

Balanced(c, b, m, s, t) ==
  /\ m \in [Keys -> Nat] /\ s \in [Keys -> Nat] /\ t \in [Keys -> Nat]
  /\ \A key \in Keys :
       m[key] = s[key] + t[key] + HeldOf(c, key) + Repeats(key, b.repeats)
                + (IF key \in b.match THEN 1 ELSE 0)

Books ==
  /\ Clean(table) /\ Notices(batch) /\ Balanced(table, batch, matches, shown, told)
  /\ phase \in {"receive", "finish"} => batch = NoBatch

(* Nothing is held back, and there is nothing to print, at first.          *)
LEMMA EmptyIsClean ==
  /\ Clean(EmptyTable) /\ Notices(NoBatch) /\ DOMAIN EmptyTable.entries = {}
  /\ \A key : HeldOf(EmptyTable, key) = 0 /\ Repeats(key, NoBatch.repeats) = 0
<1>1. DOMAIN EmptyTable.entries = {} /\ EmptyTable.closed = {} /\ Clean(EmptyTable)
  BY DEF EmptyTable, Clean, IsTable
<1>2. NoBatch.repeats = {} /\ NoBatch.match = {} /\ Notices(NoBatch)
  BY DEF NoBatch, Notices, OneOfEach
<1>3. \A key : Repeats(key, {}) = 0
  BY RepeatsNone
<1> QED BY <1>1, <1>2, <1>3 DEF HeldOf

(* The time of an event and the clock can be represented. *)
LEMMA SinceTime ==
  ASSUME Typed, NEW e \in Event
  PROVE  EventTime(e) \in Time /\ clock \in Time
<1>1. clock \in Nat /\ clock <= TimeMax /\ TimeMin < 0 /\ TimeMin \in Int /\ TimeMax \in Int
  <2>1. clock \in Nat /\ clock <= Horizon + Window /\ Horizon + Window <= TimeMax
    BY WatchAssumption DEF Typed
  <2>2. Window \in Int /\ TimeMin < 0 /\ TimeMin \in Int /\ TimeMax \in Int
    BY CollapseAssumption DEF Window
  <2> QED BY <2>1, <2>2, WatchAssumption
<1>2. clock \in Time
  BY <1>1 DEF Time
<1>3. e.ts \in Time
  BY WatchAssumption DEF Event
<1> QED BY <1>2, <1>3 DEF EventTime

(* What was over is told; the rest of a step goes on from there.           *)
LEMMA BooksExpire ==
  ASSUME Books, batch = NoBatch, NEW now, NEW c, NEW b, NEW m,
         LET over == Expire(table, now)
         IN  /\ Clean(c) /\ b = [repeats |-> over.closed, match |-> b.match]
             /\ b.match \subseteq Keys /\ \A k, l \in b.match : k = l
             /\ m \in [Keys -> Nat]
             /\ \A key \in Keys :
                  m[key] + HeldOf(Taken(over), key) =
                    matches[key] + HeldOf(c, key) + (IF key \in b.match THEN 1 ELSE 0)
  PROVE  Notices(b) /\ Balanced(c, b, m, shown, told)
<1> DEFINE over == Expire(table, now)
<1>1. Clean(table) /\ Balanced(table, batch, matches, shown, told)
  BY DEF Books
<1>2. /\ Clean(Taken(over)) /\ OneOfEach(over.closed) /\ over.closed \subseteq SummaryType
      /\ \A key : HeldOf(Taken(over), key) + Repeats(key, over.closed) = HeldOf(table, key)
  BY <1>1, ShutTells DEF Expire
<1> HIDE DEF over
<1>3. b.repeats = over.closed /\ Notices(b)
  BY <1>2 DEF Notices, over
<1>4. ASSUME NEW key \in Keys
      PROVE  m[key] = shown[key] + told[key] + HeldOf(c, key) + Repeats(key, b.repeats)
                      + (IF key \in b.match THEN 1 ELSE 0)
  <2>1. matches[key] = shown[key] + told[key] + HeldOf(table, key)
    BY <1>1, EmptyIsClean DEF Balanced, NoBatch, HeldOf, Clean, IsTable, Entry
  <2>2. HeldOf(Taken(over), key) + Repeats(key, over.closed) = HeldOf(table, key)
    BY <1>2
  <2>3. /\ HeldOf(Taken(over), key) \in Nat /\ HeldOf(table, key) \in Nat /\ HeldOf(c, key) \in Nat
        /\ Repeats(key, over.closed) \in Nat
        /\ m[key] \in Nat /\ matches[key] \in Nat /\ shown[key] \in Nat /\ told[key] \in Nat
    <3>1. CASE \E w \in over.closed : w.key = key
      <4>1. PICK w \in over.closed : w.key = key
        BY <3>1
      <4>2. Repeats(key, over.closed) = w.count /\ w.count \in Nat
        BY <1>2, <4>1, RepeatsOne DEF SummaryType
      <4> QED BY <1>1, <1>2, <4>2, HeldType DEF Balanced
    <3>2. CASE ~\E w \in over.closed : w.key = key
      BY <1>1, <1>2, <3>2, HeldType, RepeatsNone DEF Balanced
    <3> QED BY <3>1, <3>2
  <2>4. m[key] + HeldOf(Taken(over), key) =
          matches[key] + HeldOf(c, key) + (IF key \in b.match THEN 1 ELSE 0)
    BY DEF over
  <2>5. CASE key \in b.match
    BY <1>3, <2>1, <2>2, <2>3, <2>4, <2>5
  <2>6. CASE key \notin b.match
    BY <1>3, <2>1, <2>2, <2>3, <2>4, <2>6
  <2> QED BY <2>5, <2>6
<1> QED BY <1>1, <1>3, <1>4 DEF Balanced

(* The next message of the channel, when it is an event. *)
LEMMA NextEvent ==
  ASSUME Typed, chan # <<>>, Head(chan).type = "event"
  PROVE  Head(chan).event \in Event
<1>1. Head(chan) \in Msg
  BY HeadTailProperties DEF Typed
<1> QED BY <1>1 DEF Msg

(* An event is let through, held back or of no rule. *)
LEMMA BooksEvent == ASSUME Typed, Books, OnEvent PROVE Books'
<1>1. chan # <<>> /\ Head(chan).type = "event" /\ phase = "receive" /\ batch = NoBatch
      /\ shown' = shown /\ told' = told
  BY DEF OnEvent, Books
<1> DEFINE e == Head(chan).event
           now == EventTime(e)
           r == RuleOf(e.text)
           key == <<r, e.source, e.text>>
           over == Expire(table, now)
           b0 == [repeats |-> over.closed, match |-> {}]
           b1 == [repeats |-> over.closed, match |-> {key}]
<1>2. e \in Event /\ now \in Time
  BY <1>1, NextEvent, SinceTime
<1>3. r # 0 => key \in Keys
  <2>1. e.source \in Sources /\ e.text \in Texts
    BY <1>2 DEF Event
  <2>2. r = 0 \/ r \in RuleIds
    BY <2>1, RuleIsRule
  <2> QED BY <2>1, <2>2, WatchAssumption
<1>4. /\ Clean(table) /\ Clean(Taken(over)) /\ ExpiredKeys(Taken(over), now) = {}
      /\ matches \in [Keys -> Nat]
      /\ \A k : HeldOf(Taken(over), k) \in Nat
  <2>1. Clean(table) /\ matches \in [Keys -> Nat]
    BY DEF Books, Balanced
  <2>2. Clean(Taken(over)) /\ ExpiredKeys(Taken(over), now) = {}
    BY <2>1, ShutTells, ExpireAll DEF Expire
  <2> QED BY <2>1, <2>2, HeldType
<1>5. \A b : Emit(b, "receive") => batch' = b /\ (phase' \in {"receive", "finish"} => b = NoBatch)
  BY DEF Emit
<1> HIDE DEF over, key, r, now
<1>6. CASE /\ r = 0 /\ table' = Taken(over) /\ Emit(b0, "receive") /\ matches' = matches
  <2>1. Notices(b0) /\ Balanced(Taken(over), b0, matches, shown, told)
    <3>1. \A k \in Keys : matches[k] + HeldOf(Taken(over), k) =
                            matches[k] + HeldOf(Taken(over), k) + (IF k \in b0.match THEN 1 ELSE 0)
      BY <1>4
    <3> QED BY <1>1, <1>4, <3>1, BooksExpire DEF over
  <2> QED BY <1>1, <1>4, <1>5, <1>6, <2>1 DEF Books
<1>7. CASE /\ r # 0 /\ Suppressed(Taken(over), key, now)
           /\ table' = Hold(Taken(over), key, NoEvent)
           /\ Emit(b0, "receive") /\ matches' = [matches EXCEPT ![key] = @ + 1]
  <2> DEFINE c == Hold(Taken(over), key, NoEvent)
             m == [matches EXCEPT ![key] = @ + 1]
  <2>1. /\ Clean(c) /\ HeldOf(c, key) = HeldOf(Taken(over), key) + 1
        /\ \A k : k # key => HeldOf(c, k) = HeldOf(Taken(over), k)
    BY <1>4, <1>7, HoldHolds DEF Suppressed
  <2>2. /\ m \in [Keys -> Nat] /\ m[key] = matches[key] + 1
        /\ \A k \in Keys : k # key => m[k] = matches[k]
    BY <1>3, <1>4, <1>7
  <2> HIDE DEF c, m
  <2>3. \A k \in Keys : m[k] + HeldOf(Taken(over), k) =
                          matches[k] + HeldOf(c, k) + (IF k \in b0.match THEN 1 ELSE 0)
    BY <1>4, <2>1, <2>2
  <2>4. Notices(b0) /\ Balanced(c, b0, m, shown, told)
    BY <1>1, <2>1, <2>2, <2>3, BooksExpire DEF over
  <2>5. table' = c /\ matches' = m
    BY <1>7 DEF c, m
  <2> QED BY <1>1, <1>5, <1>7, <2>1, <2>4, <2>5 DEF Books
<1>8. CASE /\ r # 0 /\ ~Suppressed(Taken(over), key, now)
           /\ table' = Track(Taken(over), key, NoEvent, now)
           /\ Emit(b1, "receive") /\ matches' = [matches EXCEPT ![key] = @ + 1]
  <2> DEFINE c == Track(Taken(over), key, NoEvent, now)
             m == [matches EXCEPT ![key] = @ + 1]
  <2>1. Clean(c) /\ \A k : HeldOf(c, k) = HeldOf(Taken(over), k)
    BY <1>2, <1>3, <1>4, <1>8, TrackTells
  <2>2. /\ m \in [Keys -> Nat] /\ m[key] = matches[key] + 1
        /\ \A k \in Keys : k # key => m[k] = matches[k]
    BY <1>3, <1>4, <1>8
  <2> HIDE DEF c, m
  <2>3. \A k \in Keys : m[k] + HeldOf(Taken(over), k) =
                          matches[k] + HeldOf(c, k) + (IF k \in b1.match THEN 1 ELSE 0)
    BY <1>4, <2>1, <2>2
  <2>4. b1.match \subseteq Keys /\ \A k, l \in b1.match : k = l
    BY <1>3, <1>8
  <2>5. Notices(b1) /\ Balanced(c, b1, m, shown, told)
    BY <1>1, <2>1, <2>2, <2>3, <2>4, BooksExpire DEF over
  <2>6. table' = c /\ matches' = m
    BY <1>8 DEF c, m
  <2> QED BY <1>1, <1>5, <1>8, <2>1, <2>5, <2>6 DEF Books
<1> QED BY <1>6, <1>7, <1>8 DEF OnEvent, over, key, r, now

(* Windows are closed by the clock. *)
LEMMA BooksTimeout == ASSUME Typed, Books, OnTimeout PROVE Books'
<1> DEFINE over == Expire(table, clock)
           b == [repeats |-> over.closed, match |-> {}]
<1>1. /\ phase = "receive" /\ batch = NoBatch /\ table' = Taken(over) /\ Emit(b, "receive")
      /\ matches' = matches /\ shown' = shown /\ told' = told
  BY DEF OnTimeout, Books, tally
<1>2. /\ matches \in [Keys -> Nat] /\ Clean(Taken(over))
      /\ \A k : HeldOf(Taken(over), k) \in Nat
  BY ShutTells, HeldType DEF Books, Balanced, Expire
<1>3. Notices(b) /\ Balanced(Taken(over), b, matches, shown, told)
  <2>1. \A k \in Keys : matches[k] + HeldOf(Taken(over), k) =
                          matches[k] + HeldOf(Taken(over), k) + (IF k \in b.match THEN 1 ELSE 0)
    BY <1>2
  <2> QED BY <1>1, <1>2, <2>1, BooksExpire
<1>4. batch' = b /\ (phase' \in {"receive", "finish"} => b = NoBatch)
  BY <1>1 DEF Emit
<1> HIDE DEF over
<1> QED BY <1>1, <1>2, <1>3, <1>4 DEF Books

(* All windows are closed. *)
LEMMA BooksFinish == ASSUME Typed, Books, OnFinish PROVE Books'
<1> DEFINE d == Shut(table, DOMAIN table.entries)
           b == [repeats |-> d.closed, match |-> {}]
<1>1. /\ phase = "finish" /\ batch = NoBatch /\ table' = EmptyTable /\ Emit(b, "exited")
      /\ matches' = matches /\ shown' = shown /\ told' = told
  BY DEF OnFinish, Books, tally
<1>2. /\ Clean(table) /\ Balanced(table, batch, matches, shown, told)
  BY DEF Books
<1>3. /\ OneOfEach(d.closed) /\ d.closed \subseteq SummaryType
      /\ DOMAIN Taken(d).entries = {}
      /\ \A key : HeldOf(Taken(d), key) + Repeats(key, d.closed) = HeldOf(table, key)
  BY <1>2, ShutTells
<1> HIDE DEF d
<1>4. Notices(b)
  BY <1>3 DEF Notices
<1>5. ASSUME NEW key \in Keys
      PROVE  matches[key] = shown[key] + told[key] + HeldOf(EmptyTable, key)
                            + Repeats(key, b.repeats) + (IF key \in b.match THEN 1 ELSE 0)
  <2>1. matches[key] = shown[key] + told[key] + HeldOf(table, key) + 0 + 0
    BY <1>1, <1>2, EmptyIsClean DEF Balanced, NoBatch
  <2>2. HeldOf(Taken(d), key) = 0 /\ HeldOf(EmptyTable, key) = 0 /\ HeldOf(table, key) \in Nat
    BY <1>2, <1>3, EmptyIsClean, HeldType DEF HeldOf
  <2>3. Repeats(key, d.closed) = HeldOf(table, key)
    <3>1. CASE \E w \in d.closed : w.key = key
      <4>1. PICK w \in d.closed : w.key = key
        BY <3>1
      <4>2. Repeats(key, d.closed) \in Nat
        BY <1>3, <4>1, RepeatsOne DEF SummaryType
      <4> QED BY <1>3, <2>2, <4>2
    <3>2. CASE ~\E w \in d.closed : w.key = key
      <4>1. Repeats(key, d.closed) = 0
        BY <3>2, RepeatsNone
      <4> QED BY <1>3, <2>2, <4>1
    <3> QED BY <3>1, <3>2
  <2>4. shown[key] \in Nat /\ told[key] \in Nat
    BY <1>2 DEF Balanced
  <2> QED BY <2>1, <2>2, <2>3, <2>4
<1>6. Balanced(EmptyTable, b, matches, shown, told)
  BY <1>2, <1>5 DEF Balanced
<1>7. batch' = b /\ (phase' \in {"receive", "finish"} => b = NoBatch)
  BY <1>1 DEF Emit
<1> QED BY <1>1, <1>4, <1>6, <1>7, EmptyIsClean DEF Books

(* A summary is printed, *)
LEMMA BooksRepeat ==
  ASSUME Typed, Books, NEW w \in batch.repeats, PrintRepeat(w)
  PROVE  Books'
<1> DEFINE b == [batch EXCEPT !.repeats = @ \ {w}]
           t == [told EXCEPT ![w.key] = @ + w.count]
<1>1. /\ told' = t /\ UNCHANGED <<table, matches, shown>>
      /\ batch' = b /\ (phase' \in {"receive", "finish"} => b = NoBatch)
  BY DEF PrintRepeat, Emit
<1>2. /\ batch = [repeats |-> batch.repeats, match |-> batch.match]
      /\ batch.repeats \subseteq SummaryType /\ OneOfEach(batch.repeats)
      /\ batch.match \subseteq Keys /\ \A k, l \in batch.match : k = l
      /\ Clean(table) /\ Balanced(table, batch, matches, shown, told)
  BY DEF Books, Notices
<1>3. w.key \in Keys /\ w.count \in Nat
  BY <1>2 DEF SummaryType
<1>4. b.repeats = batch.repeats \ {w} /\ b.match = batch.match
      /\ b = [repeats |-> b.repeats, match |-> b.match]
  BY <1>2
<1>5. /\ OneOfEach(b.repeats) /\ Repeats(w.key, b.repeats) = 0
      /\ Repeats(w.key, batch.repeats) = w.count
      /\ \A key : key # w.key => Repeats(key, b.repeats) = Repeats(key, batch.repeats)
  BY <1>2, <1>4, RepeatsLess, RepeatsOne
<1>6. /\ t \in [Keys -> Nat] /\ t[w.key] = told[w.key] + w.count
      /\ \A key \in Keys : key # w.key => t[key] = told[key]
  BY <1>2, <1>3 DEF Balanced
<1> HIDE DEF b, t
<1>7. Notices(b)
  BY <1>2, <1>4, <1>5 DEF Notices
<1>8. ASSUME NEW key \in Keys
      PROVE  matches[key] = shown[key] + t[key] + HeldOf(table, key) + Repeats(key, b.repeats)
                            + (IF key \in b.match THEN 1 ELSE 0)
  <2>1. matches[key] = shown[key] + told[key] + HeldOf(table, key) + Repeats(key, batch.repeats)
                       + (IF key \in batch.match THEN 1 ELSE 0)
    BY <1>2 DEF Balanced
  <2>2. shown[key] \in Nat /\ told[key] \in Nat /\ HeldOf(table, key) \in Nat
    BY <1>2, HeldType DEF Balanced
  <2>3. CASE key = w.key
    BY <1>3, <1>4, <1>5, <1>6, <2>1, <2>2, <2>3
  <2>4. CASE key # w.key
    BY <1>4, <1>5, <1>6, <2>1, <2>2, <2>4
  <2> QED BY <2>3, <2>4
<1>9. Balanced(table, b, matches, shown, t)
  BY <1>2, <1>6, <1>8 DEF Balanced
<1> QED BY <1>1, <1>2, <1>7, <1>9 DEF Books

(* and the match, after all summaries. *)
LEMMA BooksMatch ==
  ASSUME Typed, Books, NEW key \in batch.match, PrintMatch(key)
  PROVE  Books'
<1> DEFINE s == [shown EXCEPT ![key] = @ + 1]
<1>1. /\ shown' = s /\ UNCHANGED <<table, matches, told>>
      /\ batch' = NoBatch /\ batch.repeats = {}
  BY DEF PrintMatch, Emit
<1>2. /\ batch.match \subseteq Keys /\ \A k, l \in batch.match : k = l
      /\ Clean(table) /\ Balanced(table, batch, matches, shown, told)
  BY DEF Books, Notices
<1>3. /\ s \in [Keys -> Nat] /\ s[key] = shown[key] + 1
      /\ \A k \in Keys : k # key => s[k] = shown[k]
  BY <1>2 DEF Balanced
<1> HIDE DEF s
<1>4. ASSUME NEW k \in Keys
      PROVE  matches[k] = s[k] + told[k] + HeldOf(table, k) + Repeats(k, NoBatch.repeats)
                          + (IF k \in NoBatch.match THEN 1 ELSE 0)
  <2>1. matches[k] = shown[k] + told[k] + HeldOf(table, k) + 0
                     + (IF k \in batch.match THEN 1 ELSE 0)
    BY <1>1, <1>2, RepeatsNone DEF Balanced
  <2>2. shown[k] \in Nat /\ told[k] \in Nat /\ HeldOf(table, k) \in Nat
    BY <1>2, HeldType DEF Balanced
  <2>3. Repeats(k, NoBatch.repeats) = 0 /\ NoBatch.match = {}
    BY EmptyIsClean DEF NoBatch
  <2>4. CASE k = key
    BY <1>3, <2>1, <2>2, <2>3, <2>4
  <2>5. CASE k # key
    BY <1>2, <1>3, <2>1, <2>2, <2>3, <2>5
  <2> QED BY <2>4, <2>5
<1>5. Balanced(table, NoBatch, matches, s, told)
  BY <1>2, <1>3, <1>4 DEF Balanced
<1> QED BY <1>1, <1>2, <1>5, EmptyIsClean DEF Books

-----------------------------------------------------------------------------
(* One reader moves, and the channel takes a message at most.              *)
LEMMA TypedPump ==
  ASSUME Typed, NEW s \in Sources, NEW at \in {"reading", "sending", "ending", "done"},
         NEW has \in Event \cup {None}, at = "sending" => has \in Event,
         pump' = [pump EXCEPT ![s] = at], hand' = [hand EXCEPT ![s] = has],
         chan' \in Seq(Msg), UNCHANGED <<clock, phase>>
  PROVE  Typed'
<1>1. /\ pump' \in [Sources -> {"reading", "sending", "ending", "done"}]
      /\ hand' \in [Sources -> Event \cup {None}]
  BY DEF Typed
<1>2. \A q \in Sources : pump'[q] = "sending" => hand'[q] \in Event
  BY DEF Typed
<1> QED BY <1>1, <1>2 DEF Typed

(* At first everything is in its place, *)
LEMMA TypedInit == Init => Typed /\ Books
<1> SUFFICES ASSUME Init PROVE Typed /\ Books
  OBVIOUS
<1>1. /\ pump = [s \in Sources |-> "reading"] /\ hand = [s \in Sources |-> None]
      /\ chan = <<>> /\ phase = "receive" /\ batch = NoBatch /\ table = EmptyTable /\ clock = 0
      /\ matches = [key \in Keys |-> 0] /\ shown = [key \in Keys |-> 0]
      /\ told = [key \in Keys |-> 0]
  BY DEF Init
<1>2. Window \in Nat /\ Horizon \in Nat
  BY CollapseAssumption, WatchAssumption DEF Window
<1>3. pump \in [Sources -> {"reading", "sending", "ending", "done"}] /\ \A s \in Sources : pump[s] = "reading"
  BY <1>1
<1>4. hand \in [Sources -> Event \cup {None}] /\ chan \in Seq(Msg)
  BY <1>1, EmptySeq
<1>5. Typed
  BY <1>1, <1>2, <1>3, <1>4 DEF Typed
<1>6. Balanced(table, batch, matches, shown, told)
  <2>1. \A key \in Keys : HeldOf(table, key) = 0 /\ Repeats(key, batch.repeats) = 0
    BY <1>1, EmptyIsClean
  <2>2. batch.match = {}
    BY <1>1 DEF NoBatch
  <2>3. /\ matches \in [Keys -> Nat] /\ shown \in [Keys -> Nat] /\ told \in [Keys -> Nat]
        /\ \A key \in Keys : matches[key] = 0 /\ shown[key] = 0 /\ told[key] = 0
    BY <1>1
  <2> QED BY <2>1, <2>2, <2>3 DEF Balanced
<1>7. Books
  BY <1>1, <1>6, EmptyIsClean DEF Books
<1> QED BY <1>5, <1>7

(* A message is sent, or the channel is left alone.                        *)
LEMMA TypedSend ==
  ASSUME Typed, NEW m \in Msg, chan' = Append(chan, m) \/ chan' = chan
  PROVE  chan' \in Seq(Msg)
BY AppendProperties DEF Typed

(* and every step leaves it there. *)
LEMMA TypedStep == Typed /\ [Next]_vars => Typed'
<1> SUFFICES ASSUME Typed, [Next]_vars PROVE Typed'
  OBVIOUS
<1>0. /\ pump \in [Sources -> {"reading", "sending", "ending", "done"}]
      /\ hand \in [Sources -> Event \cup {None}] /\ chan \in Seq(Msg)
      /\ clock \in Nat /\ clock <= Horizon + Window /\ Horizon \in Nat /\ Window \in Nat
      /\ \A s \in Sources : pump[s] = "sending" => hand[s] \in Event
  BY WatchAssumption, CollapseAssumption DEF Typed, Window
<1>1. ASSUME NEW s \in Sources, Write(s) \/ Skip(s) PROVE Typed'
  <2>1. UNCHANGED <<pump, hand, chan, clock, phase>>
    BY <1>1 DEF Write, Skip
  <2> QED BY <2>1 DEF Typed
<1>2. ASSUME NEW s \in Sources, Read(s) PROVE Typed'
  <2>1. PICK has \in Event : hand' = [hand EXCEPT ![s] = has]
    <3>1. PICK text \in Texts, ts \in {t \in Stamps : ~Passed(s, t)} :
            hand' = [hand EXCEPT ![s] = [source |-> s, text |-> text, ts |-> ts]]
      BY <1>2 DEF Read
    <3>2. [source |-> s, text |-> text, ts |-> ts] \in Event
      BY DEF Event
    <3> QED BY <3>1, <3>2
  <2>2. pump' = [pump EXCEPT ![s] = "sending"] /\ UNCHANGED <<chan, clock, phase>>
    BY <1>2 DEF Read
  <2> QED BY <1>0, <2>1, <2>2, TypedPump
<1>3. ASSUME NEW s \in Sources, EndOfFile(s) \/ EndOfPipe(s) \/ BreakOff(s) PROVE Typed'
  <2>1. /\ pump' = [pump EXCEPT ![s] = "ending"] /\ hand' = hand /\ UNCHANGED <<chan, clock, phase>>
    BY <1>3 DEF EndOfFile, EndOfPipe, BreakOff
  <2>2. hand' = [hand EXCEPT ![s] = hand[s]] /\ hand[s] \in Event \cup {None}
    BY <1>0, <2>1
  <2> QED BY <1>0, <2>1, <2>2, TypedPump
<1>4. ASSUME NEW s \in Sources, Send(s) PROVE Typed'
  <2>1. /\ hand' = [hand EXCEPT ![s] = None] /\ UNCHANGED <<clock, phase>>
        /\ chan' = Append(chan, EventMsg(hand[s])) \/ chan' = chan
        /\ hand[s] \in Event
    BY <1>0, <1>4 DEF Send
  <2>2. chan' \in Seq(Msg)
    <3>1. EventMsg(hand[s]) \in Msg
      BY <2>1 DEF EventMsg, Msg
    <3> QED BY <2>1, <3>1, TypedSend
  <2>3. pump' = [pump EXCEPT ![s] = "reading"] \/ pump' = [pump EXCEPT ![s] = "done"]
    BY <1>4 DEF Send
  <2> QED BY <2>1, <2>2, <2>3, TypedPump
<1>5. ASSUME NEW s \in Sources, SendEnded(s) PROVE Typed'
  <2>1. /\ pump' = [pump EXCEPT ![s] = "done"] /\ hand' = hand /\ UNCHANGED <<clock, phase>>
        /\ chan' = Append(chan, EndedMsg(s)) \/ chan' = chan
    BY <1>5 DEF SendEnded
  <2>2. chan' \in Seq(Msg)
    <3>1. EndedMsg(s) \in Msg
      BY DEF EndedMsg, Msg
    <3> QED BY <2>1, <3>1, TypedSend
  <2>3. hand' = [hand EXCEPT ![s] = hand[s]] /\ hand[s] \in Event \cup {None}
    BY <1>0, <2>1
  <2> QED BY <2>1, <2>2, <2>3, TypedPump
<1>6. CASE OnEvent \/ OnEnded
  <2>1. /\ UNCHANGED <<pump, hand, clock>> /\ chan # <<>> /\ chan' = Tail(chan)
        /\ phase' \in {"receive", "finish", "print"}
    BY <1>6 DEF OnEvent, OnEnded, Emit, NextPhase, feed
  <2>2. chan' \in Seq(Msg)
    BY <1>0, <2>1, HeadTailProperties
  <2> QED BY <2>1, <2>2 DEF Typed
<1>7. CASE OnTimeout \/ OnFinish \/ PrintFails \/ \E w \in batch.repeats : PrintRepeat(w)
  <2>1. UNCHANGED <<pump, hand, chan, clock>> /\ phase' \in {"receive", "print", "exited"}
    BY <1>7 DEF OnTimeout, OnFinish, PrintFails, PrintRepeat, Emit, feed
  <2> QED BY <2>1 DEF Typed
<1>8. CASE \E key \in batch.match : PrintMatch(key)
  <2>1. UNCHANGED <<pump, hand, chan, clock>> /\ phase' \in {"receive", "print"}
    BY <1>8 DEF PrintMatch, Emit, feed
  <2> QED BY <2>1 DEF Typed
<1>9. CASE Tick
  <2>1. clock' = clock + 1 /\ UNCHANGED <<pump, hand, chan, phase>>
        /\ (clock < Horizon \/ clock < Horizon + Window)
    BY <1>9 DEF Tick, feed
  <2>2. clock' \in Nat /\ clock' <= Horizon + Window
    BY <1>0, <2>1
  <2> QED BY <2>1, <2>2 DEF Typed
<1>10. CASE CloseStdout \/ Ended \/ UNCHANGED vars
  <2>1. UNCHANGED <<pump, hand, chan, clock, phase>>
    BY <1>10 DEF CloseStdout, Ended, vars, feed
  <2> QED BY <2>1 DEF Typed
<1> QED BY <1>1, <1>2, <1>3, <1>4, <1>5, <1>6, <1>7, <1>8, <1>9, <1>10 DEF Next, Pump, Main

(* No step loses a match or tells of it twice. *)
LEMMA BooksStep == Typed /\ Books /\ [Next]_vars => Books'
<1> SUFFICES ASSUME Typed, Books, [Next]_vars PROVE Books'
  OBVIOUS
<1>1. CASE OnEvent BY <1>1, BooksEvent
<1>2. CASE OnTimeout BY <1>2, BooksTimeout
<1>3. CASE OnFinish BY <1>3, BooksFinish
<1>4. CASE \E w \in batch.repeats : PrintRepeat(w) BY <1>4, BooksRepeat
<1>5. CASE \E key \in batch.match : PrintMatch(key) BY <1>5, BooksMatch
<1>6. CASE \/ \E s \in Sources : Write(s) \/ Pump(s) \/ EndOfPipe(s) \/ BreakOff(s)
           \/ CloseStdout \/ Tick \/ Ended \/ UNCHANGED vars
  <2>1. UNCHANGED <<table, batch, matches, shown, told, phase>>
    BY <1>6 DEF Write, Pump, Skip, Read, EndOfFile, EndOfPipe, BreakOff, Send, SendEnded, CloseStdout,
                Tick, Ended, vars, tally
  <2> QED BY <2>1 DEF Books
<1>7. CASE OnEnded \/ PrintFails
  <2>1. UNCHANGED <<table, batch, matches, shown, told>>
        /\ (phase' \in {"receive", "finish"} => phase = "receive")
    BY <1>7 DEF OnEnded, PrintFails, tally
  <2> QED BY <2>1 DEF Books
<1> QED BY <1>1, <1>2, <1>3, <1>4, <1>5, <1>6, <1>7 DEF Next, Main

(* Watcher::on_event, repeats and finish, and the printing in run_plan:    *)
(* whatever the sources, the rules and the size of the table, a match ends *)
(* up in one notice, and no summary is kept back.                          *)
THEOREM AlwaysMatchesAccounted == Spec => []MatchesAccounted
<1>1. Typed /\ Books => MatchesAccounted
  <2> SUFFICES ASSUME Books PROVE MatchesAccounted
    OBVIOUS
  <2>1. Clean(table) /\ Notices(batch) /\ Balanced(table, batch, matches, shown, told)
    BY DEF Books
  <2>2. table.closed = {} /\ \A key : HeldOf(table, key) = Repeats(key, OpenWindows(table))
    BY <2>1, OpenRepeats DEF Clean
  <2>3. \A key : \A w, v \in Of(key, batch.repeats) : w = v
    BY <2>1 DEF Of, Notices, OneOfEach
  <2> QED BY <2>1, <2>2, <2>3 DEF Balanced, MatchesAccounted
<1> QED BY TypedInit, TypedStep, BooksStep, <1>1, PTL DEF Spec

-----------------------------------------------------------------------------
(* The readers still at work, and where ends wait in a channel. *)
Work(p) == {s \in Sources : p[s] # "done"}

Ends(c) == {i \in 1 .. Len(c) : c[i].type = "ended"}

(* The end of a source comes after all its events. *)
LastWord(p, c) ==
  \A i \in 1 .. Len(c) :
    c[i].type = "event" =>
      \/ p[c[i].event.source] # "done"
      \/ \E j \in 1 .. Len(c) : i < j /\ c[j] = EndedMsg(c[i].event.source)

Counting ==
  /\ live \in Nat
  /\ \A s \in Sources : pump[s] = "sending" => hand[s].source = s
  /\ ~Stopped => live = Cardinality(Work(pump)) + Cardinality(Ends(chan)) /\ LastWord(pump, chan)

(* The loop runs while a source is live; once none is, what is left is to  *)
(* print what the windows held.                                            *)
Closing ==
  /\ phase = "receive" => live > 0
  /\ phase = "finish" => live = 0
  /\ phase = "print" => live > 0 \/ (table = EmptyTable /\ batch.match = {})
  /\ (phase = "exited" /\ stdout = "open") =>
       table = EmptyTable /\ batch = NoBatch /\ chan = <<>> /\ \A s \in Sources : pump[s] = "done"

(* The ends in a channel are finitely many. *)
LEMMA EndsFinite ==
  ASSUME NEW c \in Seq(Msg)
  PROVE  IsFiniteSet(Ends(c)) /\ Cardinality(Ends(c)) \in Nat
<1>1. Len(c) \in Nat /\ Ends(c) \subseteq 1 .. Len(c)
  BY LenProperties DEF Ends
<1>2. IsFiniteSet(1 .. Len(c))
  BY <1>1, FS_Interval
<1> QED BY <1>1, <1>2, FS_Subset, FS_CardinalityType

(* One more message, *)
LEMMA EndsAppend ==
  ASSUME NEW c \in Seq(Msg), NEW m \in Msg
  PROVE  Cardinality(Ends(Append(c, m))) =
           Cardinality(Ends(c)) + (IF m.type = "ended" THEN 1 ELSE 0)
<1> DEFINE n == Len(c)
<1>1. /\ n \in Nat /\ Len(Append(c, m)) = n + 1 /\ Append(c, m)[n + 1] = m
      /\ \A i \in 1 .. n : Append(c, m)[i] = c[i]
  BY AppendProperties, LenProperties
<1>2. n + 1 \notin Ends(c)
  BY <1>1 DEF Ends
<1>3. CASE m.type = "ended"
  <2>1. Ends(Append(c, m)) = Ends(c) \cup {n + 1}
    BY <1>1, <1>3 DEF Ends
  <2> QED BY <1>2, <1>3, <2>1, EndsFinite, FS_AddElement
<1>4. CASE m.type # "ended"
  <2>1. Ends(Append(c, m)) = Ends(c)
    BY <1>1, <1>4 DEF Ends
  <2> QED BY <1>4, <2>1, EndsFinite
<1> QED BY <1>3, <1>4

(* and one less. *)
LEMMA EndsTail ==
  ASSUME NEW c \in Seq(Msg), c # <<>>
  PROVE  Cardinality(Ends(Tail(c))) =
           Cardinality(Ends(c)) - (IF Head(c).type = "ended" THEN 1 ELSE 0)
<1> DEFINE f == [i \in Ends(Tail(c)) |-> i + 1]
           S == Ends(Tail(c))
           T == Ends(c) \ {1}
<1>1. /\ Len(c) \in Nat /\ Len(c) > 0 /\ Len(Tail(c)) = Len(c) - 1 /\ Tail(c) \in Seq(Msg)
      /\ \A i \in 1 .. Len(Tail(c)) : Tail(c)[i] = c[i + 1]
      /\ Head(c) = c[1]
  <2>1. /\ Tail(c) \in Seq(Msg) /\ Head(c) = c[1] /\ Len(Tail(c)) = Len(c) - 1
        /\ \A i \in 1 .. Len(Tail(c)) : Tail(c)[i] = c[i + 1]
    BY HeadTailProperties
  <2>2. Len(c) \in Nat /\ Len(c) > 0
    BY LenProperties, EmptySeq
  <2> QED BY <2>1, <2>2
<1>2. S \subseteq Nat /\ f \in [S -> T]
  BY <1>1 DEF Ends
<1>3. \A a, b \in S : f[a] = f[b] => a = b
  BY <1>2
<1>4. ASSUME NEW t \in T PROVE \E a \in S : f[a] = t
  <2>1. t - 1 \in S /\ f[t - 1] = t
    BY <1>1 DEF Ends
  <2> QED BY <2>1
<1>5. f \in Bijection(S, T)
  <2> HIDE DEF f, S, T
  <2>1. DOMAIN f = S
    BY <1>2
  <2>2. f \in Injection(S, T)
    BY <1>2, <1>3, <2>1 DEF Injection, IsInjective
  <2>3. f \in Surjection(S, T)
    BY <1>2, <1>4 DEF Surjection
  <2> QED BY <2>2, <2>3 DEF Bijection
<1>6. ExistsBijection(S, T)
  BY <1>5 DEF ExistsBijection
<1>7. Cardinality(T) = Cardinality(S)
  BY <1>1, <1>6, EndsFinite, FS_Bijection
<1>8. Cardinality(T) = IF 1 \in Ends(c) THEN Cardinality(Ends(c)) - 1 ELSE Cardinality(Ends(c))
  BY EndsFinite, FS_RemoveElement
<1>9. 1 \in Ends(c) <=> Head(c).type = "ended"
  BY <1>1 DEF Ends
<1>10. Cardinality(Ends(c)) \in Nat
  BY EndsFinite
<1> QED BY <1>7, <1>8, <1>9, <1>10

(* The readers are finitely many. *)
LEMMA WorkFinite ==
  ASSUME NEW p
  PROVE  IsFiniteSet(Work(p)) /\ Cardinality(Work(p)) \in Nat
<1>1. IsFiniteSet(Sources) /\ Work(p) \subseteq Sources
  BY WatchAssumption DEF Work
<1> QED BY <1>1, FS_Subset, FS_CardinalityType

(* A message of a reader at work keeps the order, *)
LEMMA LastAppend ==
  ASSUME NEW c \in Seq(Msg), NEW p, LastWord(p, c), NEW s, NEW e, e.source = s, p[s] # "done",
         EventMsg(e) \in Msg
  PROVE  LastWord(p, Append(c, EventMsg(e)))
<1>1. /\ Len(c) \in Nat /\ Len(Append(c, EventMsg(e))) = Len(c) + 1
      /\ Append(c, EventMsg(e))[Len(c) + 1] = EventMsg(e)
      /\ \A i \in 1 .. Len(c) : Append(c, EventMsg(e))[i] = c[i]
  BY AppendProperties, LenProperties
<1>2. PICK d : d = Append(c, EventMsg(e))
  OBVIOUS
<1>3. PICK n \in Nat : n = Len(c)
  BY <1>1
<1>4. ASSUME NEW i \in 1 .. n + 1, d[i].type = "event", p[d[i].event.source] = "done"
      PROVE  \E j \in 1 .. n + 1 : i < j /\ d[j] = EndedMsg(d[i].event.source)
  <2>1. i # n + 1
    BY <1>1, <1>2, <1>3, <1>4 DEF EventMsg
  <2>2. i \in 1 .. n /\ d[i] = c[i]
    BY <1>1, <1>2, <1>3, <2>1
  <2>3. PICK j \in 1 .. n : i < j /\ c[j] = EndedMsg(c[i].event.source)
    BY <1>3, <1>4, <2>2 DEF LastWord
  <2> QED BY <1>1, <1>2, <1>3, <2>2, <2>3
<1> QED BY <1>1, <1>2, <1>3, <1>4 DEF LastWord

(* so does the end of one, *)
LEMMA LastEnded ==
  ASSUME NEW c \in Seq(Msg), NEW p \in [Sources -> {"reading", "sending", "ending", "done"}],
         LastWord(p, c), NEW s \in Sources
  PROVE  LastWord([p EXCEPT ![s] = "done"], Append(c, EndedMsg(s)))
<1>1. /\ Len(c) \in Nat /\ Len(Append(c, EndedMsg(s))) = Len(c) + 1
      /\ Append(c, EndedMsg(s))[Len(c) + 1] = EndedMsg(s)
      /\ \A i \in 1 .. Len(c) : Append(c, EndedMsg(s))[i] = c[i]
  <2>1. EndedMsg(s) \in Msg
    BY DEF EndedMsg, Msg
  <2> QED BY <2>1, AppendProperties, LenProperties
<1>2. PICK d : d = Append(c, EndedMsg(s))
  OBVIOUS
<1>3. PICK n \in Nat : n = Len(c)
  BY <1>1
<1>4. PICK q : q = [p EXCEPT ![s] = "done"]
  OBVIOUS
<1>5. ASSUME NEW i \in 1 .. n + 1, d[i].type = "event", q[d[i].event.source] = "done"
      PROVE  \E j \in 1 .. n + 1 : i < j /\ d[j] = EndedMsg(d[i].event.source)
  <2>1. i # n + 1
    BY <1>1, <1>2, <1>3, <1>5 DEF EndedMsg
  <2>2. i \in 1 .. n /\ d[i] = c[i]
    BY <1>1, <1>2, <1>3, <2>1
  <2>3. CASE c[i].event.source = s
    <3>1. d[n + 1] = EndedMsg(d[i].event.source) /\ i < n + 1
      BY <1>1, <1>2, <1>3, <2>2, <2>3
    <3> QED BY <3>1
  <2>4. CASE c[i].event.source # s
    <3>1. c[i].event.source \in Sources
      <4>1. c[i] \in Msg
        BY <1>3, <2>2, ElementOfSeq
      <4> QED BY <1>5, <2>2, <4>1 DEF Msg, Event
    <3>2. p[c[i].event.source] = "done"
      BY <1>4, <1>5, <2>2, <2>4, <3>1
    <3>3. PICK j \in 1 .. n : i < j /\ c[j] = EndedMsg(c[i].event.source)
      BY <1>3, <1>5, <2>2, <3>2 DEF LastWord
    <3> QED BY <1>1, <1>2, <1>3, <2>2, <3>3
  <2> QED BY <2>3, <2>4
<1> QED BY <1>1, <1>2, <1>3, <1>4, <1>5 DEF LastWord

(* and so does taking the first message. *)
LEMMA LastTail ==
  ASSUME NEW c \in Seq(Msg), c # <<>>, NEW p, LastWord(p, c)
  PROVE  LastWord(p, Tail(c))
<1>1. /\ Len(c) \in Nat /\ Len(c) > 0 /\ Len(Tail(c)) = Len(c) - 1
      /\ \A i \in 1 .. Len(Tail(c)) : Tail(c)[i] = c[i + 1]
  BY HeadTailProperties, LenProperties, EmptySeq
<1>2. PICK n \in Nat : n + 1 = Len(c) /\ n = Len(Tail(c))
  <2>1. Len(c) - 1 \in Nat /\ (Len(c) - 1) + 1 = Len(c)
    BY <1>1
  <2> QED BY <1>1, <2>1
<1>3. PICK d : d = Tail(c)
  OBVIOUS
<1>4. ASSUME NEW i \in 1 .. n, d[i].type = "event", p[d[i].event.source] = "done"
      PROVE  \E j \in 1 .. n : i < j /\ d[j] = EndedMsg(d[i].event.source)
  <2>1. d[i] = c[i + 1] /\ i + 1 \in 1 .. n + 1
    BY <1>1, <1>2, <1>3
  <2>2. PICK j \in 1 .. n + 1 : i + 1 < j /\ c[j] = EndedMsg(c[i + 1].event.source)
    BY <1>2, <1>4, <2>1 DEF LastWord
  <2>3. j - 1 \in 1 .. n /\ i < j - 1 /\ (j - 1) + 1 = j
    BY <2>1, <2>2
  <2>4. d[j - 1] = c[j]
    BY <1>1, <1>2, <1>3, <2>3
  <2> QED BY <2>1, <2>2, <2>3, <2>4
<1> QED BY <1>2, <1>3, <1>4 DEF LastWord

(* When none is live, all has been received. *)
LEMMA Drained ==
  ASSUME Typed, Counting, ~Stopped, live = 0
  PROVE  chan = <<>> /\ \A s \in Sources : pump[s] = "done"
<1>1. chan \in Seq(Msg)
  BY DEF Typed
<1>2. Cardinality(Work(pump)) = 0 /\ Cardinality(Ends(chan)) = 0
  <2>1. Cardinality(Work(pump)) \in Nat /\ Cardinality(Ends(chan)) \in Nat
    BY <1>1, WorkFinite, EndsFinite
  <2> QED BY <2>1 DEF Counting
<1>3. Work(pump) = {} /\ Ends(chan) = {}
  BY <1>1, <1>2, WorkFinite, EndsFinite, FS_EmptySet
<1>4. \A s \in Sources : pump[s] = "done"
  BY <1>3 DEF Work
<1>5. ASSUME NEW i \in 1 .. Len(chan) PROVE FALSE
  <2>1. chan[i] \in Msg
    BY <1>1, ElementOfSeq
  <2>2. chan[i].type # "ended"
    BY <1>3 DEF Ends
  <2>3. chan[i].type = "event" /\ chan[i].event.source \in Sources
    BY <2>1, <2>2 DEF Msg, Event
  <2>4. PICK j \in 1 .. Len(chan) : chan[j] = EndedMsg(chan[i].event.source)
    BY <1>4, <2>3 DEF Counting, LastWord
  <2>5. chan[j].type = "ended"
    BY <2>4 DEF EndedMsg
  <2> QED BY <1>3, <2>5 DEF Ends
<1>6. Len(chan) \in Nat /\ ~(1 <= Len(chan))
  BY <1>1, <1>5, LenProperties
<1> QED BY <1>1, <1>4, <1>6, EmptySeq

(* At first all readers are at work and the channel is empty. *)
LEMMA CountingInit == Init => Counting /\ Closing
<1> SUFFICES ASSUME Init PROVE Counting /\ Closing
  OBVIOUS
<1>1. /\ pump = [s \in Sources |-> "reading"] /\ chan = <<>> /\ phase = "receive"
      /\ live = Cardinality(Sources)
  BY DEF Init
<1>2. Work(pump) = Sources
  BY <1>1 DEF Work
<1>3. Ends(chan) = {} /\ LastWord(pump, chan)
  BY <1>1, EmptySeq DEF Ends, LastWord
<1>4. live \in Nat /\ live > 0
  <2>1. IsFiniteSet(Sources) /\ Sources # {}
    BY WatchAssumption
  <2>2. Cardinality(Sources) \in Nat /\ Cardinality(Sources) # 0
    BY <2>1, FS_CardinalityType, FS_EmptySet
  <2> QED BY <1>1, <2>2
<1>5. live = Cardinality(Work(pump)) + Cardinality(Ends(chan))
  <2>1. Cardinality(Ends(chan)) = 0 /\ Cardinality(Work(pump)) = live
    BY <1>1, <1>2, <1>3, FS_EmptySet
  <2> QED BY <1>4, <2>1
<1>6. \A s \in Sources : pump[s] # "sending"
  BY <1>1
<1> QED BY <1>1, <1>3, <1>4, <1>5, <1>6 DEF Counting, Closing

(* Whoever reads, sends or ends, or takes a message, is counted once.      *)
LEMMA CountingStep == Typed /\ Closing /\ Counting /\ [Next]_vars => Counting'
<1> SUFFICES ASSUME Typed, Closing, Counting, [Next]_vars PROVE Counting'
  OBVIOUS
<1>0. /\ pump \in [Sources -> {"reading", "sending", "ending", "done"}]
      /\ hand \in [Sources -> Event \cup {None}] /\ chan \in Seq(Msg) /\ live \in Nat
      /\ \A s \in Sources : pump[s] = "sending" => hand[s] \in Event /\ hand[s].source = s
      /\ phase # "exited" =>
           live = Cardinality(Work(pump)) + Cardinality(Ends(chan)) /\ LastWord(pump, chan)
  BY DEF Typed, Counting, Stopped
<1>1. ASSUME UNCHANGED <<pump, hand, chan, live>>, phase' # "exited" => phase # "exited"
      PROVE  Counting'
  BY <1>0, <1>1 DEF Counting, Stopped
<1>2. ASSUME NEW s \in Sources, NEW at \in {"sending", "ending"}, pump[s] = "reading",
             pump' = [pump EXCEPT ![s] = at],
             at = "sending" => hand'[s].source = s,
             \A q \in Sources : q # s => hand'[q] = hand[q],
             UNCHANGED <<chan, live, phase>>
      PROVE  Counting'
  <2>1. PICK p \in [Sources -> {"reading", "sending", "ending", "done"}] :
          p = [pump EXCEPT ![s] = at]
    BY <1>0
  <2>2. \A q \in Sources : p[q] = "done" <=> pump[q] = "done"
    BY <1>0, <1>2, <2>1
  <2>3. Work(p) = Work(pump)
    BY <2>2 DEF Work
  <2>4. LastWord(pump, chan) => LastWord(p, chan)
    <3> SUFFICES ASSUME LastWord(pump, chan), NEW i \in 1 .. Len(chan),
                        chan[i].type = "event", p[chan[i].event.source] = "done"
                 PROVE  \E j \in 1 .. Len(chan) :
                          i < j /\ chan[j] = EndedMsg(chan[i].event.source)
      BY DEF LastWord
    <3>1. chan[i].event.source \in Sources
      <4>1. chan[i] \in Msg
        BY <1>0, ElementOfSeq
      <4> QED BY <4>1 DEF Msg, Event
    <3> QED BY <2>2, <3>1 DEF LastWord
  <2>5. \A q \in Sources : pump'[q] = "sending" => hand'[q].source = q
    BY <1>0, <1>2
  <2>6. pump' = p
    BY <1>2, <2>1
  <2> QED BY <1>0, <1>2, <2>3, <2>4, <2>5, <2>6 DEF Counting, Stopped
<1>3. ASSUME NEW s \in Sources, Send(s) PROVE Counting'
  <2>1. /\ pump[s] = "sending" /\ hand' = [hand EXCEPT ![s] = None] /\ live' = live
        /\ phase' = phase
    BY <1>3 DEF Send
  <2>2. CASE phase = "exited"
    <3>1. pump' = [pump EXCEPT ![s] = "done"]
      BY <1>3, <2>2 DEF Send, Stopped
    <3>2. \A q \in Sources : pump'[q] = "sending" => hand'[q].source = q
      BY <1>0, <2>1, <3>1
    <3> QED BY <1>0, <2>1, <2>2, <3>2 DEF Counting, Stopped
  <2>3. CASE phase # "exited"
    <3>1. /\ pump' = [pump EXCEPT ![s] = "reading"]
          /\ chan' = Append(chan, EventMsg(hand[s]))
      BY <1>3, <2>3 DEF Send, Stopped
    <3>2. \A q \in Sources : pump'[q] = "sending" => hand'[q].source = q
      BY <1>0, <2>1, <3>1
    <3>3. EventMsg(hand[s]) \in Msg /\ EventMsg(hand[s]).type = "event"
      BY <1>0, <2>1 DEF EventMsg, Msg
    <3>4. PICK p : p = [pump EXCEPT ![s] = "reading"]
      OBVIOUS
    <3>5. p[s] # "done" /\ \A q \in Sources : p[q] = "done" <=> pump[q] = "done"
      BY <1>0, <2>1, <3>4
    <3>6. Work(p) = Work(pump)
      BY <3>5 DEF Work
    <3>7. PICK c : c = Append(chan, EventMsg(hand[s]))
      OBVIOUS
    <3>8. Cardinality(Ends(c)) = Cardinality(Ends(chan))
      BY <1>0, <3>3, <3>7, EndsAppend, EndsFinite
    <3>9. LastWord(p, chan)
      <4> SUFFICES ASSUME NEW i \in 1 .. Len(chan),
                          chan[i].type = "event", p[chan[i].event.source] = "done"
                   PROVE  \E j \in 1 .. Len(chan) :
                            i < j /\ chan[j] = EndedMsg(chan[i].event.source)
        BY DEF LastWord
      <4>1. chan[i].event.source \in Sources
        <5>1. chan[i] \in Msg
          BY <1>0, ElementOfSeq
        <5> QED BY <5>1 DEF Msg, Event
      <4> QED BY <1>0, <2>3, <3>5, <4>1 DEF LastWord
    <3>10. LastWord(p, c)
      BY <1>0, <2>1, <3>3, <3>5, <3>7, <3>9, LastAppend
    <3>11. pump' = p /\ chan' = c
      BY <3>1, <3>4, <3>7
    <3> QED BY <1>0, <2>1, <2>3, <3>2, <3>6, <3>8, <3>10, <3>11 DEF Counting, Stopped
  <2> QED BY <2>2, <2>3
<1>4. ASSUME NEW s \in Sources, SendEnded(s) PROVE Counting'
  <2>1. /\ pump[s] = "ending" /\ hand' = hand /\ live' = live /\ phase' = phase
        /\ pump' = [pump EXCEPT ![s] = "done"]
    BY <1>4 DEF SendEnded
  <2>2. \A q \in Sources : pump'[q] = "sending" => hand'[q].source = q
    BY <1>0, <2>1
  <2>3. CASE phase = "exited"
    BY <1>0, <2>1, <2>2, <2>3 DEF Counting, Stopped
  <2>4. CASE phase # "exited"
    <3>1. PICK p : p = [pump EXCEPT ![s] = "done"]
      OBVIOUS
    <3>2. PICK c : c = Append(chan, EndedMsg(s))
      OBVIOUS
    <3>3. chan' = c /\ pump' = p
      BY <1>4, <2>1, <2>4, <3>1, <3>2 DEF SendEnded, Stopped
    <3>4. Work(p) = Work(pump) \ {s} /\ s \in Work(pump)
      BY <1>0, <2>1, <3>1 DEF Work
    <3>5. Cardinality(Work(p)) = Cardinality(Work(pump)) - 1 /\ Cardinality(Work(pump)) \in Nat
      BY <3>4, WorkFinite, FS_RemoveElement
    <3>6. EndedMsg(s) \in Msg /\ EndedMsg(s).type = "ended"
      BY DEF EndedMsg, Msg
    <3>7. Cardinality(Ends(c)) = Cardinality(Ends(chan)) + 1 /\ Cardinality(Ends(chan)) \in Nat
      BY <1>0, <3>2, <3>6, EndsAppend, EndsFinite
    <3>8. LastWord(p, c)
      BY <1>0, <2>4, <3>1, <3>2, LastEnded
    <3>9. live = Cardinality(Work(p)) + Cardinality(Ends(c))
      BY <1>0, <2>4, <3>5, <3>7
    <3> QED BY <1>0, <2>1, <2>2, <3>3, <3>8, <3>9 DEF Counting, Stopped
  <2> QED BY <2>3, <2>4
<1>5. CASE OnEvent
  <2>1. /\ UNCHANGED <<pump, hand, live>> /\ chan # <<>> /\ Head(chan).type = "event"
        /\ chan' = Tail(chan) /\ phase = "receive"
    BY <1>5 DEF OnEvent, feed
  <2>2. PICK c : c = Tail(chan)
    OBVIOUS
  <2>3. Cardinality(Ends(c)) = Cardinality(Ends(chan))
    BY <1>0, <2>1, <2>2, EndsTail, EndsFinite
  <2>4. LastWord(pump, c)
    BY <1>0, <2>1, <2>2, LastTail
  <2>5. chan' = c
    BY <2>1, <2>2
  <2> QED BY <1>0, <2>1, <2>3, <2>4, <2>5 DEF Counting, Stopped
<1>6. CASE OnEnded
  <2>1. /\ UNCHANGED <<pump, hand>> /\ chan # <<>> /\ Head(chan).type = "ended"
        /\ live' = live - 1 /\ chan' = Tail(chan) /\ phase = "receive"
    BY <1>6 DEF OnEnded, feed
  <2>2. PICK c : c = Tail(chan)
    OBVIOUS
  <2>3. Cardinality(Ends(c)) = Cardinality(Ends(chan)) - 1
    BY <1>0, <2>1, <2>2, EndsTail, EndsFinite
  <2>4. LastWord(pump, c)
    BY <1>0, <2>1, <2>2, LastTail
  <2>5. chan' = c
    BY <2>1, <2>2
  <2>6. live > 0
    BY <2>1 DEF Closing
  <2>7. Cardinality(Ends(chan)) \in Nat /\ Cardinality(Work(pump)) \in Nat
    BY <1>0, EndsFinite, WorkFinite
  <2>8. live - 1 = Cardinality(Work(pump)) + Cardinality(Ends(c)) /\ live - 1 \in Nat
    BY <1>0, <2>1, <2>3, <2>6, <2>7
  <2> QED BY <1>0, <2>1, <2>4, <2>5, <2>8 DEF Counting, Stopped
<1>7. CASE \/ \E s \in Sources : Write(s) \/ Skip(s)
           \/ CloseStdout \/ Tick \/ Ended \/ UNCHANGED vars
  <2>1. UNCHANGED <<pump, hand, chan, live, phase>>
    BY <1>7 DEF Write, Skip, CloseStdout, Tick, Ended, vars, feed
  <2> QED BY <1>1, <2>1
<1>8. CASE \/ OnTimeout \/ OnFinish \/ PrintFails
           \/ \E w \in batch.repeats : PrintRepeat(w)
           \/ \E key \in batch.match : PrintMatch(key)
  <2>1. UNCHANGED <<pump, hand, chan, live>> /\ phase # "exited"
    BY <1>8 DEF OnTimeout, OnFinish, PrintFails, PrintRepeat, PrintMatch, feed
  <2> QED BY <1>1, <2>1
<1>9. ASSUME NEW s \in Sources, Read(s) PROVE Counting'
  <2>1. /\ pump[s] = "reading" /\ pump' = [pump EXCEPT ![s] = "sending"]
        /\ UNCHANGED <<chan, live, phase>>
    BY <1>9 DEF Read
  <2>2. PICK text \in Texts, ts \in Stamps :
          hand' = [hand EXCEPT ![s] = [source |-> s, text |-> text, ts |-> ts]]
    BY <1>9 DEF Read
  <2>3. hand'[s].source = s /\ \A q \in Sources : q # s => hand'[q] = hand[q]
    BY <1>0, <2>2
  <2> QED BY <1>2, <2>1, <2>3
<1>10. ASSUME NEW s \in Sources, EndOfFile(s) \/ EndOfPipe(s) \/ BreakOff(s) PROVE Counting'
  <2>1. /\ pump[s] = "reading" /\ pump' = [pump EXCEPT ![s] = "ending"]
        /\ UNCHANGED <<hand, chan, live, phase>>
    BY <1>10 DEF EndOfFile, EndOfPipe, BreakOff
  <2>2. \A q \in Sources : q # s => hand'[q] = hand[q]
    BY <2>1
  <2> QED BY <1>2, <2>1, <2>2
<1> QED BY <1>3, <1>4, <1>5, <1>6, <1>7, <1>8, <1>9, <1>10 DEF Next, Pump, Main

(* Once the last source has ended nothing is left to read, and what the    *)
(* windows held is all there is to print.                                  *)
LEMMA ClosingStep ==
  Typed /\ Books /\ Counting /\ Closing /\ [Next]_vars => Closing'
<1> SUFFICES ASSUME Typed, Books, Counting, Closing, [Next]_vars PROVE Closing'
  OBVIOUS
<1>0. /\ phase = "receive" => live > 0
      /\ phase = "finish" => live = 0
      /\ phase = "print" => live > 0 \/ (table = EmptyTable /\ batch.match = {})
      /\ (phase = "exited" /\ stdout = "open") =>
           table = EmptyTable /\ batch = NoBatch /\ chan = <<>> /\ \A s \in Sources : pump[s] = "done"
      /\ live \in Nat /\ phase \in {"receive", "finish", "print", "exited"}
  BY DEF Closing, Counting, Typed
<1>1. phase # "exited" /\ live = 0 => chan = <<>> /\ \A s \in Sources : pump[s] = "done"
  BY Drained DEF Stopped
<1>2. CASE OnEvent
  <2>1. phase = "receive" /\ live' = live /\ phase' \in {"receive", "print"}
    BY <1>2 DEF OnEvent, Emit
  <2> QED BY <1>0, <2>1 DEF Closing
<1>3. CASE OnEnded
  <2>1. phase = "receive" /\ live' = live - 1
        /\ phase' = (IF live - 1 > 0 THEN "receive" ELSE "finish")
    BY <1>3 DEF OnEnded, NextPhase
  <2> QED BY <1>0, <2>1 DEF Closing
<1>4. CASE OnTimeout
  <2>1. phase = "receive" /\ live' = live /\ phase' \in {"receive", "print"}
    BY <1>4 DEF OnTimeout, Emit
  <2> QED BY <1>0, <2>1 DEF Closing
<1>5. CASE OnFinish
  <2> DEFINE b == [repeats |-> Shut(table, DOMAIN table.entries).closed, match |-> {}]
  <2>1. /\ phase = "finish" /\ table' = EmptyTable /\ batch' = b
        /\ phase' = (IF b = NoBatch THEN "exited" ELSE "print")
        /\ UNCHANGED <<pump, chan, live>>
    BY <1>5 DEF OnFinish, Emit, feed
  <2>2. b.match = {}
    OBVIOUS
  <2> HIDE DEF b
  <2>3. chan = <<>> /\ \A s \in Sources : pump[s] = "done"
    BY <1>0, <1>1, <2>1
  <2>4. CASE b = NoBatch
    BY <2>1, <2>3, <2>4 DEF Closing
  <2>5. CASE b # NoBatch
    BY <2>1, <2>2, <2>5 DEF Closing
  <2> QED BY <2>4, <2>5
<1>6. ASSUME NEW w \in batch.repeats, PrintRepeat(w) PROVE Closing'
  <2> DEFINE b == [batch EXCEPT !.repeats = @ \ {w}]
  <2>1. /\ phase = "print" /\ batch' = b /\ UNCHANGED <<pump, chan, live, table>>
        /\ phase' = (IF b = NoBatch THEN (IF live > 0 THEN "receive" ELSE "exited") ELSE "print")
    BY <1>6 DEF PrintRepeat, Emit, feed
  <2>2. b.match = batch.match
    <3>1. batch = [repeats |-> batch.repeats, match |-> batch.match]
      BY DEF Books, Notices
    <3> QED BY <3>1
  <2> HIDE DEF b
  <2>3. CASE b = NoBatch /\ live > 0
    BY <1>0, <2>1, <2>3 DEF Closing
  <2>4. CASE b = NoBatch /\ ~(live > 0)
    <3>1. live = 0
      BY <1>0, <2>4
    <3> QED BY <1>0, <1>1, <2>1, <2>4, <3>1 DEF Closing
  <2>5. CASE b # NoBatch
    BY <1>0, <2>1, <2>2, <2>5 DEF Closing
  <2> QED BY <2>3, <2>4, <2>5
<1>7. ASSUME NEW key \in batch.match, PrintMatch(key) PROVE Closing'
  <2>1. /\ phase = "print" /\ batch' = NoBatch /\ phase' = "receive" /\ live' = live
    BY <1>7 DEF PrintMatch, Emit
  <2>2. live > 0
    BY <1>0, <1>7, <2>1
  <2> QED BY <2>1, <2>2 DEF Closing
<1>8. CASE PrintFails
  <2>1. phase' = "exited" /\ stdout' = "closed"
    BY <1>8 DEF PrintFails
  <2> QED BY <2>1 DEF Closing
<1>9. CASE \E s \in Sources : Write(s) \/ Pump(s) \/ EndOfPipe(s) \/ BreakOff(s)
  <2>1. PICK s \in Sources : Write(s) \/ Pump(s) \/ EndOfPipe(s) \/ BreakOff(s)
    BY <1>9
  <2>2. UNCHANGED <<live, phase, batch, table, stdout>>
    BY <2>1 DEF Write, Pump, Skip, Read, EndOfFile, EndOfPipe, BreakOff, Send, SendEnded
  <2>3. UNCHANGED <<pump, chan>> \/ pump[s] # "done"
    BY <2>1 DEF Write, Pump, Skip, Read, EndOfFile, EndOfPipe, BreakOff, Send, SendEnded
  <2> QED BY <1>0, <2>2, <2>3 DEF Closing
<1>10. CASE CloseStdout
  <2>1. stdout' = "closed" /\ UNCHANGED <<live, phase, batch, table>>
    BY <1>10 DEF CloseStdout
  <2> QED BY <1>0, <2>1 DEF Closing
<1>11. CASE Tick \/ Ended \/ UNCHANGED vars
  <2>1. UNCHANGED <<pump, chan, live, phase, batch, table, stdout>>
    BY <1>11 DEF Tick, Ended, vars, feed
  <2> QED BY <1>0, <2>1 DEF Closing
<1> QED BY <1>2, <1>3, <1>4, <1>5, <1>6, <1>7, <1>8, <1>9, <1>10, <1>11 DEF Next, Main

(* The loop of run_plan: the count it ends by is that of the readers at    *)
(* work and of the ends in the channel, whatever the sources and however   *)
(* small the channel.                                                      *)
THEOREM AlwaysLiveCounts == Spec => []LiveCounts
<1>1. Typed /\ Counting => LiveCounts
  <2> SUFFICES ASSUME Typed, Counting, ~Stopped PROVE LiveCounts
    BY DEF LiveCounts
  <2>1. chan \in Seq(Msg) /\ DOMAIN chan = 1 .. Len(chan)
    BY LenProperties DEF Typed
  <2>2. Ends(chan) = {i \in DOMAIN chan : chan[i].type = "ended"}
    BY <2>1 DEF Ends
  <2> QED BY <2>2 DEF Counting, LiveCounts, Work
<1> QED BY TypedInit, TypedStep, BooksStep, CountingInit, CountingStep, ClosingStep, <1>1, PTL
        DEF Spec

(* run_plan as a whole: a watch that ends with its output still read has   *)
(* received all that its readers read and told every match.                *)
THEOREM AlwaysExitComplete == Spec => []ExitComplete
<1>1. Books /\ Closing => ExitComplete
  <2> SUFFICES ASSUME Books, Closing, phase = "exited", stdout = "open" PROVE ExitComplete
    BY DEF ExitComplete
  <2>1. table = EmptyTable /\ batch = NoBatch /\ chan = <<>> /\ \A s \in Sources : pump[s] = "done"
    BY DEF Closing
  <2>2. ASSUME NEW key \in Keys PROVE matches[key] = shown[key] + told[key]
    <3>1. /\ matches \in [Keys -> Nat] /\ shown \in [Keys -> Nat] /\ told \in [Keys -> Nat]
          /\ matches[key] = shown[key] + told[key] + HeldOf(table, key) + Repeats(key, batch.repeats)
                            + (IF key \in batch.match THEN 1 ELSE 0)
      BY DEF Books, Balanced
    <3>2. HeldOf(table, key) = 0 /\ Repeats(key, batch.repeats) = 0 /\ key \notin batch.match
      BY <2>1, EmptyIsClean DEF NoBatch
    <3> QED BY <3>1, <3>2
  <2> QED BY <2>1, <2>2 DEF ExitComplete
<1> QED BY TypedInit, TypedStep, BooksStep, CountingInit, CountingStep, ClosingStep, <1>1, PTL
        DEF Spec

=============================================================================
