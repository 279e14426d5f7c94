--------------------------- MODULE PipelineProofs ---------------------------
(***************************************************************************)
(* What the readers promise of lines and records, for any lines, any       *)
(* number of files and every format: no line is lost, read or counted      *)
(* twice, a number leads to its record, and a merge is in order.           *)
(***************************************************************************)
EXTENDS Pipeline, FiniteSetTheorems, SequenceTheorems, WellFoundedInduction, TLAPS

-----------------------------------------------------------------------------
Rec == [source : Nat, from : Nat, to : Nat]

(* A record is some lines of its source that were read. *)
Proper(rec) ==
  /\ rec \in Rec /\ rec.source \in Sources
  /\ 1 <= rec.from /\ rec.from <= rec.to /\ rec.to <= cursor[rec.source]

Covers(rec, s, k) == rec.source = s /\ rec.from <= k /\ k <= rec.to

Read(s, k) ==
  \/ \E i \in 1 .. Len(taken) : Covers(taken[i], s, k)
  \/ \E rec \in Held : Covers(rec, s, k)

(* Which reader holds what, in which phase; a merge has a slot of every    *)
(* file that is not at its end, and a file or stream that is loaded is at  *)
(* its end.                                                                *)
Shape ==
  /\ load \in {"file", "stream", "merged"}
  /\ format \in {"single", "folding", "csv", "regex"}
  /\ phase \in {"unprimed", "load", "loaded", "ready"}
  /\ Sources \subseteq Nat /\ (load # "merged" => Sources = {1})
  /\ text \in [Sources -> Seq(Lines)]
  /\ cursor \in [Sources -> Nat] /\ \A s \in Sources : cursor[s] <= Len(text[s])
  /\ taken \in Seq(Rec)
  /\ phase = "unprimed" => load = "merged" /\ taken = <<>> /\ \A s \in Sources : cursor[s] = 0
  /\ pending # {} => load = "stream" /\ phase = "load"
  /\ heap # {} => load = "merged" /\ phase = "load"
  /\ (load = "merged" /\ phase # "unprimed") =>
       \A s \in Sources : AtEnd(s) \/ \E slot \in heap : slot.source = s
  /\ (load # "merged" /\ phase \in {"loaded", "ready"}) => AtEnd(1)

Once ==
  /\ \A i \in 1 .. Len(taken) : Proper(taken[i])
  /\ \A rec \in Held : Proper(rec) /\ rec.to = cursor[rec.source]
  /\ \A rec \in heap : rec.from = rec.to
  /\ \A i, j \in 1 .. Len(taken) :
       (i < j /\ taken[i].source = taken[j].source) => taken[i].to < taken[j].from
  /\ \A i \in 1 .. Len(taken) : \A rec \in Held :
       taken[i].source = rec.source => taken[i].to < rec.from
  /\ \A rec, other \in Held : other.source = rec.source => other = rec
  /\ \A s \in Sources : \A k \in 1 .. cursor[s] : Read(s, k)

Flow == Shape /\ Once

-----------------------------------------------------------------------------
(* Nothing was read yet.                                                   *)
LEMMA FlowInit == Init => Flow
<1> SUFFICES ASSUME Init PROVE Flow
  OBVIOUS
<1> DEFINE n == IF load = "merged" THEN Files ELSE 1
<1>1. /\ text \in [1 .. n -> BoundedSeq(Lines, MaxLines)]
      /\ cursor = [s \in DOMAIN text |-> 0]
      /\ pending = {} /\ heap = {} /\ taken = <<>>
      /\ phase = IF load = "merged" THEN "unprimed" ELSE "load"
      /\ load \in Loads /\ format \in Formats
  BY DEF Init
<1>2. /\ load \in {"file", "stream", "merged"} /\ format \in {"single", "folding", "csv", "regex"}
      /\ Files \in Nat /\ n \in Nat
  BY <1>1, PipelineAssumption
<1>3. BoundedSeq(Lines, MaxLines) \subseteq Seq(Lines)
  BY PipelineAssumption DEF BoundedSeq, SeqOf
<1>4. Sources = 1 .. n /\ text \in [Sources -> Seq(Lines)]
  BY <1>1, <1>3 DEF Sources
<1>5. Sources \subseteq Nat /\ (load # "merged" => Sources = {1})
  BY <1>2, <1>4
<1>6. cursor \in [Sources -> Nat] /\ \A s \in Sources : cursor[s] = 0
  BY <1>1, <1>4 DEF Sources
<1>7. \A s \in Sources : cursor[s] <= Len(text[s])
  <2> SUFFICES ASSUME NEW s \in Sources PROVE cursor[s] <= Len(text[s])
    OBVIOUS
  <2>1. Len(text[s]) \in Nat
    BY <1>4, LenProperties
  <2> QED BY <1>6, <2>1
<1>8. Held = {} /\ Len(taken) = 0 /\ taken \in Seq(Rec)
  BY <1>1, EmptySeq DEF Held
<1> HIDE DEF n
<1>9. Shape
  BY <1>1, <1>2, <1>4, <1>5, <1>6, <1>7, <1>8 DEF Shape
<1>10. Once
  <2>1. \A s \in Sources : \A k \in 1 .. cursor[s] : FALSE
    BY <1>6
  <2>2. \A i \in 1 .. Len(taken) : FALSE
    BY <1>8
  <2>3. heap = {} /\ Held = {}
    BY <1>1, <1>8
  <2> QED BY <2>1, <2>2, <2>3 DEF Once
<1> QED BY <1>9, <1>10 DEF Flow

(* What a sequence of records is after one more.                           *)
LEMMA OneMore ==
  ASSUME taken \in Seq(Rec), NEW rec \in Rec, taken' = Append(taken, rec)
  PROVE  /\ taken' \in Seq(Rec) /\ Len(taken) \in Nat /\ Len(taken') = Len(taken) + 1
         /\ \A i \in 1 .. Len(taken) : taken'[i] = taken[i] /\ i \in 1 .. Len(taken')
         /\ taken'[Len(taken) + 1] = rec /\ Len(taken) + 1 \in 1 .. Len(taken')
         /\ \A i \in 1 .. Len(taken') : i \in 1 .. Len(taken) \/ i = Len(taken) + 1
<1>1. /\ taken' \in Seq(Rec) /\ Len(taken') = Len(taken) + 1
      /\ \A i \in 1 .. Len(taken) : taken'[i] = taken[i]
      /\ taken'[Len(taken) + 1] = rec
  BY AppendProperties
<1>2. Len(taken) \in Nat
  BY LenProperties
<1> QED BY <1>1, <1>2

(* The last records of one source change: one may be indexed behind all    *)
(* that were, another held back, and every line is still read.             *)
LEMMA OnceMoves ==
  ASSUME Shape, Once, Sources' = Sources, NEW s \in Sources,
         \A q \in Sources : q # s => cursor'[q] = cursor[q],
         cursor'[s] \in Nat, cursor[s] <= cursor'[s],
         Len(taken') \in Nat, Len(taken') <= Len(taken) + 1, Len(taken) <= Len(taken'),
         \A i \in 1 .. Len(taken) : taken'[i] = taken[i],
         \A i \in 1 .. Len(taken') : i > Len(taken) =>
           /\ taken'[i] \in Rec /\ taken'[i].source = s
           /\ 1 <= taken'[i].from /\ taken'[i].from <= taken'[i].to
           /\ taken'[i].to <= cursor'[s]
           /\ \A j \in 1 .. Len(taken) : taken[j].source = s => taken[j].to < taken'[i].from
           /\ \A rec \in Held' : rec.source = s => taken'[i].to < rec.from,
         \A rec : rec.source # s => (rec \in Held' <=> rec \in Held),
         \A rec \in Held' : rec.source = s =>
           /\ rec \in Rec /\ 1 <= rec.from /\ rec.from <= rec.to /\ rec.to = cursor'[s]
           /\ \A j \in 1 .. Len(taken) : taken[j].source = s => taken[j].to < rec.from,
         \A rec, other \in Held' : rec.source = s /\ other.source = s => other = rec,
         \A rec \in heap' : rec.from = rec.to,
         \A k \in 1 .. cursor'[s] : Read(s, k)'
  PROVE  Once'
<1>1. Len(taken) \in Nat /\ \A q \in Sources : cursor[q] \in Nat
  BY LenProperties DEF Shape
<1>2. \A i \in 1 .. Len(taken') : i \in 1 .. Len(taken) \/ i > Len(taken)
  BY <1>1
<1>3. ASSUME NEW i \in 1 .. Len(taken') PROVE Proper(taken[i])'
  <2>1. CASE i \in 1 .. Len(taken)
    <3>1. Proper(taken[i]) /\ taken'[i] = taken[i]
      BY <2>1 DEF Once
    <3>2. cursor[taken[i].source] <= cursor'[taken[i].source] /\ cursor'[taken[i].source] \in Nat
      BY <1>1, <3>1 DEF Proper
    <3> QED BY <1>1, <3>1, <3>2 DEF Proper, Rec
  <2>2. CASE i > Len(taken)
    <3>1. /\ taken'[i] \in Rec /\ taken'[i].source = s
          /\ 1 <= taken'[i].from /\ taken'[i].from <= taken'[i].to
          /\ taken'[i].to <= cursor'[s]
      BY <2>2
    <3> QED BY <3>1 DEF Proper
  <2> QED BY <1>2, <2>1, <2>2
<1>4. ASSUME NEW rec \in Held' PROVE Proper(rec)' /\ rec.to = cursor'[rec.source]
  <2>1. CASE rec.source = s
    <3>1. /\ rec \in Rec /\ 1 <= rec.from /\ rec.from <= rec.to /\ rec.to = cursor'[s]
      BY <2>1
    <3> QED BY <2>1, <3>1 DEF Proper, Rec
  <2>2. CASE rec.source # s
    <3>1. rec \in Held
      BY <2>2
    <3>2. Proper(rec) /\ rec.to = cursor[rec.source]
      BY <3>1 DEF Once
    <3>3. cursor'[rec.source] = cursor[rec.source]
      BY <2>2, <3>2 DEF Proper
    <3> QED BY <3>2, <3>3 DEF Proper
  <2> QED BY <2>1, <2>2
<1>5. ASSUME NEW i \in 1 .. Len(taken'), NEW j \in 1 .. Len(taken'), i < j,
             taken'[i].source = taken'[j].source
      PROVE  taken'[i].to < taken'[j].from
  <2>1. i \in 1 .. Len(taken) /\ taken'[i] = taken[i]
    BY <1>1, <1>2, <1>5
  <2>2. CASE j \in 1 .. Len(taken)
    BY <1>5, <2>1, <2>2 DEF Once
  <2>3. CASE j > Len(taken)
    BY <1>5, <2>1, <2>3
  <2> QED BY <1>2, <2>2, <2>3
<1>6. ASSUME NEW i \in 1 .. Len(taken'), NEW rec \in Held', taken'[i].source = rec.source
      PROVE  taken'[i].to < rec.from
  <2>1. CASE rec.source = s
    BY <1>2, <1>6, <2>1
  <2>2. CASE rec.source # s
    <3>1. rec \in Held /\ i \in 1 .. Len(taken) /\ taken'[i] = taken[i]
      BY <1>2, <1>6, <2>2
    <3> QED BY <1>6, <3>1 DEF Once
  <2> QED BY <2>1, <2>2
<1>7. ASSUME NEW rec \in Held', NEW other \in Held', other.source = rec.source
      PROVE  other = rec
  <2>1. CASE rec.source = s
    BY <1>7, <2>1
  <2>2. CASE rec.source # s
    <3>1. rec \in Held /\ other \in Held
      BY <1>7, <2>2
    <3> QED BY <1>7, <3>1 DEF Once
  <2> QED BY <2>1, <2>2
<1>8. ASSUME NEW q \in Sources, NEW k \in 1 .. cursor'[q] PROVE Read(q, k)'
  <2>1. CASE q = s
    BY <2>1
  <2>2. CASE q # s
    <3>1. Read(q, k)
      BY <2>2 DEF Once
    <3>2. CASE \E i \in 1 .. Len(taken) : Covers(taken[i], q, k)
      <4>1. PICK i \in 1 .. Len(taken) : Covers(taken[i], q, k)
        BY <3>2
      <4>2. i \in 1 .. Len(taken') /\ taken'[i] = taken[i]
        BY <1>1
      <4> QED BY <4>1, <4>2 DEF Read, Covers
    <3>3. CASE \E rec \in Held : Covers(rec, q, k)
      <4>1. PICK rec \in Held : Covers(rec, q, k)
        BY <3>3
      <4>2. rec \in Held'
        BY <2>2, <4>1 DEF Covers
      <4> QED BY <4>1, <4>2 DEF Read, Covers
    <3> QED BY <3>1, <3>2, <3>3 DEF Read
  <2> QED BY <2>1, <2>2
<1> QED BY <1>3, <1>4, <1>5, <1>6, <1>7, <1>8 DEF Once

(* What is known of a source before it moves. *)
LEMMA Known ==
  ASSUME Flow, NEW s \in Sources
  PROVE  /\ s \in Nat /\ cursor[s] \in Nat /\ Len(text[s]) \in Nat
         /\ cursor[s] <= Len(text[s]) /\ Len(taken) \in Nat /\ taken \in Seq(Rec)
         /\ text[s] \in Seq(Lines)
         /\ \A i \in 1 .. Len(taken) :
              taken[i].source = s => taken[i].to <= cursor[s] /\ taken[i].to \in Nat
         /\ \A rec \in Held : rec \in Rec /\ (rec.source = s => rec.to = cursor[s])
<1>1. Shape /\ Once
  BY DEF Flow
<1>2. s \in Nat /\ cursor[s] \in Nat /\ text[s] \in Seq(Lines) /\ taken \in Seq(Rec)
      /\ cursor[s] <= Len(text[s])
  BY <1>1 DEF Shape
<1>3. Len(text[s]) \in Nat /\ Len(taken) \in Nat
  BY <1>2, LenProperties
<1>4. \A i \in 1 .. Len(taken) : Proper(taken[i])
  BY <1>1 DEF Once
<1>5. \A rec \in Held : Proper(rec) /\ rec.to = cursor[rec.source]
  BY <1>1 DEF Once
<1> QED BY <1>2, <1>3, <1>4, <1>5 DEF Proper, Rec

(* A line is a record, indexed as it is read, of the only source.          *)
LEMMA OnceDirect ==
  ASSUME Flow, Sources' = Sources, 1 \in Sources, Held = {}, Held' = {}, heap' = {},
         cursor' = [cursor EXCEPT ![1] = @ + 1],
         taken' = Append(taken, Next1(1))
  PROVE  Once' /\ taken' \in Seq(Rec)
<1> DEFINE rec == Next1(1)
<1>1. Shape /\ Once
  BY DEF Flow
<1>2. /\ cursor[1] \in Nat /\ Len(taken) \in Nat /\ taken \in Seq(Rec)
      /\ \A i \in 1 .. Len(taken) :
           taken[i].source = 1 => taken[i].to <= cursor[1] /\ taken[i].to \in Nat
  BY Known
<1>3. /\ cursor'[1] = cursor[1] + 1
      /\ \A q \in Sources : q # 1 => cursor'[q] = cursor[q]
  BY <1>1 DEF Shape
<1>4. rec \in Rec /\ rec.source = 1 /\ rec.from = cursor[1] + 1 /\ rec.to = cursor[1] + 1
  BY <1>2 DEF Next1, Rec
<1> HIDE DEF rec
<1>5. /\ taken' \in Seq(Rec) /\ Len(taken') = Len(taken) + 1
      /\ \A i \in 1 .. Len(taken) : taken'[i] = taken[i] /\ i \in 1 .. Len(taken')
      /\ taken'[Len(taken) + 1] = rec /\ Len(taken) + 1 \in 1 .. Len(taken')
      /\ \A i \in 1 .. Len(taken') : i \in 1 .. Len(taken) \/ i = Len(taken) + 1
  BY <1>2, <1>4, OneMore DEF rec
<1>6. ASSUME NEW i \in 1 .. Len(taken'), i > Len(taken) PROVE taken'[i] = rec
  BY <1>2, <1>5, <1>6
<1>7. ASSUME NEW j \in 1 .. Len(taken), taken[j].source = 1 PROVE taken[j].to < rec.from
  BY <1>2, <1>4, <1>7
<1>8. ASSUME NEW k \in 1 .. cursor'[1] PROVE Read(1, k)'
  <2>1. CASE k = cursor[1] + 1
    <3>1. Covers(rec, 1, k)
      BY <1>2, <1>4, <2>1 DEF Covers
    <3> QED BY <1>5, <3>1 DEF Read, Covers
  <2>2. CASE k # cursor[1] + 1
    <3>1. k \in 1 .. cursor[1]
      BY <1>2, <1>3, <2>2
    <3>2. Read(1, k)
      BY <1>1, <3>1 DEF Once
    <3>3. PICK i \in 1 .. Len(taken) : Covers(taken[i], 1, k)
      BY <3>2 DEF Read
    <3> QED BY <1>5, <3>3 DEF Read, Covers
  <2> QED BY <2>1, <2>2
<1>9. Once'
  <2>1. \A i \in 1 .. Len(taken') : i > Len(taken) =>
          /\ taken'[i] \in Rec /\ taken'[i].source = 1
          /\ 1 <= taken'[i].from /\ taken'[i].from <= taken'[i].to
          /\ taken'[i].to <= cursor'[1]
          /\ \A j \in 1 .. Len(taken) : taken[j].source = 1 => taken[j].to < taken'[i].from
    BY <1>2, <1>3, <1>4, <1>6, <1>7
  <2>2. cursor'[1] \in Nat /\ cursor[1] <= cursor'[1]
    BY <1>2, <1>3
  <2>3. Len(taken') \in Nat /\ Len(taken') <= Len(taken) + 1 /\ Len(taken) <= Len(taken')
    BY <1>2, <1>5
  <2> QED BY <1>1, <1>3, <1>5, <1>8, <2>1, <2>2, <2>3, OnceMoves
<1> QED BY <1>5, <1>9

(* The record that was held back goes to the index, and another may be     *)
(* held back in its place.                                                 *)
LEMMA OnceHeld ==
  ASSUME Flow, Sources' = Sources, NEW rec \in Held, taken' = Append(taken, rec),
         NEW n \in {cursor[rec.source], cursor[rec.source] + 1},
         cursor' = [cursor EXCEPT ![rec.source] = n],
         \/ n = cursor[rec.source] /\ Held' = Held \ {rec}
         \/ n # cursor[rec.source] /\ Held' = (Held \ {rec}) \cup {Next1(rec.source)},
         \A other \in heap' : other.from = other.to
  PROVE  Once' /\ taken' \in Seq(Rec)
<1> DEFINE s == rec.source
           next == Next1(s)
<1>1. Shape /\ Once /\ Proper(rec) /\ rec \in Rec /\ s \in Sources /\ rec.to = cursor[s]
  BY DEF Flow, Once, Proper
<1> HIDE DEF s, next
<1>2. /\ cursor[s] \in Nat /\ Len(taken) \in Nat /\ taken \in Seq(Rec)
      /\ \A i \in 1 .. Len(taken) :
           taken[i].source = s => taken[i].to <= cursor[s] /\ taken[i].to \in Nat
  BY <1>1, Known
<1>3. /\ cursor'[s] = n /\ n \in Nat /\ cursor[s] <= n
      /\ \A q \in Sources : q # s => cursor'[q] = cursor[q]
      /\ n \in {cursor[s], cursor[s] + 1}
  BY <1>1, <1>2 DEF Shape, s
<1>4. next \in Rec /\ next.source = s /\ next.from = cursor[s] + 1 /\ next.to = cursor[s] + 1
  <2>1. s \in Nat
    BY <1>1, Known
  <2> QED BY <1>2, <2>1 DEF Next1, Rec, next
<1>5. /\ taken' \in Seq(Rec) /\ Len(taken') = Len(taken) + 1
      /\ \A i \in 1 .. Len(taken) : taken'[i] = taken[i] /\ i \in 1 .. Len(taken')
      /\ taken'[Len(taken) + 1] = rec /\ Len(taken) + 1 \in 1 .. Len(taken')
      /\ \A i \in 1 .. Len(taken') : i \in 1 .. Len(taken) \/ i = Len(taken) + 1
  BY <1>1, <1>2, OneMore
<1>6. ASSUME NEW i \in 1 .. Len(taken'), i > Len(taken) PROVE taken'[i] = rec
  BY <1>2, <1>5, <1>6
<1>7. ASSUME NEW j \in 1 .. Len(taken), taken[j].source = s
      PROVE  taken[j].to < rec.from /\ taken[j].to < next.from
  <2>1. taken[j].to < rec.from
    BY <1>1, <1>7 DEF Once, s
  <2> QED BY <1>2, <1>4, <1>7, <2>1
<1>8. \A other \in Held : other.source = s => other = rec
  BY <1>1 DEF Once, s
<1>9. ASSUME NEW other \in Held', other.source = s
      PROVE  other = next /\ n = cursor[s] + 1
  <2>1. other \notin Held \ {rec}
    BY <1>8, <1>9
  <2> QED BY <1>2, <1>3, <2>1 DEF s, next
<1>10. \A other : other.source # s => (other \in Held' <=> other \in Held)
  BY <1>4 DEF s, next
<1>11. rec.from \in Nat /\ rec.to \in Nat /\ rec.source = s /\ 1 <= rec.from /\ rec.from <= rec.to
  BY <1>1 DEF Proper, Rec, s
<1>12. ASSUME NEW k \in 1 .. cursor'[s] PROVE Read(s, k)'
  <2>1. CASE k \in 1 .. cursor[s]
    <3>1. Read(s, k)
      BY <1>1, <2>1 DEF Once
    <3>2. CASE \E i \in 1 .. Len(taken) : Covers(taken[i], s, k)
      <4>1. PICK i \in 1 .. Len(taken) : Covers(taken[i], s, k)
        BY <3>2
      <4> QED BY <1>5, <4>1 DEF Read, Covers
    <3>3. CASE \E other \in Held : Covers(other, s, k)
      <4>1. Covers(rec, s, k)
        BY <1>8, <3>3 DEF Covers
      <4> QED BY <1>5, <4>1 DEF Read, Covers
    <3> QED BY <3>1, <3>2, <3>3 DEF Read
  <2>2. CASE k \notin 1 .. cursor[s]
    <3>1. n = cursor[s] + 1 /\ k = cursor[s] + 1 /\ n # cursor[s]
      BY <1>2, <1>3, <2>2
    <3>2. next \in Held'
      BY <3>1 DEF s, next
    <3>3. Covers(next, s, k)
      BY <1>2, <1>4, <3>1 DEF Covers
    <3> QED BY <3>2, <3>3 DEF Read, Covers
  <2> QED BY <2>1, <2>2
<1>13. Once'
  <2>1. \A i \in 1 .. Len(taken') : i > Len(taken) =>
          /\ taken'[i] \in Rec /\ taken'[i].source = s
          /\ 1 <= taken'[i].from /\ taken'[i].from <= taken'[i].to
          /\ taken'[i].to <= cursor'[s]
          /\ \A j \in 1 .. Len(taken) : taken[j].source = s => taken[j].to < taken'[i].from
    BY <1>1, <1>3, <1>6, <1>7, <1>11
  <2>2. ASSUME NEW i \in 1 .. Len(taken'), i > Len(taken), NEW other \in Held', other.source = s
        PROVE  taken'[i].to < other.from
    BY <1>1, <1>2, <1>4, <1>6, <1>9, <2>2
  <2>3. ASSUME NEW other \in Held', other.source = s
        PROVE  /\ other \in Rec /\ 1 <= other.from /\ other.from <= other.to
               /\ other.to = cursor'[s]
               /\ \A j \in 1 .. Len(taken) : taken[j].source = s => taken[j].to < other.from
    BY <1>2, <1>3, <1>4, <1>7, <1>9, <2>3
  <2>4. \A other, third \in Held' : other.source = s /\ third.source = s => third = other
    BY <1>9
  <2>5. Len(taken') \in Nat /\ Len(taken') <= Len(taken) + 1 /\ Len(taken) <= Len(taken')
    BY <1>2, <1>5
  <2> QED BY <1>1, <1>3, <1>5, <1>10, <1>12, <2>1, <2>2, <2>3, <2>4, <2>5, OnceMoves
<1> QED BY <1>5, <1>13

(* A stream's first line is held back, or its next continues what is held. *)
LEMMA OnceGrows ==
  ASSUME Flow, Sources' = Sources, 1 \in Sources, heap = {}, heap' = {},
         cursor' = [cursor EXCEPT ![1] = @ + 1], taken' = taken,
         NEW rec \in Rec, pending' = {rec}, rec.source = 1, rec.to = cursor[1] + 1,
         \/ pending = {} /\ rec.from = cursor[1] + 1
         \/ \E old \in pending : old.source = 1 /\ rec.from = old.from
  PROVE  Once'
<1>1. Shape /\ Once
  BY DEF Flow
<1>2. /\ cursor[1] \in Nat /\ Len(taken) \in Nat /\ taken \in Seq(Rec)
      /\ \A i \in 1 .. Len(taken) :
           taken[i].source = 1 => taken[i].to <= cursor[1] /\ taken[i].to \in Nat
  BY Known
<1>3. /\ cursor'[1] = cursor[1] + 1
      /\ \A q \in Sources : q # 1 => cursor'[q] = cursor[q]
  BY <1>1 DEF Shape
<1>4. Held' = {rec} /\ Held = pending
  BY DEF Held
<1>5. \A old \in Held : Proper(old) /\ old.to = cursor[old.source]
  BY <1>1 DEF Once
<1>6. rec.from \in Nat /\ 1 <= rec.from /\ rec.from <= rec.to
  <2>1. CASE rec.from = cursor[1] + 1
    BY <1>2, <2>1
  <2>2. CASE \E old \in pending : old.source = 1 /\ rec.from = old.from
    BY <1>2, <1>4, <1>5, <2>2 DEF Proper, Rec
  <2> QED BY <2>1, <2>2
<1>7. ASSUME NEW j \in 1 .. Len(taken), taken[j].source = 1 PROVE taken[j].to < rec.from
  <2>1. CASE rec.from = cursor[1] + 1
    BY <1>2, <1>7, <2>1
  <2>2. CASE \E old \in pending : old.source = 1 /\ rec.from = old.from
    BY <1>1, <1>4, <1>7, <2>2 DEF Once
  <2> QED BY <2>1, <2>2
<1>8. \A other : other.source # 1 => (other \in Held' <=> other \in Held)
  <2>1. ASSUME NEW other \in Held PROVE other.source = 1
    BY <1>4, <1>5, <2>1, <1>1 DEF Shape, Proper
  <2> QED BY <1>4, <2>1
<1>9. ASSUME NEW k \in 1 .. cursor'[1] PROVE Read(1, k)'
  <2>1. CASE rec.from <= k
    <3>1. Covers(rec, 1, k)
      BY <1>2, <1>3, <1>6, <2>1 DEF Covers
    <3> QED BY <1>4, <3>1 DEF Read, Covers
  <2>2. CASE ~(rec.from <= k)
    <3>1. k \in 1 .. cursor[1]
      BY <1>2, <1>3, <1>6, <2>2
    <3>2. Read(1, k)
      BY <1>1, <3>1 DEF Once
    <3>3. CASE \E i \in 1 .. Len(taken) : Covers(taken[i], 1, k)
      BY <3>3 DEF Read, Covers
    <3>4. CASE \E other \in Held : Covers(other, 1, k)
      <4>1. PICK other \in Held : Covers(other, 1, k)
        BY <3>4
      <4>2. other.from = rec.from
        BY <1>1, <1>4, <4>1 DEF Covers, Once
      <4> QED BY <2>2, <4>1, <4>2 DEF Covers
    <3> QED BY <3>2, <3>3, <3>4 DEF Read
  <2> QED BY <2>1, <2>2
<1>10. \A i \in 1 .. Len(taken') : ~(i > Len(taken))
  BY <1>2
<1>11. cursor'[1] \in Nat /\ cursor[1] <= cursor'[1]
  BY <1>2, <1>3
<1>12. Len(taken') \in Nat /\ Len(taken') <= Len(taken) + 1 /\ Len(taken) <= Len(taken')
  BY <1>2
<1>13. \A other \in Held' : other.source = 1 =>
         /\ other \in Rec /\ 1 <= other.from /\ other.from <= other.to
         /\ other.to = cursor'[1]
         /\ \A j \in 1 .. Len(taken) : taken[j].source = 1 => taken[j].to < other.from
  BY <1>3, <1>4, <1>6, <1>7
<1>14. \A other, third \in Held' : other.source = 1 /\ third.source = 1 => third = other
  BY <1>4
<1> QED BY <1>1, <1>3, <1>8, <1>9, <1>10, <1>11, <1>12, <1>13, <1>14, OnceMoves

(* A step that reads nothing and indexes nothing.                          *)
LEMMA FlowIdle ==
  ASSUME Flow, Shape',
         UNCHANGED <<text, cursor, pending, heap, taken>>
  PROVE  Flow'
<1>1. Held' = Held /\ Sources' = Sources
  BY DEF Held, Sources
<1>2. \A rec : Proper(rec)' <=> Proper(rec)
  BY <1>1 DEF Proper
<1>3. \A s, k : Read(s, k)' <=> Read(s, k)
  BY <1>1 DEF Read
<1> QED BY <1>1, <1>2, <1>3 DEF Flow, Once

-----------------------------------------------------------------------------
(* One file: its next line is a record.                                    *)
LEMMA FlowFile == ASSUME Flow, FileNext PROVE Flow'
<1>1. /\ load = "file" /\ phase = "load" /\ ~AtEnd(1)
      /\ cursor' = [cursor EXCEPT ![1] = @ + 1] /\ taken' = Append(taken, Next1(1))
      /\ UNCHANGED <<load, format, text, pending, heap, phase>>
  BY DEF FileNext, Advance, IndexRef, source
<1>2. Shape /\ Sources' = Sources /\ 1 \in Sources /\ pending = {} /\ heap = {}
  BY <1>1 DEF Flow, Shape, Sources
<1>3. Held = {} /\ Held' = {} /\ heap' = {}
  BY <1>1, <1>2 DEF Held
<1>4. Once' /\ taken' \in Seq(Rec)
  BY <1>1, <1>2, <1>3, OnceDirect
<1>5. /\ cursor[1] \in Nat /\ Len(text[1]) \in Nat /\ cursor[1] + 1 <= Len(text[1])
  BY <1>1, <1>2, Known DEF AtEnd
<1>6. cursor' \in [Sources -> Nat] /\ \A s \in Sources : cursor'[s] <= Len(text[s])
  BY <1>1, <1>2, <1>5 DEF Shape
<1>7. Shape'
  BY <1>1, <1>2, <1>3, <1>4, <1>6 DEF Shape
<1> QED BY <1>4, <1>7 DEF Flow

(* A live line is one more line and a record at once.                      *)
LEMMA FlowLive == ASSUME Flow, Live PROVE Flow'
<1>1. PICK line \in Lines : text' = [text EXCEPT ![1] = Append(@, line)]
  BY DEF Live
<1>2. /\ load # "merged" /\ phase = "ready"
      /\ cursor' = [cursor EXCEPT ![1] = @ + 1] /\ taken' = Append(taken, Next1(1))
      /\ UNCHANGED <<load, format, pending, heap, phase>>
  BY DEF Live, Advance, IndexOwned
<1>3. /\ Shape /\ Sources = {1} /\ 1 \in Sources /\ pending = {} /\ heap = {}
      /\ AtEnd(1) /\ text \in [Sources -> Seq(Lines)]
  BY <1>2 DEF Flow, Shape
<1>4. Sources' = Sources
  BY <1>1, <1>3 DEF Sources
<1>5. Held = {} /\ Held' = {} /\ heap' = {}
  BY <1>2, <1>3 DEF Held
<1>6. Once' /\ taken' \in Seq(Rec)
  BY <1>2, <1>3, <1>4, <1>5, OnceDirect
<1>7. /\ cursor[1] \in Nat /\ cursor[1] = Len(text[1]) /\ text[1] \in Seq(Lines)
  BY <1>3, Known DEF AtEnd
<1>8. text'[1] \in Seq(Lines) /\ Len(text'[1]) = Len(text[1]) + 1
  BY <1>1, <1>3, <1>7, AppendProperties
<1>9. text' \in [Sources -> Seq(Lines)]
  BY <1>1, <1>3, <1>8
<1>10. cursor' \in [Sources -> Nat] /\ cursor'[1] = Len(text'[1])
  BY <1>2, <1>3, <1>7, <1>8 DEF Shape
<1>11. \A s \in Sources : cursor'[s] <= Len(text'[s])
  BY <1>3, <1>7, <1>8, <1>10
<1>12. AtEnd(1)'
  BY <1>10 DEF AtEnd
<1>13. Shape'
  BY <1>2, <1>3, <1>4, <1>5, <1>6, <1>9, <1>10, <1>11, <1>12 DEF Shape
<1> QED BY <1>6, <1>13 DEF Flow

(* The record held back is continued, or another takes its place.          *)
LEMMA FlowStream == ASSUME Flow, StreamNext PROVE Flow'
<1>1. /\ load = "stream" /\ phase = "load" /\ ~AtEnd(1)
      /\ cursor' = [cursor EXCEPT ![1] = @ + 1]
      /\ UNCHANGED <<load, format, text, heap, phase>>
  BY DEF StreamNext, Advance, source
<1>2. Shape /\ Once /\ Sources' = Sources /\ Sources = {1} /\ heap = {} /\ heap' = {}
      /\ Held = pending /\ Held' = pending'
  BY <1>1 DEF Flow, Shape, Sources, Held
<1>3. /\ cursor[1] \in Nat /\ Len(text[1]) \in Nat /\ cursor[1] + 1 <= Len(text[1])
      /\ cursor[1] + 1 # cursor[1] /\ taken \in Seq(Rec)
  BY <1>1, <1>2, Known DEF AtEnd
<1>4. cursor' \in [Sources -> Nat] /\ \A s \in Sources : cursor'[s] <= Len(text[s])
  BY <1>1, <1>2, <1>3 DEF Shape
<1>5. Next1(1) \in Rec /\ Next1(1).source = 1 /\ Next1(1).from = cursor[1] + 1
      /\ Next1(1).to = cursor[1] + 1
  BY <1>3 DEF Next1, Rec
<1>6. \A rec \in pending : rec \in Rec /\ rec.source = 1
  BY <1>2 DEF Once, Proper
<1>7. Once' /\ taken' \in Seq(Rec)
  <2>1. CASE pending = {} /\ pending' = {Next1(1)} /\ UNCHANGED index
    <3>1. taken' = taken
      BY <2>1 DEF index
    <3> QED BY <1>1, <1>2, <1>3, <1>5, <2>1, <3>1, OnceGrows
  <2>2. ASSUME NEW rec \in pending, pending' = {[rec EXCEPT !.to = cursor[1] + 1]},
               UNCHANGED index
        PROVE  Once' /\ taken' \in Seq(Rec)
    <3> DEFINE longer == [rec EXCEPT !.to = cursor[1] + 1]
    <3>1. taken' = taken
      BY <2>2 DEF index
    <3>2. /\ longer \in Rec /\ longer.source = 1 /\ longer.to = cursor[1] + 1
          /\ longer.from = rec.from
      <4>1. rec \in Rec /\ rec.source = 1 /\ cursor[1] + 1 \in Nat
        BY <1>3, <1>6, <2>2
      <4>2. PICK m \in Nat : m = cursor[1] + 1
        BY <4>1
      <4>3. longer = [source |-> rec.source, from |-> rec.from, to |-> m]
        BY <4>1, <4>2 DEF Rec
      <4> HIDE DEF longer
      <4> QED BY <4>1, <4>2, <4>3 DEF Rec
    <3>3. pending' = {longer}
      BY <2>2
    <3> HIDE DEF longer
    <3> QED BY <1>1, <1>2, <1>3, <1>6, <3>1, <3>2, <3>3, OnceGrows
  <2>3. ASSUME NEW rec \in pending, pending' = {Next1(1)}, IndexOwned(rec, First(rec))
        PROVE  Once' /\ taken' \in Seq(Rec)
    <3>1. taken' = Append(taken, rec) /\ rec \in Held /\ rec.source = 1
      BY <1>2, <1>6, <2>3 DEF IndexOwned
    <3>2. Held = {rec}
      BY <1>2, <1>6, <2>3 DEF Once
    <3>3. Held' = (Held \ {rec}) \cup {Next1(rec.source)}
      BY <1>2, <2>3, <3>1, <3>2
    <3>4. cursor' = [cursor EXCEPT ![rec.source] = cursor[1] + 1]
      BY <1>1, <3>1
    <3> QED BY <1>2, <1>3, <3>1, <3>3, <3>4, OnceHeld
  <2> QED BY <2>1, <2>2, <2>3 DEF StreamNext
<1>8. Shape'
  BY <1>1, <1>2, <1>4, <1>7 DEF Shape
<1> QED BY <1>7, <1>8 DEF Flow

(* The record held back is indexed at the end.                             *)
LEMMA FlowStreamEnds == ASSUME Flow, StreamEnds PROVE Flow'
<1>1. /\ load = "stream" /\ phase = "load" /\ phase' = "loaded" /\ AtEnd(1)
      /\ pending' = {} /\ UNCHANGED <<load, format, text, cursor, heap>>
  BY DEF StreamEnds, source
<1>2. Shape /\ Once /\ Sources' = Sources /\ Sources = {1} /\ heap = {} /\ heap' = {}
      /\ Held = pending /\ Held' = {} /\ AtEnd(1)' /\ cursor \in [Sources -> Nat]
  BY <1>1 DEF Flow, Shape, Sources, Held, AtEnd
<1>3. Once' /\ taken' \in Seq(Rec)
  <2>1. CASE pending = {} /\ UNCHANGED index
    <3>1. taken' = taken
      BY <2>1 DEF index
    <3>2. \A rec : Proper(rec)' <=> Proper(rec)
      BY <1>1, <1>2 DEF Proper
    <3>3. \A s, k : Read(s, k)' <=> Read(s, k)
      BY <1>1, <1>2, <2>1, <3>1 DEF Read
    <3> QED BY <1>1, <1>2, <2>1, <3>1, <3>2, <3>3 DEF Once, Shape
  <2>2. ASSUME NEW rec \in pending, IndexOwned(rec, First(rec))
        PROVE  Once' /\ taken' \in Seq(Rec)
    <3>1. taken' = Append(taken, rec) /\ rec \in Held /\ rec.source = 1
      BY <1>2, <2>2 DEF IndexOwned, Once, Proper
    <3>2. Held' = Held \ {rec}
      BY <1>2, <3>1 DEF Once, Proper
    <3>3. cursor' = [cursor EXCEPT ![rec.source] = cursor[rec.source]]
      BY <1>1, <1>2, <3>1
    <3> QED BY <1>2, <3>1, <3>2, <3>3, OnceHeld
  <2> QED BY <2>1, <2>2 DEF StreamEnds
<1>4. Shape'
  BY <1>1, <1>2, <1>3 DEF Shape
<1> QED BY <1>3, <1>4 DEF Flow

(* Priming a merge holds the first line of every file that has one.        *)
LEMMA FlowPrime == ASSUME Flow, Prime PROVE Flow'
<1>1. /\ phase = "unprimed" /\ phase' = "load"
      /\ heap' = {Next1(s) : s \in {q \in Sources : ~AtEnd(q)}}
      /\ cursor' = [s \in Sources |-> IF AtEnd(s) THEN 0 ELSE 1]
      /\ UNCHANGED <<load, format, text, pending, taken>>
  BY DEF Prime, source, index
<1>2. /\ Shape /\ load = "merged" /\ taken = <<>> /\ pending = {}
      /\ \A s \in Sources : cursor[s] = 0
  BY <1>1 DEF Flow, Shape
<1>3. /\ Sources' = Sources /\ Held' = heap' /\ Len(taken') = 0 /\ taken' \in Seq(Rec)
      /\ \A i \in 1 .. Len(taken') : FALSE
  BY <1>1, <1>2, EmptySeq DEF Sources, Held
<1>4. ASSUME NEW s \in Sources
      PROVE  /\ s \in Nat /\ Len(text[s]) \in Nat
             /\ AtEnd(s) => Len(text[s]) = 0 /\ cursor'[s] = 0
             /\ ~AtEnd(s) => Len(text[s]) > 0 /\ cursor'[s] = 1
             /\ Next1(s) = [source |-> s, from |-> 1, to |-> 1]
  <2>1. s \in Nat /\ Len(text[s]) \in Nat /\ cursor[s] = 0
    BY <1>2, LenProperties DEF Shape
  <2> QED BY <1>1, <2>1 DEF AtEnd, Next1
<1>5. ASSUME NEW rec \in heap'
      PROVE  /\ rec \in Rec /\ rec.source \in Sources /\ ~AtEnd(rec.source)
             /\ rec.from = 1 /\ rec.to = 1 /\ cursor'[rec.source] = 1
             /\ rec = Next1(rec.source)
  <2>1. PICK s \in Sources : ~AtEnd(s) /\ rec = Next1(s)
    BY <1>1
  <2>2. rec = [source |-> s, from |-> 1, to |-> 1] /\ s \in Nat
    BY <1>4, <2>1
  <2>3. rec.source = s
    BY <2>2
  <2> QED BY <1>4, <2>1, <2>2, <2>3 DEF Rec
<1>6. \A rec, other \in heap' : other.source = rec.source => other = rec
  BY <1>5
<1>7. ASSUME NEW s \in Sources, NEW k \in 1 .. cursor'[s] PROVE Read(s, k)'
  <2>1. ~AtEnd(s) /\ k = 1
    BY <1>4
  <2>2. Next1(s) \in heap'
    BY <1>1, <2>1
  <2>3. Covers(Next1(s), s, k)
    BY <1>4, <2>1 DEF Covers
  <2>4. \E rec \in Held' : Covers(rec, s, k)
    BY <1>3, <2>2, <2>3
  <2> QED BY <2>4 DEF Read, Covers
<1>8. \A rec \in Held' : Proper(rec)' /\ rec.to = cursor'[rec.source]
  BY <1>3, <1>5 DEF Proper
<1>9. Once'
  BY <1>3, <1>5, <1>6, <1>7, <1>8 DEF Once
<1>10. cursor' \in [Sources -> Nat] /\ \A s \in Sources : cursor'[s] <= Len(text[s])
  BY <1>1, <1>4
<1>11. ASSUME NEW s \in Sources PROVE AtEnd(s)' \/ \E slot \in heap' : slot.source = s
  <2>1. CASE AtEnd(s)
    BY <1>1, <1>4, <2>1 DEF AtEnd
  <2>2. CASE ~AtEnd(s)
    <3>1. Next1(s) \in heap' /\ Next1(s).source = s
      BY <1>1, <1>4, <2>2
    <3> QED BY <3>1
  <2> QED BY <2>1, <2>2
<1>12. Shape'
  BY <1>1, <1>2, <1>3, <1>10, <1>11 DEF Shape
<1> QED BY <1>9, <1>12 DEF Flow

(* The least slot is indexed, and its file's next line held back.          *)
LEMMA FlowMerge == ASSUME Flow, MergeNext PROVE Flow'
<1>1. /\ load = "merged" /\ phase = "load"
      /\ UNCHANGED <<load, format, text, pending, phase>>
  BY DEF MergeNext, source
<1>2. Shape /\ Once /\ Sources' = Sources /\ pending = {} /\ Held = heap /\ Held' = heap'
  BY <1>1 DEF Flow, Shape, Sources, Held
<1>3. PICK least \in heap :
        /\ taken' = Append(taken, least)
        /\ \/ /\ AtEnd(least.source) /\ heap' = heap \ {least} /\ cursor' = cursor
           \/ /\ ~AtEnd(least.source) /\ heap' = (heap \ {least}) \cup {Next1(least.source)}
              /\ cursor' = [cursor EXCEPT ![least.source] = @ + 1]
  BY DEF MergeNext, IndexRef, Advance
<1> DEFINE s == least.source
<1>4. Proper(least) /\ s \in Sources /\ least.to = cursor[s] /\ least.from = least.to
  BY <1>2 DEF Once, Proper
<1> HIDE DEF s
<1>5. /\ s \in Nat /\ cursor[s] \in Nat /\ Len(text[s]) \in Nat /\ cursor[s] <= Len(text[s])
      /\ cursor[s] + 1 # cursor[s] /\ cursor \in [Sources -> Nat]
  BY <1>2, <1>4, Known DEF Shape
<1>6. Next1(s).from = Next1(s).to /\ Next1(s).source = s
  BY DEF Next1
<1>7. \A other \in heap' : other.from = other.to
  BY <1>2, <1>3, <1>6 DEF Once, s
<1>8. Once' /\ taken' \in Seq(Rec)
  <2>1. CASE AtEnd(s)
    <3>1. cursor' = [cursor EXCEPT ![least.source] = cursor[least.source]]
      BY <1>3, <1>5, <2>1 DEF s
    <3> QED BY <1>2, <1>3, <1>7, <2>1, <3>1, OnceHeld DEF s
  <2>2. CASE ~AtEnd(s)
    <3>1. cursor' = [cursor EXCEPT ![least.source] = cursor[least.source] + 1]
      BY <1>3, <1>5, <2>2 DEF s
    <3> QED BY <1>2, <1>3, <1>5, <1>7, <2>2, <3>1, OnceHeld DEF s
  <2> QED BY <2>1, <2>2
<1>9. /\ cursor' \in [Sources -> Nat] /\ \A q \in Sources : q # s => cursor'[q] = cursor[q]
      /\ cursor'[s] \in Nat /\ cursor'[s] <= Len(text[s])
      /\ AtEnd(s) => cursor'[s] = cursor[s]
  <2>1. CASE AtEnd(s) /\ cursor' = cursor
    BY <1>5, <2>1
  <2>2. CASE ~AtEnd(s) /\ cursor' = [cursor EXCEPT ![s] = @ + 1]
    <3>1. cursor[s] + 1 \in Nat /\ cursor[s] + 1 <= Len(text[s])
      BY <1>5, <2>2 DEF AtEnd
    <3> QED BY <1>4, <1>5, <2>2, <3>1
  <2> QED BY <1>3, <2>1, <2>2 DEF s
<1>10. ASSUME NEW q \in Sources PROVE AtEnd(q)' \/ \E slot \in heap' : slot.source = q
  <2>1. CASE q = s
    <3>1. CASE AtEnd(s)
      BY <1>1, <1>9, <2>1, <3>1 DEF AtEnd
    <3>2. CASE ~AtEnd(s)
      <4>1. Next1(s) \in heap'
        BY <1>3, <3>2 DEF s
      <4> QED BY <1>6, <2>1, <4>1
    <3> QED BY <3>1, <3>2
  <2>2. CASE q # s
    <3>1. CASE AtEnd(q)
      BY <1>1, <1>9, <2>2, <3>1 DEF AtEnd
    <3>2. CASE \E slot \in heap : slot.source = q
      <4>1. PICK slot \in heap : slot.source = q
        BY <3>2
      <4>2. slot \in heap'
        BY <1>3, <2>2, <4>1 DEF s
      <4> QED BY <4>1, <4>2
    <3> QED BY <1>1, <1>2, <3>1, <3>2 DEF Shape
  <2> QED BY <2>1, <2>2
<1>11. \A q \in Sources : cursor'[q] <= Len(text[q])
  BY <1>2, <1>9 DEF Shape
<1>12. Shape'
  BY <1>1, <1>2, <1>8, <1>9, <1>10, <1>11 DEF Shape
<1> QED BY <1>8, <1>12 DEF Flow

(* Every step keeps what was read in records, once.                        *)
LEMMA FlowStep == Flow /\ [Next]_vars => Flow'
<1> SUFFICES ASSUME Flow, [Next]_vars PROVE Flow'
  OBVIOUS
<1>0. Shape
  BY DEF Flow
<1>1. CASE FileNext BY <1>1, FlowFile
<1>2. CASE FileEnds
  <2>1. /\ load = "file" /\ AtEnd(1) /\ phase' = "loaded"
        /\ UNCHANGED <<load, format, text, cursor, pending, heap, taken>>
    BY <1>2 DEF FileEnds, source, index
  <2>2. /\ phase = "load" /\ Sources' = Sources /\ AtEnd(1)' /\ pending' = {} /\ heap' = {}
    BY <1>0, <1>2, <2>1 DEF FileEnds, Sources, AtEnd, Shape
  <2>3. Shape'
    BY <1>0, <2>1, <2>2 DEF Shape
  <2> QED BY <2>1, <2>3, FlowIdle
<1>3. CASE StreamNext BY <1>3, FlowStream
<1>4. CASE StreamEnds BY <1>4, FlowStreamEnds
<1>5. CASE Prime BY <1>5, FlowPrime
<1>6. CASE MergeNext BY <1>6, FlowMerge
<1>7. CASE MergeEnds
  <2>1. /\ load = "merged" /\ heap = {} /\ phase = "load" /\ phase' = "loaded"
        /\ UNCHANGED <<load, format, text, cursor, pending, heap, taken>>
    BY <1>7 DEF MergeEnds, source, index
  <2>2. Sources' = Sources /\ pending' = {} /\ heap' = {} /\ \A s : AtEnd(s)' <=> AtEnd(s)
    BY <1>0, <2>1 DEF Sources, AtEnd, Shape
  <2>3. Shape'
    BY <1>0, <2>1, <2>2 DEF Shape
  <2> QED BY <2>1, <2>3, FlowIdle
<1>8. CASE SecondPass
  <2>1. /\ phase = "loaded" /\ phase' = "ready"
        /\ UNCHANGED <<load, format, text, cursor, pending, heap, taken>>
    BY <1>8 DEF SecondPass, source
  <2>2. Sources' = Sources /\ pending' = {} /\ heap' = {} /\ \A s : AtEnd(s)' <=> AtEnd(s)
    BY <1>0, <2>1 DEF Sources, AtEnd, Shape
  <2>3. Shape'
    BY <1>0, <2>1, <2>2 DEF Shape
  <2> QED BY <2>1, <2>3, FlowIdle
<1>9. CASE Live BY <1>9, FlowLive
<1>10. CASE Rest \/ UNCHANGED vars
  <2>1. UNCHANGED <<load, format, text, cursor, pending, heap, taken, phase>>
    BY <1>10 DEF Rest, vars, source, index
  <2>2. Sources' = Sources /\ \A s : AtEnd(s)' <=> AtEnd(s)
    BY <2>1 DEF Sources, AtEnd
  <2>3. Shape'
    BY <1>0, <2>1, <2>2 DEF Shape
  <2> QED BY <2>1, <2>3, FlowIdle
<1> QED
  BY <1>1, <1>2, <1>3, <1>4, <1>5, <1>6, <1>7, <1>8, <1>9, <1>10 DEF Next

-----------------------------------------------------------------------------
Loc == [source : Nat, offset : Nat, len : Nat]

(* Where a record is found that was not copied. *)
Points(i) ==
  locs[i].offset = taken[i].from /\ locs[i].len = taken[i].to - taken[i].from + 1

TimeOf(i) ==
  IF phase = "ready" /\ i <= Loaded /\ ~IsHeader(i)
  THEN First(taken[i]).ts ELSE Parsed(First(taken[i]))

(* RecordsTrue is inductive only with what a reader does not see: the      *)
(* owned records are the last ones, from the base on and without a gap,    *)
(* and a file has none before its live records come.                       *)
Arrays ==
  /\ locs \in Seq(Loc) /\ owned \in Seq(Rec)
  /\ Len(locs) = Len(taken) /\ ts \in [1 .. Len(taken) -> Int]
  /\ \A i \in 1 .. Len(taken) : locs[i].source = taken[i].source
  /\ base = None => owned = <<>> /\ \A i \in 1 .. Len(taken) : Points(i)
  /\ base # None =>
       /\ base \in Nat /\ Len(owned) = Len(taken) - base
       /\ \A i \in 1 .. Len(taken) : i <= base => Points(i)
       /\ \A i \in 1 .. Len(taken) : i > base => owned[i - base] = taken[i]
  /\ (load = "merged" \/ (load = "file" /\ phase # "ready")) => base = None
  /\ \A i \in 1 .. Len(taken) : ts[i] = TimeOf(i)

(* The arrays are empty at first.                                          *)
LEMMA ArraysInit == Init => Arrays
<1> SUFFICES ASSUME Init PROVE Arrays
  OBVIOUS
<1>1. locs = <<>> /\ ts = <<>> /\ owned = <<>> /\ taken = <<>> /\ base = None
  BY DEF Init
<1>2. Len(taken) = 0 /\ Len(locs) = 0 /\ 1 .. Len(taken) = {} /\ ts \in [1 .. Len(taken) -> Int]
  BY <1>1
<1>3. locs \in Seq(Loc) /\ owned \in Seq(Rec)
  BY <1>1, EmptySeq
<1> QED BY <1>1, <1>2, <1>3 DEF Arrays

(* What is written in a line is a time, or none.                           *)
LEMMA LineTime ==
  ASSUME NEW line \in Lines
  PROVE  line.ts \in Int /\ Untimed <= line.ts /\ Parsed(line) \in Int
<1>1. line.ts \in Nat \cup {Untimed} /\ Untimed = -1
  BY PipelineAssumption DEF Untimed
<1> QED BY <1>1 DEF Parsed

(* A record's first line is a line of its source.                          *)
LEMMA FirstIsLine ==
  ASSUME Flow, NEW rec, Proper(rec)
  PROVE  First(rec) \in Lines /\ rec.from \in 1 .. Len(text[rec.source])
<1>1. /\ rec.source \in Sources /\ rec.from \in Nat /\ rec.to \in Nat
      /\ 1 <= rec.from /\ rec.from <= rec.to /\ rec.to <= cursor[rec.source]
  BY DEF Proper, Rec
<1>2. /\ cursor[rec.source] <= Len(text[rec.source]) /\ Len(text[rec.source]) \in Nat
      /\ cursor[rec.source] \in Nat /\ text[rec.source] \in Seq(Lines)
  BY <1>1, Known
<1>3. rec.from \in 1 .. Len(text[rec.source])
  BY <1>1, <1>2
<1>4. First(rec) \in Lines
  BY <1>2, <1>3, ElementOfSeq DEF First
<1> QED BY <1>3, <1>4

(* Engine::line_bytes leads to the record.                                 *)
LEMMA LineBytesTrue ==
  ASSUME Flow, Arrays, NEW i \in 1 .. Len(taken)
  PROVE  LineBytes(i - 1) = taken[i]
<1>1. /\ taken[i] \in Rec /\ Len(taken) \in Nat /\ i - 1 + 1 = i
      /\ taken[i].from \in Nat /\ taken[i].to \in Nat
  <2>1. taken \in Seq(Rec)
    BY DEF Flow, Shape
  <2>2. taken[i] \in Rec /\ Len(taken) \in Nat
    BY <2>1, ElementOfSeq, LenProperties
  <2> QED BY <2>2 DEF Rec
<1>2. taken[i] = [source |-> taken[i].source, from |-> taken[i].from, to |-> taken[i].to]
  BY <1>1 DEF Rec
<1>3. ASSUME Points(i)
      PROVE  [source |-> locs[i].source, from |-> locs[i].offset,
              to |-> locs[i].offset + locs[i].len - 1] = taken[i]
  <2>1. /\ locs[i].source = taken[i].source /\ locs[i].offset = taken[i].from
        /\ locs[i].offset + locs[i].len - 1 = taken[i].to
    BY <1>1, <1>3 DEF Points, Arrays
  <2> QED BY <1>2, <2>1
<1>4. CASE base = None
  BY <1>1, <1>3, <1>4 DEF Arrays, LineBytes
<1>5. CASE base # None
  <2>1. base \in Nat /\ Len(owned) = Len(taken) - base
    BY <1>5 DEF Arrays
  <2>2. CASE i <= base
    <3>1. ~(i - 1 >= base) /\ Points(i)
      BY <1>5, <2>1, <2>2 DEF Arrays
    <3> QED BY <1>1, <1>3, <3>1 DEF LineBytes
  <2>3. CASE i > base
    <3>1. i - 1 >= base /\ i - 1 - base < Len(owned) /\ i - 1 - base + 1 = i - base
      BY <1>1, <2>1, <2>3
    <3>2. owned[i - base] = taken[i]
      BY <1>5, <2>3 DEF Arrays
    <3> QED BY <1>5, <3>1, <3>2 DEF LineBytes
  <2> QED BY <2>1, <2>2, <2>3
<1> QED BY <1>4, <1>5

(* The two ways a record is indexed, with the first of its lines. *)
Pointed(rec, line) == IndexRef(rec) /\ line = First(rec) /\ base = None /\ phase # "ready"

Copied(rec, line) ==
  /\ IndexOwned(rec, line)
  /\ (load = "file" /\ phase = "ready") \/ (load = "stream" /\ (phase = "ready" => format = "single"))

(* One more record: its number leads to it, and no other number moves.     *)
LEMMA ArraysMore ==
  ASSUME Flow, Arrays, NEW rec \in Rec, rec.from <= rec.to, NEW line \in Lines,
         Pointed(rec, line) \/ Copied(rec, line),
         text'[rec.source][rec.from] = line,
         \A r : Proper(r) => text'[r.source][r.from] = text[r.source][r.from],
         UNCHANGED <<load, format>>, phase' = "ready" <=> phase = "ready"
  PROVE  Arrays'
<1>0. PICK n \in Nat : n = Len(taken)
  BY LenProperties DEF Flow, Shape
<1>1. taken \in Seq(Rec) /\ locs \in Seq(Loc) /\ owned \in Seq(Rec) /\ n \in Nat /\ Len(locs) = n
      /\ \A i \in 1 .. n : Proper(taken[i])
  BY <1>0, LenProperties DEF Flow, Shape, Once, Arrays
<1>2. /\ rec.source \in Nat /\ rec.from \in Nat /\ rec.to \in Nat
      /\ rec.to - rec.from + 1 \in Nat
  BY DEF Rec
<1>3. /\ taken' = Append(taken, rec) /\ ts' = Append(ts, Parsed(line))
  BY DEF Pointed, Copied, IndexRef, IndexOwned
<1>4. /\ taken' \in Seq(Rec) /\ Len(taken') = n + 1 /\ n + 1 \in 1 .. Len(taken')
      /\ \A i \in 1 .. n : taken'[i] = taken[i]
      /\ taken'[n + 1] = rec
      /\ \A i \in 1 .. Len(taken') : i \in 1 .. n \/ i = n + 1
  BY <1>0, <1>1, <1>3, OneMore
<1>5. /\ locs' \in Seq(Loc) /\ Len(locs') = n + 1
      /\ \A i \in 1 .. n : locs'[i] = locs[i]
      /\ locs'[n + 1].source = rec.source
      /\ Pointed(rec, line) => locs'[n + 1].offset = rec.from /\ locs'[n + 1].len = rec.to - rec.from + 1
  <2>1. CASE Pointed(rec, line)
    <3> DEFINE new == [source |-> rec.source, offset |-> rec.from, len |-> rec.to - rec.from + 1]
    <3>1. locs' = Append(locs, new)
      BY <2>1 DEF Pointed, IndexRef
    <3>2. /\ new \in Loc /\ new.source = rec.source /\ new.offset = rec.from
          /\ new.len = rec.to - rec.from + 1
      BY <1>2 DEF Loc
    <3> HIDE DEF new
    <3> QED BY <1>1, <3>1, <3>2, AppendProperties
  <2>2. CASE Copied(rec, line)
    <3> DEFINE new == [source |-> rec.source, offset |-> 0, len |-> rec.to - rec.from + 1]
    <3>1. locs' = Append(locs, new)
      BY <2>2 DEF Copied, IndexOwned
    <3>2. new \in Loc /\ new.source = rec.source
      BY <1>2 DEF Loc
    <3> HIDE DEF new
    <3>3. ~Pointed(rec, line)
      <4>1. Pointed(rec, line) => owned' = owned /\ owned' = Append(owned, rec)
        BY <2>2 DEF Pointed, Copied, IndexRef, IndexOwned
      <4>2. Len(Append(owned, rec)) = Len(owned) + 1 /\ Len(owned) \in Nat
        BY <1>1, AppendProperties, LenProperties
      <4> QED BY <4>1, <4>2
    <3> QED BY <1>1, <3>1, <3>2, <3>3, AppendProperties
  <2> QED BY <2>1, <2>2
<1>6. /\ ts' \in [1 .. n + 1 -> Int] /\ ts'[n + 1] = Parsed(line)
      /\ \A i \in 1 .. n : ts'[i] = ts[i]
  <2>1. ts \in [1 .. n -> Int]
    BY <1>0 DEF Arrays
  <2>2. ts \in Seq(Int) /\ Len(ts) = n
    BY <1>1, <2>1
  <2>3. Parsed(line) \in Int
    BY LineTime
  <2>4. /\ ts' \in Seq(Int) /\ Len(ts') = n + 1 /\ ts'[n + 1] = Parsed(line)
        /\ \A i \in 1 .. n : ts'[i] = ts[i]
    <3> DEFINE t == Parsed(line)
    <3>1. t \in Int /\ ts' = Append(ts, t)
      BY <1>3, <2>3
    <3> HIDE DEF t
    <3>2. /\ Append(ts, t) \in Seq(Int) /\ Len(Append(ts, t)) = n + 1 /\ Append(ts, t)[n + 1] = t
          /\ \A i \in 1 .. n : Append(ts, t)[i] = ts[i]
      BY <1>0, <2>2, <3>1, AppendProperties
    <3>3. t = Parsed(line)
      BY DEF t
    <3> QED BY <3>1, <3>2, <3>3
  <2>5. ts' \in [1 .. Len(ts') -> Int]
    BY <2>4, LenProperties
  <2> QED BY <2>4, <2>5
<1>7. \A i \in 1 .. n : Points(i)' <=> Points(i)
  BY <1>4, <1>5 DEF Points
<1>8. owned' \in Seq(Rec)
      /\ (base' = None => owned' = <<>> /\ \A i \in 1 .. n + 1 : Points(i)')
      /\ (base' # None =>
           /\ base' \in Nat /\ base' <= n /\ Len(owned') = n + 1 - base'
           /\ \A i \in 1 .. n + 1 : i <= base' => Points(i)'
           /\ \A i \in 1 .. n + 1 : i > base' => owned'[i - base'] = taken'[i])
      /\ ((load = "merged" \/ (load = "file" /\ phase # "ready")) => base' = None)
  <2>1. CASE Pointed(rec, line)
    <3>1. owned' = owned /\ base' = None /\ base = None
      BY <2>1 DEF Pointed, IndexRef
    <3>2. owned = <<>> /\ \A i \in 1 .. n : Points(i)
      BY <1>0, <3>1 DEF Arrays
    <3>3. Points(n + 1)'
      BY <1>4, <1>5, <2>1 DEF Points
    <3>4. \A i \in 1 .. n + 1 : Points(i)'
      <4> SUFFICES ASSUME NEW i \in 1 .. n + 1 PROVE Points(i)'
        OBVIOUS
      <4>1. i \in 1 .. n \/ i = n + 1
        BY <1>4
      <4> QED BY <1>7, <3>2, <3>3, <4>1
    <3> QED BY <1>1, <3>1, <3>2, <3>4
  <2>2. CASE Copied(rec, line)
    <3>1. /\ owned' = Append(owned, rec) /\ base' = IF base = None THEN n ELSE base
          /\ load # "merged" /\ ~(load = "file" /\ phase # "ready")
      BY <1>1, <2>2 DEF Copied, IndexOwned
    <3>2. /\ owned' \in Seq(Rec) /\ Len(owned) \in Nat /\ Len(owned') = Len(owned) + 1
          /\ \A i \in 1 .. Len(owned) : owned'[i] = owned[i]
          /\ owned'[Len(owned) + 1] = rec
      BY <1>1, <3>1, AppendProperties, LenProperties
    <3>3. /\ base' \in Nat /\ base' <= n /\ Len(owned) = n - base' /\ base' # None
          /\ \A i \in 1 .. n : i <= base' => Points(i)
          /\ \A i \in 1 .. n : i > base' => owned[i - base'] = taken[i]
      <4>1. CASE base = None
        <5>1. base' = n /\ owned = <<>> /\ Len(owned) = 0 /\ \A i \in 1 .. n : Points(i)
          BY <1>0, <3>1, <4>1, EmptySeq DEF Arrays
        <5> QED BY <1>1, <5>1 DEF None
      <4>2. CASE base # None
        <5>1. /\ base' = base /\ base \in Nat /\ Len(owned) = n - base
              /\ \A i \in 1 .. n : i <= base => Points(i)
              /\ \A i \in 1 .. n : i > base => owned[i - base] = taken[i]
          BY <1>0, <3>1, <4>2 DEF Arrays
        <5>2. base <= n
          BY <1>1, <3>2, <5>1
        <5> QED BY <4>2, <5>1, <5>2
      <4> QED BY <4>1, <4>2
    <3>4. ASSUME NEW i \in 1 .. n + 1, i > base' PROVE owned'[i - base'] = taken'[i]
      <4>1. CASE i = n + 1
        <5>1. i - base' = Len(owned) + 1
          BY <1>1, <3>3, <4>1
        <5> QED BY <1>4, <3>2, <4>1, <5>1
      <4>2. CASE i # n + 1
        <5>1. i \in 1 .. n /\ i - base' \in 1 .. Len(owned)
          BY <1>1, <3>3, <3>4, <4>2
        <5> QED BY <1>4, <3>2, <3>3, <3>4, <5>1
      <4> QED BY <4>1, <4>2
    <3>5. ASSUME NEW i \in 1 .. n + 1, i <= base' PROVE Points(i)'
      <4>1. i \in 1 .. n
        BY <1>1, <3>3, <3>5
      <4> QED BY <1>7, <3>3, <3>5, <4>1
    <3>6. Len(owned') = n + 1 - base'
      BY <1>1, <3>2, <3>3
    <3> QED BY <3>1, <3>2, <3>3, <3>4, <3>5, <3>6
  <2> QED BY <2>1, <2>2
<1>9. \A i \in 1 .. n + 1 : locs'[i].source = taken'[i].source
  <2> SUFFICES ASSUME NEW i \in 1 .. n + 1 PROVE locs'[i].source = taken'[i].source
    OBVIOUS
  <2>1. CASE i \in 1 .. n
    <3>1. locs[i].source = taken[i].source
      BY <1>0, <2>1 DEF Arrays
    <3> QED BY <1>4, <1>5, <2>1, <3>1
  <2>2. CASE i = n + 1
    BY <1>4, <1>5, <2>2
  <2> QED BY <1>4, <2>1, <2>2
<1>10. \A i \in 1 .. n : IsHeader(i)' <=> IsHeader(i)
  <2> SUFFICES ASSUME NEW i \in 1 .. n PROVE IsHeader(i)' <=> IsHeader(i)
    OBVIOUS
  <2>1. locs'[i] = locs[i] /\ \A j \in 1 .. i - 1 : locs'[j] = locs[j]
    BY <1>1, <1>5
  <2> QED BY <2>1 DEF IsHeader
<1>11. \A i \in 1 .. n : i <= Loaded' <=> i <= Loaded
  <2>1. CASE load = "file" /\ phase # "ready"
    <3>1. base = None /\ base' = None
      BY <1>8, <2>1 DEF Arrays
    <3> QED BY <1>0, <1>1, <1>4, <3>1 DEF Loaded
  <2>2. CASE load = "file" /\ phase = "ready"
    <3>1. base' = (IF base = None THEN n ELSE base) /\ n # None
      BY <1>1, <2>2 DEF Pointed, Copied, IndexOwned, None
    <3> QED BY <1>0, <1>1, <2>2, <3>1 DEF Loaded
  <2>3. CASE load # "file"
    BY <1>0, <1>1, <1>4, <2>3 DEF Loaded
  <2> QED BY <2>1, <2>2, <2>3
<1>12. ASSUME NEW i \in 1 .. n PROVE ts'[i] = TimeOf(i)'
  <2>1. Proper(taken[i]) /\ taken'[i] = taken[i]
    BY <1>1, <1>4
  <2>2. text'[taken[i].source][taken[i].from] = text[taken[i].source][taken[i].from]
    BY <2>1
  <2>3. First(taken[i])' = First(taken[i])
    BY <2>1, <2>2 DEF First
  <2>4. TimeOf(i)' = TimeOf(i)
    BY <1>10, <1>11, <2>3 DEF TimeOf, Parsed
  <2>5. ts[i] = TimeOf(i)
    BY <1>0 DEF Arrays
  <2> QED BY <1>6, <2>4, <2>5
<1>13. ts'[n + 1] = TimeOf(n + 1)'
  <2>1. First(taken[n + 1])' = line
    BY <1>4 DEF First
  <2>2. Parsed(line)' = Parsed(line)
    BY DEF Parsed
  <2>3. CASE phase # "ready"
    BY <1>6, <2>1, <2>2, <2>3 DEF TimeOf, Parsed
  <2>4. CASE load = "file" /\ phase = "ready"
    <3>1. base' = (IF base = None THEN n ELSE base)
      BY <1>1, <2>4 DEF Pointed, Copied, IndexOwned
    <3>2. base' # None /\ ~(n + 1 <= base')
      <4>1. base' # None /\ base' \in Nat /\ base' <= n
        BY <1>1, <1>8, <3>1 DEF None
      <4> QED BY <1>1, <4>1
    <3>3. ~(n + 1 <= Loaded')
      BY <2>4, <3>2 DEF Loaded
    <3> QED BY <1>6, <2>1, <3>3 DEF TimeOf, Parsed
  <2>5. CASE load # "file" /\ phase = "ready"
    <3>1. format = "single"
      BY <2>5 DEF Pointed, Copied
    <3> QED BY <1>6, <2>1, <3>1 DEF TimeOf, Parsed
  <2> QED BY <2>3, <2>4, <2>5
<1>14. \A i \in 1 .. n + 1 : ts'[i] = TimeOf(i)'
  <2> SUFFICES ASSUME NEW i \in 1 .. n + 1 PROVE ts'[i] = TimeOf(i)'
    OBVIOUS
  <2>1. i \in 1 .. n \/ i = n + 1
    BY <1>4
  <2> QED BY <1>12, <1>13, <2>1
<1>15. (load' = "merged" \/ (load' = "file" /\ phase' # "ready")) => base' = None
  BY <1>8
<1> QED BY <1>4, <1>5, <1>6, <1>8, <1>9, <1>14, <1>15, SMTT(20) DEF Arrays

(* A step that indexes nothing and finds no time.                          *)
LEMMA ArraysKept ==
  ASSUME Arrays, UNCHANGED <<load, format, text, locs, ts, owned, base, taken>>,
         phase' = "ready" <=> phase = "ready"
  PROVE  Arrays'
<1>1. \A i : Points(i)' <=> Points(i)
  BY DEF Points
<1>2. ASSUME NEW i PROVE TimeOf(i)' = TimeOf(i)
  <2>1. First(taken[i])' = First(taken[i]) /\ (IsHeader(i)' <=> IsHeader(i))
    BY DEF First, IsHeader
  <2>2. Parsed(First(taken[i]))' = Parsed(First(taken[i]))
    BY <2>1 DEF Parsed
  <2>3. Loaded' = Loaded
    BY DEF Loaded
  <2> QED BY <2>1, <2>2, <2>3 DEF TimeOf
<1> QED BY <1>1, <1>2 DEF Arrays

(* The next line of a source that has one.                                 *)
LEMMA NextLine ==
  ASSUME Flow, NEW s \in Sources, ~AtEnd(s)
  PROVE  /\ Next1(s) \in Rec /\ Next1(s).source = s /\ Next1(s).from = cursor[s] + 1
         /\ Next1(s).to = cursor[s] + 1 /\ First(Next1(s)) \in Lines
<1>1. s \in Nat /\ cursor[s] \in Nat /\ cursor[s] + 1 \in 1 .. Len(text[s]) /\ text[s] \in Seq(Lines)
  BY Known DEF AtEnd
<1>2. /\ Next1(s) \in Rec /\ Next1(s).source = s /\ Next1(s).from = cursor[s] + 1
      /\ Next1(s).to = cursor[s] + 1
  BY <1>1 DEF Next1, Rec
<1>3. text[s][cursor[s] + 1] \in Lines
  BY <1>1, ElementOfSeq
<1> QED BY <1>2, <1>3 DEF First

(* A record that was read before is indexed.                               *)
LEMMA ArraysHeld ==
  ASSUME Flow, Arrays, NEW rec, Proper(rec),
         Pointed(rec, First(rec)) \/ Copied(rec, First(rec)),
         UNCHANGED <<load, format, text>>, phase' = "ready" <=> phase = "ready"
  PROVE  Arrays'
<1>1. rec \in Rec /\ rec.from <= rec.to /\ First(rec) \in Lines
  BY FirstIsLine DEF Proper
<1>2. text'[rec.source][rec.from] = First(rec)
  BY DEF First
<1>3. \A r : Proper(r) => text'[r.source][r.from] = text[r.source][r.from]
  OBVIOUS
<1> QED BY <1>1, <1>2, <1>3, ArraysMore

(* One file: the record is found where it was read.                        *)
LEMMA ArraysFile == ASSUME Flow, Arrays, FileNext PROVE Arrays'
<1>1. /\ load = "file" /\ phase = "load" /\ ~AtEnd(1) /\ IndexRef(Next1(1))
      /\ UNCHANGED <<load, format, text, phase>>
  BY DEF FileNext, source
<1>2. 1 \in Sources
  BY <1>1 DEF Flow, Shape
<1> DEFINE rec == Next1(1)
<1>3. rec \in Rec /\ rec.from <= rec.to /\ First(rec) \in Lines
  <2>1. cursor[1] \in Nat
    BY <1>2, Known
  <2> QED BY <1>1, <1>2, <2>1, NextLine
<1>4. Pointed(rec, First(rec))
  BY <1>1 DEF Pointed, Arrays
<1> HIDE DEF rec
<1>5. text'[rec.source][rec.from] = First(rec)
  BY <1>1 DEF First
<1>6. \A r : Proper(r) => text'[r.source][r.from] = text[r.source][r.from]
  BY <1>1
<1> QED BY <1>1, <1>3, <1>4, <1>5, <1>6, ArraysMore

(* A stream: the record that is complete is copied,                        *)
LEMMA ArraysStream == ASSUME Flow, Arrays, StreamNext PROVE Arrays'
<1>1. load = "stream" /\ phase = "load" /\ UNCHANGED <<load, format, text, phase>>
  BY DEF StreamNext, source
<1>2. CASE UNCHANGED index
  BY <1>1, <1>2, ArraysKept DEF index
<1>3. ASSUME NEW rec \in pending, IndexOwned(rec, First(rec)) PROVE Arrays'
  <2>1. Proper(rec)
    BY DEF Flow, Once, Held
  <2>2. Copied(rec, First(rec))
    BY <1>1, <1>3 DEF Copied
  <2> QED BY <1>1, <2>1, <2>2, ArraysHeld
<1> QED BY <1>2, <1>3 DEF StreamNext

(* and the last one, too, when the stream ends.                            *)
LEMMA ArraysStreamEnds == ASSUME Flow, Arrays, StreamEnds PROVE Arrays'
<1>1. /\ load = "stream" /\ phase = "load" /\ phase' = "loaded"
      /\ UNCHANGED <<load, format, text>>
  BY DEF StreamEnds, source
<1>2. CASE UNCHANGED index
  BY <1>1, <1>2, ArraysKept DEF index
<1>3. ASSUME NEW rec \in pending, IndexOwned(rec, First(rec)) PROVE Arrays'
  <2>1. Proper(rec)
    BY DEF Flow, Once, Held
  <2>2. Copied(rec, First(rec))
    BY <1>1, <1>3 DEF Copied
  <2> QED BY <1>1, <2>1, <2>2, ArraysHeld
<1> QED BY <1>2, <1>3 DEF StreamEnds

(* The least slot is found in its file.                                    *)
LEMMA ArraysMerge == ASSUME Flow, Arrays, MergeNext PROVE Arrays'
<1>1. load = "merged" /\ phase = "load" /\ UNCHANGED <<load, format, text, phase>>
  BY DEF MergeNext, source
<1>2. PICK rec \in heap : IndexRef(rec)
  BY DEF MergeNext
<1>3. Proper(rec)
  BY DEF Flow, Once, Held
<1>4. Pointed(rec, First(rec))
  BY <1>1, <1>2 DEF Pointed, Arrays
<1> QED BY <1>1, <1>3, <1>4, ArraysHeld

(* A live line is copied, behind all that were.                            *)
LEMMA ArraysLive == ASSUME Flow, Arrays, Live PROVE Arrays'
<1>1. PICK line \in Lines :
        text' = [text EXCEPT ![1] = Append(@, line)] /\ IndexOwned(Next1(1), line)
  BY DEF Live
<1>2. /\ phase = "ready" /\ (load = "file" \/ (load = "stream" /\ format = "single"))
      /\ UNCHANGED <<load, format, phase>>
  BY DEF Live
<1>3. Sources = {1} /\ 1 \in Sources /\ AtEnd(1) /\ text \in [Sources -> Seq(Lines)]
  BY <1>2 DEF Flow, Shape
<1>4. /\ cursor[1] \in Nat /\ cursor[1] = Len(text[1]) /\ text[1] \in Seq(Lines)
  BY <1>3, Known DEF AtEnd
<1>5. text'[1] = Append(text[1], line)
  BY <1>1, <1>3
<1>6. text'[1][cursor[1] + 1] = line /\ \A k \in 1 .. cursor[1] : text'[1][k] = text[1][k]
  BY <1>4, <1>5, AppendProperties
<1> DEFINE rec == Next1(1)
<1>7. rec \in Rec /\ rec.from <= rec.to /\ text'[rec.source][rec.from] = line
  BY <1>4, <1>6 DEF Next1, Rec
<1>8. Copied(rec, line)
  BY <1>1, <1>2 DEF Copied
<1>9. ASSUME NEW r, Proper(r) PROVE text'[r.source][r.from] = text[r.source][r.from]
  <2>1. r.source = 1 /\ r.from \in 1 .. cursor[1]
    BY <1>3, <1>4, <1>9 DEF Proper, Rec
  <2> QED BY <1>6, <2>1
<1> HIDE DEF rec
<1> QED BY <1>2, <1>7, <1>8, <1>9, ArraysMore

(* The second pass finds the times it is there for, and leaves the others. *)
LEMMA ArraysSecondPass == ASSUME Flow, Arrays, SecondPass PROVE Arrays'
<1>1. /\ phase = "loaded" /\ phase' = "ready"
      /\ UNCHANGED <<load, format, text, locs, owned, base, taken>>
  BY DEF SecondPass, source
<1>2. ts' = [i \in DOMAIN ts |->
               IF i \in {j \in DOMAIN ts : format \in {"csv", "regex"} /\ ~IsHeader(j)}
               THEN First(LineBytes(i - 1)).ts ELSE ts[i]]
  BY DEF SecondPass, Rows
<1>3. DOMAIN ts = 1 .. Len(taken) /\ Len(taken) \in Nat
  BY LenProperties DEF Arrays, Flow, Shape
<1>4. \A i : Points(i)' <=> Points(i)
  BY <1>1 DEF Points
<1>5. Loaded = Len(taken) /\ Loaded' = Len(taken)
  BY <1>1 DEF Loaded, Arrays
<1>6. ASSUME NEW i \in 1 .. Len(taken) PROVE ts'[i] = TimeOf(i)' /\ ts'[i] \in Int
  <2>1. Proper(taken[i])
    BY DEF Flow, Once
  <2>2. First(taken[i]) \in Lines /\ LineBytes(i - 1) = taken[i]
    BY <2>1, FirstIsLine, LineBytesTrue
  <2>3. First(taken[i]).ts \in Int /\ Parsed(First(taken[i])) \in Int
    BY <2>2, LineTime
  <2>4. ts[i] = Parsed(First(taken[i]))
    BY <1>1 DEF Arrays, TimeOf
  <2>5. TimeOf(i)' = IF ~IsHeader(i) THEN First(taken[i]).ts ELSE Parsed(First(taken[i]))
    <3>1. First(taken[i])' = First(taken[i]) /\ (IsHeader(i)' <=> IsHeader(i))
      BY <1>1 DEF First, IsHeader
    <3>2. Parsed(First(taken[i]))' = Parsed(First(taken[i]))
      BY <1>1, <3>1 DEF Parsed
    <3>3. i <= Loaded'
      BY <1>5
    <3> QED BY <1>1, <3>1, <3>2, <3>3 DEF TimeOf
  <2>6. CASE format \in {"csv", "regex"} /\ ~IsHeader(i)
    BY <1>2, <1>3, <2>2, <2>3, <2>5, <2>6
  <2>7. CASE ~(format \in {"csv", "regex"} /\ ~IsHeader(i))
    <3>1. ts'[i] = Parsed(First(taken[i]))
      BY <1>2, <1>3, <2>4, <2>7
    <3>2. CASE IsHeader(i)
      BY <2>3, <2>5, <3>1, <3>2
    <3>3. CASE ~IsHeader(i)
      <4>1. Parsed(First(taken[i])) = First(taken[i]).ts
        BY <2>7, <3>3 DEF Parsed
      <4> QED BY <2>3, <2>5, <3>1, <3>3, <4>1
    <3> QED BY <3>2, <3>3
  <2> QED BY <2>6, <2>7
<1>7. ts' \in [1 .. Len(taken) -> Int]
  <2>1. DOMAIN ts' = 1 .. Len(taken)
    BY <1>2, <1>3
  <2>2. ts' = [i \in 1 .. Len(taken) |-> ts'[i]]
    BY <1>2, <1>3
  <2> QED BY <1>6, <2>2
<1>8. (load' = "merged" \/ (load' = "file" /\ phase' # "ready")) => base' = None
  BY <1>1 DEF Arrays
<1> QED BY <1>1, <1>4, <1>6, <1>7, <1>8 DEF Arrays

(* Every step keeps the arrays in step with what was indexed.              *)
LEMMA ArraysStep == Flow /\ Arrays /\ [Next]_vars => Arrays'
<1> SUFFICES ASSUME Flow, Arrays, [Next]_vars PROVE Arrays'
  OBVIOUS
<1>1. CASE FileNext BY <1>1, ArraysFile
<1>2. CASE FileEnds \/ Prime \/ MergeEnds \/ Rest \/ UNCHANGED vars
  <2>1. /\ UNCHANGED <<load, format, text, locs, ts, owned, base, taken>>
        /\ phase' = "ready" <=> phase = "ready"
    BY <1>2 DEF FileEnds, Prime, MergeEnds, Rest, vars, source, index
  <2> QED BY <2>1, ArraysKept
<1>3. CASE StreamNext BY <1>3, ArraysStream
<1>4. CASE StreamEnds BY <1>4, ArraysStreamEnds
<1>5. CASE MergeNext BY <1>5, ArraysMerge
<1>6. CASE SecondPass BY <1>6, ArraysSecondPass
<1>7. CASE Live BY <1>7, ArraysLive
<1> QED BY <1>1, <1>2, <1>3, <1>4, <1>5, <1>6, <1>7 DEF Next

(* Engine::line_bytes, the indexer, ingest_one and the second pass: the    *)
(* number of a record leads to that record and to its time, in the file,   *)
(* in memory, and where the one follows the other, whatever the format,    *)
(* and however many live lines come.                                       *)
THEOREM AlwaysRecordsTrue == Spec => []RecordsTrue
<1>1. Flow /\ Arrays => RecordsTrue
  <2> SUFFICES ASSUME Flow, Arrays, NEW i \in DOMAIN taken
               PROVE  LineBytes(i - 1) = taken[i] /\ ts[i] = TimeOf(i)
    BY DEF RecordsTrue, TimeOf
  <2>1. i \in 1 .. Len(taken)
    BY LenProperties DEF Flow, Shape
  <2> QED BY <2>1, LineBytesTrue DEF Arrays
<1> QED BY FlowInit, FlowStep, ArraysInit, ArraysStep, <1>1, PTL DEF Spec

-----------------------------------------------------------------------------
(* Which of the first n records have no time.                              *)
Blank(n) == {i \in 1 .. n : ts[i] = Untimed}

(* What a file's statistics count: its records are its lines one by one    *)
(* while it is read, and in the end the count is that of the untimed ones. *)
Tally ==
  load = "file" =>
    /\ phase = "load" =>
         /\ Len(taken) = cursor[1]
         /\ \A i \in 1 .. Len(taken) : taken[i].source = 1 /\ taken[i].from = i
    /\ phase \in {"loaded", "ready"} =>
         /\ stats = [untimed |-> Cardinality(Blank(Loaded)), bad |-> stats.bad]
         /\ stats.bad \in Nat /\ stats.bad <= Cardinality(Blank(Loaded))
    /\ (phase = "loaded" /\ format \in {"csv", "regex"}) => stats.bad = 0

(* A set of naturals has a least element.                                  *)
LEMMA Least ==
  ASSUME NEW T \in SUBSET Nat, T # {}
  PROVE  \E x \in T : \A y \in T : x <= y
<1> DEFINE R == OpToRel(<, Nat)
<1>1. IsWellFoundedOn(R, Nat)
  BY NatLessThanWellFounded
<1>2. \A x, y \in Nat : x < y => <<x, y>> \in R
  BY DEF OpToRel
<1> HIDE DEF R
<1>3. PICK x \in T : \A y \in T : ~(<<y, x>> \in R)
  BY <1>1, WFMin, Zenon
<1>4. ASSUME NEW y \in T PROVE x <= y
  <2>1. x \in Nat /\ y \in Nat
    OBVIOUS
  <2>2. ~(y < x)
    BY <1>2, <1>3, <2>1
  <2> QED BY <2>1, <2>2
<1> QED BY <1>4

(* Some of finitely many numbers are finitely many.                        *)
LEMMA FewOf ==
  ASSUME NEW n \in Nat, NEW S, S \subseteq 1 .. n
  PROVE  IsFiniteSet(S) /\ Cardinality(S) \in Nat
<1>1. IsFiniteSet(1 .. n)
  BY FS_Interval
<1> QED BY <1>1, FS_Subset, FS_CardinalityType

(* No record, no time that is missing.                                     *)
LEMMA TallyInit == Init => Tally
<1> SUFFICES ASSUME Init, load = "file" PROVE Tally
  BY DEF Tally
<1>1. phase = "load" /\ taken = <<>> /\ 1 \in DOMAIN text /\ cursor = [s \in DOMAIN text |-> 0]
  BY DEF Init
<1>2. Len(taken) = 0 /\ cursor[1] = 0 /\ 1 .. Len(taken) = {}
  BY <1>1
<1> QED BY <1>1, <1>2 DEF Tally

(* One more line is one more record.                                       *)
LEMMA TallyFile == ASSUME Flow, Tally, FileNext PROVE Tally'
<1>1. /\ load = "file" /\ phase = "load" /\ load' = load /\ phase' = phase
      /\ cursor' = [cursor EXCEPT ![1] = @ + 1] /\ taken' = Append(taken, Next1(1))
  BY DEF FileNext, Advance, IndexRef, source
<1>2. /\ 1 \in Sources /\ cursor \in [Sources -> Nat] /\ taken \in Seq(Rec) /\ Len(taken) \in Nat
      /\ Len(taken) = cursor[1]
      /\ \A i \in 1 .. Len(taken) : taken[i].source = 1 /\ taken[i].from = i
  BY <1>1, LenProperties DEF Flow, Shape, Tally
<1>3. Next1(1) \in Rec /\ Next1(1).source = 1 /\ Next1(1).from = cursor[1] + 1
  BY <1>2 DEF Next1, Rec
<1>4. cursor'[1] = cursor[1] + 1
  BY <1>1, <1>2
<1>5. /\ Len(taken') = Len(taken) + 1
      /\ \A i \in 1 .. Len(taken) : taken'[i] = taken[i]
      /\ taken'[Len(taken) + 1] = Next1(1)
  BY <1>1, <1>2, <1>3, AppendProperties
<1>6. \A i \in 1 .. Len(taken') : i \in 1 .. Len(taken) \/ i = Len(taken) + 1
  BY <1>2, <1>5
<1>7. \A i \in 1 .. Len(taken') : taken'[i].source = 1 /\ taken'[i].from = i
  BY <1>2, <1>3, <1>5, <1>6
<1> QED BY <1>1, <1>2, <1>4, <1>5, <1>7 DEF Tally

(* The producer counted the lines, and the records are the lines.          *)
LEMMA TallyFileEnds == ASSUME Flow, Arrays, Tally, FileEnds PROVE Tally'
<1> DEFINE n == Len(taken)
           U == {i \in DOMAIN text[1] : Parsed(text[1][i]) = Untimed}
           B == {i \in DOMAIN text[1] : text[1][i].bad}
<1>1. /\ load = "file" /\ phase = "load" /\ cursor[1] = Len(text[1])
      /\ load' = load /\ format' = format /\ phase' = "loaded"
      /\ stats' = [untimed |-> Cardinality(U),
                   bad |-> IF format \in {"csv", "regex"} THEN 0 ELSE Cardinality(B)]
      /\ UNCHANGED <<ts, taken, base>>
  BY DEF FileEnds, AtEnd, source, index
<1>2. /\ n \in Nat /\ n = Len(text[1]) /\ text[1] \in Seq(Lines)
      /\ \A i \in 1 .. n : taken[i].source = 1 /\ taken[i].from = i
      /\ base = None /\ Loaded' = n
  BY <1>1, LenProperties DEF Flow, Shape, Tally, Arrays, Loaded
<1>3. DOMAIN text[1] = 1 .. n
  BY <1>2
<1>4. \A i \in 1 .. n : ts[i] = Parsed(text[1][i])
  BY <1>1, <1>2 DEF Arrays, TimeOf, First
<1> HIDE DEF n
<1>5. Blank(Loaded)' = U
  BY <1>1, <1>2, <1>3, <1>4 DEF Blank
<1>6. /\ U \subseteq 1 .. n /\ B \subseteq 1 .. n
      /\ format \notin {"csv", "regex"} => B \subseteq U
  <2>1. \A i \in 1 .. n : text[1][i] \in Lines
    BY <1>2, <1>3
  <2>2. \A i \in 1 .. n : text[1][i].bad => text[1][i].ts = Untimed
    BY <2>1, PipelineAssumption
  <2> QED BY <2>2, <1>3 DEF Parsed
<1> HIDE DEF U, B
<1>7. /\ Cardinality(U) \in Nat /\ Cardinality(B) \in Nat
      /\ format \notin {"csv", "regex"} => Cardinality(B) <= Cardinality(U)
  <2>1. IsFiniteSet(U) /\ Cardinality(U) \in Nat /\ Cardinality(B) \in Nat
    BY <1>2, <1>6, FewOf
  <2>2. B \subseteq U => Cardinality(B) <= Cardinality(U)
    BY <2>1, FS_Subset
  <2> QED BY <1>6, <2>1, <2>2
<1>8. /\ stats' = [untimed |-> Cardinality(U), bad |-> stats'.bad]
      /\ stats'.bad = IF format \in {"csv", "regex"} THEN 0 ELSE Cardinality(B)
  BY <1>1
<1>9. stats'.bad \in Nat /\ stats'.bad <= Cardinality(U)
  BY <1>7, <1>8
<1> QED BY <1>1, <1>5, <1>8, <1>9 DEF Tally

(* A live line leaves those before it alone.                               *)
LEMMA TallyLive == ASSUME Flow, Arrays, Tally, Live PROVE Tally'
<1> SUFFICES ASSUME load = "file" PROVE Tally'
  BY DEF Live, Tally
<1>1. PICK line \in Lines : IndexOwned(Next1(1), line)
  BY DEF Live
<1>2. /\ phase = "ready" /\ UNCHANGED <<load, format, stats, phase>>
      /\ ts' = Append(ts, Parsed(line)) /\ base' = IF base = None THEN Len(locs) ELSE base
  BY <1>1 DEF Live, IndexOwned
<1>3. Len(taken) \in Nat /\ Len(locs) = Len(taken) /\ ts \in [1 .. Len(taken) -> Int]
  BY LenProperties DEF Flow, Shape, Arrays
<1>4. Loaded \in Nat /\ Loaded <= Len(taken) /\ Loaded' = Loaded
  <2>1. CASE base = None
    <3>1. Len(locs) # None
      BY <1>3 DEF None
    <3> QED BY <1>2, <1>3, <2>1, <3>1 DEF Loaded
  <2>2. CASE base # None
    <3>1. base \in Nat /\ Len(owned) = Len(taken) - base /\ Len(owned) \in Nat
      BY <2>2, LenProperties DEF Arrays
    <3> QED BY <1>2, <1>3, <2>2, <3>1 DEF Loaded
  <2> QED BY <2>1, <2>2
<1>5. \A i \in 1 .. Loaded : ts'[i] = ts[i]
  <2>1. ts \in Seq(Int) /\ Len(ts) = Len(taken)
    BY <1>3
  <2> QED BY <1>2, <1>3, <1>4, <2>1
<1>6. Blank(Loaded)' = Blank(Loaded)
  BY <1>4, <1>5 DEF Blank
<1> QED BY <1>2, <1>6 DEF Tally

-----------------------------------------------------------------------------
(* The recursion of the second pass has a value for every record: there is *)
(* no first record for which there is none.                                *)
LEMMA RecountedIs ==
  ASSUME Len(locs) \in Nat
  PROVE  Recounted = [k \in 0 .. Len(locs) |->
           IF k = 0 THEN stats
           ELSE IF k \in Rows THEN Recount(Recounted[k - 1], k) ELSE Recounted[k - 1]]
<1> DEFINE n == Len(locs)
           Step(x, k) == IF k \in Rows THEN Recount(x, k) ELSE x
           Solves(g, m) == g = [k \in 0 .. m |-> IF k = 0 THEN stats ELSE Step(g[k - 1], k)]
           T == {m \in 0 .. n : ~ \E g : Solves(g, m)}
<1>1. T = {}
  <2> SUFFICES ASSUME T # {} PROVE FALSE
    OBVIOUS
  <2>1. T \in SUBSET Nat
    OBVIOUS
  <2>2. PICK m \in T : \A l \in T : m <= l
    BY <2>1, Least
  <2>3. m \in 0 .. n /\ ~ \E g : Solves(g, m)
    OBVIOUS
  <2>4. CASE m = 0
    <3> DEFINE h == [k \in 0 .. 0 |-> stats]
    <3>1. Solves(h, 0)
      OBVIOUS
    <3> QED BY <2>3, <2>4, <3>1
  <2>5. CASE m # 0
    <3>1. m - 1 \in 0 .. n /\ m - 1 \notin T
      BY <2>2, <2>3, <2>5
    <3>2. PICK g : Solves(g, m - 1)
      BY <3>1
    <3> HIDE DEF Step
    <3> DEFINE h == [k \in 0 .. m |-> IF k = m THEN Step(g[m - 1], m) ELSE g[k]]
    <3>3. \A k \in 0 .. m - 1 : k # m /\ k \in 0 .. m /\ h[k] = g[k]
      BY <2>3, <2>5
    <3>4. ASSUME NEW k \in 0 .. m PROVE h[k] = IF k = 0 THEN stats ELSE Step(h[k - 1], k)
      <4>1. CASE k = 0
        BY <2>3, <2>5, <3>2, <3>3, <4>1
      <4>2. CASE k # 0 /\ k # m
        <5>1. k \in 0 .. m - 1 /\ k - 1 \in 0 .. m - 1
          BY <2>3, <4>2
        <5>2. g[k] = Step(g[k - 1], k)
          BY <3>2, <4>2, <5>1
        <5> QED BY <3>3, <4>2, <5>1, <5>2
      <4>3. CASE k = m
        <5>1. m - 1 \in 0 .. m - 1 /\ h[m - 1] = g[m - 1]
          BY <2>3, <2>5, <3>3
        <5>2. h[m] = Step(g[m - 1], m)
          BY <2>3
        <5> QED BY <2>5, <4>3, <5>1, <5>2
      <4> QED BY <4>1, <4>2, <4>3
    <3>5. h = [k \in 0 .. m |-> h[k]]
      OBVIOUS
    <3> HIDE DEF h
    <3>6. Solves(h, m)
      BY <3>4, <3>5
    <3> QED BY <2>3, <3>6
  <2> QED BY <2>4, <2>5
<1>2. \E g : Solves(g, n)
  <2>1. n \in 0 .. n
    OBVIOUS
  <2> QED BY <1>1, <2>1
<1>3. Recounted = CHOOSE g : Solves(g, n)
  BY DEF Recounted
<1>4. Solves(Recounted, n)
  <2> HIDE DEF Solves
  <2> QED BY <1>2, <1>3
<1> QED BY <1>4

(* The times after the second pass, the records that have none then, and   *)
(* the statistics of such records.                                         *)
Redone == [i \in 1 .. Len(taken) |-> IF i \in Rows THEN First(taken[i]).ts ELSE ts[i]]
StillBlank == {i \in 1 .. Len(taken) : Redone[i] = Untimed}
TallyOf(n, S) == n = [untimed |-> Cardinality(S), bad |-> n.bad] /\ n.bad \in Nat /\ n.bad <= Cardinality(S)

(* The second pass over a file of rows: what is counted as untimed is      *)
(* always the rows behind that are untimed and the rows ahead, which were  *)
(* all counted; and a bad time is that of an untimed row behind.           *)
LEMMA RecountRows ==
  ASSUME Flow, Arrays, Tally, load = "file", phase = "loaded", format \in {"csv", "regex"}
  PROVE  TallyOf(Recounted[Len(taken)], StillBlank)
<1> SUFFICES ASSUME NEW n, n = Len(taken), NEW new, new = Redone
             PROVE  TallyOf(Recounted[n], StillBlank)
  OBVIOUS
<1> DEFINE Left(k) == {i \in 1 .. n : i > k \/ new[i] = Untimed}
           Done(k) == {i \in 1 .. k : new[i] = Untimed}
           P(k) == /\ Recounted[k] = [untimed |-> Cardinality(Left(k)), bad |-> Recounted[k].bad]
                   /\ Recounted[k].bad \in Nat /\ Recounted[k].bad <= Cardinality(Done(k))
           T == {k \in 0 .. n : ~P(k)}
<1>1. n \in Nat /\ Len(locs) = n /\ DOMAIN ts = 1 .. n /\ Loaded = n
  BY LenProperties DEF Flow, Shape, Arrays, Loaded
<1>2. /\ Recounted[0] = stats
      /\ \A k \in 1 .. n : Recounted[k] = IF k \in Rows THEN Recount(Recounted[k - 1], k)
                                          ELSE Recounted[k - 1]
  <2>1. Recounted = [k \in 0 .. n |->
           IF k = 0 THEN stats
           ELSE IF k \in Rows THEN Recount(Recounted[k - 1], k) ELSE Recounted[k - 1]]
    BY <1>1, RecountedIs
  <2>2. 0 \in 0 .. n /\ \A k \in 1 .. n : k \in 0 .. n /\ k # 0
    BY <1>1
  <2> QED BY <2>1, <2>2
<1>3. ASSUME NEW k \in 1 .. n
      PROVE  /\ ts[k] = Untimed
             /\ First(LineBytes(k - 1)) = First(taken[k]) /\ First(taken[k]) \in Lines
  <2>1. Proper(taken[k])
    BY DEF Flow, Once
  <2>2. LineBytes(k - 1) = taken[k] /\ First(taken[k]) \in Lines
    BY <2>1, LineBytesTrue, FirstIsLine
  <2>3. ts[k] = Parsed(First(taken[k]))
    BY DEF Arrays, TimeOf
  <2> QED BY <2>2, <2>3 DEF Parsed
<1>4. \A k \in 1 .. n : new[k] = IF k \in Rows THEN First(taken[k]).ts ELSE Untimed
  BY <1>3 DEF Redone
<1>5. \A k \in 0 .. n : /\ IsFiniteSet(Left(k)) /\ Cardinality(Left(k)) \in Nat
                        /\ IsFiniteSet(Done(k)) /\ Cardinality(Done(k)) \in Nat
  <2> SUFFICES ASSUME NEW k \in 0 .. n
               PROVE  /\ IsFiniteSet(Left(k)) /\ Cardinality(Left(k)) \in Nat
                      /\ IsFiniteSet(Done(k)) /\ Cardinality(Done(k)) \in Nat
    OBVIOUS
  <2>1. Left(k) \subseteq 1 .. n /\ Done(k) \subseteq 1 .. k /\ k \in Nat
    BY <1>1
  <2> HIDE DEF Left, Done
  <2> QED BY <1>1, <2>1, FewOf
<1>6. P(0)
  <2>1. Left(0) = 1 .. n /\ Blank(n) = 1 .. n
    BY <1>1, <1>3 DEF Blank
  <2>2. stats = [untimed |-> Cardinality(1 .. n), bad |-> stats.bad] /\ stats.bad = 0
    BY <1>1, <2>1 DEF Tally
  <2> HIDE DEF Done, Left
  <2>3. Cardinality(Done(0)) \in Nat /\ 0 \in 0 .. n
    <3>1. 0 \in 0 .. n
      BY <1>1
    <3> QED BY <1>5, <3>1
  <2>4. stats.bad \in Nat /\ stats.bad <= Cardinality(Done(0))
    BY <2>2, <2>3
  <2> QED BY <1>2, <2>1, <2>2, <2>4
<1>7. ASSUME NEW k \in 1 .. n, P(k - 1) PROVE P(k)
  <2>1. k - 1 \in 0 .. n /\ k \in 0 .. n /\ k \in Nat /\ k - 1 \in Nat
    BY <1>1
  <2> DEFINE r == Recounted[k - 1]
             line == First(taken[k])
  <2>2. /\ r = [untimed |-> Cardinality(Left(k - 1)), bad |-> r.bad]
        /\ r.bad \in Nat /\ r.bad <= Cardinality(Done(k - 1))
    BY <1>7
  <2>3. r.untimed = Cardinality(Left(k - 1))
    <3> HIDE DEF r, Left
    <3> QED BY <2>2
  <2>4. \A i \in 1 .. n : i > k - 1 <=> i > k \/ i = k
    BY <1>1
  <2>5. \A i \in 1 .. k : i \in 1 .. k - 1 \/ i = k
    BY <2>1
  <2>6. /\ new[k] = Untimed => Left(k) = Left(k - 1) /\ Done(k) = Done(k - 1) \cup {k}
        /\ new[k] # Untimed => Left(k) = Left(k - 1) \ {k} /\ Done(k) = Done(k - 1)
        /\ k \in Left(k - 1) /\ k \notin Done(k - 1)
    <3>1. /\ 1 .. k = (1 .. k - 1) \cup {k} /\ k \notin 1 .. k - 1 /\ ~(k > k) /\ k > k - 1
      BY <2>1
    <3>2. k \in 1 .. n
      OBVIOUS
    <3>3. \A i : i \in Done(k) <=> (i \in 1 .. k - 1 \/ i = k) /\ new[i] = Untimed
      BY <3>1
    <3>4. \A i : i \in Done(k - 1) <=> i \in 1 .. k - 1 /\ new[i] = Untimed
      OBVIOUS
    <3>5. \A i : i \in Left(k) <=> i \in 1 .. n /\ (i > k \/ new[i] = Untimed)
      OBVIOUS
    <3>6. \A i : i \in Left(k - 1) <=> i \in 1 .. n /\ (i > k \/ i = k \/ new[i] = Untimed)
      BY <2>4
    <3> HIDE DEF Left, Done
    <3> QED BY <3>1, <3>2, <3>3, <3>4, <3>5, <3>6
  <2>7. /\ IsFiniteSet(Left(k - 1)) /\ Cardinality(Left(k - 1)) \in Nat
        /\ IsFiniteSet(Done(k - 1)) /\ Cardinality(Done(k - 1)) \in Nat
    BY <1>5, <2>1
  <2> HIDE DEF Left, Done
  <2>8. /\ Cardinality(Left(k - 1)) > 0
        /\ Cardinality(Left(k - 1) \ {k}) = Cardinality(Left(k - 1)) - 1
        /\ Cardinality(Done(k - 1) \cup {k}) = Cardinality(Done(k - 1)) + 1
    <3>1. Cardinality(Left(k - 1)) # 0
      BY <2>6, <2>7, FS_EmptySet
    <3>2. Cardinality(Left(k - 1) \ {k}) = Cardinality(Left(k - 1)) - 1
      BY <2>6, <2>7, FS_RemoveElement
    <3>3. Cardinality(Done(k - 1) \cup {k}) = Cardinality(Done(k - 1)) + 1
      BY <2>6, <2>7, FS_AddElement
    <3>4. Cardinality(Left(k - 1)) > 0
      BY <2>7, <3>1
    <3> QED BY <3>2, <3>3, <3>4
  <2>9. new[k] = Untimed =>
          Cardinality(Left(k)) = Cardinality(Left(k - 1)) /\ Cardinality(Done(k)) = Cardinality(Done(k - 1)) + 1
    BY <2>6, <2>8
  <2>10. new[k] # Untimed =>
          Cardinality(Left(k)) = Cardinality(Left(k - 1)) - 1 /\ Cardinality(Done(k)) = Cardinality(Done(k - 1))
    BY <2>6, <2>8
  <2>11. CASE k \notin Rows
    <3>1. new[k] = Untimed /\ Recounted[k] = r
      BY <1>2, <1>4, <2>11
    <3> HIDE DEF r
    <3> QED BY <2>2, <2>7, <2>9, <3>1
  <2>12. CASE k \in Rows
    <3>1. new[k] = line.ts /\ Recounted[k] = Recount(r, k) /\ (line.bad => line.ts = Untimed)
      <4>1. line \in Lines
        BY <1>3
      <4> QED BY <1>2, <1>4, <2>12, <4>1, PipelineAssumption
    <3>2. /\ Recounted[k] = [untimed |-> (IF r.untimed > 0 THEN r.untimed - 1 ELSE 0)
                                         + (IF line.ts = Untimed THEN 1 ELSE 0),
                             bad |-> r.bad + (IF line.bad THEN 1 ELSE 0)]
      BY <1>3, <3>1 DEF Recount
    <3> HIDE DEF r, line
    <3>3. Recounted[k] = [untimed |-> Recounted[k].untimed, bad |-> Recounted[k].bad]
      BY <3>2
    <3>4. /\ Recounted[k].untimed = r.untimed - 1 + (IF line.ts = Untimed THEN 1 ELSE 0)
          /\ Recounted[k].bad = r.bad + (IF line.bad THEN 1 ELSE 0)
      BY <2>3, <2>7, <2>8, <3>2
    <3>5. Recounted[k].untimed = Cardinality(Left(k))
      BY <2>3, <2>7, <2>9, <2>10, <3>1, <3>4
    <3>6. Recounted[k].bad \in Nat /\ Recounted[k].bad <= Cardinality(Done(k))
      BY <2>2, <2>7, <2>9, <2>10, <3>1, <3>4
    <3> QED BY <3>3, <3>5, <3>6
  <2> QED BY <2>11, <2>12
<1> HIDE DEF P
<1>8. T = {}
  <2> SUFFICES ASSUME T # {} PROVE FALSE
    OBVIOUS
  <2>1. T \in SUBSET Nat
    OBVIOUS
  <2>2. PICK k \in T : \A l \in T : k <= l
    BY <2>1, Least
  <2>3. k \in 1 .. n /\ k - 1 \in 0 .. n /\ k - 1 \notin T
    BY <1>1, <1>6, <2>2
  <2> QED BY <1>7, <2>3
<1>9. P(n)
  BY <1>1, <1>8
<1>10. Left(n) = StillBlank /\ Done(n) = StillBlank
  BY <1>1 DEF StillBlank
<1> HIDE DEF Left, Done
<1> QED BY <1>9, <1>10 DEF P, TallyOf

(* Where nothing is parsed again the statistics stay.                      *)
LEMMA RecountNone ==
  ASSUME Flow, Arrays, Rows = {}
  PROVE  Recounted[Len(locs)] = stats
<1> DEFINE n == Len(locs)
           T == {k \in 0 .. n : Recounted[k] # stats}
<1>1. n \in Nat
  BY LenProperties DEF Flow, Shape, Arrays
<1>2. Recounted[0] = stats /\ \A k \in 1 .. n : Recounted[k] = Recounted[k - 1]
  <2>1. Recounted = [k \in 0 .. n |->
           IF k = 0 THEN stats
           ELSE IF k \in Rows THEN Recount(Recounted[k - 1], k) ELSE Recounted[k - 1]]
    BY <1>1, RecountedIs
  <2>2. 0 \in 0 .. n /\ \A k \in 1 .. n : k \in 0 .. n /\ k # 0 /\ k \notin Rows
    BY <1>1
  <2> QED BY <2>1, <2>2
<1> HIDE DEF n
<1>3. T = {}
  <2> SUFFICES ASSUME T # {} PROVE FALSE
    OBVIOUS
  <2>1. T \in SUBSET Nat
    OBVIOUS
  <2>2. PICK k \in T : \A l \in T : k <= l
    BY <2>1, Least
  <2>3. k \in 1 .. n /\ k - 1 \in 0 .. n /\ k - 1 \notin T
    BY <1>1, <1>2, <2>2
  <2> QED BY <1>2, <2>3
<1>4. n \in 0 .. n
  BY <1>1
<1> QED BY <1>3, <1>4 DEF n

(* So the second pass leaves the statistics right.                         *)
LEMMA TallySecondPass == ASSUME Flow, Arrays, Tally, SecondPass PROVE Tally'
<1> SUFFICES ASSUME load = "file" PROVE Tally'
  BY DEF SecondPass, source, Tally
<1> DEFINE n == Len(taken)
<1>1. /\ phase = "loaded" /\ phase' = "ready" /\ UNCHANGED <<load, format, taken, base>>
      /\ ts' = [i \in DOMAIN ts |-> IF i \in Rows THEN First(LineBytes(i - 1)).ts ELSE ts[i]]
      /\ stats' = Recounted[Len(locs)]
  BY DEF SecondPass, source
<1>2. n \in Nat /\ Len(locs) = n /\ DOMAIN ts = 1 .. n /\ Loaded = n /\ Loaded' = n
  BY <1>1, LenProperties DEF Flow, Shape, Arrays, Loaded
<1>3. ts' = Redone
  BY <1>1, <1>2, LineBytesTrue DEF Redone
<1>4. Blank(Loaded)' = StillBlank
  BY <1>1, <1>2, <1>3 DEF Blank, StillBlank
<1>5. CASE format \in {"csv", "regex"}
  <2>1. TallyOf(stats', Blank(Loaded)')
    BY <1>1, <1>2, <1>4, <1>5, RecountRows
  <2> QED BY <1>1, <1>2, <2>1 DEF Tally, TallyOf
<1>6. CASE format \notin {"csv", "regex"}
  <2>1. Rows = {}
    BY <1>6 DEF Rows
  <2>2. stats' = stats /\ Redone = [i \in 1 .. n |-> ts[i]]
    BY <1>1, <2>1, RecountNone DEF Redone
  <2>3. Blank(Loaded)' = Blank(Loaded)
    BY <1>2, <1>4, <2>2 DEF Blank, StillBlank
  <2> QED BY <1>1, <2>2, <2>3 DEF Tally
<1> QED BY <1>5, <1>6

(* Every step keeps the count.                                             *)
LEMMA TallyStep == Flow /\ Arrays /\ Tally /\ [Next]_vars => Tally'
<1> SUFFICES ASSUME Flow, Arrays, Tally, [Next]_vars PROVE Tally'
  OBVIOUS
<1>1. CASE FileNext BY <1>1, TallyFile
<1>2. CASE FileEnds BY <1>2, TallyFileEnds
<1>3. CASE SecondPass BY <1>3, TallySecondPass
<1>4. CASE Live BY <1>4, TallyLive
<1>5. CASE StreamNext \/ StreamEnds \/ MergeNext \/ MergeEnds \/ Prime
  <2>1. load # "file" /\ load' = load
    BY <1>5 DEF StreamNext, StreamEnds, MergeNext, MergeEnds, Prime, source, Flow, Shape
  <2> QED BY <2>1 DEF Tally
<1>6. CASE Rest \/ UNCHANGED vars
  <2>1. UNCHANGED <<load, format, cursor, ts, base, stats, phase, taken>>
    BY <1>6 DEF Rest, vars, source, index
  <2> QED BY <2>1 DEF Tally, Blank, Loaded
<1> QED BY <1>1, <1>2, <1>3, <1>4, <1>5, <1>6 DEF Next

(* FileProducer, StreamProducer in MultiLineProducer and MergeProducer: no *)
(* line is lost, none is in two records, and the records of a source keep  *)
(* its order, whatever the lines and however many files are merged; and    *)
(* the statistics of a file count its untimed records, each once, after    *)
(* Engine::recompute_csv_ts_level or recompute_regex_ts_level corrected    *)
(* them and while live records come.                                       *)
THEOREM AlwaysEveryLineOnce == Spec => []EveryLineOnce
<1>1. Flow /\ Tally => EveryLineOnce
  <2> SUFFICES ASSUME Flow, Tally PROVE EveryLineOnce
    OBVIOUS
  <2>1. Shape /\ Once /\ DOMAIN taken = 1 .. Len(taken)
    BY LenProperties DEF Flow, Shape
  <2>2. \A i \in 1 .. Len(taken) : taken[i] \in Range(taken)
    BY <2>1 DEF Range
  <2>3. \A rec \in Range(taken) : \E i \in 1 .. Len(taken) : rec = taken[i]
    BY <2>1 DEF Range
  <2>4. ASSUME NEW s \in Sources, NEW k \in 1 .. cursor[s]
        PROVE  \E rec \in Range(taken) \cup Held : rec.source = s /\ k \in rec.from .. rec.to
    <3>1. PICK rec \in Range(taken) \cup Held : Covers(rec, s, k)
      BY <2>1, <2>2 DEF Once, Read
    <3>2. rec \in Rec /\ cursor[s] \in Nat
      BY <2>1, <2>3 DEF Once, Proper, Shape
    <3> QED BY <3>1, <3>2 DEF Covers, Rec
  <2>5. \A rec \in Range(taken) \cup Held : rec.from <= rec.to /\ rec.to <= cursor[rec.source]
    BY <2>1, <2>3 DEF Once, Proper
  <2>6. CountedOnce
    BY DEF CountedOnce, Tally, Blank
  <2> QED BY <2>1, <2>4, <2>5, <2>6 DEF EveryLineOnce, Once
<1> QED BY FlowInit, FlowStep, ArraysInit, ArraysStep, TallyInit, TallyStep, <1>1, PTL DEF Spec

-----------------------------------------------------------------------------
(* The time that is written in a record's first line. *)
Time(rec) == First(rec).ts

(* The line before a record of one line. *)
LineBefore(rec) ==
  [source |-> rec.source, from |-> rec.from - 1, to |-> rec.from - 1]

(* Line k of source s may come after a record. *)
MayFollow(rec, s, k) ==
  \/ Time(rec) < text[s][k].ts
  \/ Time(rec) = text[s][k].ts /\ rec.source <= s

(* A line without a time came right behind the line before it, or is about *)
(* to: it is the only slot that waits for its line, and goes before every  *)
(* file that begins with a line without a time.                            *)
Behind ==
  /\ \A i \in 1 .. Len(taken) :
       (Time(taken[i]) = Untimed /\ taken[i].from > 1) =>
         i > 1 /\ taken[i - 1] = LineBefore(taken[i])
  /\ \A slot \in heap :
       (Time(slot) = Untimed /\ slot.from > 1) =>
         /\ Len(taken) > 0 /\ taken[Len(taken)] = LineBefore(slot)
         /\ \A other \in heap :
              (other # slot /\ Time(other) = Untimed) =>
                other.from = 1 /\ slot.source < other.source

(* What was taken of files that are in order may come before what was      *)
(* taken later, and before every line that is left.                        *)
Ahead ==
  (\A s \in Sources : InOrder(s)) =>
    \A i \in 1 .. Len(taken) :
      Time(taken[i]) # Untimed =>
        /\ \A j \in 1 .. Len(taken) :
             (i < j /\ Time(taken[j]) # Untimed) =>
               MayFollow(taken[i], taken[j].source, taken[j].from)
        /\ \A slot \in heap : \A k \in slot.from .. Len(text[slot.source]) :
             text[slot.source][k].ts # Untimed => MayFollow(taken[i], slot.source, k)

Merged == (load = "merged" /\ format \notin {"csv", "regex"}) => Behind /\ Ahead

(* Nothing was taken yet, and no slot is further than its first line.      *)
LEMMA MergedAtFirst ==
  ASSUME Len(taken) = 0, \A slot \in heap : slot.from = 1
  PROVE  Merged
<1>1. 1 .. Len(taken) = {} /\ \A slot \in heap : ~(slot.from > 1)
  OBVIOUS
<1> QED BY <1>1 DEF Merged, Behind, Ahead

(* The other steps of a merge leave its slots alone.                       *)
LEMMA MergedKept ==
  ASSUME Merged, UNCHANGED <<load, format, text, heap, taken>>
  PROVE  Merged'
<1>1. \A rec : Time(rec)' = Time(rec)
  BY DEF Time, First
<1>2. \A i : Time(taken[i])' = Time(taken[i])
  BY DEF Time, First
<1>3. Behind => Behind'
  BY <1>1, <1>2 DEF Behind, LineBefore
<1>4. Ahead => Ahead'
  <2>1. Sources' = Sources /\ \A s : InOrder(s)' <=> InOrder(s)
    BY DEF Sources, InOrder
  <2>2. \A i, s, k : MayFollow(taken[i], s, k)' <=> MayFollow(taken[i], s, k)
    BY <1>2 DEF MayFollow
  <2>3. \A i, j : MayFollow(taken[i], taken[j].source, taken[j].from)' <=>
                  MayFollow(taken[i], taken[j].source, taken[j].from)
    BY <1>2 DEF MayFollow
  <2> QED BY <1>2, <2>1, <2>2, <2>3 DEF Ahead
<1> QED BY <1>3, <1>4 DEF Merged

(* The least slot goes, and its source's next line takes its place.        *)
Takes(least, after) ==
  /\ least \in heap /\ after = Next1(least.source)
  /\ taken' = Append(taken, least)
  /\ \A slot \in heap :
       \/ Time(least) < Time(slot)
       \/ Time(least) = Time(slot) /\ least.source <= slot.source
  /\ \A slot \in heap' :
       (slot \in heap /\ slot # least) \/ (slot = after /\ ~AtEnd(least.source))

(* MergeNext in terms of times.                                            *)
LEMMA MergeTakes ==
  ASSUME MergeNext, format \notin {"csv", "regex"}
  PROVE  \E least, after : Takes(least, after)
<1>1. PICK least \in heap :
        /\ \A slot \in heap : Before(least, slot)
        /\ taken' = Append(taken, least)
        /\ \/ AtEnd(least.source) /\ heap' = heap \ {least}
           \/ ~AtEnd(least.source) /\ heap' = (heap \ {least}) \cup {Next1(least.source)}
  BY DEF MergeNext, IndexRef
<1>2. PICK after : after = Next1(least.source)
  OBVIOUS
<1>3. \A slot : Parsed(First(slot)) = Time(slot)
  BY DEF Parsed, Time
<1> QED BY <1>1, <1>2, <1>3 DEF Before, Takes

(* What is known of the slots when the least of them goes.                 *)
LEMMA Slots ==
  ASSUME Flow, NEW least, NEW after, Takes(least, after)
  PROVE  /\ \A slot \in heap :
              /\ slot \in Rec /\ slot.source \in Sources /\ slot.from >= 1 /\ slot.from = slot.to
              /\ slot.from <= Len(text[slot.source]) /\ Len(text[slot.source]) \in Nat
              /\ Time(slot) \in Int /\ Untimed <= Time(slot)
         /\ \A slot, other \in heap : slot.source = other.source => slot = other
         /\ after.source = least.source /\ after.from = least.from + 1
         /\ LineBefore(after) = least
<1>1. ASSUME NEW slot \in heap
      PROVE  /\ slot \in Rec /\ slot.source \in Sources /\ slot.from >= 1 /\ slot.from = slot.to
             /\ slot.from <= Len(text[slot.source]) /\ Len(text[slot.source]) \in Nat
             /\ Time(slot) \in Int /\ Untimed <= Time(slot)
             /\ slot.to = cursor[slot.source]
  <2>1. Proper(slot) /\ slot.from = slot.to /\ slot.to = cursor[slot.source]
    BY DEF Flow, Once, Held
  <2>2. First(slot) \in Lines /\ slot.from \in 1 .. Len(text[slot.source])
    BY <2>1, FirstIsLine
  <2>3. Time(slot) \in Int /\ Untimed <= Time(slot)
    BY <2>2, LineTime DEF Time
  <2>4. slot \in Rec /\ slot.source \in Sources /\ slot.from >= 1
    BY <2>1 DEF Proper
  <2>5. slot.from <= Len(text[slot.source]) /\ Len(text[slot.source]) \in Nat
    BY <2>2, <2>4, Known
  <2> QED BY <2>1, <2>3, <2>4, <2>5
<1>2. \A slot, other \in heap : slot.source = other.source => slot = other
  BY DEF Flow, Once, Held
<1>3. /\ least \in heap /\ least \in Rec /\ least.from \in Nat /\ least.from = least.to
      /\ cursor[least.source] = least.from
  BY <1>1 DEF Takes, Rec
<1>4. after = [source |-> least.source, from |-> least.from + 1, to |-> least.from + 1]
  BY <1>3 DEF Takes, Next1
<1>5. LineBefore(after) = [source |-> least.source, from |-> least.from, to |-> least.to]
  BY <1>3, <1>4 DEF LineBefore
<1>6. least = [source |-> least.source, from |-> least.from, to |-> least.to]
  BY <1>3 DEF Rec
<1> QED BY <1>1, <1>2, <1>4, <1>5, <1>6

(* No slot that stays waits for its line, and those without a time are of  *)
(* files behind the least.                                                 *)
LEMMA NoneWaits ==
  ASSUME Flow, Behind, NEW least, NEW after, Takes(least, after),
         NEW slot \in heap, slot # least, Time(slot) = Untimed
  PROVE  Time(least) = Untimed /\ slot.from = 1 /\ least.source < slot.source
<1>1. /\ slot.source \in Nat /\ least.source \in Nat /\ slot.from >= 1 /\ slot.from \in Nat
      /\ Time(least) \in Int /\ Untimed <= Time(least) /\ least \in heap
      /\ slot.source # least.source
  BY Slots DEF Takes, Rec
<1>2. Time(least) = Untimed /\ least.source <= slot.source
  BY <1>1 DEF Takes, Untimed
<1>3. ~(slot.from > 1)
  <2>1. slot.from > 1 => slot.source < least.source
    BY <1>1, <1>2 DEF Behind
  <2> QED BY <1>1, <1>2, <2>1
<1> QED BY <1>1, <1>2, <1>3

(* It keeps lines without a time behind their lines,                       *)
LEMMA BehindMore ==
  ASSUME Flow, Behind, UNCHANGED text, NEW least, NEW after, Takes(least, after)
  PROVE  Behind'
<1>0. PICK n \in Nat : n = Len(taken)
  BY LenProperties DEF Flow, Shape
<1>1. /\ least \in heap /\ least \in Rec /\ taken' = Append(taken, least) /\ taken \in Seq(Rec)
  BY Slots DEF Takes, Flow, Shape
<1>2. /\ Len(taken') = n + 1 /\ taken'[n + 1] = least
      /\ \A i \in 1 .. n : taken'[i] = taken[i]
      /\ \A i \in 1 .. n + 1 : i \in 1 .. n \/ i = n + 1
  BY <1>0, <1>1, OneMore
<1>3. \A rec : Time(rec)' = Time(rec)
  BY DEF Time, First
<1>4. ASSUME NEW i \in 1 .. n + 1, Time(taken'[i]) = Untimed, taken'[i].from > 1
      PROVE  i > 1 /\ taken'[i - 1] = LineBefore(taken'[i])
  <2>1. CASE i \in 1 .. n
    <3>1. taken'[i] = taken[i]
      BY <1>2, <2>1
    <3>2. i > 1 /\ taken[i - 1] = LineBefore(taken[i])
      BY <1>0, <1>4, <2>1, <3>1 DEF Behind
    <3>3. taken'[i - 1] = taken[i - 1]
      BY <1>2, <2>1, <3>2
    <3> QED BY <3>1, <3>2, <3>3
  <2>2. CASE i = n + 1
    <3>1. taken'[i] = least
      BY <1>2, <2>2
    <3>2. n > 0 /\ taken[n] = LineBefore(least)
      BY <1>0, <1>1, <1>4, <3>1 DEF Behind
    <3>3. i > 1 /\ taken'[i - 1] = taken[n]
      BY <1>2, <2>2, <3>2
    <3> QED BY <3>1, <3>2, <3>3
  <2> QED BY <1>2, <2>1, <2>2
<1>5. ASSUME NEW slot \in heap', Time(slot) = Untimed, slot.from > 1
      PROVE  /\ taken'[n + 1] = LineBefore(slot)
             /\ \A other \in heap' : (other # slot /\ Time(other) = Untimed) =>
                  other.from = 1 /\ slot.source < other.source
  <2>1. slot = after
    <3>1. ASSUME slot \in heap, slot # least PROVE FALSE
      BY <1>5, <3>1, NoneWaits
    <3> QED BY <3>1 DEF Takes
  <2>2. LineBefore(slot) = least /\ slot.source = least.source
    BY <2>1, Slots
  <2>3. ASSUME NEW other \in heap', other # slot, Time(other) = Untimed
        PROVE  other.from = 1 /\ slot.source < other.source
    <3>1. other \in heap /\ other # least
      BY <2>1, <2>3 DEF Takes
    <3> QED BY <2>2, <2>3, <3>1, NoneWaits
  <2> QED BY <1>2, <2>2, <2>3
<1>6. \A i \in 1 .. Len(taken') : Time(taken[i])' = Time(taken'[i])
  BY DEF Time, First
<1>7. \A rec : LineBefore(rec)' = LineBefore(rec)
  BY DEF LineBefore
<1>8. \A i : LineBefore(taken[i])' = LineBefore(taken'[i])
  BY DEF LineBefore
<1> QED BY <1>2, <1>3, <1>4, <1>5, <1>6, <1>7, <1>8 DEF Behind

(* The least slot may come before all that is left, its own file's too.    *)
LEMMA LeastFirst ==
  ASSUME Flow, \A s \in Sources : InOrder(s), NEW least, NEW after, Takes(least, after),
         Time(least) # Untimed, NEW slot \in heap,
         NEW k \in slot.from .. Len(text[slot.source]), text[slot.source][k].ts # Untimed
  PROVE  MayFollow(least, slot.source, k)
<1> DEFINE s == slot.source
           t == text[s][k].ts
<1>1. /\ s \in Sources /\ slot.from \in Nat /\ slot.from >= 1 /\ Len(text[s]) \in Nat
      /\ slot.from <= Len(text[s]) /\ Time(slot) \in Int /\ Untimed <= Time(slot)
      /\ least \in heap /\ Time(least) \in Int /\ Untimed <= Time(least)
      /\ s \in Nat /\ least.source \in Nat
  BY Slots DEF Takes, Rec
<1>2. k \in Nat /\ slot.from <= k /\ k \in 1 .. Len(text[s]) /\ slot.from \in 1 .. Len(text[s])
  BY <1>1
<1>3. text[s] \in Seq(Lines) /\ DOMAIN text[s] = 1 .. Len(text[s])
  BY <1>1, Known, LenProperties
<1>4. t \in Int
  <2>1. text[s][k] \in Lines
    BY <1>2, <1>3, ElementOfSeq
  <2> QED BY <2>1, LineTime
<1>5. Time(slot) = text[s][slot.from].ts
  BY DEF Time, First
<1>6. Time(least) < Time(slot) \/ (Time(least) = Time(slot) /\ least.source <= s)
  BY DEF Takes
<1>7. Time(slot) # Untimed
  BY <1>1, <1>6 DEF Untimed
<1>8. Time(slot) <= t
  <2>1. CASE slot.from = k
    BY <1>4, <1>5, <2>1
  <2>2. CASE slot.from < k
    <3>1. InOrder(s)
      BY <1>1
    <3> QED BY <1>2, <1>3, <1>5, <1>7, <2>2, <3>1 DEF InOrder
  <2> QED BY <1>1, <1>2, <2>1, <2>2
<1>9. Time(least) < t \/ (Time(least) = t /\ least.source <= s)
  <2> HIDE DEF s, t
  <2> QED BY <1>1, <1>4, <1>6, <1>8
<1> QED BY <1>9 DEF MayFollow

(* and the order of what was taken and what is left.                       *)
LEMMA AheadMore ==
  ASSUME Flow, Ahead, UNCHANGED text, NEW least, NEW after, Takes(least, after)
  PROVE  Ahead'
<1>0. PICK n \in Nat : n = Len(taken)
  BY LenProperties DEF Flow, Shape
<1>1. /\ least \in heap /\ least \in Rec /\ taken' = Append(taken, least) /\ taken \in Seq(Rec)
  BY Slots DEF Takes, Flow, Shape
<1>2. /\ Len(taken') = n + 1 /\ taken'[n + 1] = least
      /\ \A i \in 1 .. n : taken'[i] = taken[i]
      /\ \A i \in 1 .. n + 1 : i \in 1 .. n \/ i = n + 1
  BY <1>0, <1>1, OneMore
<1>3. (\A s \in Sources' : InOrder(s)') => \A s \in Sources : InOrder(s)
  BY DEF Sources, InOrder
<1>4. \A i : Time(taken[i])' = Time(taken'[i])
  BY DEF Time, First
<1>5. /\ least.from \in Nat /\ least.from <= Len(text[least.source])
      /\ Len(text[least.source]) \in Nat /\ Time(least) = text[least.source][least.from].ts
  BY <1>1, Slots DEF Rec, Time, First
<1>6. ASSUME \A s \in Sources : InOrder(s), NEW i \in 1 .. n + 1, Time(taken'[i]) # Untimed,
             NEW j \in 1 .. n + 1, i < j, Time(taken'[j]) # Untimed
      PROVE  MayFollow(taken'[i], taken'[j].source, taken'[j].from)
  <2>1. i \in 1 .. n /\ taken'[i] = taken[i]
    BY <1>2, <1>6
  <2>2. CASE j \in 1 .. n
    <3>1. taken'[j] = taken[j]
      BY <1>2, <2>2
    <3> QED BY <1>0, <1>6, <2>1, <2>2, <3>1 DEF Ahead
  <2>3. CASE j = n + 1
    <3>1. taken'[j] = least /\ least.from \in least.from .. Len(text[least.source])
      BY <1>2, <1>5, <2>3
    <3>2. text[least.source][least.from].ts # Untimed
      BY <1>5, <1>6, <3>1
    <3> QED BY <1>0, <1>1, <1>6, <2>1, <3>1, <3>2 DEF Ahead
  <2> QED BY <1>2, <2>2, <2>3
<1>7. ASSUME \A s \in Sources : InOrder(s), NEW i \in 1 .. n + 1, Time(taken'[i]) # Untimed,
             NEW slot \in heap', NEW k \in slot.from .. Len(text[slot.source]),
             text[slot.source][k].ts # Untimed
      PROVE  MayFollow(taken'[i], slot.source, k)
  <2>1. PICK was \in heap : was.source = slot.source /\ k \in was.from .. Len(text[was.source])
    <3>1. CASE slot \in heap
      BY <3>1
    <3>2. CASE slot = after
      <4>1. slot.source = least.source /\ slot.from = least.from + 1
        BY <3>2, Slots
      <4>2. k \in least.from .. Len(text[least.source])
        BY <1>5, <4>1
      <4> QED BY <1>1, <4>1, <4>2
    <3> QED BY <3>1, <3>2 DEF Takes
  <2>2. CASE i \in 1 .. n
    <3>1. taken'[i] = taken[i]
      BY <1>2, <2>2
    <3> QED BY <1>0, <1>7, <2>1, <2>2, <3>1 DEF Ahead
  <2>3. CASE i = n + 1
    <3>1. taken'[i] = least
      BY <1>2, <2>3
    <3> QED BY <1>7, <2>1, <3>1, LeastFirst
  <2> QED BY <1>2, <2>2, <2>3
<1>8. \A i, s, k : MayFollow(taken[i], s, k)' <=> MayFollow(taken'[i], s, k)
  BY <1>4 DEF MayFollow, Time, First
<1>9. \A i, j : MayFollow(taken[i], taken[j].source, taken[j].from)' <=>
                MayFollow(taken'[i], taken'[j].source, taken'[j].from)
  BY <1>4 DEF MayFollow, Time, First
<1>10. \A i : Time(taken'[i]) = Time(taken[i])'
  BY <1>4
<1> QED BY <1>2, <1>3, <1>6, <1>7, <1>8, <1>9, <1>10 DEF Ahead

(* Nothing is merged at first.                                             *)
LEMMA MergedInit == Init => Merged
<1> SUFFICES ASSUME Init PROVE Merged
  OBVIOUS
<1>1. taken = <<>> /\ heap = {}
  BY DEF Init
<1> QED BY <1>1, MergedAtFirst

(* Every step keeps a merge in order.                                      *)
LEMMA MergedStep == Flow /\ Merged /\ [Next]_vars => Merged'
<1> SUFFICES ASSUME Flow, Merged, [Next]_vars PROVE Merged'
  OBVIOUS
<1>1. CASE load # "merged"
  <2>1. load' = load
    BY DEF Next, FileNext, FileEnds, StreamNext, StreamEnds, Prime, MergeNext, MergeEnds,
           SecondPass, Live, Rest, vars, source
  <2> QED BY <1>1, <2>1 DEF Merged
<1>2. CASE load = "merged" /\ Prime
  <2>1. taken' = <<>> /\ \A slot \in heap' : \E s \in Sources : slot = Next1(s) /\ cursor[s] = 0
    BY <1>2 DEF Prime, index, Flow, Shape
  <2>2. \A slot \in heap' : slot.from = 1
    BY <2>1 DEF Next1
  <2>3. (Len(taken) = 0 /\ \A slot \in heap : slot.from = 1)' => Merged'
    BY MergedAtFirst, PTL
  <2> QED BY <2>1, <2>2, <2>3
<1>3. CASE load = "merged" /\ MergeNext
  <2>1. UNCHANGED <<load, format, text>>
    BY <1>3 DEF MergeNext, source
  <2>2. CASE format \notin {"csv", "regex"}
    <3>1. PICK least, after : Takes(least, after)
      BY <1>3, <2>2, MergeTakes
    <3>2. Behind /\ Ahead
      BY <1>3, <2>2 DEF Merged
    <3> QED BY <2>1, <3>1, <3>2, BehindMore, AheadMore DEF Merged
  <2>3. CASE format \in {"csv", "regex"}
    BY <2>1, <2>3 DEF Merged
  <2> QED BY <2>2, <2>3
<1>4. CASE load = "merged" /\ (MergeEnds \/ SecondPass \/ Rest \/ UNCHANGED vars)
  <2>1. UNCHANGED <<load, format, text, heap, taken>>
    BY <1>4 DEF MergeEnds, SecondPass, Rest, vars, source, index
  <2> QED BY <2>1, MergedKept
<1> QED BY <1>1, <1>2, <1>3, <1>4
        DEF Next, FileNext, FileEnds, StreamNext, StreamEnds, Live

(* MergeProducer: files in order merge in order, equal times by file, and  *)
(* a line without a time is behind the line before it, for any number of   *)
(* files.                                                                  *)
THEOREM AlwaysMergedInOrder == Spec => []MergedInOrder
<1>1. Flow /\ Arrays /\ Merged => MergedInOrder
  <2> SUFFICES ASSUME Flow, Arrays, Merged, load = "merged", format \notin {"csv", "regex"}
               PROVE  MergedInOrder
    BY DEF MergedInOrder
  <2>1. Behind /\ Ahead /\ DOMAIN taken = 1 .. Len(taken)
    BY LenProperties DEF Merged, Flow, Shape
  <2>2. ASSUME NEW i \in 1 .. Len(taken) PROVE ts[i] = Time(taken[i])
    BY DEF Arrays, TimeOf, Parsed, Time
  <2>3. \A i \in 1 .. Len(taken) : Time(taken[i]) = text[taken[i].source][taken[i].from].ts
    BY DEF Time, First
  <2>4. ASSUME NEW i \in 1 .. Len(taken), NEW j \in 1 .. Len(taken), i < j,
               ts[i] # Untimed, ts[j] # Untimed, \A s \in Sources : InOrder(s)
        PROVE  ts[i] < ts[j] \/ (ts[i] = ts[j] /\ taken[i].source <= taken[j].source)
    <3>1. MayFollow(taken[i], taken[j].source, taken[j].from)
      BY <2>1, <2>2, <2>4 DEF Ahead
    <3> QED BY <2>2, <2>3, <3>1 DEF MayFollow
  <2>5. ASSUME NEW i \in 1 .. Len(taken), ts[i] = Untimed, taken[i].from > 1
        PROVE  i > 1 /\ taken[i - 1] = LineBefore(taken[i])
    BY <2>1, <2>2, <2>5 DEF Behind
  <2> QED BY <2>1, <2>4, <2>5 DEF MergedInOrder, LineBefore
<1> QED BY FlowInit, FlowStep, ArraysInit, ArraysStep, MergedInit, MergedStep, <1>1, PTL DEF Spec

=============================================================================
