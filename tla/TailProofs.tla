----------------------------- MODULE TailProofs -----------------------------
(***************************************************************************)
(* The promises of follow mode.  Of its reader, for a log of any length,   *)
(* with any number of rotations of either kind, and a buffer of any size:  *)
(* nothing is read twice or out of order, only ends of generations are     *)
(* missed, and a record is a line.  Of the two phases of a journal that is *)
(* followed, at the end: for a worker of any pace and a channel of any     *)
(* size every entry lands once and in its order.                           *)
(***************************************************************************)
EXTENDS Tail, Follow, NaturalsInduction, SequenceTheorems, WellFoundedInduction, TLAPS

-----------------------------------------------------------------------------
(* A piece as the reader sees it. *)
Entry == [gen : Nat, at : Nat, eol : BOOLEAN]

(* The pieces of a text come one after the other; those of a text before   *)
(* those of another.                                                       *)
Rising(s) == \A i, j \in DOMAIN s : i < j => Before(s[i], s[j])
Precede(s, t) == \A i \in DOMAIN s, j \in DOMAIN t : Before(s[i], t[j])

(* What ReadInOrder says of records o, an unfinished line s and a buffer b, *)
(* each by itself.                                                         *)
Ordered(o, s, b) ==
  /\ \A k \in DOMAIN o : Rising(o[k]) /\ Precede(o[k], s) /\ Precede(o[k], b)
  /\ \A k, l \in DOMAIN o : k < l => Precede(o[k], o[l])
  /\ Rising(s) /\ Rising(b) /\ Precede(s, b)

(* The pieces in them. *)
PiecesOf(o) == UNION {ToSet(o[k]) : k \in DOMAIN o}
AllOf(o, s, b) == PiecesOf(o) \cup ToSet(s) \cup ToSet(b)

(* What it says of them as one sequence of texts.                          *)
OneByOne(T) ==
  \A k, l \in DOMAIN T : \A i \in DOMAIN T[k], j \in DOMAIN T[l] :
    k < l \/ (k = l /\ i < j) => Before(T[k][i], T[l][j])

(* No piece is there without the one before it, but the first of a         *)
(* generation and the very first.                                          *)
Gapless(S) ==
  \A p \in S :
    \/ p.at = 1
    \/ \E q \in S : q.gen = p.gen /\ q.at = p.at - 1
    \/ \A q \in S : q = p \/ Before(p, q)

(* The pieces of some texts.                                               *)
LEMMA InUnion ==
  ASSUME NEW o, NEW p
  PROVE  p \in UNION {ToSet(o[k]) : k \in DOMAIN o} <=> \E k \in DOMAIN o : p \in ToSet(o[k])
<1>1. ASSUME p \in UNION {ToSet(o[k]) : k \in DOMAIN o} PROVE \E k \in DOMAIN o : p \in ToSet(o[k])
  BY <1>1, Zenon
<1>2. ASSUME NEW k \in DOMAIN o, p \in ToSet(o[k]) PROVE p \in UNION {ToSet(o[l]) : l \in DOMAIN o}
  BY <1>2, Zenon
<1> QED BY <1>1, <1>2

(* The pieces in records, line and buffer.                                 *)
LEMMA InAllOf ==
  ASSUME NEW o, NEW s, NEW b, NEW p
  PROVE  p \in AllOf(o, s, b) <=>
           (\E k \in DOMAIN o : p \in ToSet(o[k])) \/ p \in ToSet(s) \/ p \in ToSet(b)
<1>1. p \in PiecesOf(o) <=> \E k \in DOMAIN o : p \in ToSet(o[k])
  BY InUnion, Zenon DEF PiecesOf
<1> QED BY <1>1 DEF AllOf

(* Records, line and buffer as one sequence of texts, as ReadInOrder has   *)
(* them.                                                                   *)
LEMMA TextsOf ==
  ASSUME NEW o \in Seq(Seq(Entry)), NEW s \in Seq(Entry), NEW b \in Seq(Entry),
         NEW T, T = o \o <<s, b>>
  PROVE  /\ DOMAIN T = 1 .. Len(o) + 2 /\ DOMAIN o = 1 .. Len(o) /\ Len(o) \in Nat
         /\ \A k \in DOMAIN o : T[k] = o[k]
         /\ T[Len(o) + 1] = s /\ T[Len(o) + 2] = b
<1> DEFINE e == <<s, b>>
<1>1. e \in Seq(Seq(Entry)) /\ Len(e) = 2 /\ e[1] = s /\ e[2] = b
  OBVIOUS
<1>2. T = o \o e
  OBVIOUS
<1> HIDE DEF e
<1> QED BY <1>1, <1>2

(* What ReadInOrder says of that sequence, said of the three by themselves. *)
LEMMA OrderOf ==
  ASSUME NEW o \in Seq(Seq(Entry)), NEW s \in Seq(Entry), NEW b \in Seq(Entry),
         NEW T, T = o \o <<s, b>>
  PROVE  /\ PiecesOf(T) = AllOf(o, s, b)
         /\ OneByOne(T) <=> Ordered(o, s, b)
<1> DEFINE n == Len(o)
           All == \A k, l \in DOMAIN T : \A i \in DOMAIN T[k], j \in DOMAIN T[l] :
                    k < l \/ (k = l /\ i < j) => Before(T[k][i], T[l][j])
<1>1. /\ DOMAIN T = 1 .. n + 2 /\ DOMAIN o = 1 .. n /\ n \in Nat
      /\ \A k \in DOMAIN o : T[k] = o[k]
      /\ T[n + 1] = s /\ T[n + 2] = b
  BY TextsOf
<1> HIDE DEF n
<1>2. \A k \in DOMAIN T : k \in DOMAIN o \/ k = n + 1 \/ k = n + 2
  <2>1. n \in Nat
    BY <1>1
  <2>2. \A k \in 1 .. n + 2 : k \in 1 .. n \/ k = n + 1 \/ k = n + 2
    BY <2>1
  <2> QED BY <1>1, <2>2
<1>3. DOMAIN o \subseteq DOMAIN T /\ n + 1 \in DOMAIN T /\ n + 2 \in DOMAIN T
  BY <1>1
<1>4. UNION {ToSet(T[k]) : k \in DOMAIN T} = AllOf(o, s, b)
  <2> DEFINE U == UNION {ToSet(T[k]) : k \in DOMAIN T}
  <2>1. \A p : p \in U <=> \E k \in DOMAIN T : p \in ToSet(T[k])
    BY InUnion
  <2> HIDE DEF U
  <2>2. ASSUME NEW p PROVE (\E k \in DOMAIN T : p \in ToSet(T[k])) <=> p \in AllOf(o, s, b)
    <3>1. p \in AllOf(o, s, b) <=>
            (\E k \in DOMAIN o : p \in ToSet(o[k])) \/ p \in ToSet(s) \/ p \in ToSet(b)
      BY InAllOf
    <3> QED BY <3>1, <1>1, <1>2, <1>3
  <2>3. U = AllOf(o, s, b)
    BY <2>1, <2>2
  <2> QED BY <2>3 DEF U
<1>5. ASSUME All PROVE Ordered(o, s, b)
  <2>1. ASSUME NEW k \in DOMAIN T PROVE Rising(T[k])
    BY <1>5 DEF Rising
  <2>2. ASSUME NEW k \in DOMAIN T, NEW l \in DOMAIN T, k < l PROVE Precede(T[k], T[l])
    BY <1>5, <2>2 DEF Precede
  <2> HIDE DEF All
  <2>3. \A k \in DOMAIN o : Rising(o[k])
    BY <2>1, <1>1, <1>3
  <2>4. \A k \in DOMAIN o : Precede(o[k], s) /\ Precede(o[k], b)
    <3>1. \A k \in DOMAIN o : k < n + 1 /\ k < n + 2
      BY <1>1
    <3> QED BY <2>2, <3>1, <1>1, <1>3
  <2>5. \A k, l \in DOMAIN o : k < l => Precede(o[k], o[l])
    BY <2>2, <1>1, <1>3
  <2>6. Rising(s) /\ Rising(b) /\ Precede(s, b)
    <3>1. n + 1 < n + 2
      BY <1>1
    <3> QED BY <2>1, <2>2, <3>1, <1>1, <1>3
  <2> QED BY <2>3, <2>4, <2>5, <2>6 DEF Ordered
<1>6. ASSUME Ordered(o, s, b) PROVE All
  <2>1. ASSUME NEW k \in DOMAIN T PROVE Rising(T[k])
    BY <1>6, <1>1, <1>2 DEF Ordered
  <2>2. ASSUME NEW k \in DOMAIN T, NEW l \in DOMAIN T, k < l PROVE Precede(T[k], T[l])
    <3>1. l = n + 2 => k \in DOMAIN o \/ k = n + 1
      BY <2>2, <1>1, <1>2
    <3>2. l = n + 1 => k \in DOMAIN o
      BY <2>2, <1>1, <1>2
    <3>3. l \in DOMAIN o => k \in DOMAIN o
      BY <2>2, <1>1, <1>2
    <3> QED BY <3>1, <3>2, <3>3, <1>6, <1>1, <1>2, <2>2 DEF Ordered
  <2>3. ASSUME NEW k \in DOMAIN T, NEW l \in DOMAIN T,
               NEW i \in DOMAIN T[k], NEW j \in DOMAIN T[l], k < l \/ (k = l /\ i < j)
        PROVE  Before(T[k][i], T[l][j])
    <3>1. CASE k < l
      BY <2>2, <3>1 DEF Precede
    <3>2. CASE k = l /\ i < j
      BY <2>1, <3>2 DEF Rising
    <3> QED BY <2>3, <3>1, <3>2
  <2> QED BY <2>3
<1> QED BY <1>4, <1>5, <1>6 DEF OneByOne, PiecesOf

(* A piece in a text is in all there is.                                   *)
LEMMA InAll ==
  ASSUME NEW o, NEW s, NEW b
  PROVE  /\ \A k \in DOMAIN o : \A i \in DOMAIN o[k] : o[k][i] \in AllOf(o, s, b)
         /\ \A i \in DOMAIN s : s[i] \in AllOf(o, s, b)
         /\ \A i \in DOMAIN b : b[i] \in AllOf(o, s, b)
         /\ \A p \in AllOf(o, s, b) :
              \/ \E k \in DOMAIN o : \E i \in DOMAIN o[k] : p = o[k][i]
              \/ \E i \in DOMAIN s : p = s[i]
              \/ \E i \in DOMAIN b : p = b[i]
<1>1. \A t, p : p \in ToSet(t) <=> \E i \in DOMAIN t : p = t[i]
  BY DEF ToSet
<1>2. \A p : p \in AllOf(o, s, b) <=>
            (\E k \in DOMAIN o : p \in ToSet(o[k])) \/ p \in ToSet(s) \/ p \in ToSet(b)
  BY InAllOf
<1> QED BY <1>1, <1>2

(* The pieces are entries.                                                 *)
LEMMA AllEntries ==
  ASSUME NEW o \in Seq(Seq(Entry)), NEW s \in Seq(Entry), NEW b \in Seq(Entry)
  PROVE  AllOf(o, s, b) \subseteq Entry
<1> SUFFICES ASSUME NEW p \in AllOf(o, s, b) PROVE p \in Entry
  OBVIOUS
<1>1. CASE \E k \in DOMAIN o : \E i \in DOMAIN o[k] : p = o[k][i]
  <2>1. PICK k \in DOMAIN o : \E i \in DOMAIN o[k] : p = o[k][i]
    BY <1>1
  <2>2. o[k] \in Seq(Entry)
    OBVIOUS
  <2> QED BY <2>1, <2>2
<1>2. CASE \E i \in DOMAIN s : p = s[i]
  BY <1>2
<1>3. CASE \E i \in DOMAIN b : p = b[i]
  BY <1>3
<1> QED BY <1>1, <1>2, <1>3, InAll

(* What is read after everything else goes to the end.                     *)
LEMMA FilledOrdered ==
  ASSUME NEW o \in Seq(Seq(Entry)), NEW s \in Seq(Entry), NEW x \in Seq(Entry),
         Ordered(o, s, <<>>), Rising(x),
         \A p \in AllOf(o, s, <<>>) : \A i \in DOMAIN x : Before(p, x[i])
  PROVE  Ordered(o, s, x) /\ AllOf(o, s, x) = AllOf(o, s, <<>>) \cup ToSet(x)
<1>1. \A k \in DOMAIN o : Precede(o[k], x)
  BY InAll DEF Precede
<1>2. Precede(s, x)
  BY InAll DEF Precede
<1>3. Ordered(o, s, x)
  BY <1>1, <1>2 DEF Ordered
<1>4. ToSet(<<>>) = {}
  BY DEF ToSet
<1>5. AllOf(o, s, x) = AllOf(o, s, <<>>) \cup ToSet(x)
  <2>1. ASSUME NEW p PROVE p \in AllOf(o, s, x) <=> p \in AllOf(o, s, <<>>) \/ p \in ToSet(x)
    <3>1. p \in AllOf(o, s, x) <=>
            (\E k \in DOMAIN o : p \in ToSet(o[k])) \/ p \in ToSet(s) \/ p \in ToSet(x)
      BY InAllOf
    <3>2. p \in AllOf(o, s, <<>>) <=>
            (\E k \in DOMAIN o : p \in ToSet(o[k])) \/ p \in ToSet(s) \/ p \in ToSet(<<>>)
      BY InAllOf
    <3> QED BY <3>1, <3>2, <1>4
  <2> QED BY <2>1
<1> QED BY <1>3, <1>5

(* The first n of z pieces of a buffer are at the end of a line, the others *)
(* left.                                                                   *)
Moved(s, b, line, rest, m, n, z) ==
  /\ m \in Nat /\ n \in Nat /\ z \in Nat /\ n <= z
  /\ DOMAIN s = 1 .. m /\ DOMAIN b = 1 .. z
  /\ DOMAIN line = 1 .. m + n /\ DOMAIN rest = 1 .. z - n
  /\ \A i \in 1 .. m : line[i] = s[i]
  /\ \A i \in 1 .. n : line[m + i] = b[i]
  /\ \A i \in 1 .. z - n : rest[i] = b[n + i]

(* Neither the order nor the pieces change.                                *)
LEMMA MovedOrdered ==
  ASSUME NEW o, NEW s, NEW b, NEW line, NEW rest, NEW m, NEW n, NEW z,
         Moved(s, b, line, rest, m, n, z), Ordered(o, s, b)
  PROVE  Ordered(o, line, rest) /\ AllOf(o, line, rest) = AllOf(o, s, b)
<1> USE DEF Moved
<1>7. \A i \in DOMAIN line : (i \in DOMAIN s /\ line[i] = s[i])
                             \/ (i > m /\ i - m \in DOMAIN b /\ i - m <= n /\ line[i] = b[i - m])
  <2> SUFFICES ASSUME NEW i \in 1 .. m + n
               PROVE  (i \in 1 .. m /\ line[i] = s[i])
                        \/ (i > m /\ i - m \in 1 .. n /\ line[i] = b[i - m])
    OBVIOUS
  <2>1. CASE i <= m
    BY <2>1
  <2>2. CASE i > m
    <3>1. i - m \in 1 .. n /\ m + (i - m) = i
      BY <2>2
    <3> QED BY <3>1, <2>2
  <2> QED BY <2>1, <2>2
<1>8. \A i \in DOMAIN rest : n + i \in DOMAIN b /\ rest[i] = b[n + i]
  OBVIOUS
<1>9. Rising(line)
  <2> SUFFICES ASSUME NEW i \in DOMAIN line, NEW j \in DOMAIN line, i < j
               PROVE  Before(line[i], line[j])
    BY DEF Rising
  <2>1. i \in Int /\ j \in Int /\ m \in Nat
    OBVIOUS
  <2>2. CASE j \in DOMAIN s /\ line[j] = s[j]
    <3>1. i \in DOMAIN s /\ line[i] = s[i]
      BY <2>1, <2>2, <1>7
    <3> QED BY <2>2, <3>1 DEF Ordered, Rising
  <2>3. CASE j > m /\ j - m \in DOMAIN b /\ line[j] = b[j - m]
    <3>1. CASE i \in DOMAIN s /\ line[i] = s[i]
      BY <2>3, <3>1 DEF Ordered, Precede
    <3>2. CASE i > m /\ i - m \in DOMAIN b /\ line[i] = b[i - m]
      <4>1. i - m < j - m
        BY <2>1
      <4> QED BY <2>3, <3>2, <4>1 DEF Ordered, Rising
    <3> QED BY <3>1, <3>2, <1>7
  <2> QED BY <2>2, <2>3, <1>7
<1>10. Rising(rest)
  <2> SUFFICES ASSUME NEW i \in DOMAIN rest, NEW j \in DOMAIN rest, i < j
               PROVE  Before(rest[i], rest[j])
    BY DEF Rising
  <2>1. n + i < n + j
    OBVIOUS
  <2> QED BY <2>1, <1>8 DEF Ordered, Rising
<1>11. Precede(line, rest)
  <2> SUFFICES ASSUME NEW i \in DOMAIN line, NEW j \in DOMAIN rest
               PROVE  Before(line[i], rest[j])
    BY DEF Precede
  <2>1. CASE i \in DOMAIN s /\ line[i] = s[i]
    BY <2>1, <1>8 DEF Ordered, Precede
  <2>2. CASE i - m \in DOMAIN b /\ i - m <= n /\ line[i] = b[i - m]
    <3>1. i - m < n + j
      BY <2>2
    <3> QED BY <2>2, <3>1, <1>8 DEF Ordered, Rising
  <2> QED BY <2>1, <2>2, <1>7
<1>12. \A k \in DOMAIN o : Precede(o[k], line) /\ Precede(o[k], rest)
  <2> TAKE k \in DOMAIN o
  <2>1. Precede(o[k], line)
    BY <1>7 DEF Ordered, Precede
  <2>2. Precede(o[k], rest)
    BY <1>8 DEF Ordered, Precede
  <2> QED BY <2>1, <2>2
<1>13. Ordered(o, line, rest)
  BY <1>9, <1>10, <1>11, <1>12 DEF Ordered
<1>14. ToSet(line) \cup ToSet(rest) = ToSet(s) \cup ToSet(b)
  <2>1. ASSUME NEW i \in DOMAIN line PROVE line[i] \in ToSet(s) \cup ToSet(b)
    BY <1>7 DEF ToSet
  <2>2. ASSUME NEW i \in DOMAIN rest PROVE rest[i] \in ToSet(b)
    BY <1>8 DEF ToSet
  <2>3. ASSUME NEW i \in DOMAIN s PROVE s[i] \in ToSet(line)
    <3>1. i \in DOMAIN line /\ line[i] = s[i]
      OBVIOUS
    <3> QED BY <3>1 DEF ToSet
  <2>4. ASSUME NEW i \in DOMAIN b PROVE b[i] \in ToSet(line) \cup ToSet(rest)
    <3>1. CASE i <= n
      <4>1. i \in 1 .. n /\ m + i \in DOMAIN line
        BY <3>1
      <4>2. line[m + i] = b[i]
        BY <4>1
      <4> QED BY <4>1, <4>2 DEF ToSet
    <3>2. CASE i > n
      <4>1. i - n \in DOMAIN rest /\ n + (i - n) = i
        <5>1. i \in 1 .. z
          OBVIOUS
        <5> QED BY <5>1, <3>2
      <4>2. rest[i - n] = b[i]
        BY <4>1, <1>8
      <4> QED BY <4>1, <4>2 DEF ToSet
    <3> QED BY <3>1, <3>2
  <2>5. \A t, p : p \in ToSet(t) <=> \E i \in DOMAIN t : p = t[i]
    BY DEF ToSet
  <2>6. ASSUME NEW p PROVE p \in ToSet(line) \cup ToSet(rest) <=> p \in ToSet(s) \cup ToSet(b)
    <3>1. p \in ToSet(line) => p \in ToSet(s) \cup ToSet(b)
      BY <2>1, <2>5
    <3>2. p \in ToSet(rest) => p \in ToSet(b)
      BY <2>2, <2>5
    <3>3. p \in ToSet(s) => p \in ToSet(line)
      BY <2>3, <2>5
    <3>4. p \in ToSet(b) => p \in ToSet(line) \cup ToSet(rest)
      <4>1. ASSUME NEW i \in DOMAIN b, p = b[i] PROVE p \in ToSet(line) \cup ToSet(rest)
        BY <4>1, <2>4
      <4> QED BY <4>1, <2>5
    <3> QED BY <3>1, <3>2, <3>3, <3>4
  <2> QED BY <2>6
<1>15. AllOf(o, line, rest) = AllOf(o, s, b)
  BY <1>14 DEF AllOf
<1> QED BY <1>13, <1>15

(* What is so when read_until() has taken n pieces.                        *)
Taken(o, s, b, n, line, rest) ==
  /\ line \in Seq(Entry) /\ rest \in Seq(Entry)
  /\ Len(line) = Len(s) + n /\ Len(rest) = Len(b) - n
  /\ \A i \in 1 .. Len(s) : line[i] = s[i]
  /\ \A i \in 1 .. n : line[Len(s) + i] = b[i]
  /\ Ordered(o, s, b) => Ordered(o, line, rest) /\ AllOf(o, line, rest) = AllOf(o, s, b)

(* The beginning of the buffer goes to the line being read.                *)
LEMMA TakenOrdered ==
  ASSUME NEW o \in Seq(Seq(Entry)), NEW s \in Seq(Entry), NEW b \in Seq(Entry),
         NEW n \in 1 .. Len(b),
         NEW line, line = s \o SubSeq(b, 1, n), NEW rest, rest = SubSeq(b, n + 1, Len(b))
  PROVE  Taken(o, s, b, n, line, rest)
<1> DEFINE m == Len(s)
           h == SubSeq(b, 1, n)
<1>1. m \in Nat /\ n \in Nat /\ Len(b) \in Nat /\ n <= Len(b) /\ 1 <= n
  OBVIOUS
<1>2. h \in Seq(Entry) /\ Len(h) = n /\ \A i \in 1 .. n : h[i] = b[i]
  BY <1>1
<1>3. /\ rest \in Seq(Entry) /\ Len(rest) = Len(b) - n
      /\ \A i \in 1 .. Len(b) - n : rest[i] = b[n + i]
  <2>1. n + 1 \in 1 .. Len(b) + 1
    BY <1>1
  <2>2. rest \in Seq(Entry)
    BY <2>1
  <2>3. Len(rest) = Len(b) - n
    BY <1>1
  <2>4. \A i \in 1 .. Len(b) - n : rest[i] = b[n + 1 + i - 1]
    BY <1>1
  <2> QED BY <2>2, <2>3, <2>4
<1>4. line = s \o h
  OBVIOUS
<1> HIDE DEF h
<1>5. /\ line \in Seq(Entry) /\ Len(line) = m + n
      /\ \A i \in 1 .. m : line[i] = s[i]
      /\ \A i \in 1 .. n : line[m + i] = b[i]
  <2>1. line \in Seq(Entry) /\ Len(line) = m + n
    BY <1>1, <1>2, <1>4
  <2>2. \A i \in 1 .. m : line[i] = s[i]
    BY <1>1, <1>2, <1>4
  <2>3. \A i \in 1 .. n : line[m + i] = h[i]
    BY <1>1, <1>2, <1>4
  <2> QED BY <2>1, <2>2, <2>3, <1>2
<1>6. DOMAIN line = 1 .. m + n /\ DOMAIN rest = 1 .. Len(b) - n /\ DOMAIN s = 1 .. m /\ DOMAIN b = 1 .. Len(b)
  BY <1>3, <1>5
<1> DEFINE z == Len(b)
<1>7. m \in Nat /\ n \in Nat /\ z \in Nat /\ n <= z
  BY <1>1
<1>8. DOMAIN s = 1 .. m /\ DOMAIN b = 1 .. z /\ DOMAIN line = 1 .. m + n /\ DOMAIN rest = 1 .. z - n
  BY <1>6
<1>9. /\ \A i \in 1 .. m : line[i] = s[i]
      /\ \A i \in 1 .. n : line[m + i] = b[i]
      /\ \A i \in 1 .. z - n : rest[i] = b[n + i]
  BY <1>3, <1>5
<1> HIDE DEF m, z
<1>10. Ordered(o, s, b) => Ordered(o, line, rest) /\ AllOf(o, line, rest) = AllOf(o, s, b)
  <2>1. Moved(s, b, line, rest, m, n, z)
    BY <1>7, <1>8, <1>9 DEF Moved
  <2> QED BY <2>1, MovedOrdered
<1> QED BY <1>3, <1>5, <1>10 DEF m, Taken

(* The line becomes a record.                                              *)
LEMMA AppendedOrdered ==
  ASSUME NEW o \in Seq(Seq(Entry)), NEW s \in Seq(Entry), NEW b \in Seq(Entry),
         Ordered(o, s, b)
  PROVE  Ordered(Append(o, s), <<>>, b) /\ AllOf(Append(o, s), <<>>, b) = AllOf(o, s, b)
<1> DEFINE n == Len(o)
           t == Append(o, s)
<1>1. /\ n \in Nat /\ DOMAIN o = 1 .. n /\ DOMAIN t = 1 .. n + 1
      /\ \A k \in DOMAIN o : t[k] = o[k]
      /\ t[n + 1] = s
  OBVIOUS
<1> HIDE DEF n, t
<1>2. \A k \in DOMAIN t : k \in DOMAIN o \/ k = n + 1
  BY <1>1
<1>3. \A k \in DOMAIN t : Rising(t[k]) /\ Precede(t[k], <<>>) /\ Precede(t[k], b)
  <2>1. \A u : Precede(u, <<>>)
    BY DEF Precede
  <2> QED BY <2>1, <1>1, <1>2 DEF Ordered
<1>4. \A k, l \in DOMAIN t : k < l => Precede(t[k], t[l])
  <2> SUFFICES ASSUME NEW k \in DOMAIN t, NEW l \in DOMAIN t, k < l PROVE Precede(t[k], t[l])
    OBVIOUS
  <2>1. k \in DOMAIN o
    BY <1>1
  <2> QED BY <2>1, <1>1, <1>2 DEF Ordered
<1>5. Rising(<<>>) /\ Rising(b) /\ Precede(<<>>, b)
  BY DEF Ordered, Rising, Precede
<1>6. Ordered(t, <<>>, b)
  BY <1>3, <1>4, <1>5 DEF Ordered
<1>7. AllOf(t, <<>>, b) = AllOf(o, s, b)
  <2>1. ToSet(<<>>) = {}
    BY DEF ToSet
  <2>2. DOMAIN o \subseteq DOMAIN t /\ n + 1 \in DOMAIN t
    BY <1>1
  <2>3. ASSUME NEW p PROVE p \in AllOf(t, <<>>, b) <=> p \in AllOf(o, s, b)
    <3>1. p \in AllOf(o, s, b) <=>
            (\E k \in DOMAIN o : p \in ToSet(o[k])) \/ p \in ToSet(s) \/ p \in ToSet(b)
      BY InAllOf
    <3>2. p \in AllOf(t, <<>>, b) <=>
            (\E k \in DOMAIN t : p \in ToSet(t[k])) \/ p \in ToSet(<<>>) \/ p \in ToSet(b)
      BY InAllOf
    <3> QED BY <3>1, <3>2, <2>1, <2>2, <1>1, <1>2
  <2> QED BY <2>3
<1> QED BY <1>6, <1>7 DEF t

-----------------------------------------------------------------------------
(* What the variables hold. *)
Typed ==
  /\ gens \in Seq(Seq(BOOLEAN)) /\ files \in Seq(1 .. Len(gens))
  /\ path \in 0 .. Len(files) /\ writer \in 1 .. Len(files) /\ fd \in 1 .. Len(files)
  /\ offset \in Nat /\ read_pos \in Nat
  /\ buf \in Seq(Entry) /\ scratch \in Seq(Entry) /\ out \in Seq(Seq(Entry))
  /\ stop \in BOOLEAN

(* The lengths are numbers. *)
LEMMA Lengths ==
  ASSUME Typed
  PROVE  /\ Len(gens) \in Nat
         /\ Len(files) \in Nat /\ DOMAIN files = 1 .. Len(files)
         /\ Len(buf) \in Nat /\ DOMAIN buf = 1 .. Len(buf)
         /\ Len(scratch) \in Nat
<1>1. gens \in Seq(Seq(BOOLEAN)) /\ files \in Seq(1 .. Len(gens))
      /\ buf \in Seq(Entry) /\ scratch \in Seq(Entry)
  BY DEF Typed
<1>2. Len(gens) \in Nat
  BY <1>1, LenProperties
<1>3. Len(files) \in Nat /\ DOMAIN files = 1 .. Len(files)
  BY <1>1, LenProperties
<1>4. Len(buf) \in Nat /\ DOMAIN buf = 1 .. Len(buf) /\ Len(scratch) \in Nat
  BY <1>1, LenProperties
<1> QED BY <1>2, <1>3, <1>4

(* At first there is one file with at most one piece.                      *)
LEMMA TypedInit == Init => Typed
<1> SUFFICES ASSUME Init PROVE Typed
  OBVIOUS
<1>1. PICK c \in {<<>>, <<TRUE>>, <<FALSE>>} : gens = <<c>>
  BY DEF Init
<1>2. c \in Seq(BOOLEAN) /\ Len(c) \in Nat
  <2>1. CASE c = <<>>
    BY <2>1
  <2>2. CASE c = <<TRUE>>
    BY <2>2
  <2>3. CASE c = <<FALSE>>
    BY <2>3
  <2> QED BY <2>1, <2>2, <2>3
<1>3. gens \in Seq(Seq(BOOLEAN)) /\ Len(gens) = 1 /\ gens[1] = c
  BY <1>1, <1>2
<1>4. files = <<1>> /\ path = 1 /\ writer = 1 /\ fd = 1 /\ stop = FALSE
  BY DEF Init
<1>5. files \in Seq(1 .. Len(gens)) /\ Len(files) = 1
  BY <1>3, <1>4
<1>6. offset \in Nat /\ read_pos \in Nat
  BY <1>2, <1>3 DEF Init
<1>7. buf = <<>> /\ scratch = <<>> /\ out = <<>>
  BY DEF Init
<1>8. path \in 0 .. Len(files) /\ writer \in 1 .. Len(files) /\ fd \in 1 .. Len(files) /\ stop \in BOOLEAN
  <2>1. path = 1 /\ writer = 1 /\ fd = 1
    BY <1>4
  <2>2. Len(files) = 1
    BY <1>5
  <2>3. path \in 0 .. Len(files) /\ writer \in 1 .. Len(files) /\ fd \in 1 .. Len(files)
    BY <2>1, <2>2
  <2>4. stop \in BOOLEAN
    BY <1>4
  <2> QED BY <2>3, <2>4
<1>9. buf \in Seq(Entry) /\ scratch \in Seq(Entry) /\ out \in Seq(Seq(Entry))
  BY <1>7
<1> QED BY <1>3, <1>5, <1>6, <1>8, <1>9 DEF Typed

(* What a read returns: the next pieces of the reader's generation.        *)
LEMMA AvailableIs ==
  ASSUME Typed
  PROVE  /\ files[fd] \in 1 .. Len(gens) /\ Size(fd) \in Nat
         /\ Available \in Seq(Entry)
         /\ Available = <<>> <=> offset >= Size(fd)
         /\ Available # <<>> => offset + Len(Available) <= Size(fd)
         /\ \A i \in DOMAIN Available : Available[i].gen = files[fd] /\ Available[i].at = offset + i
<1> DEFINE g == files[fd]
           z == Len(gens[g])
           last == IF offset + BufCap < z THEN offset + BufCap ELSE z
<1>1. g \in 1 .. Len(gens) /\ gens[g] \in Seq(BOOLEAN) /\ z \in Nat /\ Size(fd) = z
  <2>1. gens \in Seq(Seq(BOOLEAN)) /\ files \in Seq(1 .. Len(gens)) /\ fd \in 1 .. Len(files)
    BY DEF Typed
  <2>2. g \in 1 .. Len(gens)
    BY <2>1
  <2>3. gens[g] \in Seq(BOOLEAN)
    BY <2>1, <2>2
  <2> QED BY <2>2, <2>3 DEF Size
<1>2. BufCap \in Nat /\ BufCap > 0 /\ offset \in Nat
  BY TailAssumption DEF Typed
<1>3. last \in Nat /\ last <= z /\ (last - offset > 0 <=> offset < z)
  BY <1>1, <1>2
<1>4. \A i \in 1 .. z : gens[g][i] \in BOOLEAN
  BY <1>1
<1>5. Available = [i \in 1 .. last - (offset + 1) + 1 |-> Piece(g, offset + 1 + i - 1)]
  BY DEF Available, Pieces
<1>6. Len(gens) \in Nat
  BY DEF Typed
<1> HIDE DEF g, z, last
<1> DEFINE k == last - offset
<1>7. Available = [i \in 1 .. k |-> Piece(g, offset + i)]
  <2>1. last - (offset + 1) + 1 = k /\ \A i \in 1 .. k : offset + 1 + i - 1 = offset + i
    BY <1>2, <1>3
  <2> QED BY <1>5, <2>1
<1>8. \A i \in 1 .. k : Piece(g, offset + i) \in Entry
  <2> TAKE i \in 1 .. k
  <2>1. offset + i \in 1 .. z /\ offset + i \in Nat /\ g \in Nat
    BY <1>1, <1>2, <1>3, <1>6
  <2> QED BY <2>1, <1>4 DEF Piece, Entry
<1>9. k \in Int /\ (k > 0 <=> offset < z) /\ (k > 0 => offset + k <= z)
  BY <1>1, <1>2, <1>3
<1> HIDE DEF k
<1>10. CASE k > 0
  <2>1. Available \in Seq(Entry) /\ Len(Available) = k /\ DOMAIN Available = 1 .. k
    BY <1>7, <1>8, <1>9, <1>10
  <2>2. \A i \in 1 .. k : Available[i] = Piece(g, offset + i)
    BY <1>7
  <2>3. Available # <<>>
    BY <2>1, <1>10, <1>9
  <2>4. \A i \in 1 .. k : Available[i].gen = g /\ Available[i].at = offset + i
    <3> TAKE i \in 1 .. k
    <3>1. Available[i] = [gen |-> g, at |-> offset + i, eol |-> gens[g][offset + i]]
      BY <2>2 DEF Piece
    <3> QED BY <3>1
  <2>5. ~(offset >= z)
    BY <1>1, <1>2, <1>9, <1>10
  <2> QED BY <2>1, <2>3, <2>4, <2>5, <1>1, <1>9, <1>10 DEF g
<1>11. CASE ~(k > 0)
  <2>1. 1 .. k = {}
    BY <1>9, <1>11
  <2>2. Available = <<>>
    BY <1>7, <2>1
  <2>3. offset >= z
    BY <1>1, <1>2, <1>9, <1>11
  <2> QED BY <2>2, <2>3, <1>1 DEF g
<1> QED BY <1>10, <1>11

(* How much of the buffer read_until() takes.                              *)
Ends == {i \in DOMAIN buf : buf[i].eol}
Upto == IF Ends = {} THEN Len(buf) ELSE CHOOSE i \in Ends : \A j \in Ends : i <= j

(* It takes up to the first end of a line, or all of it.                   *)
LEMMA UptoIs ==
  ASSUME Typed, buf # <<>>
  PROVE  /\ Upto \in 1 .. Len(buf)
         /\ \A i \in 1 .. Upto - 1 : ~buf[i].eol
         /\ Ends = {} => Upto = Len(buf) /\ \A i \in DOMAIN buf : ~buf[i].eol
         /\ Ends # {} => buf[Upto].eol
<1>1. buf \in Seq(Entry) /\ Len(buf) \in Nat /\ Len(buf) >= 1 /\ DOMAIN buf = 1 .. Len(buf)
  <2>1. buf \in Seq(Entry)
    BY DEF Typed
  <2>2. Len(buf) \in Nat \ {0}
    BY <2>1, EmptySeq
  <2> QED BY <2>1, <2>2, Lengths
<1>2. CASE Ends = {}
  <2>1. \A i \in DOMAIN buf : ~buf[i].eol
    BY <1>2 DEF Ends
  <2>2. Upto = Len(buf)
    BY <1>2 DEF Upto
  <2> QED BY <2>1, <2>2, <1>1, <1>2
<1>3. CASE Ends # {}
  <2> DEFINE R == OpToRel(<, Nat)
  <2>1. IsWellFoundedOn(R, Nat)
    BY NatLessThanWellFounded
  <2>2. \A x, y \in Nat : x < y => <<x, y>> \in R
    BY DEF OpToRel
  <2> HIDE DEF R
  <2>3. Ends \subseteq 1 .. Len(buf) /\ Ends \subseteq Nat
    BY <1>1 DEF Ends
  <2>4. PICK x \in Ends : \A y \in Ends : ~(<<y, x>> \in R)
    BY <2>1, <2>3, <1>3, WFMin, Zenon
  <2>5. \A y \in Ends : x <= y
    <3> TAKE y \in Ends
    <3>1. x \in Nat /\ y \in Nat
      BY <2>3
    <3>2. ~(y < x)
      BY <2>2, <2>4, <3>1
    <3> QED BY <3>1, <3>2
  <2>6. Upto \in Ends /\ \A y \in Ends : Upto <= y
    BY <1>3, <2>5 DEF Upto
  <2>7. Upto \in 1 .. Len(buf) /\ buf[Upto].eol
    BY <2>3, <2>6 DEF Ends
  <2>8. ASSUME NEW i \in 1 .. Upto - 1 PROVE ~buf[i].eol
    <3>1. i \in DOMAIN buf /\ ~(Upto <= i)
      BY <2>7, <1>1
    <3> QED BY <3>1, <2>6 DEF Ends
  <2> QED BY <2>7, <2>8, <1>3
<1> QED BY <1>2, <1>3

(* read_until(): the line so far, and the rest of the buffer.              *)
Line == scratch \o SubSeq(buf, 1, Upto)
Rest == SubSeq(buf, Upto + 1, Len(buf))

(* What read_until() does, in these terms.                                 *)
LEMMA ConsumeIs ==
  ASSUME Typed, Consume
  PROVE  /\ pc = "fill" /\ buf # <<>> /\ Upto \in 1 .. Len(buf)
         /\ buf' = Rest /\ Rest \in Seq(Entry) /\ Line \in Seq(Entry)
         /\ Len(Line) = Len(scratch) + Upto /\ Len(Rest) = Len(buf) - Upto
         /\ \A i \in 1 .. Len(scratch) : Line[i] = scratch[i]
         /\ \A i \in 1 .. Upto : Line[Len(scratch) + i] = buf[i]
         /\ read_pos' = read_pos + Upto
         /\ Ends = {} => scratch' = Line /\ out' = out
         /\ Ends # {} => scratch' = <<>> /\ out' = Append(out, Line)
         /\ UNCHANGED <<disk, fd, offset, inode, pc, stop>>
         /\ Ordered(out, scratch, buf) =>
              Ordered(out, Line, Rest) /\ AllOf(out, Line, Rest) = AllOf(out, scratch, buf)
<1>1. /\ pc = "fill" /\ buf # <<>>
      /\ buf' = Rest /\ read_pos' = read_pos + Upto
      /\ Ends = {} => scratch' = Line /\ out' = out
      /\ Ends # {} => scratch' = <<>> /\ out' = Append(out, Line)
      /\ UNCHANGED <<disk, fd, offset, inode, pc, stop>>
  BY DEF Consume, Line, Rest, Upto, Ends
<1>2. Upto \in 1 .. Len(buf)
  BY <1>1, UptoIs
<1>3. buf \in Seq(Entry) /\ scratch \in Seq(Entry) /\ out \in Seq(Seq(Entry))
  BY DEF Typed
<1>4. /\ Line \in Seq(Entry) /\ Rest \in Seq(Entry)
      /\ Len(Line) = Len(scratch) + Upto /\ Len(Rest) = Len(buf) - Upto
      /\ \A i \in 1 .. Len(scratch) : Line[i] = scratch[i]
      /\ \A i \in 1 .. Upto : Line[Len(scratch) + i] = buf[i]
      /\ Ordered(out, scratch, buf) =>
           Ordered(out, Line, Rest) /\ AllOf(out, Line, Rest) = AllOf(out, scratch, buf)
  <2>1. Line = scratch \o SubSeq(buf, 1, Upto) /\ Rest = SubSeq(buf, Upto + 1, Len(buf))
    BY DEF Line, Rest
  <2> HIDE DEF Line, Rest, Upto
  <2>2. Taken(out, scratch, buf, Upto, Line, Rest)
    BY <2>1, <1>2, <1>3, TakenOrdered
  <2> QED BY <2>2 DEF Taken
<1>5. /\ buf' = Rest /\ Rest \in Seq(Entry) /\ Line \in Seq(Entry)
      /\ Len(Line) = Len(scratch) + Upto /\ Len(Rest) = Len(buf) - Upto
  BY <1>1, <1>4
<1> QED BY <1>1, <1>2, <1>4, <1>5, Zenon

(* Whoever acts, the variables keep their kinds.                           *)
LEMMA TypedStep == Typed /\ [Next]_vars => Typed'
<1> SUFFICES ASSUME Typed, [Next]_vars PROVE Typed'
  OBVIOUS
<1>0. /\ gens \in Seq(Seq(BOOLEAN)) /\ files \in Seq(1 .. Len(gens))
      /\ path \in 0 .. Len(files) /\ writer \in 1 .. Len(files) /\ fd \in 1 .. Len(files)
      /\ offset \in Nat /\ read_pos \in Nat
      /\ buf \in Seq(Entry) /\ scratch \in Seq(Entry) /\ out \in Seq(Seq(Entry))
      /\ stop \in BOOLEAN /\ Len(gens) \in Nat /\ Len(files) \in Nat
  BY Lengths DEF Typed
<1>1. CASE \E eol \in BOOLEAN : Write(eol)
  <2>1. PICK eol \in BOOLEAN : Write(eol)
    BY <1>1
  <2> DEFINE g == files[writer]
  <2>2. gens' = [gens EXCEPT ![g] = Append(@, eol)]
    BY <2>1 DEF Write
  <2>3. g \in 1 .. Len(gens)
    <3>1. files \in Seq(1 .. Len(gens)) /\ writer \in 1 .. Len(files)
      BY <1>0
    <3> QED BY <3>1, ElementOfSeq
  <2>4. gens[g] \in Seq(BOOLEAN)
    <3> HIDE DEF g
    <3> QED BY <1>0, <2>3, ElementOfSeq
  <2>5. Append(gens[g], eol) \in Seq(BOOLEAN)
    <3> HIDE DEF g
    <3> QED BY <2>4, AppendProperties
  <2> HIDE DEF g
  <2>6. gens' \in Seq(Seq(BOOLEAN)) /\ Len(gens') = Len(gens)
    BY <1>0, <2>2, <2>3, <2>5
  <2>7. UNCHANGED <<files, path, writer, fd, offset, read_pos, buf, scratch, out, stop>>
    BY <2>1 DEF Write, cursor
  <2> QED BY <1>0, <2>6, <2>7 DEF Typed
<1>2. CASE Rename
  <2>1. path' = 0 /\ UNCHANGED <<gens, files, writer, fd, offset, read_pos, buf, scratch, out, stop>>
    BY <1>2 DEF Rename, cursor, Missing
  <2> QED BY <1>0, <2>1 DEF Typed
<1>3. CASE Create
  <2>1. /\ gens' = Append(gens, <<>>) /\ files' = Append(files, Len(gens) + 1) /\ path' = Len(files) + 1
        /\ UNCHANGED <<writer, fd, offset, read_pos, buf, scratch, out, stop>>
    BY <1>3 DEF Create, cursor
  <2>2. gens' \in Seq(Seq(BOOLEAN)) /\ Len(gens') = Len(gens) + 1
    BY <1>0, <2>1
  <2>3. files \in Seq(1 .. Len(gens) + 1)
    BY <1>0
  <2>4. files' \in Seq(1 .. Len(gens')) /\ Len(files') = Len(files) + 1
    BY <1>0, <2>1, <2>2, <2>3
  <2>5. /\ path' \in 0 .. Len(files') /\ writer' \in 1 .. Len(files') /\ fd' \in 1 .. Len(files')
    <3>1. path' = Len(files) + 1 /\ writer' = writer /\ fd' = fd
      BY <2>1
    <3>2. Len(files') = Len(files) + 1
      BY <2>4
    <3>3. Len(files) \in Nat /\ writer \in 1 .. Len(files) /\ fd \in 1 .. Len(files)
      BY <1>0
    <3> QED BY <3>1, <3>2, <3>3
  <2>6. UNCHANGED <<offset, read_pos, buf, scratch, out, stop>>
    BY <2>1
  <2> QED BY <1>0, <2>2, <2>4, <2>5, <2>6 DEF Typed
<1>4. CASE Reopen
  <2>1. writer' = path /\ path # 0 /\ UNCHANGED <<gens, files, path, fd, offset, read_pos, buf, scratch, out, stop>>
    BY <1>4 DEF Reopen, cursor, Missing
  <2> QED BY <1>0, <2>1 DEF Typed
<1>5. CASE Truncate
  <2>1. /\ gens' = Append(gens, <<>>) /\ files' = [files EXCEPT ![writer] = Len(gens) + 1]
        /\ UNCHANGED <<path, writer, fd, offset, read_pos, buf, scratch, out, stop>>
    BY <1>5 DEF Truncate, cursor
  <2>2. gens' \in Seq(Seq(BOOLEAN)) /\ Len(gens') = Len(gens) + 1
    BY <1>0, <2>1
  <2>3. files \in Seq(1 .. Len(gens) + 1)
    BY <1>0
  <2>4. files' \in Seq(1 .. Len(gens')) /\ Len(files') = Len(files)
    BY <1>0, <2>1, <2>2, <2>3
  <2> QED BY <1>0, <2>1, <2>2, <2>4 DEF Typed
<1>6. CASE Fill
  <2>1. /\ buf' = Available /\ offset' = offset + Len(Available)
        /\ UNCHANGED <<gens, files, path, writer, fd, read_pos, scratch, out, stop>>
    BY <1>6 DEF Fill, disk
  <2> QED BY <1>0, <2>1, AvailableIs DEF Typed
<1>7. CASE Consume
  <2>1. /\ buf' \in Seq(Entry) /\ Line \in Seq(Entry) /\ read_pos' = read_pos + Upto /\ Upto \in Nat
        /\ Ends = {} => scratch' = Line /\ out' = out
        /\ Ends # {} => scratch' = <<>> /\ out' = Append(out, Line)
        /\ UNCHANGED <<gens, files, path, writer, fd, offset, stop>>
    <3>1. /\ buf' = Rest /\ Rest \in Seq(Entry) /\ Upto \in 1 .. Len(buf) /\ Len(buf) \in Nat
          /\ UNCHANGED <<disk, fd, offset, inode, pc, stop>>
      BY <1>0, <1>7, ConsumeIs
    <3> QED BY <3>1, <1>7, ConsumeIs DEF disk
  <2>2. scratch' \in Seq(Entry) /\ out' \in Seq(Seq(Entry))
    <3>1. <<>> \in Seq(Entry) /\ Append(out, Line) \in Seq(Seq(Entry))
      BY <1>0, <2>1
    <3> QED BY <1>0, <2>1, <3>1
  <2> QED BY <1>0, <2>1, <2>2 DEF Typed
<1>8. CASE OpenAgain
  <2>1. /\ fd' = path /\ path # 0 /\ offset' = 0 /\ read_pos' = 0 /\ buf' = <<>>
        /\ UNCHANGED <<gens, files, path, writer, scratch, out, stop>>
    BY <1>8 DEF OpenAgain, disk, Missing
  <2> QED BY <1>0, <2>1 DEF Typed
<1>9. CASE OpenFails
  <2>1. scratch' = <<>> /\ UNCHANGED <<gens, files, path, writer, fd, offset, read_pos, buf, out, stop>>
    BY <1>9 DEF OpenFails, disk, cursor
  <2> QED BY <1>0, <2>1 DEF Typed
<1>10. CASE LastRead
  <2>1. /\ buf' = Available /\ offset' = offset + Len(Available) /\ UNCHANGED <<scratch, out>>
        \/ /\ scratch' = <<>> /\ out' \in {out, Append(out, scratch)}
           /\ UNCHANGED <<buf, offset>>
    BY <1>10 DEF LastRead
  <2>2. UNCHANGED <<gens, files, path, writer, fd, read_pos, stop>>
    BY <1>10 DEF LastRead, disk
  <2>3. buf' \in Seq(Entry) /\ offset' \in Nat /\ scratch' \in Seq(Entry) /\ out' \in Seq(Seq(Entry))
    <3>1. Available \in Seq(Entry) /\ <<>> \in Seq(Entry) /\ Append(out, scratch) \in Seq(Seq(Entry))
      BY <1>0, AvailableIs
    <3>2. Len(Available) \in Nat
      BY <3>1
    <3>3. CASE buf' = Available /\ offset' = offset + Len(Available) /\ UNCHANGED <<scratch, out>>
      BY <1>0, <3>1, <3>2, <3>3
    <3>4. CASE scratch' = <<>> /\ out' \in {out, Append(out, scratch)} /\ UNCHANGED <<buf, offset>>
      BY <1>0, <3>1, <3>4
    <3> QED BY <2>1, <3>3, <3>4
  <2> QED BY <1>0, <2>2, <2>3 DEF Typed
<1>11. CASE Stop
  <2>1. stop' = TRUE /\ UNCHANGED <<gens, files, path, writer, fd, offset, read_pos, buf, scratch, out>>
    BY <1>11 DEF Stop, disk, cursor
  <2> QED BY <1>0, <2>1 DEF Typed
<1>12. CASE AtEnd \/ Stat \/ Poll \/ Closed \/ UNCHANGED vars
  <2>1. UNCHANGED <<gens, files, path, writer, fd, offset, read_pos, buf, scratch, out, stop>>
    BY <1>12 DEF AtEnd, Stat, Poll, Closed, vars, disk, cursor
  <2> QED BY <1>0, <2>1 DEF Typed
<1> QED
  BY <1>1, <1>2, <1>3, <1>4, <1>5, <1>6, <1>7, <1>8, <1>9, <1>10, <1>11, <1>12 DEF Next, Reader

-----------------------------------------------------------------------------
(* RecordsAreLines is not inductive: the line being read must hold no end. *)
Cut == RecordsAreLines /\ \A j \in DOMAIN scratch : ~scratch[j].eol

(* A line is a record when it ends, or when the reader is to stop.         *)
IsLine(s) ==
  /\ s # <<>>
  /\ \A j \in 1 .. Len(s) - 1 : ~s[j].eol
  /\ Last(s).eol \/ stop

(* One more line is one more record.                                       *)
LEMMA RecordAdded ==
  ASSUME Typed, Cut, NEW s \in Seq(Entry), IsLine(s), out' = Append(out, s), stop' = stop
  PROVE  RecordsAreLines'
<1>1. /\ DOMAIN out' = 1 .. Len(out) + 1 /\ DOMAIN out = 1 .. Len(out) /\ Len(out) \in Nat
      /\ \A i \in DOMAIN out : out'[i] = out[i]
      /\ out'[Len(out) + 1] = s
  <2>1. out \in Seq(Seq(Entry))
    BY DEF Typed
  <2> QED BY <2>1
<1>2. \A i \in DOMAIN out : IsLine(out[i])
  BY DEF Cut, RecordsAreLines, IsLine
<1>3. ASSUME NEW i \in DOMAIN out' PROVE IsLine(out'[i])
  BY <1>1, <1>2
<1> QED BY <1>3 DEF RecordsAreLines, IsLine

(* Only what is cut at an end leaves the line being read.                  *)
LEMMA CutStep == Typed /\ Cut /\ [Next]_vars => Cut'
<1> SUFFICES ASSUME Typed, Cut, [Next]_vars PROVE Cut'
  OBVIOUS
<1>0. /\ scratch \in Seq(Entry) /\ out \in Seq(Seq(Entry)) /\ buf \in Seq(Entry) /\ stop \in BOOLEAN
      /\ Len(scratch) \in Nat /\ Len(buf) \in Nat
  BY Lengths DEF Typed
<1>1. CASE Consume
  <2>1. /\ buf # <<>> /\ Upto \in 1 .. Len(buf) /\ stop' = stop
        /\ Line \in Seq(Entry) /\ Len(Line) = Len(scratch) + Upto
        /\ \A i \in 1 .. Len(scratch) : Line[i] = scratch[i]
        /\ \A i \in 1 .. Upto : Line[Len(scratch) + i] = buf[i]
        /\ Ends = {} => scratch' = Line /\ out' = out
        /\ Ends # {} => scratch' = <<>> /\ out' = Append(out, Line)
    BY <1>1, ConsumeIs
  <2>2. /\ \A i \in 1 .. Upto - 1 : ~buf[i].eol
        /\ Ends = {} => ~buf[Upto].eol
        /\ Ends # {} => buf[Upto].eol
    BY <2>1, UptoIs
  <2> DEFINE m == Len(scratch)
             n == Upto
  <2>3. m \in Nat /\ n \in Nat /\ n >= 1 /\ Len(Line) = m + n /\ Line[m + n] = buf[n]
    BY <2>1, <1>0
  <2>4. ASSUME NEW j \in 1 .. Len(Line) - 1 PROVE ~Line[j].eol
    <3>1. CASE j <= m
      <4>1. j \in 1 .. m /\ j \in DOMAIN scratch
        BY <3>1, <1>0
      <4> QED BY <4>1, <2>1 DEF Cut
    <3>2. CASE j > m
      <4>1. j - m \in 1 .. n - 1 /\ j - m \in 1 .. n /\ m + (j - m) = j
        BY <3>2, <2>3
      <4>2. Line[m + (j - m)] = buf[j - m] /\ ~buf[j - m].eol
        BY <4>1, <2>1, <2>2
      <4> QED BY <4>1, <4>2
    <3> QED BY <3>1, <3>2, <2>3
  <2>5. CASE Ends = {}
    <3>1. \A j \in DOMAIN Line : ~Line[j].eol
      <4>1. \A j \in DOMAIN Line : j \in 1 .. Len(Line) - 1 \/ j = m + n
        <5>1. DOMAIN Line = 1 .. m + n
          BY <2>1, <2>3
        <5> HIDE DEF m, n
        <5> QED BY <5>1, <2>3
      <4> QED BY <4>1, <2>2, <2>3, <2>4, <2>5
    <3> QED BY <3>1, <2>1, <2>5 DEF Cut, RecordsAreLines
  <2>6. CASE Ends # {}
    <3>1. IsLine(Line)
      <4>1. Line # <<>> /\ Last(Line).eol
        BY <2>1, <2>2, <2>3, <2>6 DEF Last
      <4> QED BY <4>1, <2>4 DEF IsLine
    <3>2. RecordsAreLines'
      BY <3>1, <2>1, <2>6, RecordAdded
    <3> QED BY <3>2, <2>1, <2>6 DEF Cut
  <2> QED BY <2>5, <2>6
<1>2. CASE LastRead
  <2>1. CASE scratch' = scratch /\ out' = out
    BY <2>1, <1>2 DEF LastRead, Cut, RecordsAreLines
  <2>2. CASE scratch' = <<>> /\ out' = IF scratch = <<>> THEN out ELSE Append(out, scratch)
    <3>1. stop /\ stop' = stop
      BY <1>2 DEF LastRead
    <3>2. CASE scratch = <<>>
      BY <2>2, <3>1, <3>2 DEF Cut, RecordsAreLines
    <3>3. CASE scratch # <<>>
      <4>1. IsLine(scratch)
        BY <3>1, <3>3, <1>0 DEF IsLine, Cut
      <4>2. RecordsAreLines'
        BY <4>1, <3>1, <3>3, <2>2, <1>0, RecordAdded
      <4> QED BY <4>2, <2>2 DEF Cut
    <3> QED BY <3>2, <3>3
  <2> QED BY <2>1, <2>2, <1>2 DEF LastRead
<1>3. CASE OpenFails
  <2>1. scratch' = <<>> /\ out' = out /\ stop' = stop
    BY <1>3 DEF OpenFails
  <2> QED BY <2>1 DEF Cut, RecordsAreLines
<1>4. CASE UNCHANGED <<scratch, out>> /\ (stop => stop')
  BY <1>4 DEF Cut, RecordsAreLines
<1>5. CASE (\E eol \in BOOLEAN : Write(eol)) \/ Rename \/ Create \/ Reopen \/ Truncate
  BY <1>4, <1>5 DEF Write, Rename, Create, Reopen, Truncate
<1>6. CASE Fill \/ AtEnd \/ Stat \/ OpenAgain \/ Poll \/ Stop \/ Closed \/ UNCHANGED vars
  BY <1>4, <1>6 DEF Fill, AtEnd, Stat, OpenAgain, Poll, Stop, Closed, vars
<1> QED BY <1>1, <1>2, <1>3, <1>5, <1>6 DEF Next, Reader

(* StreamProducer: a record ends where a line ends, and holds no other     *)
(* end, however the log is rotated and the reads fall; only a reader that  *)
(* is to stop gives up a line without its end.                             *)
THEOREM AlwaysRecordsAreLines == Spec => []RecordsAreLines
<1>1. Init => Cut
  BY DEF Init, Cut, RecordsAreLines
<1>2. Cut => RecordsAreLines
  BY DEF Cut
<1> QED BY <1>1, <1>2, TypedInit, TypedStep, CutStep, PTL DEF Spec

-----------------------------------------------------------------------------
(* ReadInOrder is not inductive: one must know where the reader is.  That  *)
(* depends on how logs are rotated.  In create mode a file is one          *)
(* generation, and the path names the newest.  In copytruncate mode one    *)
(* file goes through the generations.                                      *)
Disk ==
  \/ /\ mode = "create"
     /\ Len(files) = Len(gens) /\ \A i \in DOMAIN files : files[i] = i
     /\ path \in {Missing, Len(files)}
  \/ /\ mode = "copytruncate"
     /\ Len(files) = 1 /\ files[1] = Len(gens) /\ path = 1

Got == AllOf(out, scratch, buf)

(* The reader is in the generation its file holds: it has read that up to  *)
(* its offset, and nothing newer.                                          *)
Within(S, g, off) == \A p \in S : p.gen < g \/ (p.gen = g /\ p.at <= off)
Joins(S, g, off) == off = 0 \/ S = {} \/ \E p \in S : p.gen = g /\ p.at = off

InStep == offset <= Size(fd) /\ Within(Got, files[fd], offset) /\ Joins(Got, files[fd], offset)

(* Its file was emptied: it has read only older generations and, until it  *)
(* has noticed, stands behind the end of the file.                         *)
Emptied ==
  /\ mode = "copytruncate"
  /\ \A p \in Got : p.gen < files[fd]
  /\ Size(fd) < offset \/ pc = "emptied"

(* Where the reader is in its rounds. *)
Round ==
  /\ inode = fd
  /\ pc \in {"stat", "stay", "replaced", "emptied"} => buf = <<>>
  /\ pc = "replaced" => mode = "create" /\ (path = Missing \/ path > fd)
  /\ pc = "emptied" => Emptied
  /\ InStep \/ Emptied

Ordering ==
  /\ read_pos + Len(buf) = offset
  /\ Ordered(out, scratch, buf)
  /\ Gapless(Got)

Whole == Typed /\ Disk /\ (~Ended => Round) /\ Ordering

(* Nothing is read at first.                                               *)
LEMMA WholeInit == Init => Whole
<1> SUFFICES ASSUME Init PROVE Whole
  OBVIOUS
<1>1. Typed
  BY TypedInit
<1>2. files = <<1>> /\ path = 1 /\ writer = 1 /\ fd = 1 /\ inode = 1 /\ pc = "fill"
  BY DEF Init
<1>3. buf = <<>> /\ scratch = <<>> /\ out = <<>> /\ read_pos = offset
  BY DEF Init
<1>4. Len(gens) = 1
  <2>1. PICK c \in {<<>>, <<TRUE>>, <<FALSE>>} : gens = <<c>>
    BY DEF Init
  <2> QED BY <2>1
<1>5. mode \in {"create", "copytruncate"}
  BY TailAssumption DEF Init
<1>6. Len(files) = 1 /\ DOMAIN files = {1} /\ files[1] = 1
  BY <1>2
<1>7. Disk
  BY <1>2, <1>4, <1>5, <1>6 DEF Disk
<1>8. Got = {}
  <2>1. ToSet(<<>>) = {}
    BY DEF ToSet
  <2>2. ASSUME NEW p PROVE p \notin Got
    <3>1. p \in Got <=> (\E k \in DOMAIN out : p \in ToSet(out[k])) \/ p \in ToSet(scratch) \/ p \in ToSet(buf)
      BY InAllOf DEF Got
    <3> QED BY <3>1, <2>1, <1>3
  <2> QED BY <2>2
<1>9. Ordering
  <2>1. Ordered(out, scratch, buf)
    BY <1>3 DEF Ordered, Rising, Precede
  <2>2. Gapless(Got)
    BY <1>8 DEF Gapless
  <2>3. read_pos + Len(buf) = offset
    BY <1>1, <1>3 DEF Typed
  <2> QED BY <2>1, <2>2, <2>3 DEF Ordering
<1>10. InStep
  <2>1. Size(fd) = Len(gens[1])
    BY <1>2, <1>6 DEF Size
  <2>2. offset \in {0, Len(gens[1])}
    BY DEF Init
  <2>3. Len(gens[1]) \in Nat
    BY <1>1, <2>1, AvailableIs
  <2> QED BY <1>8, <2>1, <2>2, <2>3 DEF InStep, Within, Joins
<1> QED BY <1>1, <1>2, <1>7, <1>9, <1>10 DEF Whole, Round

(* The rotator keeps to its way.                                           *)
LEMMA DiskStep == Typed /\ Disk /\ [Next]_vars => Disk'
<1> SUFFICES ASSUME Typed, Disk, [Next]_vars PROVE Disk'
  OBVIOUS
<1>0. /\ gens \in Seq(Seq(BOOLEAN)) /\ files \in Seq(1 .. Len(gens))
      /\ Len(gens) \in Nat /\ Len(files) \in Nat /\ DOMAIN files = 1 .. Len(files)
      /\ writer \in 1 .. Len(files)
  BY Lengths DEF Typed
<1>1. CASE Write(TRUE) \/ Write(FALSE)
  <2>1. UNCHANGED <<mode, files, path>> /\ Len(gens') = Len(gens)
    <3>1. PICK eol \in BOOLEAN : Write(eol)
      BY <1>1
    <3>2. gens' = [gens EXCEPT ![files[writer]] = Append(@, eol)] /\ UNCHANGED <<mode, files, path>>
      BY <3>1 DEF Write
    <3> QED BY <3>2, <1>0
  <2> QED BY <2>1 DEF Disk
<1>2. CASE Rename
  BY <1>2 DEF Rename, Disk
<1>3. CASE Create
  <2>1. /\ mode = "create" /\ mode' = mode
        /\ gens' = Append(gens, <<>>) /\ files' = Append(files, Len(gens) + 1) /\ path' = Len(files) + 1
    BY <1>3 DEF Create
  <2>2. Len(files) = Len(gens) /\ \A i \in DOMAIN files : files[i] = i
    BY <2>1 DEF Disk
  <2>3. Len(gens') = Len(gens) + 1 /\ Len(files') = Len(files) + 1 /\ DOMAIN files' = 1 .. Len(files) + 1
    BY <2>1, <1>0
  <2>4. ASSUME NEW i \in 1 .. Len(files) + 1 PROVE files'[i] = i
    <3>1. CASE i \in 1 .. Len(files)
      <4>1. files'[i] = files[i]
        BY <3>1, <2>1, <1>0
      <4> QED BY <4>1, <3>1, <2>2, <1>0
    <3>2. CASE i = Len(files) + 1
      <4>1. files'[Len(files) + 1] = Len(gens) + 1
        BY <2>1, <1>0
      <4>2. Len(gens) = Len(files)
        BY <2>2
      <4> QED BY <4>1, <4>2, <3>2
    <3>3. i \in 1 .. Len(files) \/ i = Len(files) + 1
      <4>1. Len(files) \in Nat
        BY <1>0
      <4> QED BY <4>1
    <3> QED BY <3>1, <3>2, <3>3
  <2> QED BY <2>1, <2>2, <2>3, <2>4 DEF Disk
<1>4. CASE Truncate
  <2>1. /\ mode = "copytruncate" /\ mode' = mode /\ path' = path
        /\ gens' = Append(gens, <<>>) /\ files' = [files EXCEPT ![writer] = Len(gens) + 1]
    BY <1>4 DEF Truncate
  <2>2. Len(files) = 1 /\ path = 1 /\ writer = 1
    BY <2>1, <1>0 DEF Disk
  <2>3. Len(gens') = Len(gens) + 1 /\ Len(files') = 1 /\ files'[1] = Len(gens) + 1
    BY <2>1, <2>2, <1>0
  <2> QED BY <2>1, <2>2, <2>3 DEF Disk
<1>5. CASE UNCHANGED <<mode, gens, files, path>>
  BY <1>5 DEF Disk
<1>6. CASE Reopen \/ Reader \/ Stop \/ Closed \/ UNCHANGED vars
  BY <1>5, <1>6 DEF Reopen, Reader, Fill, AtEnd, Consume, Stat, OpenAgain, OpenFails, Poll,
       LastRead, Stop, Closed, vars, disk
<1> QED BY <1>1, <1>2, <1>3, <1>4, <1>6 DEF Next

(* Pieces read next to those there are: in order, and without a gap.       *)
LEMMA GapFilled ==
  ASSUME NEW S \in SUBSET Entry, Gapless(S), NEW g \in Nat, NEW off \in Nat,
         Within(S, g, off), Joins(S, g, off),
         NEW x \in Seq(Entry), x # <<>>, \A i \in DOMAIN x : x[i].gen = g /\ x[i].at = off + i
  PROVE  /\ Rising(x)
         /\ \A p \in S : \A i \in DOMAIN x : Before(p, x[i])
         /\ Gapless(S \cup ToSet(x))
         /\ Within(S \cup ToSet(x), g, off + Len(x))
         /\ Joins(S \cup ToSet(x), g, off + Len(x))
<1> DEFINE n == Len(x)
           U == S \cup ToSet(x)
<1>1. n \in Nat /\ n >= 1 /\ DOMAIN x = 1 .. n
  OBVIOUS
<1>2. \A p \in S : p \in Entry /\ p.gen \in Nat /\ p.at \in Nat
  BY DEF Entry
<1>3. \A p : p \in ToSet(x) <=> \E i \in 1 .. n : p = x[i]
  BY <1>1 DEF ToSet
<1>4. Rising(x)
  <2> SUFFICES ASSUME NEW i \in 1 .. n, NEW j \in 1 .. n, i < j PROVE Before(x[i], x[j])
    BY <1>1 DEF Rising
  <2>1. off + i < off + j
    BY <1>1
  <2> QED BY <2>1, <1>1 DEF Before
<1>5. ASSUME NEW p \in S, NEW i \in DOMAIN x PROVE Before(p, x[i])
  <2>1. p.gen < g \/ (p.gen = g /\ p.at < off + i)
    BY <1>1, <1>2 DEF Within
  <2> QED BY <2>1 DEF Before
<1> HIDE DEF n
<1>6. \A p \in U : p \in S \/ \E i \in 1 .. n : p = x[i]
  BY <1>3
<1>7. S \subseteq U /\ \A i \in 1 .. n : x[i] \in U
  BY <1>3
<1> HIDE DEF U
<1>8. ASSUME NEW p \in U
      PROVE  \/ p.at = 1
             \/ \E q \in U : q.gen = p.gen /\ q.at = p.at - 1
             \/ \A q \in U : q = p \/ Before(p, q)
  <2>1. CASE p \in S
    <3>1. CASE p.at = 1 \/ \E q \in S : q.gen = p.gen /\ q.at = p.at - 1
      BY <3>1, <1>7
    <3>2. CASE \A q \in S : q = p \/ Before(p, q)
      BY <3>2, <2>1, <1>1, <1>5, <1>6
    <3> QED BY <3>1, <3>2, <2>1 DEF Gapless
  <2>2. CASE \E i \in 1 .. n : p = x[i]
    <3>1. PICK i \in 1 .. n : p = x[i]
      BY <2>2
    <3>2. p.gen = g /\ p.at = off + i
      BY <3>1, <1>1
    <3>3. CASE i > 1
      <4>1. i - 1 \in 1 .. n
        BY <3>3, <1>1
      <4>2. x[i - 1].gen = g /\ x[i - 1].at = off + (i - 1)
        BY <4>1, <1>1
      <4>3. off + (i - 1) = (off + i) - 1
        BY <1>1
      <4> QED BY <4>1, <4>2, <4>3, <3>2, <1>7
    <3>4. CASE i = 1
      <4>1. CASE off = 0
        BY <4>1, <3>2, <3>4
      <4>2. CASE S = {}
        <5>1. ASSUME NEW q \in U PROVE q = p \/ Before(p, q)
          <6>1. PICK j \in 1 .. n : q = x[j]
            BY <4>2, <1>6
          <6>2. j = 1 \/ 1 < j
            BY <1>1
          <6> QED BY <6>1, <6>2, <3>1, <3>4, <1>1, <1>4 DEF Rising
        <5> QED BY <5>1
      <4>3. CASE \E q \in S : q.gen = g /\ q.at = off
        <5>1. off = (off + 1) - 1
          OBVIOUS
        <5> QED BY <5>1, <4>3, <3>2, <3>4, <1>7
      <4> QED BY <4>1, <4>2, <4>3 DEF Joins
    <3> QED BY <3>3, <3>4, <1>1
  <2> QED BY <2>1, <2>2, <1>6
<1>9. Gapless(U)
  BY <1>8 DEF Gapless
<1>10. Within(U, g, off + n)
  <2> SUFFICES ASSUME NEW p \in U PROVE p.gen < g \/ (p.gen = g /\ p.at <= off + n)
    BY DEF Within
  <2>1. CASE p \in S
    BY <2>1, <1>1, <1>2 DEF Within
  <2>2. CASE \E i \in 1 .. n : p = x[i]
    BY <2>2, <1>1
  <2> QED BY <2>1, <2>2, <1>6
<1>11. Joins(U, g, off + n)
  <2>1. n \in 1 .. n
    BY <1>1
  <2> QED BY <2>1, <1>1, <1>7 DEF Joins
<1> QED BY <1>4, <1>5, <1>9, <1>10, <1>11 DEF n, U

(* A line that is given up leaves no gap: it was the last there was.       *)
LEMMA GapDropped ==
  ASSUME NEW o \in Seq(Seq(Entry)), NEW s \in Seq(Entry),
         Ordered(o, s, <<>>), Gapless(AllOf(o, s, <<>>))
  PROVE  Ordered(o, <<>>, <<>>) /\ Gapless(AllOf(o, <<>>, <<>>))
<1> DEFINE all == AllOf(o, s, <<>>)
           old == AllOf(o, <<>>, <<>>)
<1>0. ToSet(<<>>) = {}
  BY DEF ToSet
<1>1. Ordered(o, <<>>, <<>>)
  BY DEF Ordered, Rising, Precede
<1>2. \A p : p \in old <=> \E k \in DOMAIN o : p \in ToSet(o[k])
  BY <1>0, InAllOf
<1>3. \A p : p \in all <=> p \in old \/ p \in ToSet(s)
  BY <1>0, <1>2, InAllOf
<1>4. \A p \in old : \A q \in ToSet(s) : Before(p, q)
  <2> SUFFICES ASSUME NEW p \in old, NEW q \in ToSet(s) PROVE Before(p, q)
    OBVIOUS
  <2>1. PICK k \in DOMAIN o : p \in ToSet(o[k])
    BY <1>2
  <2>2. PICK i \in DOMAIN o[k] : p = o[k][i]
    BY <2>1 DEF ToSet
  <2>3. PICK j \in DOMAIN s : q = s[j]
    BY DEF ToSet
  <2> QED BY <2>2, <2>3 DEF Ordered, Precede
<1>5. \A p \in all : p.gen \in Nat /\ p.at \in Nat
  <2>1. <<>> \in Seq(Entry)
    OBVIOUS
  <2> QED BY <2>1, AllEntries DEF Entry
<1>6. Gapless(all)
  OBVIOUS
<1> HIDE DEF all, old
<1>7. ASSUME NEW p \in old
      PROVE  \/ p.at = 1
             \/ \E q \in old : q.gen = p.gen /\ q.at = p.at - 1
             \/ \A q \in old : q = p \/ Before(p, q)
  <2>1. CASE \E q \in all : q.gen = p.gen /\ q.at = p.at - 1
    <3>1. PICK q \in all : q.gen = p.gen /\ q.at = p.at - 1
      BY <2>1
    <3>2. ~Before(p, q)
      <4>1. p.gen \in Nat /\ p.at \in Nat
        BY <1>3, <1>5
      <4> QED BY <3>1, <4>1 DEF Before
    <3>3. q \in old
      BY <3>2, <1>3, <1>4
    <3> QED BY <3>1, <3>3
  <2>2. CASE p.at = 1 \/ \A q \in all : q = p \/ Before(p, q)
    BY <2>2, <1>3
  <2> QED BY <2>1, <2>2, <1>3, <1>6 DEF Gapless
<1>8. Gapless(old)
  BY <1>7 DEF Gapless
<1> QED BY <1>1, <1>8 DEF old

-----------------------------------------------------------------------------
(* What the steps below have in common: what the variables hold, and that  *)
(* whatever was read is of a generation there is, or older.                *)
LEMMA WholeIs ==
  ASSUME Whole
  PROVE  /\ gens \in Seq(Seq(BOOLEAN)) /\ files \in Seq(1 .. Len(gens))
         /\ Len(gens) \in Nat /\ Len(files) \in Nat /\ DOMAIN files = 1 .. Len(files)
         /\ path \in 0 .. Len(files) /\ writer \in 1 .. Len(files) /\ fd \in 1 .. Len(files)
         /\ offset \in Nat /\ read_pos \in Nat
         /\ files[fd] \in 1 .. Len(gens) /\ files[fd] \in Nat /\ Size(fd) \in Nat
         /\ buf \in Seq(Entry) /\ scratch \in Seq(Entry) /\ out \in Seq(Seq(Entry))
         /\ Got \in SUBSET Entry /\ \A p \in Got : p.gen \in Nat /\ p.at \in Nat
<1>1. Typed
  BY DEF Whole
<1>2. Got \in SUBSET Entry
  BY <1>1, AllEntries DEF Typed, Got
<1>3. \A p \in Got : p.gen \in Nat /\ p.at \in Nat
  BY <1>2 DEF Entry
<1>4. /\ gens \in Seq(Seq(BOOLEAN)) /\ files \in Seq(1 .. Len(gens))
      /\ path \in 0 .. Len(files) /\ writer \in 1 .. Len(files) /\ fd \in 1 .. Len(files)
      /\ offset \in Nat /\ read_pos \in Nat
      /\ buf \in Seq(Entry) /\ scratch \in Seq(Entry) /\ out \in Seq(Seq(Entry))
  BY <1>1 DEF Typed
<1>5. Len(gens) \in Nat /\ Len(files) \in Nat /\ DOMAIN files = 1 .. Len(files)
  BY <1>1, Lengths
<1>6. files[fd] \in 1 .. Len(gens) /\ Size(fd) \in Nat
  BY <1>1, AvailableIs
<1>7. files[fd] \in Nat
  BY <1>5, <1>6
<1> QED BY <1>2, <1>3, <1>4, <1>5, <1>6, <1>7

(* Writers and rotators touch nothing the reader has.                      *)
LEMMA Untouched ==
  ASSUME Whole, UNCHANGED <<cursor, scratch, out>>
  PROVE  Ordering' /\ Got' = Got
  BY DEF Whole, Ordering, Got, cursor

(* A log that grows leaves the reader where it is, and one that was        *)
(* emptied does not grow past it before it looks.                          *)
LEMMA WriteRound ==
  ASSUME Whole, Round, NEW eol \in BOOLEAN, Write(eol), ~RegrowBeforePoll
  PROVE  Round'
<1> DEFINE g == files[writer]
<1>1. /\ gens' = [gens EXCEPT ![g] = Append(@, eol)]
      /\ ~Unnoticed \/ Size(writer) + 1 < offset
      /\ UNCHANGED <<mode, files, path, writer, fd, inode, offset, buf, pc>>
  BY DEF Write, cursor
<1>2. Got' = Got
  BY Untouched DEF Write
<1>3. g \in 1 .. Len(gens) /\ gens[g] \in Seq(BOOLEAN) /\ Len(gens[g]) \in Nat
  <2>1. g \in 1 .. Len(gens)
    <3>1. files \in Seq(1 .. Len(gens)) /\ writer \in 1 .. Len(files)
      BY WholeIs
    <3> QED BY <3>1
  <2>2. gens \in Seq(Seq(BOOLEAN))
    BY WholeIs
  <2>3. gens[g] \in Seq(BOOLEAN)
    BY <2>1, <2>2
  <2> QED BY <2>1, <2>3
<1>4. Len(gens'[g]) = Len(gens[g]) + 1 /\ \A h \in 1 .. Len(gens) : h # g => gens'[h] = gens[h]
  BY <1>1, <1>3, WholeIs
<1>5. Size(fd)' = Len(gens'[files[fd]]) /\ Size(fd) = Len(gens[files[fd]])
  BY <1>1 DEF Size
<1>6. Size(writer) = Len(gens[g])
  BY DEF Size
<1> HIDE DEF g
<1>7. Size(fd)' \in Nat /\ Size(fd)' >= Size(fd) /\ (Size(fd)' > Size(fd) => files[fd] = g /\ Size(fd)' = Size(fd) + 1)
  <2>1. files[fd] \in 1 .. Len(gens) /\ Size(fd) \in Nat
    BY WholeIs
  <2>2. CASE files[fd] = g
    BY <2>1, <2>2, <1>3, <1>4, <1>5
  <2>3. CASE files[fd] # g
    BY <2>1, <2>3, <1>4, <1>5
  <2> QED BY <2>2, <2>3
<1>8. InStep => InStep'
  BY <1>1, <1>2, <1>7, WholeIs DEF InStep
<1>9. Emptied => Emptied'
  <2> SUFFICES ASSUME Emptied, pc # "emptied" PROVE Emptied'
    BY <1>1, <1>2 DEF Emptied
  <2>1. fd = writer
    BY WholeIs DEF Whole, Disk, Emptied
  <2>2. Size(writer) + 1 < offset
    BY <1>1, <2>1, WholeIs DEF Emptied, Unnoticed
  <2>3. Size(fd)' < offset
    <3>1. offset \in Nat /\ Size(fd) \in Nat /\ Size(fd) + 1 < offset
      BY <2>1, <2>2, WholeIs
    <3>2. Size(fd)' \in Nat /\ (Size(fd)' > Size(fd) => Size(fd)' = Size(fd) + 1)
      BY <1>7
    <3> QED BY <3>1, <3>2
  <2> QED BY <1>1, <1>2, <2>3 DEF Emptied
<1> QED BY <1>1, <1>8, <1>9 DEF Round

(* rename and create, and the writer that follows: the reader's file stays *)
(* as it is.                                                               *)
LEMMA RotateRound ==
  ASSUME Whole, Round, Rename \/ Create \/ Reopen \/ Stop
  PROVE  Round'
<1>1. UNCHANGED <<mode, fd, inode, offset, buf, scratch, out, read_pos, pc>>
  BY DEF Rename, Create, Reopen, Stop, disk, cursor
<1>2. Got' = Got
  BY <1>1 DEF Got
<1>3. files'[fd] = files[fd] /\ gens'[files[fd]] = gens[files[fd]]
  <2>1. CASE Create
    <3>1. gens' = Append(gens, <<>>) /\ files' = Append(files, Len(gens) + 1)
      BY <2>1 DEF Create
    <3>2. files[fd] \in 1 .. Len(gens) /\ fd \in 1 .. Len(files)
      BY WholeIs
    <3>3. files'[fd] = files[fd]
      BY <3>1, <3>2, WholeIs
    <3>4. gens'[files[fd]] = gens[files[fd]]
      BY <3>1, <3>2, WholeIs
    <3> QED BY <3>3, <3>4
  <2>2. CASE Rename \/ Reopen \/ Stop
    BY <2>2 DEF Rename, Reopen, Stop, disk
  <2> QED BY <2>1, <2>2
<1>4. Size(fd)' = Size(fd)
  BY <1>1, <1>3 DEF Size
<1>5. InStep' = InStep
  BY <1>1, <1>2, <1>3, <1>4 DEF InStep
<1>6. Emptied' = Emptied
  BY <1>1, <1>2, <1>3, <1>4 DEF Emptied
<1>7. path' = path \/ path' = Missing \/ path' > fd
  BY WholeIs DEF Rename, Create, Reopen, Stop, disk
<1> QED BY <1>1, <1>5, <1>6, <1>7 DEF Round

(* copytruncate: a reader that has read something is behind the new end.   *)
LEMMA TruncateRound ==
  ASSUME Whole, Round, Truncate
  PROVE  Round'
<1>1. /\ mode = "copytruncate" /\ mode' = mode
      /\ gens' = Append(gens, <<>>) /\ files' = [files EXCEPT ![writer] = Len(gens) + 1]
      /\ UNCHANGED <<path, writer, fd, inode, offset, read_pos, buf, scratch, out, pc>>
  BY DEF Truncate, cursor
<1>2. Got' = Got
  BY <1>1 DEF Got
<1>3. fd = writer /\ files[fd] = Len(gens)
  BY <1>1, WholeIs DEF Whole, Disk
<1>4. files'[fd] = Len(gens) + 1
  BY <1>1, <1>3, WholeIs
<1>5. gens'[Len(gens) + 1] = <<>>
  BY <1>1, WholeIs
<1>6. Size(fd)' = 0
  BY <1>1, <1>4, <1>5 DEF Size
<1>7. \A p \in Got : p.gen < Len(gens) + 1
  <2> TAKE p \in Got
  <2>1. p.gen < Len(gens) \/ p.gen = Len(gens)
    BY <1>3 DEF Round, InStep, Within, Emptied
  <2>2. p.gen \in Nat /\ Len(gens) \in Nat
    BY WholeIs
  <2> QED BY <2>1, <2>2
<1>8. offset = 0 => InStep'
  BY <1>1, <1>2, <1>4, <1>6, <1>7 DEF InStep, Within, Joins
<1>9. offset # 0 \/ pc = "emptied" => Emptied'
  <2>1. offset \in Nat
    BY WholeIs
  <2>2. offset # 0 => Size(fd)' < offset'
    BY <2>1, <1>1, <1>6
  <2> QED BY <2>2, <1>1, <1>2, <1>4, <1>7 DEF Emptied
<1> QED BY <1>1, <1>8, <1>9 DEF Round

(* A read that returns something finds the reader in step.                 *)
LEMMA ReadOrder ==
  ASSUME Whole, Round, pc \in {"fill", "stay"}, buf = <<>>, Available # <<>>,
         buf' = Available, offset' = offset + Len(Available), pc' = "fill",
         UNCHANGED <<disk, fd, inode, read_pos, scratch, out>>
  PROVE  Round' /\ Ordering'
<1>1. /\ Available \in Seq(Entry) /\ ~(offset >= Size(fd)) /\ offset + Len(Available) <= Size(fd)
      /\ \A i \in DOMAIN Available : Available[i].gen = files[fd] /\ Available[i].at = offset + i
  BY AvailableIs DEF Whole
<1>2. InStep
  <2>1. Size(fd) \in Nat /\ offset \in Nat
    BY WholeIs
  <2>2. ~(Size(fd) < offset) /\ pc # "emptied"
    BY <1>1, <2>1
  <2> QED BY <2>2 DEF Round, Emptied
<1>3. /\ Got = AllOf(out, scratch, <<>>) /\ Ordered(out, scratch, <<>>) /\ Gapless(Got)
      /\ read_pos = offset
  BY WholeIs DEF Whole, Ordering, Got
<1>4. files[fd] \in Nat /\ offset \in Nat /\ Got \in SUBSET Entry
  BY WholeIs
<1>5. /\ Rising(Available)
      /\ \A p \in Got : \A i \in DOMAIN Available : Before(p, Available[i])
      /\ Gapless(Got \cup ToSet(Available))
      /\ Within(Got \cup ToSet(Available), files[fd], offset + Len(Available))
      /\ Joins(Got \cup ToSet(Available), files[fd], offset + Len(Available))
  BY <1>1, <1>2, <1>3, <1>4, GapFilled DEF InStep
<1>6. /\ Ordered(out, scratch, Available)
      /\ AllOf(out, scratch, Available) = Got \cup ToSet(Available)
  BY <1>1, <1>3, <1>5, FilledOrdered, WholeIs
<1>7. Got' = Got \cup ToSet(Available)
  BY <1>6 DEF Got
<1>8. Ordering'
  <2>1. read_pos' + Len(buf') = offset'
    BY <1>3
  <2>2. Ordered(out', scratch', buf')
    BY <1>6
  <2> QED BY <2>1, <2>2, <1>5, <1>7 DEF Ordering
<1>9. files'[fd'] = files[fd] /\ Size(fd)' = Size(fd)
  BY DEF Size, disk
<1>10. InStep'
  BY <1>1, <1>5, <1>7, <1>9 DEF InStep
<1>11. Round'
  BY <1>10 DEF Round
<1> QED BY <1>8, <1>11

(* read_until() only moves pieces.                                         *)
LEMMA ConsumeOrder ==
  ASSUME Whole, Round, Consume
  PROVE  Round' /\ Ordering'
<1>1. Typed /\ Ordered(out, scratch, buf) /\ Gapless(Got) /\ read_pos + Len(buf) = offset
  BY DEF Whole, Ordering
<1>2. /\ pc = "fill" /\ Upto \in 1 .. Len(buf)
      /\ buf' = Rest /\ Rest \in Seq(Entry) /\ Line \in Seq(Entry)
      /\ Len(Rest) = Len(buf) - Upto
      /\ read_pos' = read_pos + Upto
      /\ Ends = {} => scratch' = Line /\ out' = out
      /\ Ends # {} => scratch' = <<>> /\ out' = Append(out, Line)
      /\ UNCHANGED <<disk, fd, offset, inode, pc, stop>>
      /\ Ordered(out, Line, Rest) /\ AllOf(out, Line, Rest) = AllOf(out, scratch, buf)
  BY <1>1, ConsumeIs
<1>3. Ordered(Append(out, Line), <<>>, Rest) /\ AllOf(Append(out, Line), <<>>, Rest) = AllOf(out, Line, Rest)
  BY <1>2, AppendedOrdered, WholeIs
<1>4. Ordered(out', scratch', buf') /\ Got' = Got
  BY <1>2, <1>3 DEF Got
<1>5. read_pos' + Len(buf') = offset'
  <2>1. /\ read_pos + Len(buf) = offset /\ offset' = offset /\ read_pos' = read_pos + Upto
        /\ buf' = Rest /\ Len(Rest) = Len(buf) - Upto /\ Upto \in 1 .. Len(buf)
    BY <1>1, <1>2
  <2>2. read_pos \in Nat /\ buf \in Seq(Entry)
    BY WholeIs
  <2>3. Len(buf) \in Nat
    BY <2>2
  <2>4. Upto \in Int /\ Len(buf') = Len(buf) - Upto
    BY <2>1, <2>3
  <2> QED BY <2>1, <2>2, <2>3, <2>4
<1>6. Ordering'
  BY <1>1, <1>4, <1>5 DEF Ordering
<1>7. files' = files /\ fd' = fd /\ Size(fd)' = Size(fd) /\ mode' = mode
  BY <1>2 DEF Size, disk
<1>8. InStep' = InStep /\ Emptied' = Emptied
  BY <1>2, <1>4, <1>7 DEF InStep, Emptied
<1> QED BY <1>2, <1>6, <1>8 DEF Round

(* check_rotation(): a size below the position is a log emptied in place,  *)
(* and only there can it be.                                               *)
LEMMA StatRound ==
  ASSUME Whole, Round, Stat
  PROVE  Round' /\ Ordering'
<1>1. /\ pc = "stat" /\ UNCHANGED <<disk, cursor, scratch, out, stop>>
      /\ pc' \in {"stay", "replaced", "emptied"}
      /\ pc' = "replaced" => path # Missing /\ path # inode
      /\ pc' = "emptied" => path = inode /\ Size(path) < read_pos
  BY DEF Stat
<1>2. Ordering' /\ Got' = Got
  BY <1>1, Untouched
<1>3. buf = <<>> /\ read_pos = offset /\ inode = fd
  BY <1>1, WholeIs DEF Round, Whole, Ordering
<1>4. UNCHANGED <<mode, files, path, fd, inode, offset, buf>> /\ Size(fd)' = Size(fd)
  BY <1>1 DEF disk, cursor, Size
<1>5. InStep' = InStep
  BY <1>2, <1>4 DEF InStep
<1>6. Emptied => Emptied'
  BY <1>1, <1>2, <1>4 DEF Emptied
<1>7. ASSUME pc' = "emptied" PROVE Emptied
  <2>1. Size(fd) < offset
    BY <1>1, <1>3, <1>7
  <2> QED BY <2>1, WholeIs DEF Round, InStep
<1>8. ASSUME pc' = "replaced" PROVE mode = "create" /\ path > fd
  <2>1. path # 0 /\ path # fd
    BY <1>1, <1>3, <1>8 DEF Missing
  <2>2. path \in 0 .. Len(files) /\ fd \in 1 .. Len(files) /\ Len(files) \in Nat
    BY WholeIs
  <2>3. Disk
    BY DEF Whole
  <2>4. CASE mode = "create" /\ path \in {Missing, Len(files)}
    BY <2>1, <2>2, <2>4 DEF Missing
  <2>5. CASE Len(files) = 1 /\ path = 1
    BY <2>1, <2>2, <2>5
  <2> QED BY <2>3, <2>4, <2>5 DEF Disk
<1> QED BY <1>1, <1>2, <1>3, <1>4, <1>5, <1>6, <1>7, <1>8 DEF Round

(* The file at the path is newer than all that was read.                   *)
LEMMA OpenRound ==
  ASSUME Whole, Round, OpenAgain
  PROVE  Round' /\ Ordering'
<1>1. /\ pc \in {"replaced", "emptied"} /\ path # Missing /\ pc' = "fill"
      /\ fd' = path /\ offset' = 0 /\ read_pos' = 0 /\ buf' = <<>>
      /\ inode' = IF pc = "replaced" THEN path ELSE inode
      /\ UNCHANGED <<mode, gens, files, path, scratch, out>>
  BY DEF OpenAgain, disk
<1>2. buf = <<>> /\ inode = fd
  BY <1>1 DEF Round
<1>3. Got' = Got
  BY <1>1, <1>2 DEF Got
<1>4. Ordering'
  BY <1>1, <1>2, <1>3 DEF Whole, Ordering
<1>5. inode' = fd' /\ \A p \in Got : p.gen < files[path]
  <2>1. CASE pc = "replaced"
    <3>1. mode = "create" /\ path > fd /\ InStep
      BY <1>1, <2>1 DEF Round, Emptied
    <3>2. files[path] = path /\ files[fd] = fd
      <4>1. Disk /\ mode # "copytruncate"
        BY <3>1 DEF Whole
      <4>2. path \in DOMAIN files /\ fd \in DOMAIN files
        <5>1. path \in 0 .. Len(files) /\ fd \in 1 .. Len(files) /\ DOMAIN files = 1 .. Len(files)
          BY WholeIs
        <5> QED BY <1>1, <5>1 DEF Missing
      <4> QED BY <4>1, <4>2 DEF Disk
    <3>3. fd \in Nat /\ path \in Nat
      <4>1. path \in 0 .. Len(files) /\ fd \in 1 .. Len(files) /\ Len(files) \in Nat
        BY WholeIs
      <4> QED BY <4>1
    <3>4. \A p \in Got : p.gen < files[path]
      <4> TAKE p \in Got
      <4>1. p.gen < fd \/ p.gen = fd
        BY <3>1, <3>2 DEF InStep, Within
      <4>2. p.gen \in Nat
        BY WholeIs
      <4> QED BY <4>1, <4>2, <3>1, <3>2, <3>3
    <3> QED BY <1>1, <2>1, <3>4
  <2>2. CASE pc = "emptied"
    <3>1. Emptied
      BY <2>2 DEF Round
    <3>2. path = 1 /\ fd = 1
      BY <3>1, WholeIs DEF Emptied, Whole, Disk
    <3> QED BY <1>1, <1>2, <2>2, <3>1, <3>2 DEF Emptied
  <2> QED BY <1>1, <2>1, <2>2
<1>6. InStep'
  <2>1. path \in 1 .. Len(files)
    BY <1>1, WholeIs DEF Missing
  <2>a. files \in Seq(1 .. Len(gens)) /\ gens \in Seq(Seq(BOOLEAN))
    BY WholeIs
  <2>2. files[path] \in 1 .. Len(gens)
    BY <2>1, <2>a
  <2>3. gens[files[path]] \in Seq(BOOLEAN)
    BY <2>2, <2>a
  <2>4. Size(fd)' = Len(gens[files[path]])
    BY <1>1 DEF Size
  <2>5. Len(gens[files[path]]) \in Nat
    BY <2>3
  <2> QED BY <1>1, <1>3, <1>5, <2>4, <2>5 DEF InStep, Within, Joins
<1> QED BY <1>1, <1>4, <1>5, <1>6 DEF Round

(* The last read before a stop, which may give up the line.                *)
LEMMA LastOrder ==
  ASSUME Whole, Round, LastRead
  PROVE  Round' /\ Ordering'
<1>1. pc = "stay" /\ UNCHANGED <<disk, fd, inode, read_pos, stop>> /\ buf = <<>>
  BY DEF LastRead, Round
<1>2. CASE Available # <<>>
  <2>1. pc' = "fill" /\ buf' = Available /\ offset' = offset + Len(Available) /\ UNCHANGED <<scratch, out>>
    BY <1>2 DEF LastRead
  <2> QED BY <1>1, <1>2, <2>1, ReadOrder
<1>3. CASE Available = <<>>
  <2>1. /\ pc' \in {"closed", "fill"} /\ scratch' = <<>>
        /\ out' = IF scratch = <<>> THEN out ELSE Append(out, scratch)
        /\ UNCHANGED <<buf, offset>>
    BY <1>3 DEF LastRead
  <2>2. Ordered(out', scratch', buf') /\ Got' = Got
    <3>1. Ordered(out, scratch, buf)
      BY DEF Whole, Ordering
    <3>2. CASE scratch = <<>>
      BY <2>1, <3>1, <3>2 DEF Got
    <3>3. CASE scratch # <<>>
      BY <2>1, <3>1, <3>3, AppendedOrdered, WholeIs DEF Got
    <3> QED BY <3>2, <3>3
  <2>3. Ordering'
    BY <1>1, <2>1, <2>2 DEF Whole, Ordering
  <2>4. UNCHANGED <<mode, files, path>> /\ Size(fd)' = Size(fd)
    BY <1>1 DEF disk, Size
  <2>5. InStep' = InStep /\ (Emptied => Emptied')
    BY <1>1, <2>1, <2>2, <2>4 DEF InStep, Emptied
  <2> QED BY <1>1, <2>1, <2>3, <2>4, <2>5 DEF Round
<1> QED BY <1>2, <1>3

(* An error ends the producer, and the line with it.                       *)
LEMMA FailsOrder ==
  ASSUME Whole, Round, OpenFails
  PROVE  Ended' /\ Ordering'
<1>1. /\ pc \in {"replaced", "emptied"} /\ pc' = "failed" /\ scratch' = <<>>
      /\ UNCHANGED <<buf, offset, read_pos, out>>
  BY DEF OpenFails, cursor
<1>2. buf = <<>>
  BY <1>1 DEF Round
<1>3. Ordered(out, scratch, <<>>) /\ Gapless(AllOf(out, scratch, <<>>))
  BY <1>2 DEF Whole, Ordering, Got
<1>4. Ordered(out, <<>>, <<>>) /\ Gapless(AllOf(out, <<>>, <<>>))
  BY <1>3, GapDropped, WholeIs
<1> QED BY <1>1, <1>2, <1>4 DEF Whole, Ordering, Got, Ended

(* Every step of anyone keeps the reader's books.                          *)
LEMMA WholeStep == ~RegrowBeforePoll => (Whole /\ [Next]_vars => Whole')
<1> SUFFICES ASSUME ~RegrowBeforePoll, Whole, [Next]_vars PROVE Whole'
  OBVIOUS
<1>1. Typed' /\ Disk'
  BY TypedStep, DiskStep DEF Whole
<1>2. CASE Ended
  <2>1. Ended' /\ UNCHANGED <<cursor, scratch, out>>
    BY <1>2 DEF Next, Reader, Write, Rename, Create, Reopen, Truncate, Fill, AtEnd, Consume, Stat,
       OpenAgain, OpenFails, Poll, LastRead, Stop, Closed, Ended, vars
  <2> QED BY <1>1, <2>1, Untouched DEF Whole
<1>3. CASE ~Ended
  <2>0. Round
    BY <1>3 DEF Whole
  <2>1. CASE \E eol \in BOOLEAN : Write(eol)
    <3>1. UNCHANGED <<cursor, scratch, out>>
      BY <2>1 DEF Write
    <3> QED BY <2>0, <2>1, <3>1, <1>1, WriteRound, Untouched DEF Whole
  <2>2. CASE Rename \/ Create \/ Reopen \/ Stop
    <3>1. UNCHANGED <<cursor, scratch, out>>
      BY <2>2 DEF Rename, Create, Reopen, Stop
    <3> QED BY <2>0, <2>2, <3>1, <1>1, RotateRound, Untouched DEF Whole
  <2>3. CASE Truncate
    <3>1. UNCHANGED <<cursor, scratch, out>>
      BY <2>3 DEF Truncate
    <3> QED BY <2>0, <2>3, <3>1, <1>1, TruncateRound, Untouched DEF Whole
  <2>4. CASE Fill
    <3>1. /\ pc = "fill" /\ pc' = "fill" /\ buf = <<>> /\ Available # <<>>
          /\ buf' = Available /\ offset' = offset + Len(Available)
          /\ UNCHANGED <<disk, fd, inode, read_pos, scratch, out>>
      BY <2>4 DEF Fill
    <3> QED BY <2>0, <3>1, <1>1, ReadOrder DEF Whole
  <2>5. CASE Consume
    BY <2>0, <2>5, <1>1, ConsumeOrder DEF Whole
  <2>6. CASE Stat
    BY <2>0, <2>6, <1>1, StatRound DEF Whole
  <2>7. CASE OpenAgain
    BY <2>0, <2>7, <1>1, OpenRound DEF Whole
  <2>8. CASE OpenFails
    BY <2>0, <2>8, <1>1, FailsOrder DEF Whole
  <2>9. CASE LastRead
    BY <2>0, <2>9, <1>1, LastOrder DEF Whole
  <2>10. CASE AtEnd \/ Poll \/ UNCHANGED vars
    <3>1. UNCHANGED <<disk, cursor, scratch, out>>
      BY <2>10 DEF AtEnd, Poll, vars
    <3>2. pc' = pc \/ (pc = "fill" /\ pc' = "stat" /\ buf = <<>>) \/ (pc = "stay" /\ pc' = "fill")
      BY <2>10 DEF AtEnd, Poll, vars
    <3>3. Ordering' /\ Got' = Got
      BY <3>1, Untouched
    <3>4. UNCHANGED <<mode, gens, files, path, fd, inode, offset, buf>> /\ Size(fd)' = Size(fd)
      BY <3>1 DEF disk, cursor, Size
    <3>5. InStep' = InStep /\ (Emptied => Emptied')
      BY <3>2, <3>3, <3>4 DEF InStep, Emptied
    <3>6. Round'
      BY <2>0, <3>2, <3>4, <3>5 DEF Round
    <3> QED BY <1>1, <3>3, <3>6 DEF Whole
  <2>11. CASE Closed
    BY <1>3, <2>11 DEF Closed
  <2> QED
    BY <2>1, <2>2, <2>3, <2>4, <2>5, <2>6, <2>7, <2>8, <2>9, <2>10, <2>11 DEF Next, Reader
<1> QED BY <1>2, <1>3

(* TailReader over check_rotation(): nothing is read twice or out of       *)
(* order, a generation is read from its start, and only what is at its end *)
(* is missed, for logs of any length that are rotated any number of times, *)
(* as long as an emptied log does not grow past the reader's position      *)
(* before the reader looks at it.                                          *)
THEOREM AlwaysReadInOrder == ~RegrowBeforePoll => (Spec => []ReadInOrder)
<1>1. Whole => ReadInOrder
  <2> SUFFICES ASSUME Whole PROVE ReadInOrder
    OBVIOUS
  <2>1. out \in Seq(Seq(Entry)) /\ scratch \in Seq(Entry) /\ buf \in Seq(Entry)
    BY WholeIs
  <2>2. Texts = out \o <<scratch, buf>>
    BY DEF Texts
  <2>3. PiecesOf(Texts) = AllOf(out, scratch, buf) /\ (OneByOne(Texts) <=> Ordered(out, scratch, buf))
    BY <2>1, <2>2, OrderOf
  <2>4. Seen = Got
    BY <2>3 DEF Seen, PiecesOf, Got
  <2>5. OneByOne(Texts)
    BY <2>3 DEF Whole, Ordering
  <2>6. Gapless(Got) /\ read_pos + Len(buf) = offset
    BY DEF Whole, Ordering
  <2> QED BY <2>4, <2>5, <2>6 DEF ReadInOrder, Gapless, OneByOne
<1>2. ASSUME ~RegrowBeforePoll PROVE Spec => []ReadInOrder
  <2>1. Whole /\ [Next]_vars => Whole'
    BY <1>2, WholeStep
  <2> QED BY WholeInit, <2>1, <1>1, PTL DEF Spec
<1> QED BY <1>2

-----------------------------------------------------------------------------
(* The two phases of --follow (module Follow): they fit together for every *)
(* capacity of the channel, every number of records a tick takes and every *)
(* length of the log.                                                      *)

(* What lands is index \o chan: a record moves from the head of the        *)
(* channel to the end of the index, and a new one is put behind both.      *)

(* The channel's head, taken, stays where it was in what landed.           *)
LEMMA TakeKeeps ==
  ASSUME NEW s \in Seq(Nat), NEW t \in Seq(Nat), t # <<>>
  PROVE  /\ Append(s, Head(t)) \in Seq(Nat) /\ Tail(t) \in Seq(Nat)
         /\ Append(s, Head(t)) \o Tail(t) = s \o t
<1> DEFINE u == Append(s, Head(t))
<1>1. /\ Head(t) \in Nat /\ Tail(t) \in Seq(Nat) /\ Len(Tail(t)) = Len(t) - 1
      /\ \A i \in 1 .. Len(Tail(t)) : Tail(t)[i] = t[i + 1]
      /\ Head(t) = t[1] /\ Len(t) \in Nat \ {0} /\ Len(s) \in Nat
  BY HeadTailProperties, EmptySeq, LenProperties
<1>2. /\ u \in Seq(Nat) /\ Len(u) = Len(s) + 1
      /\ \A i \in 1 .. Len(s) : u[i] = s[i]
      /\ u[Len(s) + 1] = Head(t)
  BY <1>1, AppendProperties
<1> HIDE DEF u
<1>3. /\ u \o Tail(t) \in Seq(Nat) /\ Len(u \o Tail(t)) = Len(u) + Len(Tail(t))
      /\ \A i \in 1 .. Len(u) + Len(Tail(t)) :
           (u \o Tail(t))[i] = IF i <= Len(u) THEN u[i] ELSE Tail(t)[i - Len(u)]
  BY <1>1, <1>2, ConcatProperties
<1>4. /\ s \o t \in Seq(Nat) /\ Len(s \o t) = Len(s) + Len(t)
      /\ \A i \in 1 .. Len(s) + Len(t) :
           (s \o t)[i] = IF i <= Len(s) THEN s[i] ELSE t[i - Len(s)]
  BY ConcatProperties
<1>5. Len(u \o Tail(t)) = Len(s \o t)
  BY <1>1, <1>2, <1>3, <1>4
<1>6. ASSUME NEW i \in 1 .. Len(s \o t) PROVE (u \o Tail(t))[i] = (s \o t)[i]
  <2>1. CASE i <= Len(s)
    BY <1>1, <1>2, <1>3, <1>4, <2>1
  <2>2. CASE i = Len(s) + 1
    BY <1>1, <1>2, <1>3, <1>4, <2>2
  <2>3. CASE ~(i <= Len(s) \/ i = Len(s) + 1)
    <3>0. i > Len(s) + 1
      BY <1>1, <1>4, <2>3
    <3>1. i - Len(u) \in 1 .. Len(Tail(t)) /\ i - Len(u) + 1 = i - Len(s)
      BY <1>1, <1>2, <1>4, <3>0
    <3>2. (u \o Tail(t))[i] = Tail(t)[i - Len(u)]
      <4>1. i \in 1 .. Len(u) + Len(Tail(t))
        BY <1>3, <1>5
      <4>2. ~(i <= Len(u))
        BY <1>1, <1>2, <1>4, <3>0
      <4> QED BY <1>3, <4>1, <4>2
    <3>3. (s \o t)[i] = t[i - Len(s)]
      BY <1>1, <1>4, <3>0
    <3> QED BY <1>1, <3>1, <3>2, <3>3
  <2> QED BY <2>1, <2>2, <2>3
<1>7. u \o Tail(t) = s \o t
  BY <1>3, <1>4, <1>5, <1>6, SeqEqual
<1> QED BY <1>1, <1>2, <1>7 DEF u

(* What is sent is put behind all that landed.                             *)
LEMMA SendAppends ==
  ASSUME NEW s \in Seq(Nat), NEW t \in Seq(Nat), NEW e \in Nat
  PROVE  /\ Append(t, e) \in Seq(Nat)
         /\ s \o Append(t, e) = Append(s \o t, e)
<1>1. /\ Append(t, e) \in Seq(Nat) /\ Append(t, e) = t \o <<e>>
      /\ <<e>> \in Seq(Nat) /\ s \o t \in Seq(Nat)
      /\ Append(s \o t, e) = (s \o t) \o <<e>>
  BY AppendProperties, AppendIsConcat, ConcatProperties
<1> QED BY <1>1, ConcatAssociative

-----------------------------------------------------------------------------
(* LandsOnce is not inductive: that a new entry is the next one is the     *)
(* worker's position, and where the worker starts is the cursor.  The      *)
(* receiver is dropped only after the worker is gone.                      *)
Fits ==
  /\ kind \in {"file", "journal"} /\ worker \in {"none", "starting", "running", "gone"}
  /\ log \in Nat /\ after_cursor \in Nat /\ pos \in Nat
  /\ index \in Seq(Nat) /\ chan \in Seq(Nat)
  /\ pos <= log
  /\ worker = "none" => index = <<>> /\ chan = <<>> /\ after_cursor = NoCursor
  /\ (worker # "none" /\ ~live_rx) => worker = "gone" /\ chan = <<>>
  /\ \A i \in 1 .. Len(Landed) : Landed[i] <= log
  /\ worker = "running" => \A i \in 1 .. Len(Landed) : Landed[i] <= pos
  /\ \A i, j \in 1 .. Len(Landed) : i < j => Landed[i] < Landed[j]
  /\ after_cursor # NoCursor =>
       /\ \A i \in 1 .. Len(Landed) : Landed[i] = i
       /\ worker = "starting" => Len(Landed) = after_cursor
       /\ worker = "running" => Len(Landed) = pos
       /\ after_cursor <= log

(* It holds at first,                                                      *)
LEMMA FitsInit == FollowInit => Fits
<1> SUFFICES ASSUME FollowInit PROVE Fits
  OBVIOUS
<1>1. Landed = <<>>
  BY ConcatEmptySeq DEF FollowInit, Landed
<1>2. <<>> \in Seq(Nat) /\ Len(<<>>) = 0
  BY EmptySeq
<1>3. kind \in {"file", "journal"} /\ log \in Nat
  BY FollowAssumption DEF FollowInit
<1> QED BY <1>1, <1>2, <1>3 DEF FollowInit, Fits, NoCursor

(* and every step keeps it.                                                *)
LEMMA FitsStep == Fits /\ [FollowNext]_followVars => Fits'
<1> SUFFICES ASSUME Fits, [FollowNext]_followVars PROVE Fits'
  OBVIOUS
<1>1. Landed \in Seq(Nat) /\ Len(Landed) \in Nat
      /\ \A i \in 1 .. Len(Landed) : Landed[i] \in Nat
  BY ConcatProperties, LenProperties, ElementOfSeq DEF Fits, Landed
<1>2. CASE Log
  <2>1. Landed' = Landed
    BY <1>2 DEF Log, Landed
  <2>2. log \in Nat /\ log' = log + 1 /\ UNCHANGED <<kind, after_cursor, worker, pos, chan, live_rx, index>>
    BY <1>2 DEF Log, Fits
  <2>3. \A i \in 1 .. Len(Landed) : Landed[i] <= log'
    <3>1. ASSUME NEW i \in 1 .. Len(Landed) PROVE Landed[i] \in Nat /\ Landed[i] <= log
      BY <1>1 DEF Fits
    <3> QED BY <2>2, <3>1
  <2>4. pos' <= log' /\ (after_cursor' # NoCursor => after_cursor' <= log')
    BY <2>2 DEF Fits
  <2> QED BY <2>1, <2>2, <2>3, <2>4 DEF Fits
<1>3. CASE Backfill
  <2>1. /\ chan' = <<>> /\ index' = [i \in 1 .. log |-> i]
        /\ index' \in Seq(Nat) /\ Len(index') = log
    BY <1>3 DEF Backfill, Fits
  <2>2. Landed' = index'
    BY <2>1, ConcatEmptySeq DEF Landed
  <2> QED BY <1>3, <2>1, <2>2 DEF Backfill, Fits, NoCursor
<1>4. CASE Start
  <2>1. Landed' = Landed
    BY <1>4 DEF Start, Landed
  <2> QED BY <1>1, <1>4, <2>1 DEF Start, Fits, NoCursor
<1>5. CASE Send
  <2>1. /\ worker = "running" /\ pos < log
        /\ pos' = pos + 1 /\ chan' = Append(chan, pos + 1)
        /\ UNCHANGED <<kind, log, after_cursor, worker, live_rx, index>>
    BY <1>5 DEF Send
  <2>2. pos + 1 \in Nat /\ chan' \in Seq(Nat) /\ Landed' = Append(Landed, pos + 1)
    BY <2>1, SendAppends DEF Fits, Landed
  <2>3. /\ Len(Landed') = Len(Landed) + 1
        /\ \A i \in 1 .. Len(Landed) : Landed'[i] = Landed[i]
        /\ Landed'[Len(Landed) + 1] = pos + 1
    BY <1>1, <2>2, AppendProperties
  <2>4. \A i \in 1 .. Len(Landed') : i \in 1 .. Len(Landed) \/ i = Len(Landed) + 1
    BY <1>1, <2>3
  <2>5. \A i \in 1 .. Len(Landed') : Landed'[i] <= pos' /\ Landed'[i] <= log'
    <3>1. ASSUME NEW i \in 1 .. Len(Landed) PROVE Landed'[i] <= pos + 1
      <4>1. Landed[i] <= pos /\ pos \in Nat
        BY <2>1 DEF Fits
      <4> QED BY <1>1, <2>3, <4>1
    <3>2. Landed'[Len(Landed) + 1] <= pos + 1
      BY <2>3 DEF Fits
    <3>3. \A i \in 1 .. Len(Landed') : Landed'[i] <= pos + 1
      BY <2>4, <3>1, <3>2
    <3>4. ASSUME NEW i \in 1 .. Len(Landed) PROVE Landed'[i] <= log
      BY <1>1, <2>1, <2>3 DEF Fits
    <3>5. Landed'[Len(Landed) + 1] <= log
      BY <2>1, <2>3 DEF Fits
    <3> QED BY <2>1, <2>4, <3>3, <3>4, <3>5
  <2>6. \A i, j \in 1 .. Len(Landed') : i < j => Landed'[i] < Landed'[j]
    <3> SUFFICES ASSUME NEW i \in 1 .. Len(Landed'), NEW j \in 1 .. Len(Landed'), i < j
                 PROVE  Landed'[i] < Landed'[j]
      OBVIOUS
    <3>1. i \in 1 .. Len(Landed) /\ Landed'[i] = Landed[i] /\ Landed[i] <= pos
      BY <1>1, <2>1, <2>3 DEF Fits
    <3>2. CASE j \in 1 .. Len(Landed)
      BY <2>3, <3>1, <3>2 DEF Fits
    <3>3. CASE j = Len(Landed) + 1
      BY <1>1, <2>1, <2>3, <3>1, <3>3 DEF Fits
    <3> QED BY <2>4, <3>2, <3>3
  <2>7. after_cursor' # NoCursor =>
          /\ \A i \in 1 .. Len(Landed') : Landed'[i] = i
          /\ worker' = "running" => Len(Landed') = pos'
    BY <1>1, <2>1, <2>3, <2>4 DEF Fits
  <2> QED BY <2>1, <2>2, <2>5, <2>6, <2>7 DEF Fits
<1>6. CASE Gone
  <2>1. Landed' = Landed
    BY <1>6 DEF Gone, Landed
  <2> QED BY <1>1, <1>6, <2>1 DEF Gone, Fits, NoCursor
<1>7. CASE Take
  <2>1. /\ live_rx /\ chan # <<>>
        /\ index' = Append(index, Head(chan)) /\ chan' = Tail(chan)
        /\ UNCHANGED <<kind, log, after_cursor, worker, pos, live_rx>>
    BY <1>7 DEF Take
  <2>2. index' \in Seq(Nat) /\ chan' \in Seq(Nat) /\ Landed' = Landed
    BY <2>1, TakeKeeps DEF Fits, Landed
  <2> QED BY <2>1, <2>2 DEF Fits
<1>8. CASE TickEnds
  <2>1. Landed' = Landed
    BY <1>8 DEF TickEnds, Landed
  <2> QED BY <1>1, <1>8, <2>1 DEF TickEnds, Fits, NoCursor
<1>9. CASE Idle \/ UNCHANGED followVars
  BY <1>9 DEF Idle, followVars, Fits, Landed
<1> QED BY <1>2, <1>3, <1>4, <1>5, <1>6, <1>7, <1>8, <1>9 DEF FollowNext

(* spawn_follow_worker and drain_live_channel: no entry lands twice or out *)
(* of order, a journal followed from a cursor has no gap, and a worker     *)
(* that goes away takes nothing with it.                                   *)
THEOREM AlwaysLandsOnce == FollowSpec => []LandsOnce
<1>1. Fits => LandsOnce
  <2> SUFFICES ASSUME Fits PROVE LandsOnce
    OBVIOUS
  <2>1. Landed \in Seq(Nat) /\ Len(Landed) \in Nat /\ Landed \in [1 .. Len(Landed) -> Nat]
    BY ConcatProperties, LenProperties DEF Fits, Landed
  <2>2. ASSUME NEW i \in 1 .. Len(Landed) - 1 PROVE Landed[i] < Landed[i + 1]
    <3>1. i \in 1 .. Len(Landed) /\ i + 1 \in 1 .. Len(Landed) /\ i < i + 1
      BY <2>1
    <3> QED BY <3>1 DEF Fits
  <2>3. after_cursor # NoCursor => Landed = [i \in 1 .. Len(Landed) |-> i]
    <3> DEFINE n == Len(Landed)
    <3>1. Landed = [i \in 1 .. n |-> Landed[i]]
      BY <2>1
    <3>2. after_cursor # NoCursor => \A i \in 1 .. n : Landed[i] = i
      BY DEF Fits
    <3> QED BY <3>1, <3>2
  <2> QED BY <2>2, <2>3 DEF Fits, LandsOnce
<1> QED BY FitsInit, FitsStep, <1>1, PTL DEF FollowSpec

-----------------------------------------------------------------------------
(* Follow implements LogFeed.  The place to follow from is where the       *)
(* backfill ended or later: before the worker starts, what landed is in    *)
(* the log, and the cursor is the last of it.                              *)
Resumes ==
  worker = "starting" =>
    Len(Landed) <= log /\ (kind = "journal" => after_cursor = Len(Landed))

LEMMA LandedIs ==
  ASSUME Fits
  PROVE  /\ Landed \in Seq(Nat) /\ Len(Landed) = Len(index) + Len(chan)
         /\ Len(index) \in Nat /\ Len(chan) \in Nat
BY ConcatProperties, LenProperties DEF Fits, Landed

LEMMA ResumesStep == Fits /\ Fits' /\ Resumes /\ [FollowNext]_followVars => Resumes'
<1> SUFFICES ASSUME Fits, Fits', Resumes, [FollowNext]_followVars, worker' = "starting"
             PROVE  Len(Landed)' <= log' /\ (kind' = "journal" => after_cursor' = Len(Landed)')
  BY DEF Resumes
<1>1. CASE Log
  <2>1. UNCHANGED <<kind, after_cursor, worker, Landed>> /\ log' = log + 1
    BY <1>1 DEF Log, Landed
  <2>2. Len(Landed) \in Nat /\ log \in Nat
    BY LandedIs DEF Fits
  <2> QED BY <2>1, <2>2 DEF Resumes
<1>2. CASE Backfill
  <2>1. /\ chan' = <<>> /\ index' = [i \in 1 .. log |-> i] /\ log' = log /\ log \in Nat
        /\ index' \in Seq(Nat) /\ Len(index') = log
    BY <1>2 DEF Backfill, Fits
  <2>2. Landed' = index'
    BY <2>1, ConcatEmptySeq DEF Landed
  <2> QED BY <1>2, <2>1, <2>2 DEF Backfill
<1>3. CASE Take
  <2>1. Landed' = Landed
    BY <1>3, TakeKeeps DEF Take, Fits, Landed
  <2> QED BY <1>3, <2>1 DEF Take, Resumes
<1>4. CASE TickEnds
  BY <1>4 DEF TickEnds, Resumes, Landed
<1>5. CASE Idle \/ UNCHANGED followVars
  BY <1>5 DEF Idle, followVars, Resumes, Landed
<1>6. ~Start /\ ~Send /\ ~Gone
  BY DEF Start, Send, Gone
<1> QED BY <1>1, <1>2, <1>3, <1>4, <1>5, <1>6 DEF FollowNext

LEMMA FeedInit == FollowInit => Feed!Init /\ Resumes
<1> SUFFICES ASSUME FollowInit PROVE Feed!Init /\ Resumes
  OBVIOUS
<1>1. Landed = <<>> /\ Len(index) = 0
  BY ConcatEmptySeq, EmptySeq DEF FollowInit, Landed
<1>2. log \in Nat
  BY FollowAssumption DEF FollowInit
<1> QED BY <1>1, <1>2 DEF FollowInit, Feed!Init, Resumes

LEMMA FeedStep ==
  Fits /\ Fits' /\ Resumes /\ [FollowNext]_followVars => [Feed!Next]_(Feed!vars)
<1> SUFFICES ASSUME Fits, Fits', Resumes, [FollowNext]_followVars
             PROVE  [Feed!Next]_(Feed!vars)
  OBVIOUS
<1>0. /\ Landed \in Seq(Nat) /\ Len(Landed) = Len(index) + Len(chan)
      /\ Len(index) \in Nat /\ Len(chan) \in Nat
  BY LandedIs
<1>1. CASE Log
  <2>1. Feed!Log
    BY <1>1 DEF Log, Landed, Feed!Log
  <2> QED BY <2>1 DEF Feed!Next
<1>2. CASE Backfill
  <2>1. /\ chan' = <<>> /\ index' = [i \in 1 .. log |-> i] /\ log \in Nat
        /\ index' \in Seq(Nat) /\ Len(index') = log
    BY <1>2 DEF Backfill, Fits
  <2>2. Landed' = index'
    BY <2>1, ConcatEmptySeq DEF Landed
  <2>3. Feed!Fill
    BY <1>2, <2>1, <2>2 DEF Backfill, Feed!Fill
  <2> QED BY <2>3 DEF Feed!Next
<1>3. CASE Start
  <2>1. /\ worker = "starting" /\ worker' = "running"
        /\ pos' = IF after_cursor # NoCursor THEN after_cursor ELSE log
        /\ UNCHANGED <<kind, log, live_rx, index>> /\ Landed' = Landed
    BY <1>3 DEF Start, Landed
  <2>2. Len(Landed) <= log /\ (kind = "journal" => after_cursor = Len(Landed)) /\ log \in Nat
    BY <2>1 DEF Resumes, Fits
  <2>3. after_cursor # NoCursor => after_cursor = Len(Landed)
    BY <2>1 DEF Fits
  <2>4. pos' \in Len(Landed) .. log
    BY <1>0, <2>1, <2>2, <2>3
  <2>5. kind = "journal" /\ Landed # <<>> => pos' = Len(Landed)
    <3>1. Landed # <<>> => Len(Landed) # 0
      BY <1>0, EmptySeq
    <3> QED BY <2>1, <2>2, <3>1 DEF NoCursor
  <2>6. Feed!Begin
    BY <2>1, <2>4, <2>5 DEF Feed!Begin
  <2> QED BY <2>6 DEF Feed!Next
<1>4. CASE Send
  <2>1. /\ worker = "running" /\ pos < log
        /\ pos' = pos + 1 /\ chan' = Append(chan, pos + 1)
        /\ UNCHANGED <<kind, log, worker, live_rx, index>>
    BY <1>4 DEF Send
  <2>2. Landed' = Append(Landed, pos + 1)
    <3>1. index \in Seq(Nat) /\ chan \in Seq(Nat) /\ pos + 1 \in Nat
      BY DEF Fits
    <3>2. index \o Append(chan, pos + 1) = Append(index \o chan, pos + 1)
      BY <3>1, SendAppends
    <3> QED BY <2>1, <3>2 DEF Landed
  <2>3. Feed!Land
    BY <2>1, <2>2 DEF Feed!Land
  <2> QED BY <2>3 DEF Feed!Next
<1>5. CASE Gone
  <2>1. Feed!Stop
    BY <1>5 DEF Gone, Landed, Feed!Stop
  <2> QED BY <2>1 DEF Feed!Next
<1>6. CASE Take
  <2>1. /\ live_rx /\ chan # <<>> /\ index' = Append(index, Head(chan))
        /\ UNCHANGED <<kind, log, worker, pos, live_rx>>
    BY <1>6 DEF Take
  <2>2. Landed' = Landed
    BY <1>6, TakeKeeps DEF Take, Fits, Landed
  <2>3. Len(index') = Len(index) + 1 /\ Len(chan) > 0
    <3>1. Head(chan) \in Nat /\ Len(chan) # 0
      BY <2>1, EmptySeq, HeadTailProperties DEF Fits
    <3>2. Len(index') = Len(index) + 1
      BY <2>1, <3>1, AppendProperties DEF Fits
    <3> QED BY <1>0, <3>1, <3>2
  <2>4. Feed!Show
    BY <1>0, <2>1, <2>2, <2>3 DEF Feed!Show
  <2> QED BY <2>4 DEF Feed!Next
<1>7. CASE TickEnds
  <2>1. /\ live_rx /\ UNCHANGED <<kind, log, worker, pos, chan, index>>
        /\ live_rx' = ~(chan = <<>> /\ took < DrainPerTick /\ worker = "gone")
    BY <1>7 DEF TickEnds
  <2>2. Landed' = Landed
    BY <2>1 DEF Landed
  <2>3. CASE live_rx' = live_rx
    BY <2>1, <2>2, <2>3 DEF Feed!vars
  <2>4. CASE live_rx' # live_rx
    <3>1. chan = <<>> /\ worker = "gone" /\ live_rx' = FALSE
      BY <2>1, <2>4
    <3>2. Len(Landed) = Len(index)
      BY <1>0, <3>1, EmptySeq
    <3>3. Feed!Close
      BY <2>1, <2>2, <3>1, <3>2 DEF Feed!Close
    <3> QED BY <3>3 DEF Feed!Next
  <2> QED BY <2>3, <2>4
<1>8. CASE Idle \/ UNCHANGED followVars
  BY <1>8 DEF Idle, followVars, Landed, Feed!vars
<1> QED BY <1>1, <1>2, <1>3, <1>4, <1>5, <1>6, <1>7, <1>8 DEF FollowNext

(* spawn_follow_worker, spawn_follow and drain_live_channel together are   *)
(* the feed that --follow promises: what is there, then every entry from   *)
(* one place on, through a channel and ticks of any size.                  *)
THEOREM FollowImplementsFeed == FollowSpec => ImplementsFeed
<1>1. FollowInit => Feed!Init /\ Resumes /\ Fits
  BY FeedInit, FitsInit
<1> QED BY <1>1, FitsStep, ResumesStep, FeedStep, PTL DEF FollowSpec, ImplementsFeed, Feed!Spec
=============================================================================
