--------------------------- MODULE BookmarksProofs ---------------------------
(***************************************************************************)
(* The two promises of the bookmark sidecar, for any programs, logs, tabs  *)
(* and rows, and however often logs are replaced and programs killed: a    *)
(* bookmark is shown on the record it was set on, and saves that do not    *)
(* overlap are kept.                                                       *)
(***************************************************************************)
EXTENDS Bookmarks, FiniteSetTheorems, SequenceTheorems, TLAPS

-----------------------------------------------------------------------------
(* What the variables hold. *)
LogIs == [inode : Nat, version : Nat, rows : Nat, half : BOOLEAN]
Mark == [row : Nat, of : Logs \X (Nat \X Nat)]
Marks == [1 .. Tabs -> SUBSET Mark]
Entry == [inode : Nat, size : Int, version : Nat, tabs : Marks, updated : Nat, mixed : BOOLEAN]
Books == UNION {[D -> Entry] : D \in SUBSET Logs}
Text == [json : BOOLEAN, book : Books]
Program ==
  [pc : {"off", "open", "up"} \cup Saving, log : Logs \cup {"none"}, version : Nat, rows : Nat,
   live : Seq(Nat \X Nat), next : {<<>>} \cup (Nat \X Nat), marks : Marks, mixed : BOOLEAN, book : Books, quit : Nat, at : Nat]

Typed ==
  /\ log \in [Logs -> LogIs]
  /\ now \in Nat
  /\ prog \in [Programs -> Program]
  /\ \A p \in Programs : prog[p].pc # "off" => prog[p].log \in Logs
  /\ content \in Seq(Text)
  /\ named \in [sidecar : 0 .. Len(content), tmp : 0 .. Len(content)]
  /\ last \in UNION {[D -> [tabs : Marks, updated : Nat]] : D \in SUBSET Logs}
  /\ IsFiniteSet(DOMAIN last)
  /\ overlapped \in BOOLEAN

(* What a book says of a log it is sure of is about the version it names.  *)
BookTrue(book) ==
  \A l \in DOMAIN book : ~book[l].mixed =>
    \A t \in 1 .. Tabs : \A m \in book[l].tabs[t] : m.of = <<l, <<book[l].version, m.row>>>>

BooksTrue ==
  /\ \A i \in DOMAIN content : BookTrue(content[i].book)
  /\ \A p \in Programs : BookTrue(prog[p].book)

-----------------------------------------------------------------------------
(* A book gives an entry to each of some logs. *)
LEMMA BookIs ==
  ASSUME NEW book \in Books
  PROVE  /\ DOMAIN book \subseteq Logs
         /\ \A l \in DOMAIN book : book[l] \in Entry
         /\ book = [l \in DOMAIN book |-> book[l]]
BY DEF Books

LEMMA IsBook ==
  ASSUME NEW D \in SUBSET Logs, NEW book \in [D -> Entry]
  PROVE  book \in Books
BY DEF Books

(* The book without an entry. *)
LEMMA NoBookIs == NoBook \in Books /\ DOMAIN NoBook = {} /\ BookTrue(NoBook)
<1>1. NoBook \in [{} -> Entry] /\ DOMAIN NoBook = {}
  BY DEF NoBook
<1> QED BY <1>1, IsBook DEF BookTrue

LEMMA NoMarksIs == NoMarks \in Marks
BY DEF NoMarks, Marks

(* The sidecar as it is loaded is a book. *)
LEMMA LoadedIs ==
  ASSUME Typed
  PROVE  Loaded \in Books
<1>1. CASE named.sidecar = 0
  BY <1>1, NoBookIs DEF Loaded
<1>2. CASE named.sidecar # 0
  <2>1. named.sidecar \in DOMAIN content /\ content \in Seq(Text)
    BY <1>2 DEF Typed
  <2>2. content[named.sidecar] \in Text
    BY <2>1, ElementOfSeq
  <2>3. content[named.sidecar].book \in Books
    BY <2>2 DEF Text
  <2> QED BY <1>2, <2>3 DEF Loaded
<1> QED BY <1>1, <1>2

LEMMA LoadedTrue ==
  ASSUME Typed, BooksTrue
  PROVE  BookTrue(Loaded)
<1>1. CASE named.sidecar = 0
  BY <1>1, NoBookIs DEF Loaded
<1>2. CASE named.sidecar # 0
  <2>1. named.sidecar \in DOMAIN content
    BY <1>2 DEF Typed
  <2> QED BY <1>2, <2>1 DEF Loaded, BooksTrue
<1> QED BY <1>1, <1>2

(* What is left of a book when one log is taken out of it. *)
LEMMA RestrictIs ==
  ASSUME NEW book \in Books, NEW l
  PROVE  LET less == Restrict(book, DOMAIN book \ {l})
         IN  /\ less \in Books /\ DOMAIN less = DOMAIN book \ {l}
             /\ \A k \in DOMAIN less : less[k] = book[k]
             /\ BookTrue(book) => BookTrue(less)
<1> DEFINE less == Restrict(book, DOMAIN book \ {l})
<1>1. DOMAIN less = DOMAIN book \ {l} /\ \A k \in DOMAIN less : less[k] = book[k]
  BY DEF Restrict
<1>2. less \in [DOMAIN book \ {l} -> Entry] /\ DOMAIN book \ {l} \in SUBSET Logs
  BY BookIs DEF Restrict
<1>3. less \in Books
  BY <1>2, IsBook
<1>4. BookTrue(book) => BookTrue(less)
  BY <1>1 DEF BookTrue
<1> QED BY <1>1, <1>3, <1>4

(* What is put into a book. *)
Put(book, l, entry) == [k \in DOMAIN book \cup {l} |-> IF k = l THEN entry ELSE book[k]]

LEMMA PutIs ==
  ASSUME NEW book \in Books, NEW l \in Logs, NEW entry \in Entry
  PROVE  /\ Put(book, l, entry) \in Books
         /\ DOMAIN Put(book, l, entry) = DOMAIN book \cup {l}
         /\ Put(book, l, entry)[l] = entry
         /\ \A k \in DOMAIN book \ {l} : Put(book, l, entry)[k] = book[k]
<1>1. /\ Put(book, l, entry) \in [DOMAIN book \cup {l} -> Entry]
      /\ DOMAIN book \cup {l} \in SUBSET Logs
  BY BookIs DEF Put
<1>2. Put(book, l, entry) \in Books
  BY <1>1, IsBook
<1> QED BY <1>2 DEF Put

(* Of too many, one that was saved longest ago is left out. *)
OldestOut(more, new) ==
  /\ ~(Cardinality(DOMAIN more) <= MAX_SOURCES)
  /\ \E old \in DOMAIN more :
       /\ \A k \in DOMAIN more : more[old].updated <= more[k].updated
       /\ new = Restrict(more, DOMAIN more \ {old})

(* Upsert either takes the log out, or puts its entry in and takes out     *)
(* nothing or the oldest.                                                  *)
LEMMA UpsertIs ==
  ASSUME NEW book \in Books, NEW l \in Logs, NEW entry \in Entry,
         NEW new \in Upsert(book, l, entry)
  PROVE  /\ new \in Books
         /\ \/ /\ entry.tabs = NoMarks
               /\ new = Restrict(book, DOMAIN book \ {l})
            \/ /\ entry.tabs # NoMarks /\ new = Put(book, l, entry)
            \/ entry.tabs # NoMarks /\ OldestOut(Put(book, l, entry), new)
<1> DEFINE more == Put(book, l, entry)
<1>1. more \in Books
  BY PutIs
<1>2. entry.tabs = NoMarks <=> \A t \in 1 .. Tabs : entry.tabs[t] = {}
  BY DEF Entry, Marks, NoMarks
<1>3. CASE entry.tabs = NoMarks
  <2>1. new = Restrict(book, DOMAIN book \ {l})
    BY <1>2, <1>3 DEF Upsert
  <2> QED BY <1>3, <2>1, RestrictIs
<1>4. CASE entry.tabs # NoMarks
  <2>1. new \in Evicted(more)
    BY <1>2, <1>4 DEF Upsert, Put
  <2> HIDE DEF more
  <2>2. CASE Cardinality(DOMAIN more) <= MAX_SOURCES
    <3>1. new = more
      BY <2>1, <2>2 DEF Evicted
    <3> QED BY <3>1, <1>1, <1>4 DEF more
  <2>3. CASE ~(Cardinality(DOMAIN more) <= MAX_SOURCES)
    <3>1. PICK old \in DOMAIN more :
            /\ \A k \in DOMAIN more : more[old].updated <= more[k].updated
            /\ new = Restrict(more, DOMAIN more \ {old})
      BY <2>1, <2>3 DEF Evicted
    <3>2. new \in Books
      BY <3>1, <1>1, RestrictIs
    <3>3. OldestOut(more, new)
      BY <2>3, <3>1 DEF OldestOut
    <3> QED BY <3>2, <3>3, <1>4 DEF more
  <2> QED BY <2>2, <2>3
<1> QED BY <1>3, <1>4

(* It says nothing untrue, if neither the book nor the entry did. *)
LEMMA UpsertTrue ==
  ASSUME NEW book \in Books, NEW l \in Logs, NEW entry \in Entry,
         NEW new \in Upsert(book, l, entry), BookTrue(book),
         ~entry.mixed => \A t \in 1 .. Tabs : \A m \in entry.tabs[t] : m.of = <<l, <<entry.version, m.row>>>>
  PROVE  BookTrue(new)
<1> DEFINE more == Put(book, l, entry)
<1>1. /\ more \in Books /\ DOMAIN more = DOMAIN book \cup {l} /\ more[l] = entry
      /\ \A k \in DOMAIN book \ {l} : more[k] = book[k]
  <2>1. /\ Put(book, l, entry) \in Books
        /\ DOMAIN Put(book, l, entry) = DOMAIN book \cup {l}
        /\ Put(book, l, entry)[l] = entry
        /\ \A k \in DOMAIN book \ {l} : Put(book, l, entry)[k] = book[k]
    BY PutIs
  <2> QED BY <2>1
<1> HIDE DEF more
<1>2. BookTrue(more)
  <2> SUFFICES ASSUME NEW k \in DOMAIN more, ~more[k].mixed,
                      NEW t \in 1 .. Tabs, NEW m \in more[k].tabs[t]
               PROVE  m.of = <<k, <<more[k].version, m.row>>>>
    BY DEF BookTrue
  <2>1. CASE k = l
    BY <1>1, <2>1
  <2>2. CASE k # l
    <3>1. k \in DOMAIN book /\ more[k] = book[k]
      BY <1>1, <2>2
    <3> QED BY <3>1 DEF BookTrue
  <2> QED BY <2>1, <2>2
<1>3. CASE new = Restrict(book, DOMAIN book \ {l})
  BY <1>3, RestrictIs
<1>4. CASE new = more
  BY <1>2, <1>4
<1>5. CASE \E old \in DOMAIN more : new = Restrict(more, DOMAIN more \ {old})
  <2>1. PICK old \in DOMAIN more : new = Restrict(more, DOMAIN more \ {old})
    BY <1>5
  <2> QED BY <1>1, <1>2, <2>1, RestrictIs
<1>6. CASE OldestOut(more, new)
  BY <1>5, <1>6 DEF OldestOut
<1> QED BY <1>3, <1>4, <1>6, UpsertIs DEF more

-----------------------------------------------------------------------------
(* MarksTrue is not inductive: what a program is given by the sidecar must *)
(* be true, in whichever file it is and while it is on its way there.      *)
MarksInv == Typed /\ BooksTrue /\ MarksTrue

(* A bookmark below the number of the rows of a tab is on a row of the log. *)
LEMMA FewerShown ==
  ASSUME NEW t, NEW rows \in Nat
  PROVE  IsFiniteSet(Shown(t, rows)) /\ Cardinality(Shown(t, rows)) <= rows
<1>1. IsFiniteSet(0 .. rows - 1) /\ Cardinality(0 .. rows - 1) = rows
  BY FS_Interval
<1>2. Shown(t, rows) \subseteq 0 .. rows - 1
  BY DEF Shown
<1>3. /\ IsFiniteSet(Shown(t, rows))
      /\ Cardinality(Shown(t, rows)) <= Cardinality(0 .. rows - 1)
  BY <1>1, <1>2, FS_Subset
<1> QED BY <1>1, <1>3

LEMMA IdleIs == Idle \in Program /\ Idle.pc = "off" /\ Idle.marks = NoMarks /\ Idle.book = NoBook
<1>1. <<>> \in Seq(Nat \X Nat)
  OBVIOUS
<1> QED BY <1>1, NoBookIs, NoMarksIs DEF Idle, Program

LEMMA MarksInit == Init => MarksInv
<1> SUFFICES ASSUME Init PROVE MarksInv
  OBVIOUS
<1>1. /\ log = [l \in Logs |-> [inode |-> 0, version |-> 0, rows |-> FirstRows, half |-> FALSE]]
      /\ now = 0 /\ prog = [p \in Programs |-> Idle] /\ content = <<>>
      /\ named = [sidecar |-> 0, tmp |-> 0] /\ last = NoBook /\ overlapped = FALSE
  BY DEF Init
<1>2. log \in [Logs -> LogIs]
  BY <1>1, BookmarksAssumption DEF LogIs
<1>3. prog \in [Programs -> Program] /\ \A p \in Programs : prog[p] = Idle
  BY <1>1, IdleIs
<1>4. content \in Seq(Text) /\ Len(content) = 0 /\ DOMAIN content = {}
  BY <1>1
<1>5. last \in [{} -> [tabs : Marks, updated : Nat]] /\ IsFiniteSet(DOMAIN last)
  BY <1>1, FS_EmptySet DEF NoBook
<1>6. last \in UNION {[D -> [tabs : Marks, updated : Nat]] : D \in SUBSET Logs}
  BY <1>5
<1>7. named \in [sidecar : 0 .. Len(content), tmp : 0 .. Len(content)]
  BY <1>1, <1>4
<1>8. Typed
  BY <1>1, <1>2, <1>3, <1>4, <1>5, <1>6, <1>7, IdleIs DEF Typed
<1>9. BooksTrue
  BY <1>3, <1>4, IdleIs, NoBookIs DEF BooksTrue
<1>10. MarksTrue
  BY <1>3, IdleIs DEF MarksTrue
<1> QED BY <1>8, <1>9, <1>10 DEF MarksInv

(* The world changes the logs and the clock alone. *)
LEMMA WorldKeeps ==
  ASSUME MarksInv,
         UNCHANGED <<prog, content, named, last, overlapped>>,
         log' \in [Logs -> LogIs], now' \in Nat
  PROVE  MarksInv'
<1>1. Typed' /\ BooksTrue'
  BY DEF MarksInv, Typed, BooksTrue
<1>2. MarksTrue'
  BY DEF MarksInv, MarksTrue, OnItsRecord, Rows, RecordAt
<1> QED BY <1>1, <1>2 DEF MarksInv

(* OnItsRecord, of what a program is to be. *)
AtRow(new, row) == IF row < new.rows THEN <<new.version, row>> ELSE new.live[row - new.rows + 1]
OnRecordOf(new, m) ==
  m.row \in Shown(1, new.rows + Len(new.live)) /\ m.of = <<new.log, AtRow(new, m.row)>>

LEMMA OnItsRecordIs ==
  ASSUME NEW p, NEW m
  PROVE  OnItsRecord(p, m) <=> OnRecordOf(prog[p], m)
BY DEF OnItsRecord, OnRecordOf, Rows, RecordAt, AtRow

(* One program takes a step and leaves the files and what was saved alone. *)
LEMMA ProgramKeeps ==
  ASSUME MarksInv, UNCHANGED <<log, now, content, named, last>>, overlapped' \in BOOLEAN,
         NEW p \in Programs, NEW new \in Program, prog' = [prog EXCEPT ![p] = new],
         new.pc # "off" => new.log \in Logs,
         BookTrue(new.book),
         new.pc = "up" /\ ~new.mixed =>
           \A t \in 1 .. Tabs : \A m \in new.marks[t] : OnRecordOf(new, m)
  PROVE  MarksInv'
<1>1. /\ prog' \in [Programs -> Program] /\ prog'[p] = new
      /\ \A q \in Programs \ {p} : prog'[q] = prog[q]
  BY DEF MarksInv, Typed
<1>2. Typed'
  BY <1>1 DEF MarksInv, Typed
<1>3. BooksTrue'
  BY <1>1 DEF MarksInv, BooksTrue
<1>4. ASSUME NEW q \in Programs, prog'[q].pc = "up", ~prog'[q].mixed,
             NEW t \in 1 .. Tabs, NEW m \in prog'[q].marks[t]
      PROVE  OnItsRecord(q, m)'
  <2>1. OnRecordOf(prog'[q], m)
    <3>1. CASE q = p
      BY <1>1, <1>4, <3>1
    <3>2. CASE q # p
      <4>1. prog'[q] = prog[q]
        BY <1>1, <3>2
      <4> QED BY <1>4, <4>1, OnItsRecordIs DEF MarksInv, MarksTrue
    <3> QED BY <3>1, <3>2
  <2> QED BY <2>1 DEF OnItsRecord, OnRecordOf, Rows, RecordAt, AtRow
<1>5. MarksTrue'
  BY <1>4 DEF MarksTrue
<1> QED BY <1>2, <1>3, <1>5 DEF MarksInv

LEMMA IndexKeepsMarks ==
  ASSUME MarksInv, NEW p \in Programs, NEW l \in Logs, Index(p, l)
  PROVE  MarksInv'
<1> DEFINE new == [Idle EXCEPT !.pc = "open", !.log = l,
                               !.version = log[l].version, !.rows = log[l].rows]
<1>1. prog' = [prog EXCEPT ![p] = new] /\ UNCHANGED <<log, now, content, named, last, overlapped>>
  BY DEF Index
<1>2. log[l].version \in Nat /\ log[l].rows \in Nat
  BY DEF MarksInv, Typed, LogIs
<1>3. new \in Program /\ new.pc = "open" /\ new.log = l /\ new.book = NoBook
  BY <1>2, IdleIs DEF Idle, Program
<1> HIDE DEF new
<1> QED BY <1>1, <1>3, ProgramKeeps, NoBookIs DEF MarksInv, Typed

LEMMA RestoreKeepsMarks ==
  ASSUME MarksInv, NEW p \in Programs, RestoreMarks(p)
  PROVE  MarksInv'
<1> DEFINE l == prog[p].log
           saved == Restore(Loaded, l)
           marks == Restored(p)
           new == [prog[p] EXCEPT !.pc = "up", !.marks = marks, !.mixed = Mixed(l, prog[p].version)]
<1>1. /\ prog[p] \in Program /\ prog[p].pc = "open" /\ l \in Logs
      /\ Typed /\ BooksTrue /\ log[l] \in LogIs
  BY DEF MarksInv, Typed, RestoreMarks
<1>2. prog' = [prog EXCEPT ![p] = new] /\ UNCHANGED <<log, now, content, named, last, overlapped>>
  BY DEF RestoreMarks, MarksInv, Typed
<1>21. marks = [t \in 1 .. Tabs |->
                  {m \in saved[t] : m.row < Cardinality(Shown(t, prog[p].rows))}]
  BY DEF Restored
<1>3. Loaded \in Books /\ BookTrue(Loaded)
  BY <1>1, LoadedIs, LoadedTrue
<1>4. saved = NoMarks \/ (l \in DOMAIN Loaded /\ saved = Loaded[l].tabs
                            /\ Loaded[l].inode = log[l].inode /\ Loaded[l].size <= Size(l))
  <2>1. Size(l) \in Int
    BY <1>1 DEF Size, LogIs
  <2>2. l \in DOMAIN Loaded => Loaded[l].size \in Int
    BY <1>3, BookIs DEF Entry
  <2> QED BY <2>1, <2>2 DEF Restore
<1>5. saved \in Marks
  BY <1>3, <1>4, NoMarksIs, BookIs DEF Entry
<1> HIDE DEF saved, marks
<1>6. marks \in Marks
  BY <1>5, <1>21 DEF Marks
<1>7. /\ new \in Program /\ new.pc = "up" /\ new.log = l /\ new.marks = marks
      /\ new.mixed = Mixed(l, prog[p].version) /\ new.book = prog[p].book
      /\ new.version = prog[p].version /\ new.rows = prog[p].rows /\ new.live = prog[p].live
  <2>1. Mixed(l, prog[p].version) \in BOOLEAN
    BY DEF Mixed
  <2> QED BY <1>1, <1>6, <2>1 DEF Program
<1>8. ASSUME ~new.mixed, NEW t \in 1 .. Tabs, NEW m \in marks[t]
      PROVE  OnRecordOf(new, m)
  <2>1. /\ log[l].version = prog[p].version
        /\ l \in DOMAIN Loaded /\ Loaded[l].inode = log[l].inode /\ Loaded[l].size <= Size(l) =>
             ~Loaded[l].mixed /\ Loaded[l].version = log[l].version
    BY <1>7, <1>8 DEF Mixed
  <2>2. m \in saved[t] /\ m \in Mark /\ m.row < Cardinality(Shown(t, prog[p].rows))
    BY <1>5, <1>8, <1>21 DEF Marks
  <2>3. saved # NoMarks
    BY <2>2 DEF NoMarks
  <2>4. m.of = <<l, <<prog[p].version, m.row>>>>
    BY <1>3, <1>4, <2>1, <2>2, <2>3 DEF BookTrue
  <2>5. prog[p].rows \in Nat /\ m.row \in Nat
    BY <1>1, <2>2 DEF Program, Mark
  <2>6. m.row < prog[p].rows
    BY <2>2, <2>5, FewerShown, FS_CardinalityType
  <2>7. Len(prog[p].live) \in Nat
    BY <1>1 DEF Program
  <2>8. m.row \in Shown(1, prog[p].rows + Len(prog[p].live))
    BY <2>5, <2>6, <2>7 DEF Shown
  <2>9. AtRow(new, m.row) = <<prog[p].version, m.row>>
    BY <1>7, <2>6 DEF AtRow
  <2> HIDE DEF new
  <2> QED BY <1>7, <2>4, <2>8, <2>9 DEF OnRecordOf
<1>9. BookTrue(new.book)
  BY <1>1, <1>7 DEF BooksTrue
<1> HIDE DEF new, marks
<1> QED BY <1>1, <1>2, <1>7, <1>8, <1>9, ProgramKeeps DEF Typed

(* What a row is, is a record. *)
LEMMA RecordIs ==
  ASSUME NEW p, prog[p] \in Program, NEW t, NEW r \in Shown(t, Rows(p))
  PROVE  RecordAt(p, r) \in Nat \X Nat
<1>1. prog[p].rows \in Nat /\ prog[p].version \in Nat /\ prog[p].live \in Seq(Nat \X Nat)
  BY DEF Program
<1>2. Len(prog[p].live) \in Nat /\ r \in Nat /\ r < prog[p].rows + Len(prog[p].live)
  BY <1>1 DEF Shown, Rows
<1>3. CASE r < prog[p].rows
  BY <1>1, <1>2, <1>3 DEF RecordAt
<1>4. CASE ~(r < prog[p].rows)
  <2>1. r - prog[p].rows + 1 \in 1 .. Len(prog[p].live)
    <3>1. PICK rows \in Nat, k \in Nat : rows = prog[p].rows /\ k = Len(prog[p].live)
      BY <1>1, <1>2
    <3>2. r \in Nat /\ r < rows + k /\ ~(r < rows)
      BY <1>2, <1>4, <3>1
    <3>3. r - rows + 1 \in 1 .. k
      BY <3>1, <3>2
    <3> QED BY <3>1, <3>3
  <2>2. prog[p].live[r - prog[p].rows + 1] \in Nat \X Nat
    BY <1>1, <2>1, ElementOfSeq
  <2> QED BY <1>4, <2>2 DEF RecordAt
<1> QED BY <1>3, <1>4

LEMMA ToggleKeepsMarks ==
  ASSUME MarksInv, NEW p \in Programs, NEW t \in 1 .. Tabs, NEW r \in Nat, Toggle(p, t, r)
  PROVE  MarksInv'
<1> DEFINE mark == [row |-> r, of |-> <<prog[p].log, RecordAt(p, r)>>]
<1>1. /\ prog[p] \in Program /\ prog[p].pc = "up" /\ prog[p].log \in Logs
      /\ r \in Shown(t, Rows(p))
  BY DEF MarksInv, Typed, Toggle
<1>2. PICK on \in {prog[p].marks[t] \ {m \in prog[p].marks[t] : m.row = r},
                   prog[p].marks[t] \cup {mark}} :
        prog' = [prog EXCEPT ![p].marks[t] = on]
  <2> DEFINE here == {m \in prog[p].marks[t] : m.row = r}
             on == IF here # {} THEN prog[p].marks[t] \ here ELSE prog[p].marks[t] \cup {mark}
  <2>1. prog' = [prog EXCEPT ![p].marks[t] = on]
    BY <1>1 DEF Toggle, MarksInv, Typed, Program, Marks
  <2>2. on \in {prog[p].marks[t] \ here, prog[p].marks[t] \cup {mark}}
    OBVIOUS
  <2> HIDE DEF on
  <2> QED BY <2>1, <2>2
<1> DEFINE new == [prog[p] EXCEPT !.marks[t] = on]
<1>3. prog' = [prog EXCEPT ![p] = new]
  BY <1>2 DEF MarksInv, Typed
<1>4. prog[p].marks \in Marks /\ mark \in Mark /\ mark.of = <<prog[p].log, RecordAt(p, r)>>
      /\ mark.row = r
  <2>1. RecordAt(p, r) \in Nat \X Nat
    BY <1>1, RecordIs
  <2> QED BY <1>1, <2>1 DEF Program, Mark
<1>5. on \subseteq Mark /\ \A m \in on : m = mark \/ m \in prog[p].marks[t]
  BY <1>2, <1>4 DEF Marks
<1>6. [prog[p].marks EXCEPT ![t] = on] \in Marks
  BY <1>4, <1>5 DEF Marks
<1>7. /\ new \in Program /\ new.pc = "up" /\ new.log = prog[p].log /\ new.mixed = prog[p].mixed
      /\ new.marks = [prog[p].marks EXCEPT ![t] = on] /\ new.book = prog[p].book
      /\ new.version = prog[p].version /\ new.rows = prog[p].rows /\ new.live = prog[p].live
  BY <1>1, <1>6 DEF Program
<1>8. ASSUME ~new.mixed, NEW u \in 1 .. Tabs, NEW m \in new.marks[u]
      PROVE  OnRecordOf(new, m)
  <2>0. SUFFICES OnItsRecord(p, m)
    BY <1>7, OnItsRecordIs DEF OnRecordOf, AtRow
  <2>1. m = mark \/ m \in prog[p].marks[u]
    BY <1>4, <1>5, <1>7 DEF Marks
  <2>2. CASE m = mark
    BY <1>1, <1>4, <2>2 DEF Shown, OnItsRecord
  <2>3. CASE m \in prog[p].marks[u]
    BY <1>1, <1>7, <1>8, <2>3 DEF MarksInv, MarksTrue
  <2> QED BY <2>1, <2>2, <2>3
<1>9. BookTrue(new.book)
  BY <1>7 DEF MarksInv, BooksTrue
<1>10. UNCHANGED <<log, now, content, named, last, overlapped>>
  BY DEF Toggle
<1> HIDE DEF new
<1> QED BY <1>1, <1>3, <1>7, <1>8, <1>9, <1>10, ProgramKeeps DEF MarksInv, Typed

(* The tail is opened: no row changes. *)
LEMMA FollowKeepsMarks ==
  ASSUME MarksInv, NEW p \in Programs, Follow(p)
  PROVE  MarksInv'
<1> DEFINE l == log[prog[p].log]
           at == <<l.version, IF l.half /\ l.rows > 0 THEN l.rows - 1 ELSE l.rows>>
           new == [prog[p] EXCEPT !.next = at]
<1>1. /\ prog[p] \in Program /\ prog[p].pc = "up" /\ prog[p].log \in Logs
      /\ UNCHANGED <<log, now, content, named, last, overlapped>>
  BY DEF MarksInv, Typed, Follow
<1>2. l \in LogIs
  BY <1>1 DEF MarksInv, Typed
<1>3. at \in Nat \X Nat
  BY <1>2 DEF LogIs
<1>4. prog' = [prog EXCEPT ![p].next = at]
  BY DEF Follow
<1>5. prog' = [prog EXCEPT ![p] = new]
  BY <1>4 DEF MarksInv, Typed
<1> HIDE DEF at
<1>6. /\ new \in Program /\ new.pc = "up" /\ new.log = prog[p].log /\ new.mixed = prog[p].mixed
      /\ new.marks = prog[p].marks /\ new.book = prog[p].book /\ new.version = prog[p].version
      /\ new.rows = prog[p].rows /\ new.live = prog[p].live
  BY <1>1, <1>3 DEF Program
<1> HIDE DEF new
<1>7. ASSUME ~new.mixed, NEW t \in 1 .. Tabs, NEW m \in new.marks[t]
      PROVE  OnRecordOf(new, m)
  <2>1. OnRecordOf(prog[p], m)
    BY <1>1, <1>6, <1>7, OnItsRecordIs DEF MarksInv, MarksTrue
  <2> QED BY <1>6, <2>1 DEF OnRecordOf, AtRow
<1>8. BookTrue(new.book) /\ overlapped' \in BOOLEAN
  BY <1>1, <1>6 DEF MarksInv, BooksTrue, Typed
<1> QED BY <1>1, <1>5, <1>6, <1>7, <1>8, ProgramKeeps

(* A row is below the number of rows, and of one more. *)
LEMMA StillBelow ==
  ASSUME NEW i \in Nat, NEW j \in Nat, NEW r \in Nat, r <= i + j - 1
  PROVE  r \in 0 .. (i + j + 1) - 1
OBVIOUS

(* A row more leaves the rows there were. *)
LEMMA IngestKeepsMarks ==
  ASSUME MarksInv, NEW p \in Programs, Ingest(p)
  PROVE  MarksInv'
<1> DEFINE l == log[prog[p].log]
           at == IF prog[p].next[1] = l.version THEN prog[p].next ELSE <<l.version, 0>>
           new == [prog[p] EXCEPT !.live = Append(prog[p].live, at), !.next = <<at[1], at[2] + 1>>]
<1>1. /\ prog[p] \in Program /\ prog[p].pc = "up" /\ prog[p].log \in Logs
      /\ prog[p].next # <<>>
      /\ UNCHANGED <<log, now, content, named, last, overlapped>>
  BY DEF MarksInv, Typed, Ingest
<1>2. l.version \in Nat
  BY <1>1 DEF MarksInv, Typed, LogIs
<1>3. at \in Nat \X Nat
  BY <1>1, <1>2 DEF Program
<1>4. prog' = [prog EXCEPT ![p].live = Append(@, at), ![p].next = <<at[1], at[2] + 1>>]
  BY DEF Ingest
<1>5. prog' = [prog EXCEPT ![p] = new]
  BY <1>4 DEF MarksInv, Typed
<1> HIDE DEF at
<1> DEFINE live == Append(prog[p].live, at)
<1>6. /\ prog[p].live \in Seq(Nat \X Nat) /\ live \in Seq(Nat \X Nat)
      /\ Len(prog[p].live) \in Nat /\ Len(live) = Len(prog[p].live) + 1
      /\ \A i \in 1 .. Len(prog[p].live) : live[i] = prog[p].live[i]
  BY <1>1, <1>3, AppendProperties DEF Program
<1>7. <<at[1], at[2] + 1>> \in Nat \X Nat
  BY <1>3
<1> HIDE DEF live
<1>8. /\ new \in Program /\ new.pc = "up" /\ new.log = prog[p].log /\ new.mixed = prog[p].mixed
      /\ new.marks = prog[p].marks /\ new.book = prog[p].book /\ new.version = prog[p].version
      /\ new.rows = prog[p].rows /\ new.live = live /\ prog[p].rows \in Nat
  BY <1>1, <1>6, <1>7 DEF Program, live
<1> HIDE DEF new
<1>9. ASSUME ~new.mixed, NEW t \in 1 .. Tabs, NEW m \in new.marks[t]
      PROVE  OnRecordOf(new, m)
  <2>1. OnRecordOf(prog[p], m)
    BY <1>1, <1>8, <1>9, OnItsRecordIs DEF MarksInv, MarksTrue
  <2>2. m.row \in Nat /\ m.row <= prog[p].rows + Len(prog[p].live) - 1
    <3>1. m.row \in 0 .. (prog[p].rows + Len(prog[p].live)) - 1
      BY <2>1 DEF OnRecordOf, Shown
    <3>2. prog[p].rows \in Nat /\ Len(prog[p].live) \in Nat
      BY <1>6, <1>8
    <3> QED BY <3>1, <3>2
  <2>3. m.row \in Shown(1, new.rows + Len(new.live))
    <3>1. new.rows + Len(new.live) = prog[p].rows + Len(prog[p].live) + 1
      <4>1. new.rows = prog[p].rows /\ new.live = live
        BY <1>8
      <4>2. Len(live) = Len(prog[p].live) + 1 /\ Len(prog[p].live) \in Nat /\ prog[p].rows \in Nat
        BY <1>6, <1>8
      <4> QED BY <4>1, <4>2
    <3>2. prog[p].rows \in Nat /\ Len(prog[p].live) \in Nat
      BY <1>6, <1>8
    <3>3. m.row \in 0 .. (new.rows + Len(new.live)) - 1
      <4>1. PICK i \in Nat, j \in Nat : i = prog[p].rows /\ j = Len(prog[p].live)
        BY <3>2
      <4>2. new.rows + Len(new.live) = i + j + 1
        BY <3>1, <4>1
      <4>3. m.row \in Nat /\ m.row <= i + j - 1
        BY <2>2, <4>1
      <4>4. m.row \in 0 .. (i + j + 1) - 1
        BY <4>1, <4>3, StillBelow
      <4> QED BY <4>2, <4>4
    <3> QED BY <3>3 DEF Shown
  <2>4. AtRow(new, m.row) = AtRow(prog[p], m.row)
    <3>1. CASE m.row < prog[p].rows
      BY <1>8, <3>1 DEF AtRow
    <3>2. CASE ~(m.row < prog[p].rows)
      <4>1. m.row - prog[p].rows + 1 \in 1 .. Len(prog[p].live)
        <5>1. prog[p].rows \in Nat /\ Len(prog[p].live) \in Nat
          BY <1>6, <1>8
        <5> QED BY <2>2, <3>2, <5>1
      <4>2. live[m.row - prog[p].rows + 1] = prog[p].live[m.row - prog[p].rows + 1]
        BY <1>6, <4>1
      <4> QED BY <1>8, <3>2, <4>2 DEF AtRow
    <3> QED BY <3>1, <3>2
  <2> QED BY <1>8, <2>1, <2>3, <2>4 DEF OnRecordOf
<1>10. BookTrue(new.book) /\ overlapped' \in BOOLEAN
  BY <1>1, <1>8 DEF MarksInv, BooksTrue, Typed
<1> QED BY <1>1, <1>5, <1>8, <1>9, <1>10, ProgramKeeps

(* What Quit puts together. *)
Saved(p) ==
  [inode |-> log[prog[p].log].inode, size |-> Size(prog[p].log),
   version |-> log[prog[p].log].version, tabs |-> prog[p].marks, updated |-> now,
   mixed |-> MixedUp(p)]

LEMMA QuitIs ==
  ASSUME MarksInv, NEW p \in Programs, Quit(p)
  PROVE  /\ prog[p] \in Program /\ prog[p].pc = "up" /\ prog[p].log \in Logs
         /\ Saved(p) \in Entry
         /\ Saved(p).tabs = prog[p].marks /\ Saved(p).updated = now
         /\ \E book \in Upsert(Loaded, prog[p].log, Saved(p)) :
              prog' = [prog EXCEPT ![p] = [prog[p] EXCEPT !.pc = "write", !.book = book, !.quit = now]]
         /\ overlapped' = (overlapped \/ \E q \in Programs : prog[q].pc \in Saving)
         /\ UNCHANGED <<log, now, content, named, runs, last>>
<1>1. prog[p] \in Program /\ prog[p].pc = "up" /\ prog[p].log \in Logs /\ prog[p].marks \in Marks
  BY DEF MarksInv, Typed, Quit, Program
<1>2. log[prog[p].log] \in LogIs /\ now \in Nat
  BY <1>1 DEF MarksInv, Typed
<1>3. Saved(p) \in Entry
  <2>1. Size(prog[p].log) \in Int
    BY <1>2 DEF Size, LogIs
  <2>2. MixedUp(p) \in BOOLEAN
    BY DEF MixedUp
  <2> QED BY <1>1, <1>2, <2>1, <2>2 DEF Saved, Entry, LogIs
<1>4. \E book \in Upsert(Loaded, prog[p].log, Saved(p)) :
        prog' = [prog EXCEPT ![p] = [prog[p] EXCEPT !.pc = "write", !.book = book, !.quit = now]]
  <2>1. PICK book \in Upsert(Loaded, prog[p].log, Saved(p)) :
          prog' = [prog EXCEPT ![p].pc = "write", ![p].book = book, ![p].quit = now]
    BY DEF Quit, Saved
  <2>2. prog' = [prog EXCEPT ![p] = [prog[p] EXCEPT !.pc = "write", !.book = book, !.quit = now]]
    BY <1>1, <2>1 DEF MarksInv, Typed
  <2> QED BY <2>2
<1> QED BY <1>1, <1>3, <1>4 DEF Quit, Saved

LEMMA QuitKeepsMarks ==
  ASSUME MarksInv, NEW p \in Programs, Quit(p)
  PROVE  MarksInv'
<1>1. PICK book \in Upsert(Loaded, prog[p].log, Saved(p)) :
        prog' = [prog EXCEPT ![p] = [prog[p] EXCEPT !.pc = "write", !.book = book, !.quit = now]]
  BY QuitIs
<1> DEFINE new == [prog[p] EXCEPT !.pc = "write", !.book = book, !.quit = now]
<1>2. /\ prog[p] \in Program /\ prog[p].pc = "up" /\ prog[p].log \in Logs /\ Saved(p) \in Entry
      /\ Typed /\ now \in Nat
  BY QuitIs DEF MarksInv, Typed
<1>3. Loaded \in Books /\ BookTrue(Loaded)
  BY LoadedIs, LoadedTrue DEF MarksInv
<1>4. book \in Books
  BY <1>1, <1>2, <1>3, UpsertIs
<1>5. new \in Program /\ new.pc = "write" /\ new.log = prog[p].log /\ new.book = book
  BY <1>2, <1>4 DEF Program, Saving
<1>6. ~Saved(p).mixed => \A t \in 1 .. Tabs : \A m \in Saved(p).tabs[t] :
                            m.of = <<prog[p].log, <<Saved(p).version, m.row>>>>
  <2> SUFFICES ASSUME ~MixedUp(p), NEW t \in 1 .. Tabs, NEW m \in prog[p].marks[t]
               PROVE  m.of = <<prog[p].log, <<log[prog[p].log].version, m.row>>>>
    BY DEF Saved
  <2>1. ~prog[p].mixed /\ prog[p].version = log[prog[p].log].version
    BY DEF MixedUp
  <2>2. RecordAt(p, m.row) = <<prog[p].version, m.row>>
    BY DEF MixedUp
  <2>3. OnItsRecord(p, m)
    BY <1>2, <2>1 DEF MarksInv, MarksTrue
  <2> QED BY <2>1, <2>2, <2>3 DEF OnItsRecord
<1>7. BookTrue(book)
  BY <1>1, <1>2, <1>3, <1>6, UpsertTrue
<1>8. overlapped' \in BOOLEAN /\ UNCHANGED <<log, now, content, named, last>>
  BY <1>2, QuitIs DEF Typed
<1> HIDE DEF new
<1> QED BY <1>1, <1>2, <1>5, <1>7, <1>8, ProgramKeeps DEF new

(* The file objects, and which of them have a name. *)
LEMMA FilesKeepMarks ==
  ASSUME MarksInv, UNCHANGED <<log, now, overlapped>>,
         NEW p \in Programs, NEW new \in Program, prog' = [prog EXCEPT ![p] = new],
         new.pc # "off" => new.log \in Logs, new.pc # "up", BookTrue(new.book),
         content' \in Seq(Text), named' \in [sidecar : 0 .. Len(content'), tmp : 0 .. Len(content')],
         \A i \in DOMAIN content' : BookTrue(content'[i].book),
         last' \in UNION {[D -> [tabs : Marks, updated : Nat]] : D \in SUBSET Logs},
         IsFiniteSet(DOMAIN last')
  PROVE  MarksInv'
<1>1. /\ prog' \in [Programs -> Program] /\ prog'[p] = new
      /\ \A q \in Programs \ {p} : prog'[q] = prog[q]
  BY DEF MarksInv, Typed
<1>2. Typed'
  BY <1>1 DEF MarksInv, Typed
<1>3. BooksTrue'
  BY <1>1 DEF MarksInv, BooksTrue
<1>4. MarksTrue'
  BY <1>1 DEF MarksInv, MarksTrue, OnItsRecord, Rows, RecordAt
<1> QED BY <1>2, <1>3, <1>4 DEF MarksInv

(* One object gets another text, or is new. *)
LEMMA Rewritten ==
  ASSUME NEW old \in Seq(Text), NEW f \in 1 .. Len(old) + 1, NEW text \in Text,
         NEW new, DOMAIN new = DOMAIN old \cup {f}, new = [i \in DOMAIN new |-> new[i]],
         new[f] = text, \A i \in DOMAIN old \ {f} : new[i] = old[i]
  PROVE  /\ new \in Seq(Text) /\ f \in 1 .. Len(new)
         /\ Len(old) \in Nat /\ Len(new) \in Nat /\ Len(old) <= Len(new)
<1> DEFINE n == IF f = Len(old) + 1 THEN Len(old) + 1 ELSE Len(old)
<1>1. Len(old) \in Nat /\ DOMAIN old = 1 .. Len(old) /\ \A i \in DOMAIN old : old[i] \in Text
  BY LenProperties, ElementOfSeq
<1>2. n \in Nat /\ DOMAIN old \cup {f} = 1 .. n /\ f \in 1 .. n /\ Len(old) <= n
  BY <1>1
<1>3. new \in [1 .. n -> Text]
  BY <1>1, <1>2
<1> HIDE DEF n
<1>5. new \in Seq(Text)
  BY <1>2, <1>3
<1>6. Len(new) = n
  BY <1>2, <1>3, <1>5, LenProperties
<1> QED BY <1>1, <1>2, <1>5, <1>6

LEMMA BrokenIs == Broken \in Text /\ BookTrue(Broken.book)
BY NoBookIs DEF Broken, Text

(* The object that OpenTmp opens. *)
Opened == IF named.tmp = 0 THEN Len(content) + 1 ELSE named.tmp

LEMMA OpenIs ==
  ASSUME Typed, NEW p \in Programs, OpenTmp(p)
  PROVE  /\ prog[p] \in Program /\ prog[p].pc = "write" /\ prog[p].log \in Logs
         /\ Opened \in 1 .. Len(content') /\ Opened \in Nat /\ Opened # 0
         /\ content' \in Seq(Text) /\ DOMAIN content' = DOMAIN content \cup {Opened}
         /\ Len(content) <= Len(content') /\ Len(content) \in Nat /\ Len(content') \in Nat
         /\ content'[Opened] = Broken
         /\ \A i \in DOMAIN content \ {Opened} : content'[i] = content[i]
         /\ named' = [named EXCEPT !.tmp = Opened]
         /\ prog' = [prog EXCEPT ![p] = [prog[p] EXCEPT !.pc = "fill", !.at = Opened]]
         /\ UNCHANGED <<log, now, runs, last, overlapped>>
<1>1. prog[p] \in Program /\ prog[p].pc = "write" /\ prog[p].log \in Logs
  BY DEF Typed, OpenTmp
<1>2. /\ content' = [i \in DOMAIN content \cup {Opened} |-> IF i = Opened THEN Broken ELSE content[i]]
      /\ named' = [named EXCEPT !.tmp = Opened]
      /\ prog' = [prog EXCEPT ![p].pc = "fill", ![p].at = Opened]
      /\ UNCHANGED <<log, now, runs, last, overlapped>>
  BY DEF OpenTmp, Opened
<1>3. prog' = [prog EXCEPT ![p] = [prog[p] EXCEPT !.pc = "fill", !.at = Opened]]
  BY <1>1, <1>2 DEF Typed
<1>4. content \in Seq(Text) /\ Len(content) \in Nat /\ named.tmp \in 0 .. Len(content)
  BY LenProperties DEF Typed
<1>5. Opened \in 1 .. Len(content) + 1 /\ Opened \in Nat /\ Opened # 0
  BY <1>4 DEF Opened
<1>6. /\ content' \in Seq(Text) /\ Opened \in 1 .. Len(content')
      /\ Len(content) <= Len(content') /\ Len(content') \in Nat
      /\ DOMAIN content' = DOMAIN content \cup {Opened}
      /\ content'[Opened] = Broken /\ \A i \in DOMAIN content \ {Opened} : content'[i] = content[i]
  <2>1. /\ DOMAIN content' = DOMAIN content \cup {Opened} /\ content' = [i \in DOMAIN content' |-> content'[i]]
        /\ content'[Opened] = Broken /\ \A i \in DOMAIN content \ {Opened} : content'[i] = content[i]
    BY <1>2
  <2> QED BY <1>4, <1>5, <2>1, BrokenIs, Rewritten
<1> QED BY <1>1, <1>2, <1>3, <1>4, <1>5, <1>6

LEMMA OpenKeepsMarks ==
  ASSUME MarksInv, NEW p \in Programs, OpenTmp(p)
  PROVE  MarksInv'
<1> DEFINE new == [prog[p] EXCEPT !.pc = "fill", !.at = Opened]
<1>1. /\ prog[p] \in Program /\ prog[p].pc = "write" /\ prog[p].log \in Logs
      /\ Opened \in 1 .. Len(content') /\ Opened \in Nat
      /\ content' \in Seq(Text) /\ DOMAIN content' = DOMAIN content \cup {Opened}
      /\ Len(content) <= Len(content') /\ Len(content) \in Nat /\ Len(content') \in Nat
      /\ content'[Opened] = Broken
      /\ \A i \in DOMAIN content \ {Opened} : content'[i] = content[i]
      /\ named' = [named EXCEPT !.tmp = Opened] /\ prog' = [prog EXCEPT ![p] = new]
      /\ UNCHANGED <<log, now, last, overlapped>>
  BY OpenIs DEF MarksInv
<1>2. new \in Program /\ new.pc = "fill" /\ new.log = prog[p].log /\ new.book = prog[p].book
  BY <1>1 DEF Program, Saving
<1>3. BookTrue(new.book)
  BY <1>2 DEF MarksInv, BooksTrue
<1>4. named' \in [sidecar : 0 .. Len(content'), tmp : 0 .. Len(content')]
  <2>1. named \in [sidecar : 0 .. Len(content), tmp : 0 .. Len(content)]
    BY DEF MarksInv, Typed
  <2>2. named.sidecar \in 0 .. Len(content') /\ Opened \in 0 .. Len(content')
    BY <1>1, <2>1
  <2>3. named' = [sidecar |-> named.sidecar, tmp |-> Opened]
    BY <1>1, <2>1
  <2> QED BY <2>2, <2>3
<1>5. \A i \in DOMAIN content' : BookTrue(content'[i].book)
  BY <1>1, BrokenIs DEF MarksInv, BooksTrue
<1>6. /\ last' \in UNION {[D -> [tabs : Marks, updated : Nat]] : D \in SUBSET Logs}
      /\ IsFiniteSet(DOMAIN last')
  BY <1>1 DEF MarksInv, Typed
<1> HIDE DEF new
<1> QED BY <1>1, <1>2, <1>3, <1>4, <1>5, <1>6, FilesKeepMarks

(* What Fill writes. *)
LEMMA FillIs ==
  ASSUME Typed, NEW p \in Programs, Fill(p)
  PROVE  /\ prog[p] \in Program /\ prog[p].pc = "fill" /\ prog[p].log \in Logs
         /\ \E text \in Text :
              /\ text = [json |-> TRUE, book |-> prog[p].book]
                 \/ (text = Broken /\ content[prog[p].at].json)
              /\ content' = [content EXCEPT ![prog[p].at] = text]
         /\ prog' = [prog EXCEPT ![p] = [prog[p] EXCEPT !.pc = "rename"]]
         /\ UNCHANGED <<log, now, named, runs, last, overlapped>>
<1>1. prog[p] \in Program /\ prog[p].pc = "fill" /\ prog[p].log \in Logs
  BY DEF Typed, Fill
<1>2. PICK text \in {[json |-> TRUE, book |-> prog[p].book]}
                      \cup (IF content[prog[p].at].json THEN {Broken} ELSE {}) :
        content' = [content EXCEPT ![prog[p].at] = text]
  BY DEF Fill
<1>3. /\ text \in Text
      /\ text = [json |-> TRUE, book |-> prog[p].book] \/ (text = Broken /\ content[prog[p].at].json)
  <2>1. prog[p].book \in Books
    BY <1>1 DEF Program
  <2>2. [json |-> TRUE, book |-> prog[p].book] \in Text
    BY <2>1 DEF Text
  <2> QED BY <1>2, <2>2, BrokenIs
<1>4. /\ prog' = [prog EXCEPT ![p] = [prog[p] EXCEPT !.pc = "rename"]]
      /\ UNCHANGED <<log, now, named, runs, last, overlapped>>
  BY <1>1 DEF Fill, Typed
<1> QED BY <1>1, <1>2, <1>3, <1>4

LEMMA FillKeepsMarks ==
  ASSUME MarksInv, NEW p \in Programs, Fill(p)
  PROVE  MarksInv'
<1> DEFINE new == [prog[p] EXCEPT !.pc = "rename"]
<1>1. /\ prog[p] \in Program /\ prog[p].pc = "fill" /\ prog[p].log \in Logs
      /\ prog' = [prog EXCEPT ![p] = new] /\ UNCHANGED <<log, now, named, last, overlapped>>
  BY FillIs DEF MarksInv
<1>2. PICK text \in Text :
        /\ text = [json |-> TRUE, book |-> prog[p].book] \/ text = Broken
        /\ content' = [content EXCEPT ![prog[p].at] = text]
  BY FillIs DEF MarksInv
<1>3. new \in Program /\ new.pc = "rename" /\ new.log = prog[p].log /\ new.book = prog[p].book
  BY <1>1 DEF Program, Saving
<1>4. BookTrue(new.book) /\ BookTrue(text.book)
  BY <1>2, <1>3, BrokenIs DEF MarksInv, BooksTrue
<1>5. content \in Seq(Text)
  BY DEF MarksInv, Typed
<1>6. content' \in Seq(Text) /\ Len(content') = Len(content) /\ DOMAIN content' = DOMAIN content
  <2>1. Len(content) \in Nat /\ DOMAIN content = 1 .. Len(content) /\ content \in [1 .. Len(content) -> Text]
    BY <1>5, LenProperties
  <2>2. content' \in [1 .. Len(content) -> Text]
    BY <1>2, <2>1
  <2>3. content' \in Seq(Text)
    BY <2>1, <2>2
  <2>4. DOMAIN content' = 1 .. Len(content)
    BY <2>2
  <2>5. Len(content') \in Nat /\ DOMAIN content' = 1 .. Len(content')
    BY <2>3, LenProperties
  <2> QED BY <2>1, <2>3, <2>4, <2>5
<1>7. \A i \in DOMAIN content' : BookTrue(content'[i].book)
  BY <1>2, <1>4, <1>6 DEF MarksInv, BooksTrue
<1>8. /\ named' \in [sidecar : 0 .. Len(content'), tmp : 0 .. Len(content')]
      /\ last' \in UNION {[D -> [tabs : Marks, updated : Nat]] : D \in SUBSET Logs}
      /\ IsFiniteSet(DOMAIN last')
  BY <1>1, <1>6 DEF MarksInv, Typed
<1> HIDE DEF new
<1> QED BY <1>1, <1>3, <1>4, <1>6, <1>7, <1>8, FilesKeepMarks

(* The save arrives. *)
LEMMA RenameIs ==
  ASSUME Typed, NEW p \in Programs, Rename(p)
  PROVE  /\ prog[p] \in Program /\ prog[p].pc = "rename" /\ prog[p].log \in Logs
         /\ prog' = [prog EXCEPT ![p] = Idle] /\ UNCHANGED <<log, now, content, runs, overlapped>>
         /\ \/ named.tmp = 0 /\ UNCHANGED <<named, last>>
            \/ /\ named.tmp # 0 /\ named' = [sidecar |-> named.tmp, tmp |-> 0]
               /\ DOMAIN last' = DOMAIN last \cup {prog[p].log}
               /\ last'[prog[p].log] = [tabs |-> prog[p].marks, updated |-> prog[p].quit]
               /\ \A l \in DOMAIN last \ {prog[p].log} : last'[l] = last[l]
         /\ named' \in [sidecar : 0 .. Len(content), tmp : 0 .. Len(content)]
         /\ last' \in UNION {[D -> [tabs : Marks, updated : Nat]] : D \in SUBSET Logs}
         /\ IsFiniteSet(DOMAIN last')
<1> DEFINE new == [tabs |-> prog[p].marks, updated |-> prog[p].quit]
<1>1. prog[p] \in Program /\ prog[p].pc = "rename" /\ prog[p].log \in Logs
  BY DEF Typed, Rename
<1>2. prog' = [prog EXCEPT ![p] = Idle] /\ UNCHANGED <<log, now, content, runs, overlapped>>
  BY DEF Rename
<1>3. CASE named.tmp = 0
  <2>1. UNCHANGED <<named, last>>
    BY <1>3 DEF Rename
  <2> QED BY <1>1, <1>2, <1>3, <2>1 DEF Typed
<1>4. CASE named.tmp # 0
  <2>1. /\ named' = [sidecar |-> named.tmp, tmp |-> 0]
        /\ last' = [l \in DOMAIN last \cup {prog[p].log} |->
                     IF l = prog[p].log THEN new ELSE last[l]]
    BY <1>4 DEF Rename
  <2>2. PICK D \in SUBSET Logs : last \in [D -> [tabs : Marks, updated : Nat]]
    BY DEF Typed
  <2>3. new \in [tabs : Marks, updated : Nat]
    BY <1>1 DEF Program
  <2> HIDE DEF new
  <2>4. /\ DOMAIN last' = DOMAIN last \cup {prog[p].log} /\ last'[prog[p].log] = new
        /\ \A l \in DOMAIN last \ {prog[p].log} : last'[l] = last[l]
    BY <2>1
  <2>5. /\ last' \in [D \cup {prog[p].log} -> [tabs : Marks, updated : Nat]]
        /\ D \cup {prog[p].log} \in SUBSET Logs
    BY <1>1, <2>1, <2>2, <2>3
  <2>6. last' \in UNION {[E -> [tabs : Marks, updated : Nat]] : E \in SUBSET Logs}
    BY <2>5
  <2>7. IsFiniteSet(DOMAIN last')
    <3>1. IsFiniteSet(DOMAIN last)
      BY DEF Typed
    <3> QED BY <2>4, <3>1, FS_AddElement
  <2>8. named' \in [sidecar : 0 .. Len(content), tmp : 0 .. Len(content)]
    BY <2>1, LenProperties DEF Typed
  <2> QED BY <1>1, <1>2, <1>4, <2>1, <2>4, <2>6, <2>7, <2>8 DEF new
<1> QED BY <1>3, <1>4

LEMMA RenameKeepsMarks ==
  ASSUME MarksInv, NEW p \in Programs, Rename(p)
  PROVE  MarksInv'
<1>1. /\ prog' = [prog EXCEPT ![p] = Idle] /\ UNCHANGED <<log, now, content, overlapped>>
      /\ named' \in [sidecar : 0 .. Len(content), tmp : 0 .. Len(content)]
      /\ last' \in UNION {[D -> [tabs : Marks, updated : Nat]] : D \in SUBSET Logs}
      /\ IsFiniteSet(DOMAIN last')
  BY RenameIs DEF MarksInv
<1>2. /\ content' \in Seq(Text) /\ Len(content') = Len(content)
      /\ \A i \in DOMAIN content' : BookTrue(content'[i].book)
  BY <1>1 DEF MarksInv, Typed, BooksTrue
<1> QED BY <1>1, <1>2, IdleIs, NoBookIs, FilesKeepMarks

LEMMA StopKeepsMarks ==
  ASSUME MarksInv, NEW p \in Programs, Stop(p)
  PROVE  MarksInv'
<1>1. prog' = [prog EXCEPT ![p] = Idle] /\ UNCHANGED <<log, now, content, named, last, overlapped>>
  BY DEF Stop
<1>2. overlapped' \in BOOLEAN
  BY <1>1 DEF MarksInv, Typed
<1> QED BY <1>1, <1>2, IdleIs, NoBookIs, ProgramKeeps

LEMMA MarksStep == MarksInv /\ [Next]_vars => MarksInv'
<1> SUFFICES ASSUME MarksInv, [Next]_vars PROVE MarksInv'
  OBVIOUS
<1>0. log \in [Logs -> LogIs] /\ now \in Nat
  BY DEF MarksInv, Typed
<1>1. CASE Tick
  <2>1. now' = now + 1 /\ UNCHANGED <<log, prog, content, named, last, overlapped>>
    BY <1>1 DEF Tick
  <2> QED BY <1>0, <2>1, WorldKeeps
<1>2. ASSUME NEW l \in Changing, Grow(l) PROVE MarksInv'
  <2>1. l \in Logs
    BY BookmarksAssumption
  <2>2. UNCHANGED <<now, prog, content, named, last, overlapped>>
    BY <1>2 DEF Grow
  <2>3. log' \in [Logs -> LogIs]
    <3>1. log[l] \in LogIs
      BY <1>0, <2>1
    <3>2. CASE log' = [log EXCEPT ![l].half = FALSE]
      <4>1. [log[l] EXCEPT !.half = FALSE] \in LogIs
        BY <3>1 DEF LogIs
      <4> QED BY <1>0, <2>1, <3>2, <4>1
    <3>3. ASSUME NEW h \in BOOLEAN, log' = [log EXCEPT ![l].rows = @ + 1, ![l].half = h]
          PROVE  log' \in [Logs -> LogIs]
      <4> DEFINE a == [log[l] EXCEPT !.rows = @ + 1]
      <4>4. a \in LogIs
        BY <3>1 DEF LogIs
      <4> HIDE DEF a
      <4>5. [a EXCEPT !.half = h] \in LogIs
        BY <4>4 DEF LogIs
      <4>2. [log[l] EXCEPT !.rows = @ + 1, !.half = h] \in LogIs
        BY <4>5 DEF a
      <4>3. log' = [log EXCEPT ![l] = [log[l] EXCEPT !.rows = @ + 1, !.half = h]]
        BY <1>0, <2>1, <3>3
      <4> QED BY <1>0, <2>1, <4>2, <4>3
    <3> QED BY <1>2, <3>2, <3>3 DEF Grow
  <2> QED BY <1>0, <2>2, <2>3, WorldKeeps
<1>3. ASSUME NEW l \in Changing, Rotate(l) PROVE MarksInv'
  <2>1. l \in Logs /\ MaxRow \in Nat
    BY BookmarksAssumption
  <2>2. PICK n \in 0 .. MaxRow :
          log' = [log EXCEPT ![l] = [inode |-> @.inode + 1, version |-> @.version + 1, rows |-> n,
                                     half |-> FALSE]]
    BY <1>3 DEF Rotate
  <2>3. UNCHANGED <<now, prog, content, named, last, overlapped>>
    BY <1>3 DEF Rotate
  <2>4. log' \in [Logs -> LogIs]
    <3>1. log[l].inode \in Nat /\ log[l].version \in Nat
      BY <1>0, <2>1 DEF LogIs
    <3>2. [inode |-> log[l].inode + 1, version |-> log[l].version + 1, rows |-> n, half |-> FALSE]
            \in LogIs
      BY <2>1, <3>1 DEF LogIs
    <3> QED BY <1>0, <2>2, <3>2
  <2> QED BY <1>0, <2>3, <2>4, WorldKeeps
<1>4. ASSUME NEW l \in Changing, Rewrite(l) PROVE MarksInv'
  <2>1. l \in Logs
    BY BookmarksAssumption
  <2>2. /\ log' = [log EXCEPT ![l].version = @ + 1, ![l].rows = 0, ![l].half = FALSE]
        /\ UNCHANGED <<now, prog, content, named, last, overlapped>>
    BY <1>4 DEF Rewrite
  <2>3. log' \in [Logs -> LogIs]
    <3>1. log[l] \in LogIs
      BY <1>0, <2>1
    <3> DEFINE a == [log[l] EXCEPT !.version = log[l].version + 1]
               b == [a EXCEPT !.rows = 0, !.half = FALSE]
    <3>2. a \in LogIs
      BY <3>1 DEF LogIs
    <3>3. b \in LogIs
      <4> HIDE DEF a
      <4> QED BY <3>2 DEF LogIs
    <3>4. log' = [log EXCEPT ![l] = b]
      BY <1>0, <2>1, <2>2
    <3> HIDE DEF b
    <3> QED BY <1>0, <3>3, <3>4
  <2> QED BY <1>0, <2>2, <2>3, WorldKeeps
<1>5. ASSUME NEW p \in Programs, NEW t \in 1 .. Tabs, NEW r \in Marked, Toggle(p, t, r) PROVE MarksInv'
  <2>1. r \in Nat
    BY BookmarksAssumption
  <2> QED BY <1>5, <2>1, ToggleKeepsMarks
<1>6. CASE Ended \/ UNCHANGED vars
  <2>1. UNCHANGED <<log, now, prog, content, named, last, overlapped>>
    BY <1>6 DEF Ended, vars
  <2> QED BY <1>0, <2>1, WorldKeeps
<1> QED
  BY <1>1, <1>2, <1>3, <1>4, <1>5, <1>6, IndexKeepsMarks, RestoreKeepsMarks, FollowKeepsMarks, IngestKeepsMarks, QuitKeepsMarks,
     OpenKeepsMarks, FillKeepsMarks, RenameKeepsMarks, StopKeepsMarks DEF Next

(* Sidecar::restore and flush_bookmarks: a bookmark a program shows is on  *)
(* the record it was set on, for any number of programs that save as they  *)
(* like, and however the logs grow, are rotated or are written anew; a     *)
(* program that could not tell is the only exception (history `mixed`).    *)
THEOREM MarksAlwaysTrue == Spec => []MarksTrue
<1>1. MarksInv => MarksTrue
  BY DEF MarksInv
<1> QED BY MarksInit, MarksStep, <1>1, PTL DEF Spec

-----------------------------------------------------------------------------
(* SavesKept is not inductive.  While no saves have overlapped one program *)
(* saves at a time, and the temporary file is its own; *)
OneSaver ==
  \A p, q \in Programs : prog[p].pc \in Saving /\ prog[q].pc \in Saving => p = q

TmpHeld ==
  /\ named.tmp # 0 => named.tmp # named.sidecar
  /\ \A p \in Programs :
       /\ prog[p].pc \in {"fill", "rename"} => named.tmp = prog[p].at /\ named.tmp # 0
       /\ prog[p].pc = "fill" => content[prog[p].at] = Broken
       /\ prog[p].pc = "rename" => content[prog[p].at] = [json |-> TRUE, book |-> prog[p].book]

(* the sidecar is whole, and dates what it has as it was saved last; *)
Whole == named.sidecar # 0 => content[named.sidecar].json

Dated ==
  /\ DOMAIN Loaded \subseteq DOMAIN last
  /\ \A l \in DOMAIN Loaded : Loaded[l].updated = last[l].updated

(* and what a program is about to save is the sidecar as it still is, with *)
(* its own log changed and, of too many, one of the oldest left out.       *)
Updated(p, l) == IF l = prog[p].log THEN prog[p].quit ELSE Loaded[l].updated

Known(p) == DOMAIN Loaded \cup {prog[p].log}

Changed(p, gone) ==
  /\ DOMAIN prog[p].book = Known(p) \ gone
  /\ \A l \in Known(p) \ gone :
       IF l = prog[p].log
       THEN prog[p].book[l].tabs = prog[p].marks /\ prog[p].book[l].updated = prog[p].quit
       ELSE prog[p].book[l] = Loaded[l]
  /\ IF prog[p].marks = NoMarks THEN gone = {prog[p].log}
     ELSE \/ gone = {}
          \/ /\ ~(Cardinality(Known(p)) <= MAX_SOURCES)
             /\ \E old \in Known(p) :
                  gone = {old} /\ \A l \in Known(p) : Updated(p, old) <= Updated(p, l)

Saves ==
  /\ OneSaver /\ TmpHeld /\ Whole /\ Dated
  /\ \A p \in Programs : prog[p].pc \in Saving => \E gone \in SUBSET Known(p) : Changed(p, gone)
  /\ SavesKept

(* The clock does not go back. *)
InTime ==
  /\ \A l \in DOMAIN last : last[l].updated <= now
  /\ \A p \in Programs : prog[p].pc \in Saving =>
       prog[p].quit <= now /\ (~overlapped => \A l \in DOMAIN last : last[l].updated <= prog[p].quit)

SavesInv == MarksInv /\ InTime /\ (~overlapped => Saves)

-----------------------------------------------------------------------------
LEMMA SavesInit == Init => SavesInv
<1> SUFFICES ASSUME Init PROVE SavesInv
  OBVIOUS
<1>1. /\ prog = [p \in Programs |-> Idle] /\ content = <<>>
      /\ named = [sidecar |-> 0, tmp |-> 0] /\ last = NoBook
  BY DEF Init
<1>2. \A p \in Programs : prog[p].pc = "off"
  BY <1>1, IdleIs
<1>3. Loaded = NoBook /\ DOMAIN Loaded = {} /\ DOMAIN last = {} /\ named.sidecar = 0 /\ named.tmp = 0
  BY <1>1, NoBookIs DEF Loaded
<1>4. InTime
  BY <1>2, <1>3 DEF InTime, Saving
<1>5. OneSaver /\ TmpHeld /\ Whole /\ Dated
  BY <1>2, <1>3 DEF OneSaver, TmpHeld, Whole, Dated, Saving
<1>6. SavesKept
  BY <1>3 DEF SavesKept
<1>7. \A p \in Programs : prog[p].pc \notin Saving
  BY <1>2 DEF Saving
<1> QED BY <1>4, <1>5, <1>6, <1>7, MarksInit DEF SavesInv, Saves

(* Nothing that a save depends on changes when nobody saves. *)
LEMMA ChangedKept ==
  ASSUME NEW p \in Programs, NEW gone, Loaded' = Loaded,
         prog'[p].log = prog[p].log, prog'[p].marks = prog[p].marks,
         prog'[p].quit = prog[p].quit, prog'[p].book = prog[p].book
  PROVE  Known(p)' = Known(p) /\ (Changed(p, gone) => Changed(p, gone)')
<1>1. Known(p)' = Known(p)
  BY DEF Known
<1>2. \A l : Updated(p, l)' = Updated(p, l)
  BY DEF Updated
<1> QED BY <1>1, <1>2 DEF Changed

(* The files and what was saved stay as they are, the clock goes on, and   *)
(* nobody starts to save.                                                  *)
LEMMA CalmKeeps ==
  ASSUME SavesInv, MarksInv', UNCHANGED <<content, named, last, overlapped>>, now' >= now,
         \A p \in Programs : prog'[p] = prog[p] \/ prog'[p].pc \notin Saving
  PROVE  SavesInv'
<1>1. \A p \in Programs : prog'[p].pc \in Saving => prog'[p] = prog[p]
  OBVIOUS
<1>2. Loaded' = Loaded
  BY DEF Loaded
<1>3. InTime'
  <2>1. now \in Nat /\ now' \in Nat /\ \A p \in Programs : prog[p] \in Program
    BY DEF SavesInv, MarksInv, Typed
  <2>2. \A l \in DOMAIN last : last[l].updated \in Nat
    BY DEF SavesInv, MarksInv, Typed
  <2>3. \A p \in Programs : prog[p].quit \in Nat
    BY <2>1 DEF Program
  <2> QED BY <1>1, <2>1, <2>2, <2>3 DEF SavesInv, InTime
<1>4. ASSUME ~overlapped' PROVE Saves'
  <2>1. Saves
    BY <1>4 DEF SavesInv
  <2>2. OneSaver'
    BY <1>1, <2>1 DEF Saves, OneSaver
  <2>3. TmpHeld'
    BY <1>1, <2>1 DEF Saves, TmpHeld, Saving
  <2>4. Whole' /\ Dated' /\ SavesKept'
    BY <1>2, <2>1 DEF Saves, Whole, Dated, SavesKept
  <2>5. ASSUME NEW p \in Programs, prog'[p].pc \in Saving
        PROVE  \E gone \in SUBSET Known(p)' : Changed(p, gone)'
    <3>1. PICK gone \in SUBSET Known(p) : Changed(p, gone)
      BY <1>1, <2>1, <2>5 DEF Saves
    <3> QED BY <1>1, <1>2, <2>5, <3>1, ChangedKept
  <2> QED BY <2>2, <2>3, <2>4, <2>5 DEF Saves
<1> QED BY <1>3, <1>4 DEF SavesInv

(* flush_bookmarks begins a save. *)
LEMMA QuitKeepsSaves ==
  ASSUME SavesInv, NEW p \in Programs, Quit(p)
  PROVE  SavesInv'
<1>1. PICK book \in Upsert(Loaded, prog[p].log, Saved(p)) :
        prog' = [prog EXCEPT ![p] = [prog[p] EXCEPT !.pc = "write", !.book = book, !.quit = now]]
  BY QuitIs DEF SavesInv
<1>2. /\ prog[p] \in Program /\ prog[p].pc = "up" /\ prog[p].log \in Logs /\ Saved(p) \in Entry
      /\ Saved(p).tabs = prog[p].marks /\ Saved(p).updated = now
      /\ overlapped' = (overlapped \/ \E q \in Programs : prog[q].pc \in Saving)
      /\ UNCHANGED <<log, now, content, named, last>>
      /\ Typed /\ now \in Nat /\ prog \in [Programs -> Program] /\ overlapped \in BOOLEAN
  BY QuitIs DEF SavesInv, MarksInv, Typed
<1>3. /\ prog'[p].pc = "write" /\ prog'[p].book = book /\ prog'[p].quit = now
      /\ prog'[p].log = prog[p].log /\ prog'[p].marks = prog[p].marks
      /\ \A q \in Programs \ {p} : prog'[q] = prog[q]
  BY <1>1, <1>2 DEF Program
<1>4. Loaded' = Loaded /\ Loaded \in Books
  BY <1>2, LoadedIs DEF Loaded
<1>5. InTime'
  <2>1. \A l \in DOMAIN last : last[l].updated <= now
    BY DEF SavesInv, InTime
  <2>2. ASSUME NEW q \in Programs, prog'[q].pc \in Saving
        PROVE  prog'[q].quit <= now /\ (~overlapped' => \A l \in DOMAIN last : last[l].updated <= prog'[q].quit)
    <3>1. CASE q = p
      BY <1>2, <1>3, <2>1, <3>1
    <3>2. CASE q # p
      BY <1>2, <1>3, <2>2, <3>2 DEF SavesInv, InTime
    <3> QED BY <3>1, <3>2
  <2> QED BY <1>2, <2>1, <2>2 DEF InTime
<1>6. ASSUME ~overlapped' PROVE Saves'
  <2>1. Saves /\ ~overlapped /\ \A q \in Programs : prog[q].pc \notin Saving
    BY <1>2, <1>6 DEF SavesInv
  <2>2. \A q \in Programs : prog'[q].pc \in Saving => q = p
    BY <1>3, <2>1
  <2>3. OneSaver'
    BY <2>2 DEF OneSaver
  <2>4. TmpHeld'
    BY <1>2, <1>3, <2>1, <2>2 DEF Saves, TmpHeld, Saving
  <2>5. Whole' /\ Dated' /\ SavesKept'
    BY <1>2, <1>4, <2>1 DEF Saves, Whole, Dated, SavesKept
  <2>6. \E gone \in SUBSET Known(p)' : Changed(p, gone)'
    <3>a. PICK l \in Logs : l = prog[p].log
      BY <1>2
    <3>b. PICK entry \in Entry : entry = Saved(p)
      BY <1>2
    <3>c. PICK more : more = Put(Loaded, l, entry)
      OBVIOUS
    <3> DEFINE d == DOMAIN Loaded \cup {l}
    <3>1. /\ DOMAIN more = d /\ more[l] = entry
          /\ \A k \in DOMAIN Loaded \ {l} : more[k] = Loaded[k] /\ more \in Books
      BY <1>4, <3>c, PutIs
    <3>2. /\ Known(p)' = d
          /\ \A k \in d : Updated(p, k)' = more[k].updated
      BY <1>3, <1>4, <3>a, <3>b, <3>1, <1>2 DEF Known, Updated
    <3>3. \A k \in d : IF k = l THEN more[k].tabs = prog[p].marks /\ more[k].updated = now
                        ELSE more[k] = Loaded[k]
      BY <1>2, <3>a, <3>b, <3>1
    <3>4. \/ entry.tabs = NoMarks /\ book = Restrict(Loaded, DOMAIN Loaded \ {l})
          \/ entry.tabs # NoMarks /\ book = more
          \/ entry.tabs # NoMarks /\ OldestOut(more, book)
      <4>1. book \in Upsert(Loaded, l, entry)
        BY <1>1, <3>a, <3>b
      <4> QED BY <1>4, <3>c, <4>1, UpsertIs
    <3>5. CASE entry.tabs = NoMarks /\ book = Restrict(Loaded, DOMAIN Loaded \ {l})
      <4>1. DOMAIN book = d \ {l} /\ \A k \in d \ {l} : book[k] = Loaded[k]
        BY <1>4, <3>5, RestrictIs
      <4>2. Changed(p, {l})'
        BY <1>2, <1>3, <1>4, <3>a, <3>b, <3>2, <3>5, <4>1 DEF Changed
      <4>3. {l} \in SUBSET Known(p)'
        BY <3>2
      <4> QED BY <4>2, <4>3
    <3>6. CASE entry.tabs # NoMarks /\ book = more
      <4>1. Changed(p, {})'
        BY <1>2, <1>3, <1>4, <3>a, <3>b, <3>1, <3>2, <3>3, <3>6 DEF Changed
      <4> QED BY <4>1
    <3>7. CASE entry.tabs # NoMarks /\ OldestOut(more, book)
      <4>1. PICK old \in d : /\ \A k \in d : more[old].updated <= more[k].updated
                             /\ book = Restrict(more, d \ {old})
        BY <3>1, <3>7 DEF OldestOut
      <4>2. DOMAIN book = d \ {old} /\ \A k \in d \ {old} : book[k] = more[k]
        BY <4>1 DEF Restrict
      <4>3. ~(Cardinality(Known(p)') <= MAX_SOURCES)
        BY <3>1, <3>2, <3>7 DEF OldestOut
      <4>4. \A k \in Known(p)' : Updated(p, old)' <= Updated(p, k)'
        BY <3>2, <4>1
      <4>5. /\ DOMAIN prog'[p].book = Known(p)' \ {old}
            /\ \A k \in Known(p)' \ {old} :
                 IF k = prog'[p].log
                 THEN prog'[p].book[k].tabs = prog'[p].marks /\ prog'[p].book[k].updated = prog'[p].quit
                 ELSE prog'[p].book[k] = Loaded'[k]
        BY <1>3, <1>4, <3>a, <3>2, <3>3, <4>2
      <4>6. prog'[p].marks # NoMarks /\ old \in Known(p)'
        BY <1>2, <1>3, <3>b, <3>2, <3>7, <4>1
      <4>7. Changed(p, {old})'
        BY <4>3, <4>4, <4>5, <4>6 DEF Changed
      <4>8. {old} \in SUBSET Known(p)'
        BY <4>6
      <4> QED BY <4>7, <4>8
    <3> QED BY <3>4, <3>5, <3>6, <3>7
  <2>7. \A q \in Programs : prog'[q].pc \in Saving => \E gone \in SUBSET Known(q)' : Changed(q, gone)'
    BY <2>2, <2>6
  <2> QED BY <2>3, <2>4, <2>5, <2>7 DEF Saves
<1> QED BY <1>5, <1>6, QuitKeepsMarks DEF SavesInv

(* A step of a save that does not touch the sidecar. *)
LEMMA SaverKeeps ==
  ASSUME SavesInv, MarksInv', NEW p \in Programs,
         prog[p].pc \in Saving, prog'[p].pc \in Saving,
         prog'[p].log = prog[p].log, prog'[p].marks = prog[p].marks,
         prog'[p].quit = prog[p].quit, prog'[p].book = prog[p].book,
         \A q \in Programs \ {p} : prog'[q] = prog[q],
         UNCHANGED <<now, last, overlapped>>, named'.sidecar = named.sidecar,
         ~overlapped => /\ named.sidecar # 0 => content'[named.sidecar] = content[named.sidecar]
                        /\ TmpHeld'
  PROVE  SavesInv'
<1>1. \A q \in Programs : /\ prog'[q].pc \in Saving <=> prog[q].pc \in Saving
                          /\ prog'[q].quit = prog[q].quit
  OBVIOUS
<1>2. InTime'
  BY <1>1 DEF SavesInv, InTime
<1>3. ASSUME ~overlapped' PROVE Saves'
  <2>1. Saves /\ TmpHeld'
    BY <1>3 DEF SavesInv
  <2>2. Loaded' = Loaded
    BY <1>3 DEF Loaded
  <2>3. OneSaver'
    BY <1>1, <2>1 DEF Saves, OneSaver
  <2>4. Whole' /\ Dated' /\ SavesKept'
    BY <1>3, <2>1, <2>2 DEF Saves, Whole, Dated, SavesKept
  <2>5. ASSUME NEW q \in Programs, prog'[q].pc \in Saving
        PROVE  \E gone \in SUBSET Known(q)' : Changed(q, gone)'
    <3>1. PICK gone \in SUBSET Known(q) : Changed(q, gone)
      BY <1>1, <2>1, <2>5 DEF Saves
    <3>2. /\ prog'[q].log = prog[q].log /\ prog'[q].marks = prog[q].marks
          /\ prog'[q].quit = prog[q].quit /\ prog'[q].book = prog[q].book
      OBVIOUS
    <3> QED BY <2>2, <3>1, <3>2, ChangedKept
  <2> QED BY <2>1, <2>3, <2>4, <2>5 DEF Saves
<1> QED BY <1>2, <1>3 DEF SavesInv

(* fs::write opens the temporary file, which is not the sidecar. *)
LEMMA OpenKeepsSaves ==
  ASSUME SavesInv, NEW p \in Programs, OpenTmp(p)
  PROVE  SavesInv'
<1> DEFINE new == [prog[p] EXCEPT !.pc = "fill", !.at = Opened]
<1>1. /\ prog[p] \in Program /\ prog[p].pc = "write" /\ Opened \in Nat /\ Opened # 0
      /\ Len(content) \in Nat /\ DOMAIN content' = DOMAIN content \cup {Opened}
      /\ content'[Opened] = Broken
      /\ \A i \in DOMAIN content \ {Opened} : content'[i] = content[i]
      /\ named' = [named EXCEPT !.tmp = Opened] /\ prog' = [prog EXCEPT ![p] = new]
      /\ UNCHANGED <<log, now, runs, last, overlapped>>
  BY OpenIs DEF SavesInv, MarksInv
<1>2. /\ new.pc = "fill" /\ new.at = Opened /\ new.log = prog[p].log
      /\ new.marks = prog[p].marks /\ new.quit = prog[p].quit /\ new.book = prog[p].book
  BY <1>1 DEF Program
<1> HIDE DEF new
<1>3. prog \in [Programs -> Program] /\ named \in [sidecar : 0 .. Len(content), tmp : 0 .. Len(content)]
  BY DEF SavesInv, MarksInv, Typed
<1>4. prog'[p] = new /\ \A q \in Programs \ {p} : prog'[q] = prog[q]
  BY <1>1, <1>3
<1>5. named'.sidecar = named.sidecar /\ named'.tmp = Opened
  BY <1>1, <1>3
<1>6. ASSUME ~overlapped
      PROVE  /\ named.sidecar # 0 => content'[named.sidecar] = content[named.sidecar]
             /\ TmpHeld'
  <2>1. OneSaver /\ TmpHeld
    BY <1>6 DEF SavesInv, Saves
  <2>2. Opened # named.sidecar
    BY <1>1, <1>3, <2>1 DEF Opened, TmpHeld
  <2>3. named.sidecar # 0 => named.sidecar \in DOMAIN content
    BY <1>3 DEF SavesInv, MarksInv, Typed
  <2>4. \A q \in Programs : prog'[q].pc \in Saving => q = p
    BY <1>1, <1>4, <2>1 DEF OneSaver, Saving
  <2>5. TmpHeld'
    BY <1>1, <1>2, <1>4, <1>5, <2>2, <2>4 DEF TmpHeld, Saving
  <2> QED BY <1>1, <2>2, <2>3, <2>5
<1>7. prog[p].pc \in Saving /\ prog'[p].pc \in Saving
  BY <1>1, <1>2, <1>4 DEF Saving
<1>8. MarksInv'
  BY OpenKeepsMarks DEF SavesInv
<1>9. UNCHANGED <<now, last, overlapped>>
  BY <1>1
<1> QED BY <1>2, <1>4, <1>5, <1>6, <1>7, <1>8, <1>9, SaverKeeps

(* It finds it empty, and writes its book. *)
LEMMA FillKeepsSaves ==
  ASSUME SavesInv, NEW p \in Programs, Fill(p)
  PROVE  SavesInv'
<1> DEFINE new == [prog[p] EXCEPT !.pc = "rename"]
<1>1. /\ prog[p] \in Program /\ prog[p].pc = "fill"
      /\ prog' = [prog EXCEPT ![p] = new]
      /\ UNCHANGED <<log, now, named, runs, last, overlapped>>
  BY FillIs DEF SavesInv, MarksInv
<1>2. PICK text \in Text :
        /\ text = [json |-> TRUE, book |-> prog[p].book] \/ (text = Broken /\ content[prog[p].at].json)
        /\ content' = [content EXCEPT ![prog[p].at] = text]
  BY FillIs DEF SavesInv, MarksInv
<1>3. /\ new.pc = "rename" /\ new.at = prog[p].at /\ new.log = prog[p].log
      /\ new.marks = prog[p].marks /\ new.quit = prog[p].quit /\ new.book = prog[p].book
  BY <1>1 DEF Program
<1> HIDE DEF new
<1>4. /\ prog \in [Programs -> Program] /\ content \in Seq(Text)
      /\ named \in [sidecar : 0 .. Len(content), tmp : 0 .. Len(content)]
  BY DEF SavesInv, MarksInv, Typed
<1>5. prog'[p] = new /\ \A q \in Programs \ {p} : prog'[q] = prog[q]
  BY <1>1, <1>4
<1>6. ASSUME ~overlapped
      PROVE  /\ named.sidecar # 0 => content'[named.sidecar] = content[named.sidecar]
             /\ TmpHeld'
  <2>1. OneSaver /\ TmpHeld
    BY <1>6 DEF SavesInv, Saves
  <2>2. named.tmp = prog[p].at /\ named.tmp # 0 /\ content[prog[p].at] = Broken /\ named.tmp # named.sidecar
    BY <1>1, <2>1 DEF TmpHeld
  <2>3. text = [json |-> TRUE, book |-> prog[p].book]
    BY <1>2, <2>2 DEF Broken
  <2>4. prog[p].at \in DOMAIN content
    BY <1>4, <2>2, LenProperties
  <2>5. content'[prog[p].at] = [json |-> TRUE, book |-> prog[p].book]
    BY <1>2, <2>3, <2>4
  <2>6. \A q \in Programs : prog'[q].pc \in Saving => q = p
    BY <1>1, <1>5, <2>1 DEF OneSaver, Saving
  <2>7. TmpHeld'
    <3>1. named'.tmp = named.tmp /\ named'.sidecar = named.sidecar
      BY <1>1
    <3>2. /\ prog'[p].pc = "rename" /\ prog'[p].at = prog[p].at /\ prog'[p].book = prog[p].book
      BY <1>3, <1>5
    <3>3. ASSUME NEW q \in Programs, prog'[q].pc \in {"fill", "rename"}
          PROVE  /\ prog'[q].pc = "rename" /\ named'.tmp = prog'[q].at /\ named'.tmp # 0
                 /\ content'[prog'[q].at] = [json |-> TRUE, book |-> prog'[q].book]
      <4>1. q = p
        BY <2>6, <3>3 DEF Saving
      <4> QED BY <2>2, <2>5, <3>1, <3>2, <4>1
    <3> QED BY <2>2, <3>1, <3>3 DEF TmpHeld
  <2>8. named.sidecar # 0 => named.sidecar \in DOMAIN content
    BY <1>4, LenProperties
  <2>9. named.sidecar # 0 => content'[named.sidecar] = content[named.sidecar]
    BY <1>2, <2>2, <2>8
  <2> QED BY <2>7, <2>9
<1>7. prog[p].pc \in Saving /\ prog'[p].pc \in Saving
  BY <1>1, <1>3, <1>5 DEF Saving
<1>8. MarksInv'
  BY FillKeepsMarks DEF SavesInv
<1>9. UNCHANGED <<now, last, overlapped>> /\ named'.sidecar = named.sidecar
  BY <1>1
<1> QED BY <1>3, <1>5, <1>6, <1>7, <1>8, <1>9, SaverKeeps

(* The rename makes the book a program saved the sidecar.  Where it lacks  *)
(* a log with bookmarks, as many were saved since as it remembers.         *)
LEMMA RenameKeeps ==
  ASSUME SavesInv, ~overlapped, NEW p \in Programs, Rename(p)
  PROVE  Saves'
<1>1. /\ prog[p] \in Program /\ prog[p].pc = "rename" /\ prog[p].log \in Logs
      /\ prog' = [prog EXCEPT ![p] = Idle] /\ UNCHANGED <<log, now, content, runs, overlapped>>
      /\ IsFiniteSet(DOMAIN last')
  BY RenameIs DEF SavesInv, MarksInv
<1>2. Saves /\ Typed /\ InTime
  BY DEF SavesInv, MarksInv
<1>3. PICK l \in Logs : l = prog[p].log
  BY <1>1
<1>4. PICK q \in Nat : q = prog[p].quit
  BY <1>1 DEF Program
<1>5. /\ named.tmp # 0 /\ content[named.tmp] = [json |-> TRUE, book |-> prog[p].book]
      /\ \A k \in DOMAIN last : last[k].updated <= q
  BY <1>1, <1>2, <1>4 DEF Saves, TmpHeld, InTime, Saving
<1>6. /\ named' = [sidecar |-> named.tmp, tmp |-> 0] /\ DOMAIN last' = DOMAIN last \cup {l}
      /\ last'[l] = [tabs |-> prog[p].marks, updated |-> q]
      /\ \A k \in DOMAIN last \ {l} : last'[k] = last[k]
  BY <1>3, <1>4, <1>5, RenameIs DEF SavesInv, MarksInv
<1>7. Loaded' = prog[p].book /\ named'.sidecar # 0 /\ named'.tmp = 0
      /\ content'[named'.sidecar] = [json |-> TRUE, book |-> prog[p].book]
  BY <1>1, <1>5, <1>6 DEF Loaded
<1>8. \A r \in Programs : prog'[r].pc \notin Saving
  <2>1. prog'[p].pc = "off" /\ \A r \in Programs \ {p} : prog'[r] = prog[r]
    BY <1>1, <1>2, IdleIs DEF Typed
  <2> QED BY <1>1, <1>2, <2>1 DEF Saves, OneSaver, Saving
<1>9. OneSaver' /\ TmpHeld' /\ Whole'
  <2>1. OneSaver'
    BY <1>8 DEF OneSaver
  <2>2. TmpHeld'
    BY <1>7, <1>8 DEF TmpHeld, Saving
  <2>3. Whole'
    BY <1>7 DEF Whole
  <2> QED BY <2>1, <2>2, <2>3
<1>10. PICK gone \in SUBSET Known(p) : Changed(p, gone)
  BY <1>1, <1>2 DEF Saves, Saving
<1> DEFINE known == DOMAIN Loaded \cup {l}
           book == prog[p].book
<1>11. Known(p) = known
  BY <1>3 DEF Known
<1>12. /\ DOMAIN book = known \ gone
       /\ \A k \in known \ gone : k # l => book[k] = Loaded[k]
       /\ l \in known \ gone => book[l].tabs = prog[p].marks /\ book[l].updated = q
  BY <1>3, <1>4, <1>10, <1>11 DEF Changed
<1>13. known \subseteq DOMAIN last' /\ \A k \in known : k # l => Loaded[k].updated = last'[k].updated
  BY <1>2, <1>6 DEF Saves, Dated
<1>14. Dated'
  BY <1>6, <1>7, <1>12, <1>13 DEF Dated
<1>15. \A k \in DOMAIN last' : last'[k].updated \in Nat
  <2>1. last' \in UNION {[D -> [tabs : Marks, updated : Nat]] : D \in SUBSET Logs}
    BY RenameIs, <1>2
  <2> QED BY <2>1
<1> DEFINE since(k) == {o \in DOMAIN last' \ {k} : last'[o].updated >= last'[k].updated}
<1>16. \A k : IsFiniteSet(since(k)) /\ Cardinality(since(k)) \in Nat
  BY <1>1, FS_Subset, FS_CardinalityType
<1>17. ASSUME NEW k \in known, gone = {k}, prog[p].marks # NoMarks
       PROVE  MAX_SOURCES <= Cardinality(since(k))
  <2>1. /\ ~(Cardinality(known) <= MAX_SOURCES)
        /\ \A o \in known : Updated(p, k) <= Updated(p, o)
    BY <1>10, <1>11, <1>17 DEF Changed
  <2>2. \A o \in known : Updated(p, o) = last'[o].updated
    BY <1>3, <1>4, <1>6, <1>13 DEF Updated
  <2>3. known \ {k} \subseteq since(k)
    <3>1. ASSUME NEW o \in known \ {k} PROVE o \in since(k)
      <4>1. last'[k].updated <= last'[o].updated
        BY <2>1, <2>2
      <4>2. last'[k].updated \in Nat /\ last'[o].updated \in Nat /\ o \in DOMAIN last'
        BY <1>13, <1>15
      <4> QED BY <4>1, <4>2
    <3> QED BY <3>1
  <2>4. IsFiniteSet(known)
    BY <1>1, <1>13, FS_Subset
  <2>5. Cardinality(known \ {k}) = Cardinality(known) - 1 /\ Cardinality(known) \in Nat
    BY <2>4, FS_RemoveElement, FS_CardinalityType
  <2>6. Cardinality(known \ {k}) <= Cardinality(since(k))
    BY <1>16, <2>3, FS_Subset
  <2>7. MAX_SOURCES \in Nat
    BY BookmarksAssumption
  <2> HIDE DEF since, known
  <2> QED BY <1>16, <2>1, <2>5, <2>6, <2>7
<1>18. ASSUME NEW k \in DOMAIN last'
       PROVE  IF last'[k].tabs = NoMarks THEN k \notin DOMAIN book
              ELSE IF k \in DOMAIN book THEN book[k].tabs = last'[k].tabs
              ELSE MAX_SOURCES <= Cardinality(since(k))
  <2>1. CASE k = l /\ prog[p].marks = NoMarks
    <3>1. gone = {l}
      BY <1>3, <1>10, <2>1 DEF Changed
    <3> QED BY <1>6, <1>12, <2>1, <3>1
  <2>2. CASE k = l /\ prog[p].marks # NoMarks
    <3>1. CASE l \in gone
      <4>1. gone = {l}
        BY <1>10, <2>2, <3>1 DEF Changed
      <4> QED BY <1>6, <1>12, <1>17, <2>2, <4>1
    <3>2. CASE l \notin gone
      BY <1>6, <1>12, <2>2, <3>2
    <3> QED BY <3>1, <3>2
  <2>3. CASE k # l
    <3>1. k \in DOMAIN last /\ last'[k] = last[k]
      BY <1>6, <2>3
    <3>2. IF last[k].tabs = NoMarks THEN k \notin DOMAIN Loaded
          ELSE IF k \in DOMAIN Loaded THEN Loaded[k].tabs = last[k].tabs
          ELSE MAX_SOURCES <= Cardinality({o \in DOMAIN last \ {k} : last[o].updated >= last[k].updated})
      BY <1>2, <3>1 DEF Saves, SavesKept
    <3>3. CASE last[k].tabs = NoMarks
      BY <1>12, <2>3, <3>1, <3>2, <3>3
    <3>4. CASE last[k].tabs # NoMarks /\ k \in DOMAIN Loaded /\ k \notin gone
      BY <1>12, <2>3, <3>1, <3>2, <3>4
    <3>5. CASE last[k].tabs # NoMarks /\ k \in DOMAIN Loaded /\ k \in gone
      <4>1. gone # {l} /\ gone # {}
        BY <2>3, <3>5
      <4>2. prog[p].marks # NoMarks /\ \E old : gone = {old}
        BY <1>3, <1>10, <4>1 DEF Changed
      <4>3. gone = {k} /\ k \in known
        BY <3>5, <4>2
      <4> QED BY <1>12, <1>17, <3>1, <3>5, <4>2, <4>3
    <3>6. CASE last[k].tabs # NoMarks /\ k \notin DOMAIN Loaded
      <4> DEFINE old == {o \in DOMAIN last \ {k} : last[o].updated >= last[k].updated}
      <4>1. MAX_SOURCES <= Cardinality(old)
        BY <3>2, <3>6
      <4>2. old \subseteq since(k)
        <5>1. ASSUME NEW o \in old PROVE o \in since(k)
          <6>1. CASE o = l
            <7>1. last'[l].updated = q /\ last[k].updated <= q /\ last[k].updated \in Nat
              BY <1>5, <1>6, <1>15, <3>1
            <7> QED BY <1>6, <2>3, <3>1, <6>1, <7>1
          <6>2. CASE o # l
            BY <1>6, <3>1, <6>2
          <6> QED BY <6>1, <6>2
        <5> QED BY <5>1
      <4>3. Cardinality(old) <= Cardinality(since(k)) /\ Cardinality(old) \in Nat
        BY <1>16, <4>2, FS_Subset, FS_CardinalityType
      <4>4. MAX_SOURCES \in Nat
        BY BookmarksAssumption
      <4>5. MAX_SOURCES <= Cardinality(since(k))
        <5> HIDE DEF old, since
        <5> QED BY <1>16, <4>1, <4>3, <4>4
      <4>6. k \notin DOMAIN book
        BY <1>12, <2>3, <3>6
      <4> QED BY <3>1, <3>6, <4>5, <4>6
    <3> QED BY <3>3, <3>4, <3>5, <3>6
  <2> QED BY <2>1, <2>2, <2>3
<1>19. SavesKept'
  <2>1. content'[named'.sidecar] # Broken
    BY <1>7 DEF Broken
  <2>2. Loaded' = book
    BY <1>7
  <2> QED BY <1>18, <2>1, <2>2 DEF SavesKept
<1> QED BY <1>8, <1>9, <1>14, <1>19 DEF Saves

LEMMA RenameKeepsSaves ==
  ASSUME SavesInv, NEW p \in Programs, Rename(p)
  PROVE  SavesInv'
<1>1. /\ prog[p] \in Program /\ prog[p].pc = "rename"
      /\ prog' = [prog EXCEPT ![p] = Idle] /\ UNCHANGED <<log, now, content, runs, overlapped>>
      /\ \/ UNCHANGED <<named, last>>
         \/ /\ DOMAIN last' = DOMAIN last \cup {prog[p].log}
            /\ last'[prog[p].log] = [tabs |-> prog[p].marks, updated |-> prog[p].quit]
            /\ \A l \in DOMAIN last \ {prog[p].log} : last'[l] = last[l]
  BY RenameIs DEF SavesInv, MarksInv
<1>2. prog \in [Programs -> Program] /\ InTime /\ prog[p].quit <= now
  BY <1>1 DEF SavesInv, MarksInv, Typed, InTime, Saving
<1>3. prog'[p].pc = "off" /\ \A r \in Programs \ {p} : prog'[r] = prog[r]
  BY <1>1, <1>2, IdleIs
<1>4. InTime'
  <2>1. \A l \in DOMAIN last' : last'[l].updated <= now'
    BY <1>1, <1>2 DEF InTime
  <2>2. ASSUME NEW r \in Programs, prog'[r].pc \in Saving
        PROVE  prog'[r].quit <= now' /\ overlapped'
    <3>1. r # p /\ prog'[r] = prog[r] /\ prog[r].pc \in Saving
      BY <1>3, <2>2 DEF Saving
    <3>2. prog[r].quit <= now
      BY <1>2, <3>1 DEF InTime
    <3>3. overlapped
      BY <1>1, <3>1 DEF SavesInv, Saves, OneSaver, Saving
    <3> QED BY <1>1, <3>1, <3>2, <3>3
  <2> QED BY <2>1, <2>2 DEF InTime
<1>5. ~overlapped' => Saves'
  BY <1>1, RenameKeeps
<1> QED BY <1>4, <1>5, RenameKeepsMarks DEF SavesInv

LEMMA SavesStep == SavesInv /\ [Next]_vars => SavesInv'
<1> SUFFICES ASSUME SavesInv, [Next]_vars PROVE SavesInv'
  OBVIOUS
<1>1. MarksInv'
  BY MarksStep DEF SavesInv
<1>2. now \in Nat /\ prog \in [Programs -> Program]
  BY DEF SavesInv, MarksInv, Typed
<1>3. CASE Tick \/ \E l \in Changing : Grow(l) \/ Rotate(l) \/ Rewrite(l)
  <2>1. now' >= now /\ UNCHANGED <<prog, content, named, last, overlapped>>
    <3>1. ASSUME Tick PROVE now' >= now /\ UNCHANGED <<prog, content, named, last, overlapped>>
      BY <1>2, <3>1 DEF Tick
    <3>2. ASSUME NEW l \in Changing, Grow(l) \/ Rotate(l) \/ Rewrite(l)
          PROVE  now' >= now /\ UNCHANGED <<prog, content, named, last, overlapped>>
      <4>1. UNCHANGED <<now, prog, content, named, last, overlapped>>
        BY <3>2 DEF Grow, Rotate, Rewrite
      <4> QED BY <1>2, <4>1
    <3> QED BY <1>3, <3>1, <3>2
  <2> QED BY <1>1, <2>1, CalmKeeps
<1>4. ASSUME NEW p \in Programs,
             \/ \E l \in Logs : Index(p, l)
             \/ RestoreMarks(p) \/ Stop(p) \/ Follow(p) \/ Ingest(p)
             \/ \E t \in 1 .. Tabs, r \in Marked : Toggle(p, t, r)
      PROVE  SavesInv'
  <2>1. UNCHANGED <<now, content, named, last, overlapped>>
    BY <1>4 DEF Index, RestoreMarks, Stop, Toggle, Follow, Ingest
  <2>2. \A q \in Programs \ {p} : prog'[q] = prog[q]
    BY <1>2, <1>4 DEF Index, RestoreMarks, Stop, Toggle, Follow, Ingest
  <2>3. prog'[p].pc \in {"off", "open", "up"}
    <3>1. prog[p] \in Program
      BY <1>2
    <3>2. ASSUME NEW l \in Logs, Index(p, l) PROVE prog'[p].pc = "open"
      BY <1>2, <3>2, IdleIs DEF Index, Program
    <3>3. ASSUME RestoreMarks(p) PROVE prog'[p].pc = "up"
      BY <1>2, <3>1, <3>3 DEF RestoreMarks, Program
    <3>4. ASSUME NEW t \in 1 .. Tabs, NEW r \in Marked, Toggle(p, t, r) PROVE prog'[p].pc = "up"
      BY <1>2, <3>1, <3>4 DEF Toggle, Program
    <3>5. ASSUME Stop(p) PROVE prog'[p].pc = "off"
      BY <1>2, <3>5, IdleIs DEF Stop
    <3>6. ASSUME Follow(p) \/ Ingest(p) PROVE prog'[p].pc = "up"
      BY <1>2, <3>1, <3>6 DEF Follow, Ingest, Program
    <3> QED BY <1>4, <3>2, <3>3, <3>4, <3>5, <3>6
  <2>4. now' >= now /\ \A q \in Programs : prog'[q] = prog[q] \/ prog'[q].pc \notin Saving
    BY <1>2, <2>1, <2>2, <2>3 DEF Saving
  <2> QED BY <1>1, <2>1, <2>4, CalmKeeps
<1>5. CASE Ended \/ UNCHANGED vars
  <2>1. now' >= now /\ UNCHANGED <<prog, content, named, last, overlapped>>
    BY <1>2, <1>5 DEF Ended, vars
  <2> QED BY <1>1, <2>1, CalmKeeps
<1> QED
  BY <1>3, <1>4, <1>5, QuitKeepsSaves, OpenKeepsSaves, FillKeepsSaves, RenameKeepsSaves DEF Next

(* Sidecar::save and evict_if_oversize: while no two saves overlap,        *)
(* whatever a program is killed in the middle of, the sidecar can be read  *)
(* and has for every log what was saved for it last, unless MAX_SOURCES    *)
(* others were saved since; for any number of programs and logs.           *)
THEOREM SavesAlwaysKept == Spec => []SavesKept
<1>1. SavesInv => SavesKept
  BY DEF SavesInv, Saves, SavesKept
<1> QED BY SavesInit, SavesStep, <1>1, PTL DEF Spec
=============================================================================
