------------------------------- MODULE Inspect --------------------------------
(***************************************************************************)
(* What a bot or an agent is told of a source it asks about (inspect.rs):  *)
(* the last lines of its file, and the newest records that a query admits. *)
(* The file is being written by Lines; the query is typed here, piece by   *)
(* piece, with no more blanks than the pieces need.                        *)
(***************************************************************************)
EXTENDS Lines, Query

CONSTANTS
  Step,        (* how much tail_lines reads at a time                       *)
  MaxBuffer,   (* where it gives up                                         *)
  MaxPieces    (* bound on the pieces of a query                            *)
ASSUME BuffersAssumption == Step \in Nat \ {0} /\ MaxBuffer \in Nat

VARIABLE query
inspectVars == <<format, lines, query>>

Tests == {"is error", "since", "differs", "like"}
Pieces == Tests \cup Keywords \cup {"(", ")"}

PieceText(piece) ==
  CASE piece = "is error" -> <<"level", "=", "error">>
    [] piece = "since"    -> <<"ts", ">", "=", "rfc2">>
    [] piece = "differs"  -> Key(format) \o <<"!", "=">> \o InQuotes(<<"word", " ", "other">>)
    [] piece = "like"     -> Key(format) \o <<"~", "/", "other", "/">>
    [] OTHER              -> <<piece>>

(* A blank that cannot be left out: after a keyword, unless a parenthesis  *)
(* follows, and after a value that is not quoted, unless one closes.       *)
Gap(p, q) ==
  CASE p \in Keywords -> q \notin {"(", ")"}
    [] p \in {"is error", "since"} -> q # ")"
    [] OTHER -> FALSE
Text(pieces) ==
  FlattenSeq([n \in DOMAIN pieces |->
    (IF n > 1 /\ Gap(pieces[n - 1], pieces[n]) THEN <<" ">> ELSE <<>>) \o PieceText(pieces[n])])

(* What a piece is a test of. *)
TestOf(piece) ==
  CASE piece = "is error" -> Test(<<"level">>, <<"=">>, <<"error">>)
    [] piece = "since"    -> Test(<<"ts">>, <<">", "=">>, <<"rfc2">>)
    [] piece = "differs"  -> Test(Key(format), <<"=">>, <<"word", " ", "other">>)
    [] piece = "like"     -> Test(Key(format), <<"~">>, <<"other">>)

(* All that may be true of the four tests. *)
Worlds == SUBSET {TestOf(p) : p \in Tests}
HoldsIn == [test \in AnyTest |-> {w \in Worlds : test \in w}]

-----------------------------------------------------------------------------
(* load: the index of the file, the header of CSV left without a moment.   *)
(* The engine is given the columns of CSV but no pattern: with the format  *)
(* "regex" no record has a moment or a field.  Blank lines are not         *)
(* records.                                                                *)
Index ==
  FoldLeft(LAMBDA index, line :
             Append(index, IF line.style = "header" \/ format = "regex"
                             THEN ParseTsLevel(format, line.text)
                           ELSE Read(format, line.text, Columns)),
           <<>>, lines)
RecordIds == {n \in DOMAIN lines : lines[n].text # <<>>}

(* What the predicates look at: the field of a line, and its moment in the *)
(* index; a record without one is in no range of time.                     *)
ValuesAt(field) ==
  [n \in RecordIds |-> IF format = "regex" THEN ProjectField(format, lines[n].text, field)
                       ELSE Field(format, lines[n].text, Columns, field)]
HoldsAt(index, value, test) ==
  LET Bound == Padded(test.value)
  IN  CASE test.op = <<"=">> -> {n \in RecordIds : value[n] = test.value}
        [] test.op = <<"~">> -> {n \in RecordIds : value[n] # None /\ \E i, j \in DOMAIN value[n] :
                                                     SubSeq(value[n], i, j) = test.value}
        [] test.op \in Comparisons ->
             {n \in RecordIds :
                index[n].ts # Untimed /\ CASE test.op = <<">", "=">> -> index[n].ts >= Bound
                                           [] test.op = <<"<", "=">> -> index[n].ts <= Bound
                                           [] test.op = <<">">> -> index[n].ts > Bound
                                           [] test.op = <<"<">> -> index[n].ts < Bound}

(* The lines a query admits; without one, all of them. *)
Matching(pieces, index) ==
  IF pieces = <<>> THEN Admits(RecordIds, 1)
  ELSE Compile(Text(pieces), RecordIds, [t \in AnyTest |-> HoldsAt(index, ValuesAt(t.field), t)])

-----------------------------------------------------------------------------
(* Window::admits; 0 is an open end, and one end at least is open here. *)
Window == {w \in [since : {0, 2}, until : {0, 2}] : w.since = 0 \/ w.until = 0}
Inside(w, ts) ==
  \/ w.since = 0 /\ w.until = 0
  \/ ts # Untimed /\ (w.since = 0 \/ ts >= w.since) /\ (w.until = 0 \/ ts < w.until)

(* Faulty: what was found first is kept. *)
PushOldest(kept, n, limit) == IF Len(kept) = limit THEN kept ELSE Append(kept, n)

(* search: the last of the matching records of one source, and how many    *)
(* there are.                                                              *)
Push(kept, n, limit) == Append(IF Len(kept) = limit THEN Tail(kept) ELSE kept, n)
Search(ids, rows, w, limit, index) ==
  LET found == SelectSeq(ids, LAMBDA n : n \in rows /\ Inside(w, index[n].ts))
  IN  [hits |-> FoldLeft(LAMBDA kept, n : Push(kept, n, limit), <<>>, found), total |-> Len(found)]

(* search_all and search_json: the newest of all sources together.  The    *)
(* sort leaves records of one moment in the order of their sources.        *)
SearchAll(sources, rows, w, limit, index) ==
  LET answers == [i \in DOMAIN sources |-> Search(sources[i], rows, w, limit, index)]
      found   == FlattenSeq([i \in DOMAIN sources |-> answers[i].hits])
      ts(i)   == index[found[i]].ts
      order   == SortSeq([i \in DOMAIN found |-> i],
                         LAMBDA i, j : ts(i) < ts(j) \/ (ts(i) = ts(j) /\ i < j))
      hits    == [i \in DOMAIN order |-> found[order[i]]]
  IN  [hits  |-> From(hits, Max({1, Len(hits) - limit + 1})),
       total |-> FoldLeft(LAMBDA sum, a : sum + a.total, 0, answers)]

-----------------------------------------------------------------------------
Content == FlattenSeq([n \in DOMAIN lines |-> lines[n].text \o <<"nl">>])

(* The pieces between newlines that are not empty. *)
Split(s) ==
  LET from[i \in 1 .. Len(s) + 2] ==
        LET end == Until(s, i, {"nl"})
        IN  IF i > Len(s) THEN <<>>
            ELSE (IF end = i THEN <<>> ELSE <<SubSeq(s, i, end - 1)>>) \o from[end + 1]
  IN  from[1]

Newlines(s) == Len(SelectSeq(s, LAMBDA a : a = "nl"))
(* Faulty: as many newlines as lines are enough. *)
StartOfReadShort(s, n) ==
  LET from[pos \in 0 .. Len(s)] ==
        LET before == Max({0, pos - Step})
        IN  IF pos = 0 \/ Len(s) - pos >= MaxBuffer THEN pos
            ELSE IF Newlines(From(s, before + 1)) >= n THEN before
            ELSE from[before]
  IN  from[Len(s)]

(* tail_lines: where reading backwards ends, and the lines after that.     *)
StartOfRead(s, n) ==
  LET from[pos \in 0 .. Len(s)] ==
        LET before == Max({0, pos - Step})
        IN  IF pos = 0 \/ Len(s) - pos >= MaxBuffer THEN pos
            ELSE IF Newlines(From(s, before + 1)) > n THEN before
            ELSE from[before]
  IN  from[Len(s)]
TailLines(s, n) ==
  LET start == StartOfRead(s, n)
      split == Split(From(s, start + 1))
      whole == IF start > 0 /\ split # <<>> THEN Tail(split) ELSE split
  IN  From(whole, Max({1, Len(whole) - n + 1}))

-----------------------------------------------------------------------------
(* A text that more pieces may yet make a query of. *)
MayGoOn == LET c == Compile(Text(query), Worlds, HoldsIn) IN c.ok \/ c.next > Len(Text(query))

(* Typing is bounded to one test over a file that is full, and to one      *)
(* format without a file, for what a text means does not depend on it.     *)
Type ==
  /\ \/ /\ lines = <<>> /\ format = "syslog" /\ Len(query) < MaxPieces
        /\ MayGoOn \/ query = <<>>
        /\ \E piece \in Pieces : query' = Append(query, piece)
     \/ /\ Len(lines) = MaxLines /\ query = <<>>
        /\ \A n \in DOMAIN lines : lines[n].whole \/ lines[n].style = "header"
        /\ \E test \in Tests : query' = <<test>>
  /\ UNCHANGED <<format, lines>>

InspectInit == Init /\ query = <<>>
Grow == query = <<>> /\ Next /\ UNCHANGED query
Asked == query # <<>> /\ UNCHANGED inspectVars

InspectNext == Grow \/ Type \/ Asked
InspectSpec == InspectInit /\ [][InspectNext]_inspectVars

-----------------------------------------------------------------------------
(* The grammar at the head of dsl.rs: the meanings of the pieces from i to *)
(* j as an expression, a conjunction, or what NOT stands before.           *)
Meanings(pieces, among, holds) ==
  LET m[rule \in {"or", "and", "unary"}, i \in 1 .. Len(pieces) + 1, j \in 0 .. Len(pieces)] ==
        LET Either(keyword, left, right, Join(_, _)) ==
              UNION {{Join(a, b) : a \in m[left, i, k - 1], b \in m[right, k + 1, j]} :
                       k \in {k \in i + 1 .. j - 1 : pieces[k] = keyword}}
            Inner(rows) == {among \ a : a \in rows}
        IN CASE i > j -> {}
             [] i <= j /\ rule = "or" ->
                  m["and", i, j] \cup Either("OR", "or", "and", LAMBDA a, b : a \cup b)
             [] i <= j /\ rule = "and" ->
                  m["unary", i, j] \cup Either("AND", "and", "unary", LAMBDA a, b : a \cap b)
             [] i <= j /\ rule = "unary" ->
                  CASE pieces[i] = "NOT" -> Inner(m["unary", i + 1, j])
                    [] pieces[i] = "(" /\ pieces[j] = ")" /\ i < j -> m["or", i + 1, j - 1]
                    [] i = j /\ pieces[i] \in Tests \ {"differs"} -> {holds[TestOf(pieces[i])]}
                    [] i = j /\ pieces[i] = "differs" -> {among \ holds[TestOf(pieces[i])]}
                    [] OTHER -> {}
  IN  m["or", 1, Len(pieces)]

(* A text compiles just if the grammar derives it, and then to what it     *)
(* means: NOT before AND before OR, parentheses as they stand, and no      *)
(* keyword or parenthesis taken into a name or a value beside it.          *)
QueryMeans ==
  query # <<>> =>
    LET c == Compile(Text(query), Worlds, HoldsIn)
        m == Meanings(query, Worlds, HoldsIn)
    IN  m = IF c.ok THEN {c.rows} ELSE {}

ShownNewest(index, match) ==
  LET ids   == SelectSeq([n \in DOMAIN lines |-> n], LAMBDA n : n \in RecordIds)
      cuts  == IF format \in {"csv", "tsv"} THEN {Len(ids)} ELSE {Len(ids) \div 2, Len(ids)}
      Ordered(seq) == \A i, j \in DOMAIN seq : i < j => index[seq[i]].ts <= index[seq[j]].ts
  IN  Len(lines) = MaxLines /\ match.ok =>
        \A w \in Window, limit \in {1, 2}, cut \in cuts :
          LET sources == <<SubSeq(ids, cut + 1, Len(ids)), SubSeq(ids, 1, cut)>>
              answer  == SearchAll(sources, match.rows, w, limit, index)
              all     == {n \in match.rows : Inside(w, index[n].ts)}
              shown   == ToSet(answer.hits)
          IN  /\ answer.total = Cardinality(all)
              /\ shown \subseteq all /\ Len(answer.hits) = Min({limit, Cardinality(all)})
              /\ Ordered(answer.hits)
              /\ (\A i \in DOMAIN sources : Ordered(SelectSeq(sources[i], LAMBDA n : n \in all))) =>
                   \A n \in all \ shown, h \in shown : index[n].ts <= index[h].ts
MatchingShown(index) == ShownNewest(index, Matching(query, index))

(* What is told of a search is true of the files: so many records match,   *)
(* and those that are shown match, are as many as fit, and are the newest  *)
(* where each file is in the order of time.  The lines are MaxLines, of    *)
(* one file or of two.                                                     *)
SearchNewest == MatchingShown(Index)

(* The file as it is written, up to its end or short of the last newline.  *)
Files == {Content, Front(Content)}

(* Reading backwards ended right before a newline, with no newline to      *)
(* spare: the line dropped as a part of one is whole.                      *)
OneTooFew(s, n) ==
  LET start == StartOfRead(s, n)
  IN  /\ start > 0 /\ s[start + 1] = "nl" /\ Last(s) = "nl"
      /\ Newlines(From(s, start + 1)) = n + 1

(* tail_lines: what is told are the last lines of the file, none of them a *)
(* part of a line; all that were asked for, if the file has as many, no    *)
(* blank ones and none too long for the buffer, except that one is missing *)
(* just when reading ended right before a newline.                         *)
TailIsTail ==
  query = <<>> /\ lines # <<>> =>
    \A n \in {1, 2}, content \in Files :
      LET all  == Split(content)
          tail == TailLines(content, n)
          asked == Min({n, Len(all)})
      IN  /\ Len(tail) <= asked /\ tail = From(all, Len(all) - Len(tail) + 1)
          /\ StartOfRead(content, n) = 0 => Len(tail) = asked
          /\ Len(content) < MaxBuffer /\ Len(all) = Len(lines) =>
               Len(tail) = IF OneTooFew(content, n) THEN asked - 1 ELSE asked

(* "The last n records", read "until n complete lines are in hand" (the    *)
(* comments on tail and tail_lines): never one fewer.  The code drops the  *)
(* first piece even where it is a whole line.                              *)
TailIsAll ==
  query = <<>> /\ lines # <<>> /\ Len(Content) < MaxBuffer =>
    \A n \in {1, 2}, content \in Files :
      LET all == Split(content)
      IN  Len(all) = Len(lines) => Len(TailLines(content, n)) = Min({n, Len(all)})
=============================================================================
