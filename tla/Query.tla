-------------------------------- MODULE Query ---------------------------------
(***************************************************************************)
(* The query language of engine/dsl.rs and the predicates it compiles to.  *)
(* A predicate is the set of the records it admits: `among` is the set of  *)
(* all records, and holds maps a test of one field to those it admits.     *)
(***************************************************************************)
EXTENDS Formats

Keywords == {"AND", "OR", "NOT"}
FieldAtoms == Words \cup Keywords \cup Digits \cup {"msg", "user_agent", "_", ".", "-"}
Comparisons == {<<">", "=">>, <<"<", "=">>, <<">">>, <<"<">>}

(* What a parse comes to: the records admitted and the place after what    *)
(* was read, or the place where the text was refused.                      *)
Admits(rows, next) == [ok |-> TRUE, rows |-> rows, next |-> next]
Refused(at) == [ok |-> FALSE, rows |-> {}, next |-> at]

(* peek_kw: the keyword after the blanks at i.  Letters that follow make   *)
(* it a word, other characters do not.                                     *)
KeywordAt(s, i, keyword) ==
  LET j == Past(s, i, Blank)
  IN  AtIs(s, j, keyword) /\ ~(j < Len(s) /\ s[j + 1] \in Words \cup Keywords)

(* read_op, and the place after it. *)
ReadOp(s, i) ==
  LET j == Past(s, i, Blank)
      two == SubSeq(s, j, j + 1)
  IN  IF two \in {<<"!", "=">>, <<">", "=">>, <<"<", "=">>} THEN [op |-> two, next |-> j + 2]
      ELSE IF j <= Len(s) /\ s[j] \in {"=", "~", ">", "<"} THEN [op |-> <<s[j]>>, next |-> j + 1]
      ELSE [op |-> <<>>, next |-> j]

(* The end of a quotation or a pattern: its first delimiter that no        *)
(* backslash precedes.  The backslashes stay in the value.                 *)
DelimitedEnd(s, i, delimiter) ==
  LET from[j \in i .. Len(s) + 2] ==
        IF j > Len(s) THEN Len(s) + 1
        ELSE IF s[j] = delimiter THEN j
        ELSE from[IF s[j] = "backslash" /\ j < Len(s) THEN j + 2 ELSE j + 1]
  IN  from[i]

(* read_value: a pattern, a quotation, or what is before the next blank or *)
(* closing parenthesis.                                                    *)
ReadValue(s, i, op) ==
  LET j == Past(s, i, Blank)
      Delimited(delimiter) ==
        LET end == DelimitedEnd(s, j + 1, delimiter)
        IN  [text |-> SubSeq(s, j + 1, end - 1), next |-> Min({end + 1, Len(s) + 1})]
      end == Until(s, j, Blank \cup {")"})
  IN  IF op = <<"~">> /\ AtIs(s, j, "/") THEN Delimited("/")
      ELSE IF AtIs(s, j, "quote") THEN Delimited("quote")
      ELSE [text |-> SubSeq(s, j, end - 1), next |-> end]

(* build_predicate: the records a test admits, or that there is no such    *)
(* test.  A pattern is searched for as it is written.                      *)
Test(field, op, value) == [field |-> field, op |-> op, value |-> value]
AnyTest == [field : Seq(STRING), op : Seq(STRING), value : Seq(STRING)]
Clause(s, start, among, holds) ==
  LET i     == Past(s, start, Blank)
      end   == Past(s, i, FieldAtoms)
      field == SubSeq(s, i, end - 1)
      op    == ReadOp(s, end)
      value == ReadValue(s, op.next, op.op)
  IN  IF end = i \/ \E kw \in Keywords : KeywordAt(s, i, kw) THEN Refused(i)
      ELSE IF op.op = <<>> \/ Past(s, op.next, Blank) > Len(s) THEN Refused(op.next)
      ELSE IF op.op = <<"!", "=">>
        THEN Admits(among \ holds[Test(field, <<"=">>, value.text)], value.next)
      ELSE IF op.op \in Comparisons /\ (field # <<"ts">> \/ Padded(value.text) = Untimed)
        THEN Refused(i)
      ELSE Admits(holds[Test(field, op.op, value.text)], value.next)

(* Faulty: NOT takes all that AND joins. *)
OperandLoose == [OR |-> "and", AND |-> "unary", NOT |-> "and"]

(* Which rule reads what a keyword stands before. *)
Operand == [OR |-> "and", AND |-> "unary", NOT |-> "unary"]

(* parse_or, parse_and, parse_unary and parse_atom, from the place i on. *)
Parse(s, among, holds) ==
  LET parse[rule \in {"or", "and", "unary", "atom"}, i \in 1 .. Len(s) + 1] ==
        LET j == Past(s, i, Blank)
            (* a keyword between operands, for as long as there is one *)
            Joined(keyword, Join(_, _)) ==
              LET first == parse[Operand[keyword], i]
                  rest  == parse[rule, Past(s, first.next, Blank) + 1]
              IN  IF ~first.ok \/ ~KeywordAt(s, first.next, keyword) THEN first
                  ELSE IF ~rest.ok THEN rest
                  ELSE Admits(Join(first.rows, rest.rows), rest.next)
        IN CASE rule = "or"  -> Joined("OR", LAMBDA a, b : a \cup b)
             [] rule = "and" -> Joined("AND", LAMBDA a, b : a \cap b)
             [] rule = "unary" /\ KeywordAt(s, i, "NOT") ->
                  LET inner == parse[Operand["NOT"], j + 1]
                  IN  IF inner.ok THEN Admits(among \ inner.rows, inner.next) ELSE inner
             [] rule = "unary" /\ ~KeywordAt(s, i, "NOT") -> parse["atom", i]
             [] rule = "atom" /\ AtIs(s, j, "(") ->
                  LET inner == parse["or", j + 1]
                      close == Past(s, inner.next, Blank)
                  IN  IF ~inner.ok THEN inner
                      ELSE IF AtIs(s, close, ")") THEN Admits(inner.rows, close + 1)
                      ELSE Refused(close)
             [] rule = "atom" /\ ~AtIs(s, j, "(") -> Clause(s, i, among, holds)
  IN  parse["or", 1]

(* compile, and the scan with what it gives. *)
Whole(s, p) ==
  LET end == Past(s, p.next, Blank) IN IF p.ok /\ end <= Len(s) THEN Refused(end) ELSE p
Compile(s, among, holds) == Whole(s, Parse(s, among, holds))
=============================================================================
