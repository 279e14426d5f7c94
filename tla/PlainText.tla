------------------------------ MODULE PlainText -------------------------------
(***************************************************************************)
(* "timestamp LEVEL message" in its many shapes: parse_plain.rs.           *)
(***************************************************************************)
EXTENDS Scan, TLC

LevelWindow == 5
Loud == {"INFO", "WARN", "ERROR"}
Wraps == {<<"[", "]">>, <<"<", ">">>, <<"(", ")">>}
NameAtoms == Words \cup Digits \cup {".", "_", "-", "/"}

(* next_token: what is between blanks from i on, and the place after it. *)
NextToken(s, i) ==
  LET start == Past(s, i, Blank)
  IN  [text |-> SubSeq(s, start, Until(s, start, Blank) - 1), next |-> Until(s, start, Blank)]

WithoutColons(text) == SubSeq(text, 1, Max({i \in DOMAIN text : text[i] # ":"} \cup {0}))

(* strip_wrap: a token without its colons and brackets, and whether there  *)
(* were brackets.                                                          *)
StripWrap(token) ==
  LET t == WithoutColons(token)
  IN  IF Len(t) > 1 /\ <<t[1], Last(t)>> \in Wraps
        THEN [word |-> SubSeq(t, 2, Len(t) - 1), wrapped |-> TRUE]
      ELSE [word |-> t, wrapped |-> FALSE]

(* level_of, of the words in use here. *)
IsLevel(word) == Len(word) = 1 /\ word[1] \in DOMAIN LevelWords

(* The timestamp a line begins with, in brackets or not: its moment, its   *)
(* text, and the place after it and its bracket.                           *)
Leading(s, start) ==
  LET bracketed == AtIs(s, start, "[")
      i      == IF bracketed THEN start + 1 ELSE start
      moment == IF i > Len(s) THEN Untimed ELSE Moment(Rfc @@ Iso, <<s[i]>>)
      close  == Until(s, i, {"]"})
  IN  IF moment = Untimed \/ (i < Len(s) /\ s[i + 1] \notin {" ", "]"})
        THEN [ts |-> Untimed, raw |-> <<>>, next |-> start]
      ELSE [ts |-> moment, raw |-> <<s[i]>>,
            next |-> IF bracketed /\ close <= Len(s) THEN close + 1 ELSE i + 1]

(* The level among the first tokens from i on: the first token in any      *)
(* case, one in brackets or capitals further on.  0 if there is none, and  *)
(* else the place after it.                                                *)
LevelFrom(s, i) ==
  LET token[n \in 0 .. LevelWindow] ==
        IF n = 0 THEN [text |-> <<>>, next |-> i] ELSE NextToken(s, token[n - 1].next)
      Counts(n) ==
        LET t == StripWrap(token[n].text)
        IN  IsLevel(t.word) /\ (n = 1 \/ t.wrapped \/ t.word[1] \in Loud)
      found == {n \in 1 .. LevelWindow : Counts(n)}
  IN  IF found = {} THEN [level |-> <<>>, next |-> i]
      ELSE [level |-> StripWrap(token[Min(found)].text).word, next |-> token[Min(found)].next]

(* Thread and logger between the level and the message. *)
ThreadFrom(s, i, token) ==
  IF Len(token.text) > 2 /\ token.text[1] = "[" /\ Last(token.text) = "]"
    THEN [thread |-> SubSeq(token.text, 2, Len(token.text) - 1), next |-> Past(s, token.next, Blank)]
  ELSE [thread |-> <<>>, next |-> i]
IsName(name) == name \notin {<<>>, <<"k">>} /\ name[1] \in Words /\ ToSet(name) \subseteq NameAtoms
LoggerFrom(s, i, token) ==
  LET name   == WithoutColons(token.text)
      after  == Past(s, token.next, Blank)
      dashed == AtIs(s, after, "-") /\ AtIs(s, after + 1, " ")
  IN  IF ~IsName(name) \/ (name = token.text /\ ~dashed) THEN [logger |-> <<>>, next |-> i]
      ELSE [logger |-> name,
            next |-> IF name = token.text THEN Past(s, after + 2, Blank) ELSE after]

(* `LEVEL:logger:message` of a line without a timestamp. *)
BasicConfig(s, start) ==
  LET one == Until(s, start, {":"})
      two == Until(s, one + 1, {":"})
      logger == SubSeq(s, one + 1, two - 1)
      named  == two <= Len(s) /\ " " \notin ToSet(logger)
  IN  [is |-> one <= Len(s) /\ IsLevel(SubSeq(s, start, one - 1)) /\ ~AtIs(s, one + 1, " "),
       level |-> SubSeq(s, start, one - 1),
       logger |-> IF named THEN logger ELSE <<>>,
       msg |-> Trim(From(s, IF named THEN two + 1 ELSE one + 1))]

(* parse. *)
Message(s, level, thread, logger) ==
  [level |-> level, thread |-> thread.thread, logger |-> logger.logger,
   msg |-> Trim(From(s, logger.next))]
AfterThread(s, level, thread) ==
  Message(s, level, thread, LoggerFrom(s, thread.next, NextToken(s, thread.next)))
AfterLevel(s, level, i) ==
  IF level = <<>> THEN Message(s, level, [thread |-> <<>>], [logger |-> <<>>, next |-> i])
  ELSE AfterThread(s, level, ThreadFrom(s, i, NextToken(s, i)))
AfterMarks(s, i) == Past(s, Past(s, Past(s, i, Blank), {"-", "|", ":"}), Blank)
AfterLead(s, lead, basic, lvl) ==
  [ts |-> lead.ts, raw |-> lead.raw] @@
  (IF lead.ts = Untimed /\ basic.is THEN [thread |-> <<>>] @@ basic
   ELSE AfterLevel(s, lvl.level, AfterMarks(s, lvl.next)))
PlainFrom(s, lead) == AfterLead(s, lead, BasicConfig(s, lead.next), LevelFrom(s, lead.next))
PlainLine(s) == PlainFrom(s, Leading(s, Past(s, 1, Blank)))

PlainRead(p) == Outcome(p.ts, Severity(p.level), "no")

PlainField(p, key) ==
  LET Filled(text) == IF text = <<>> THEN None ELSE text
  IN  CASE key \in {<<"msg">>, <<"message">>} -> Filled(p.msg)
        [] key = <<"level">>  -> IF p.level = <<>> THEN None ELSE Name(Severity(p.level))
        [] key \in {<<"ts">>, <<"time">>} -> Filled(p.raw)
        [] key = <<"logger">> -> Filled(p.logger)
        [] key = <<"thread">> -> Filled(p.thread)
        [] OTHER -> None

(* Faulty: only a line with a timestamp. *)
LooksLikePlainTimed(s) == PlainLine(s).ts # Untimed

(* looks_like_plain: a timestamp, or a level up front. *)
LooksPlain(s, p) ==
  LET start == Past(s, 1, Blank)
      Begins(i) == SubSeq(s, i, i + Len(p.level) - 1) = p.level
  IN  \/ p.ts # Untimed
      \/ p.level # <<>>
           /\ (Begins(start) \/ ((AtIs(s, start, "[") \/ AtIs(s, start, "<")) /\ Begins(start + 1)))
LooksLikePlain(s) == LooksPlain(s, PlainLine(s))
=============================================================================
