--------------------------------- MODULE Scan ---------------------------------
(***************************************************************************)
(* How the parsers of mgi-pulse-core/src/engine walk along a line.  A line *)
(* is a sequence of atoms: a byte the parsers tell apart (space, tab,      *)
(* quote, backslash, delimiters, brackets, digits), a word, or a whole     *)
(* timestamp.  A timestamp is "rfc" (RFC 3339), "iso" (date, space, time,  *)
(* fraction, no zone) or "clf" (what Apache writes), of one of two         *)
(* moments; what its digits say plays no part.                             *)
(***************************************************************************)
EXTENDS Integers, SequencesExt, FiniteSetsExt

(* TS_UNTIMED, before every moment. *)
Untimed == 0

(* The severities of record.rs. *)
Unknown == 0
Debug == 2
Info == 3
Warn == 4
Error == 5
Fatal == 6

(* No value, as opposed to an empty one. *)
None == <<"none">>

Space == {" "}
Blank == {" ", "tab"}

Digits == {"0", "1", "2", "3", "4", "5", "6", "7", "8", "9"}
DigitValue == [d \in Digits |->
  CHOOSE n \in 0 .. 9 : d = <<"0", "1", "2", "3", "4", "5", "6", "7", "8", "9">>[n + 1]]
Number(text) == FoldLeft(LAMBDA n, d : 10 * n + DigitValue[d], 0, text)

Rfc == [a \in {"rfc1", "rfc2"} |-> IF a = "rfc1" THEN 1 ELSE 2]
Iso == [a \in {"iso1", "iso2"} |-> IF a = "iso1" THEN 1 ELSE 2]
Clf == [a \in {"clf1", "clf2"} |-> IF a = "clf1" THEN 1 ELSE 2]

(* The moment a text is in one of these notations, or Untimed. *)
Moment(notation, text) ==
  IF Len(text) = 1 /\ text[1] \in DOMAIN notation THEN notation[text[1]] ELSE Untimed

(* parse_rfc3339_micros. *)
RfcMoment(text) == Moment(Rfc, text)

(* Upper and lower case spellings of the levels that are in use here. *)
LevelWords ==
  [w \in {"debug", "info", "INFO", "warn", "WARN", "error", "ERROR", "fatal"} |->
     CASE w = "debug" -> Debug
       [] w \in {"info", "INFO"} -> Info
       [] w \in {"warn", "WARN"} -> Warn
       [] w \in {"error", "ERROR"} -> Error
       [] w = "fatal" -> Fatal]

Words == DOMAIN LevelWords \cup {"word", "other", "ts", "level", "k"}

(* severity::from_bytes. *)
Severity(text) ==
  IF Len(text) = 1 /\ text[1] \in DOMAIN LevelWords THEN LevelWords[text[1]] ELSE Unknown

(* severity::name, as a text. *)
Name(severity) ==
  CASE severity = Debug -> <<"debug">> [] severity = Info -> <<"info">>
    [] severity = Warn -> <<"warn">> [] severity = Error -> <<"error">>
    [] severity = Fatal -> <<"fatal">> [] OTHER -> <<"?">>

-----------------------------------------------------------------------------
From(s, i) == SubSeq(s, i, Len(s))
AtIs(s, i, a) == i \in DOMAIN s /\ s[i] = a

(* The first place from i on where an atom of the set is, or the end. *)
Until(s, i, set) == Min({j \in i .. Len(s) : s[j] \in set} \cup {Len(s) + 1})
Past(s, i, set) == Min({j \in i .. Len(s) : s[j] \notin set} \cup {Len(s) + 1})

(* Over one atom, if it is there. *)
Skip(s, i, a) == IF AtIs(s, i, a) THEN i + 1 ELSE i

Trim(s) == LET from == Past(s, 1, Blank)
           IN  SubSeq(s, from, Max({j \in from .. Len(s) : s[j] \notin Blank} \cup {0}))

(* next_sp_token: what is before the next space, and the place after it. *)
Token(s, i) ==
  LET end == Until(s, i, Space)
  IN  [text |-> SubSeq(s, i, end - 1), next |-> Skip(s, end, " ")]

(* The text of a quotation whose opening quote is before i.  What escapes  *)
(* what is told by the set of its pairs <<a, b>>: there a, b stands for b. *)
Quoted(s, i, escapes) ==
  LET from[j \in i .. Len(s) + 1] ==
        IF j > Len(s) THEN [text |-> <<>>, next |-> j, closed |-> FALSE]
        ELSE IF j < Len(s) /\ <<s[j], s[j + 1]>> \in escapes
          THEN [from[j + 2] EXCEPT !.text = <<s[j + 1]>> \o @]
        ELSE IF s[j] = "quote" THEN [text |-> <<>>, next |-> j + 1, closed |-> TRUE]
        ELSE [from[j + 1] EXCEPT !.text = <<s[j]>> \o @]
  IN  from[i]

(* A backslash before a quote or a backslash (logfmt, EDN), before         *)
(* anything (syslog, access logs), a quote before a quote (CSV).           *)
QuoteOrBackslash == {"backslash"} \X {"quote", "backslash"}
Anything == {"backslash"} \X STRING
TwoQuotes == {<<"quote", "quote">>}

(* The first " - " from i on, or 0. *)
Dash(s, i) ==
  LET at == {j \in i .. Len(s) - 2 : s[j] = " " /\ s[j + 1] = "-" /\ s[j + 2] = " "}
  IN  IF at = {} THEN 0 ELSE Min(at)

(* What an indexer learns of a line: its moment, its severity, and which   *)
(* of the two error counters it adds to, if any.                           *)
Outcome(ts, sev, bad) == [ts |-> ts, sev |-> sev, bad |-> bad]
NotRead == Outcome(Untimed, Unknown, "line")

(* Faulty: a line without a moment has no level either. *)
TimedOrNothing(moment, sev) ==
  IF moment = Untimed THEN Outcome(Untimed, Unknown, "ts") ELSE Outcome(moment, sev, "no")

(* The moment a text gives and its error, for a text that has to be one. *)
Timed(moment, sev) == Outcome(moment, sev, IF moment = Untimed THEN "ts" ELSE "no")
=============================================================================
