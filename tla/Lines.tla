-------------------------------- MODULE Lines ---------------------------------
(***************************************************************************)
(* A source of one format as a program writes it line by line: records,    *)
(* the stack traces between them, and at most one line that is damaged.    *)
(* What a record looks like in each format is written down here from the   *)
(* grammars at the heads of the parsers; what is read is in Formats.       *)
(***************************************************************************)
EXTENDS Formats

CONSTANTS
  Levels,   (* the levels that are written: "info", "warn", "error"         *)
  Values,   (* the texts that are written in the field of a record          *)
  Usual,    (* the record that is written after the first                   *)
  MaxLines  (* bound on the lines of the source                             *)

VARIABLES
  format,   (* of the source                                                *)
  lines     (* what was written: its style, record and text, and whether it *)
            (* is as it was written                                         *)
vars == <<format, lines>>

Upper(level) == CASE level = "info" -> "INFO" [] level = "warn" -> "WARN" [] OTHER -> "ERROR"

(* A text with an escape before every atom of the set. *)
Escaped(text, set, escape) ==
  FlattenSeq([i \in DOMAIN text |-> IF text[i] \in set THEN <<escape, text[i]>> ELSE <<text[i]>>])
InQuotes(text) == <<"quote">> \o text \o <<"quote">>
Backslashed(text) == InQuotes(Escaped(text, {"quote", "backslash", "]"}, "backslash"))
Slashed(text) == InQuotes(Escaped(text, {"quote", "backslash"}, "backslash"))

Cell(text, delim) ==
  IF {delim, "quote"} \cap ToSet(text) = {} THEN text
  ELSE InQuotes(Escaped(text, {"quote"}, "quote"))
Row(cells, delim) ==
  Cell(cells[1], delim) \o <<delim>> \o Cell(cells[2], delim) \o <<delim>> \o Cell(cells[3], delim)
Columns == << <<"ts">>, <<"level">>, <<"k">> >>

Member(key, text) == InQuotes(<<key>>) \o <<":">> \o Slashed(text)
Priority(level) == CASE level = "info" -> "6" [] level = "warn" -> "4" [] OTHER -> "3"
Status(level) ==
  CASE level = "info" -> <<"2", "0", "0">> [] level = "warn" -> <<"4", "0", "4">>
    [] OTHER -> <<"5", "0", "0">>

(* A record as a line.  "plain" has three shapes. *)
Written(style, r) ==
  LET rfc == IF r.ts = 1 THEN "rfc1" ELSE "rfc2"
      iso == IF r.ts = 1 THEN "iso1" ELSE "iso2"
      clf == IF r.ts = 1 THEN "clf1" ELSE "clf2"
      LEVEL == Upper(r.level)
  IN CASE style = "logfmt" ->
            <<"ts", "=", rfc, " ", "level", "=", r.level, " ", "k", "=">> \o
            (IF r.value = <<>> \/ ToSet(r.value) \cap {" ", "quote"} # {} THEN Slashed(r.value)
             ELSE r.value)
       [] style = "edn" ->
            <<"{", ":", "ts", " ", "#", "inst", " ", "quote", rfc, "quote", ",", " ",
              ":", "level", " ", ":", r.level, ",", " ", ":", "word", "/", "k", " ">>
            \o Slashed(r.value) \o <<"}">>
       [] style = "ndjson" ->
            <<"{">> \o Member("ts", <<rfc>>) \o <<",">> \o Member("level", <<r.level>>) \o <<",">>
            \o Member("k", r.value) \o <<"}">>
       [] style = "journalctl" ->
            <<"{">> \o Member("__REALTIME_TIMESTAMP", <<IF r.ts = 1 THEN "1" ELSE "2">>) \o <<",">>
            \o Member("PRIORITY", <<Priority(r.level)>>) \o <<",">>
            \o Member("MESSAGE", r.value) \o <<"}">>
       [] style = "syslog" ->
            <<"<", "1", CASE r.level = "info" -> "4" [] r.level = "warn" -> "2" [] OTHER -> "1", ">",
              "1", " ", rfc, " ", "word", " ", "other", " ", "-", " ", "-", " ",
              "[", "other", " ", "k", "=", "quote", "other", "quote", "]",
              "[", "word", " ", "level", "=", "quote", "backslash", "]", "quote", " ", "k", "=">>
            \o Backslashed(r.value) \o <<"]", " ", "word">>
       [] style = "csv" -> Row(<< <<rfc>>, <<r.level>>, r.value >>, ",")
       [] style = "tsv" -> Row(<< <<rfc>>, <<r.level>>, r.value >>, "tab")
       [] style = "access" ->
            <<"word", " ", "-", " ", "-", " ", "[", clf, "]", " ", "quote", "word", " ", "/", " ",
              "word", "quote", " ">> \o Status(r.level) \o <<" ", "-", " ">>
            \o InQuotes(<<"-">>) \o <<" ">> \o Slashed(r.value)
       [] style = "logback" ->
            <<iso, " ", LEVEL, " ", " ", "[", "word", "-", "1", "]", " ", "other", ".", "word",
              " ", "-", " ">> \o r.value
       [] style = "python" ->
            <<iso, " ", "-", " ", "word", " ", "-", " ", LEVEL, " ", "-", " ">> \o r.value
       [] style = "regex" -> <<rfc, " ", r.level, " ">> \o r.value
       [] style = "plain"  -> <<iso, " ", LEVEL, " ", "[", "word", "]", " ", "other", ":", " ">> \o r.value
       [] style = "plain2" -> <<"[", rfc, "]", " ", "[", r.level, "]", " ", "-", " ">> \o r.value
       [] style = "plain3" -> <<LEVEL, ":", "word", ".", "other", ":">> \o r.value

(* Where the value of a record is found. *)
Key(style) ==
  CASE style \in {"logfmt", "edn", "ndjson", "csv", "tsv"} -> <<"k">>
    [] style = "syslog" -> <<"word", ".", "k">>
    [] style = "access" -> <<"user_agent">>
    [] OTHER -> <<"msg">>

(* A file of logback lines may hold plain ones, and plain ones of any shape. *)
Styles(fmt) ==
  CASE fmt = "logback" -> {"logback", "plain"}
    [] fmt = "plain"   -> {"plain", "plain2", "plain3"}
    [] OTHER -> {fmt}

(* The message of these formats ends at a blank. *)
Writable(style, value) ==
  style \in {"python", "plain", "plain2", "plain3"} => Trim(value) = value

Records(style) ==
  LET r == [ts : {1}, level : Levels, value : Values]
      few == IF Cardinality({n \in DOMAIN lines : lines[n].style # "header"}) = 0 THEN r ELSE {Usual}
  IN  {IF style = "plain3" THEN [q EXCEPT !.ts = Untimed] ELSE q :
         q \in {q \in few : Writable(style, q.value)}}

Line(style, rec, text) == [style |-> style, rec |-> rec, text |-> text, whole |-> TRUE]
Header(fmt) == Row(Columns, Delim(fmt))

Init ==
  /\ format \in LogFormats
  /\ lines = IF format \in {"csv", "tsv"}
               THEN <<[Line("header", {}, Header(format)) EXCEPT !.whole = FALSE]>> ELSE <<>>

Write ==
  /\ Len(lines) < MaxLines
  /\ \E style \in Styles(format) :
       \E r \in Records(style) : lines' = Append(lines, Line(style, r, Written(style, r)))
  /\ UNCHANGED format

(* A stack trace below a record. *)
TraceLine == <<"tab", "word", " ", "other", ":", "1">>
Trace ==
  /\ lines # <<>> /\ Last(lines).style \notin {"header", "trace"}
  /\ Len(lines) < MaxLines
  /\ format \notin {"csv", "tsv", "ndjson", "journalctl", "access", "regex"}
  /\ lines' = Append(lines, Line("trace", {}, TraceLine))
  /\ UNCHANGED format

(* The last line is cut off somewhere, or has lost something on the way.   *)
(* The lines before it then hold the usual text only, a bound on the       *)
(* damaged sources.                                                        *)
Damage ==
  /\ lines # <<>> /\ Last(lines).whole /\ Last(lines).style # "trace"
  /\ \A n \in 1 .. Len(lines) : lines[n].whole \/ lines[n].style = "header"
  /\ \A n \in 1 .. Len(lines) - 1 :
       lines[n].style \notin {"header", "trace"} => lines[n].rec.value = Usual.value
  /\ LET text == Last(lines).text
     IN  \E i \in DOMAIN text :
           \E rest \in {SubSeq(text, 1, i - 1), RemoveAt(text, i)} :
             lines' = [lines EXCEPT ![Len(lines)].text = rest, ![Len(lines)].whole = FALSE]
  /\ UNCHANGED format

Full == Len(lines) = MaxLines /\ UNCHANGED vars

Next == Write \/ Trace \/ Damage \/ Full
Spec == Init /\ [][Next]_vars

-----------------------------------------------------------------------------
IsRecord(n) == lines[n].whole /\ lines[n].style \notin {"header", "trace"}
Parser(style) == IF style \in {"plain2", "plain3"} THEN "plain" ELSE style

(* Only the newest line changes: what holds of every line as the newest    *)
(* holds of all of them.                                                   *)
Newest == DOMAIN lines \cap {Len(lines)}

(* What a value is read as: unquote_if_string leaves the escapes of JSON   *)
(* in it (schema/mod.rs says so), and a plain line no empty message.       *)
ReadOf(style, value) ==
  CASE style \in {"ndjson", "journalctl"} -> Escaped(value, {"quote", "backslash"}, "backslash")
    [] style = "plain" /\ value = <<>> -> None
    [] OTHER -> value

(* A record that was written is read as it was written: its moment, its    *)
(* level, and the value of its field with all escapes undone, those of     *)
(* JSON excepted; and it does not go on with the record before it, as a    *)
(* stack trace does.                                                       *)
ReadBack ==
  \A n \in Newest :
    /\ lines[n].style = "trace" => Continues(format, lines[n].text)
    /\ IsRecord(n) =>
      LET r == lines[n].rec
          p == Parser(lines[n].style)
          field == Field(p, lines[n].text, Columns, Key(lines[n].style))
      IN  /\ ~Continues(p, lines[n].text)
          /\ Read(p, lines[n].text, Columns) = Outcome(r.ts, LevelWords[r.level], "no")
          /\ field = ReadOf(p, r.value)
          /\ Severity(Field(p, lines[n].text, Columns, <<"level">>)) = LevelWords[r.level]

Agree(index, level, ts) ==
  /\ index.sev = Severity(level) \/ (format = "python" /\ index.ts = Untimed)
  /\ format \notin {"access", "journalctl"} =>
       index.ts = Moment(IF format \in {"python", "logback", "plain"} THEN Iso @@ Rfc ELSE Rfc, ts)

(* Of a line whatever it is, damaged or not, the index holds the severity  *)
(* and the moment that a query finds in its fields.  (Python's parser      *)
(* gives a line without a moment no severity, though the field has one.)   *)
IndexAgrees ==
  \A n \in Newest :
    LET text == lines[n].text
    IN  Agree(Read(format, text, Columns), Field(format, text, Columns, <<"level">>),
              Field(format, text, Columns, <<"ts">>))

Told(index) == <<index.ts, index.sev>>

ReadAs(guess, records) ==
  \A n \in records :
    Told(Read(guess, lines[n].text, Columns)) = <<lines[n].rec.ts, LevelWords[lines[n].rec.level]>>

(* The format that is guessed from two records or more reads each record   *)
(* as it was written, whatever stands between them.                        *)
DetectedIsRead ==
  LET texts == [n \in DOMAIN lines |-> lines[n].text]
      records == {n \in DOMAIN lines : IsRecord(n)}
  IN  format # "regex" /\ Cardinality(records) >= 2 => ReadAs(Detect(texts), records)
=============================================================================
