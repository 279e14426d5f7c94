------------------------------- MODULE Headers --------------------------------
(***************************************************************************)
(* The formats whose lines begin with fields in fixed places: syslog       *)
(* RFC 5424 (parse_syslog.rs), access logs (parse_access.rs), logback      *)
(* (parse_logback.rs), Python's logging (parse_python.rs), a user's own    *)
(* pattern (parse_regex.rs) and the cells of CSV and TSV (parse_csv.rs).   *)
(* A parse gives the fields of the line, or Malformed.                     *)
(***************************************************************************)
EXTENDS Scan

Malformed == [malformed |-> TRUE]

(* A field that is "-" is not there. *)
Nil(text) == IF text = <<"-">> THEN None ELSE text

-----------------------------------------------------------------------------
(* Faulty: an escaped bracket ends a block. *)
BlockEndAtBracket(s, i) ==
  LET end == Until(s, i, {"]"}) IN IF end > Len(s) THEN 0 ELSE end + 1

(* read_structured_data of syslog: "-", or blocks in brackets; the place   *)
(* after them, or 0.                                                       *)
BlockEnd(s, i) ==
  LET from[j \in i .. Len(s) + 1] ==
        IF j > Len(s) THEN 0
        ELSE IF s[j] = "]" THEN j + 1
        ELSE from[IF s[j] = "backslash" /\ j < Len(s) THEN j + 2 ELSE j + 1]
  IN  from[i]
StructuredDataEnd(s, i) ==
  LET from[j \in i .. Len(s) + 1] ==
        IF ~AtIs(s, j, "[") THEN j
        ELSE IF BlockEnd(s, j + 1) = 0 THEN 0 ELSE from[BlockEnd(s, j + 1)]
  IN  IF i > Len(s) THEN i
      ELSE IF s[i] = "-" THEN IF i = Len(s) \/ s[i + 1] = " " THEN i + 1 ELSE 0
      ELSE IF s[i] = "[" THEN from[i] ELSE 0

(* map_syslog_severity. *)
SyslogSeverity(pri) ==
  CASE pri % 8 \in 0 .. 2 -> Fatal [] pri % 8 = 3 -> Error [] pri % 8 = 4 -> Warn
    [] pri % 8 \in {5, 6} -> Info [] pri % 8 = 7 -> Debug

(* The five fields between version and structured data, or None. *)
FiveTokens(s, i) ==
  LET Next(found, n) ==
        LET token == Token(s, Last(found))
        IN  Append(SubSeq(found, 1, n - 1), token.text) \o <<token.next>>
      found == FoldLeft(Next, <<i>>, <<1, 2, 3, 4, 5>>)
  IN  IF <<>> \in ToSet(SubSeq(found, 1, 5)) THEN None ELSE found

(* parse_header of syslog. *)
SyslogHeader(s) ==
  LET pri     == Past(s, 2, Digits)
      version == Past(s, pri + 1, Digits)
      tokens  == FiveTokens(s, version + 1)
      sd      == tokens[6]
      end     == StructuredDataEnd(s, sd)
  IN  IF ~AtIs(s, 1, "<") \/ pri = 2 \/ ~AtIs(s, pri, ">")
         \/ version = pri + 1 \/ ~AtIs(s, version, " ") \/ tokens = None \/ end = 0
        THEN Malformed
      ELSE [severity |-> SyslogSeverity(Number(SubSeq(s, 2, pri - 1))),
            ts |-> tokens[1], host |-> tokens[2], app |-> tokens[3],
            procid |-> tokens[4], msgid |-> tokens[5],
            sd  |-> IF AtIs(s, sd, "-") THEN <<>> ELSE SubSeq(s, sd, end - 1),
            msg |-> From(s, Skip(s, end, " "))]

SyslogRead(h) ==
  IF h = Malformed THEN NotRead
  ELSE IF h.ts = <<"-">> THEN Outcome(Untimed, h.severity, "no")
  ELSE Timed(RfcMoment(h.ts), h.severity)

(* The value of a parameter in the block that goes on at i, or None. *)
Parameter(sd, i, key) ==
  LET from[start \in i .. Len(sd) + 1] ==
        LET j     == Past(sd, start, Space)
            eq    == Until(sd, j, {"=", "]", " "})
            value == Quoted(sd, eq + 2, Anything)
        IN  IF j > Len(sd) \/ AtIs(sd, j, "]") \/ ~AtIs(sd, eq, "=") \/ ~AtIs(sd, eq + 1, "quote")
              THEN None
            ELSE IF SubSeq(sd, j, eq - 1) = key THEN value.text ELSE from[value.next]
  IN  from[i]

(* project_structured_data: of the first block of that name the parameter, *)
(* or the empty text that says the block is there.                         *)
StructuredData(sd, key) ==
  LET dot  == Until(key, 1, {"."})
      id   == SubSeq(key, 1, dot - 1)
      from[i \in 0 .. Len(sd) + 1] ==
        LET end == Until(sd, i + 1, {" ", "]"})
        IN  IF ~AtIs(sd, i, "[") THEN None
            ELSE IF SubSeq(sd, i + 1, end - 1) # id THEN from[BlockEnd(sd, end)]
            ELSE IF dot > Len(key) THEN <<>>
            ELSE Parameter(sd, end, From(key, dot + 1))
  IN  from[1]

SyslogField(h, key) ==
  IF h = Malformed THEN None
  ELSE CASE key = <<"host">>   -> Nil(h.host)
         [] key = <<"app">>    -> Nil(h.app)
         [] key = <<"procid">> -> Nil(h.procid)
         [] key = <<"msgid">>  -> Nil(h.msgid)
         [] key = <<"ts">>     -> Nil(h.ts)
         [] key = <<"msg">>    -> h.msg
         [] key = <<"level">>  -> Name(h.severity)
         [] OTHER -> StructuredData(h.sd, key)

(* looks_like_syslog. *)
LooksLikeSyslog(s) ==
  LET pri == Past(s, 2, Digits)
      version == Past(s, pri + 1, Digits)
  IN  AtIs(s, 1, "<") /\ pri > 2 /\ AtIs(s, pri, ">") /\ version > pri + 1 /\ AtIs(s, version, " ")

-----------------------------------------------------------------------------
(* read_quoted of a field that may be left out. *)
OptionalQuote(s, i) ==
  IF AtIs(s, i, "quote") THEN Quoted(s, i + 1, Anything) ELSE [text |-> None, next |-> i, closed |-> TRUE]

(* parse_line of an access log. *)
AccessLine(s) ==
  LET host    == Token(s, 1)
      logname == Token(s, host.next)
      user    == Token(s, logname.next)
      close   == Until(s, user.next + 1, {"]"})
      quote   == Skip(s, close + 1, " ")
      request == Quoted(s, quote + 1, Anything)
      status  == Token(s, Skip(s, request.next, " "))
      bytes   == Token(s, status.next)
      referer == OptionalQuote(s, bytes.next)
      agent   == OptionalQuote(s, Skip(s, referer.next, " "))
  IN  IF \/ \E t \in {host, logname, user} : t.text = <<>>
         \/ ~AtIs(s, user.next, "[") \/ close > Len(s)
         \/ ~AtIs(s, quote, "quote") \/ ~request.closed \/ status.text = <<>>
         \/ ~referer.closed \/ ~agent.closed
        THEN Malformed
      ELSE [host |-> host.text, logname |-> logname.text, user |-> user.text,
            ts |-> SubSeq(s, user.next + 1, close - 1), request |-> request.text,
            status |-> status.text, bytes |-> bytes.text,
            referer |-> referer.text, agent |-> agent.text]

(* severity_from_status. *)
StatusSeverity(text) ==
  IF Len(text) # 3 THEN Unknown
  ELSE CASE text[1] = "5" -> Error [] text[1] = "4" -> Warn
         [] text[1] \in {"2", "3"} -> Info [] OTHER -> Unknown

AccessRead(p) ==
  IF p = Malformed THEN NotRead ELSE Timed(Moment(Clf, p.ts), StatusSeverity(p.status))

(* split_request: the parts of the request line. *)
RequestPart(request, n) ==
  LET one == Until(request, 1, Space)
      two == Until(request, one + 1, Space)
  IN  IF one > Len(request) \/ two > Len(request) THEN None
      ELSE CASE n = 1 -> SubSeq(request, 1, one - 1)
             [] n = 2 -> SubSeq(request, one + 1, two - 1)
             [] n = 3 -> From(request, two + 1)

AccessField(p, key) ==
  IF p = Malformed THEN None
  ELSE CASE key \in {<<"ip">>, <<"host">>} -> p.host
         [] key = <<"logname">>    -> Nil(p.logname)
         [] key = <<"user">>       -> Nil(p.user)
         [] key = <<"request">>    -> p.request
         [] key = <<"method">>     -> RequestPart(p.request, 1)
         [] key = <<"uri">>        -> RequestPart(p.request, 2)
         [] key = <<"protocol">>   -> RequestPart(p.request, 3)
         [] key = <<"status">>     -> p.status
         [] key = <<"bytes">>      -> Nil(p.bytes)
         [] key = <<"referer">>    -> p.referer
         [] key = <<"user_agent">> -> p.agent
         [] key = <<"level">>      -> Name(StatusSeverity(p.status))
         [] OTHER -> None

(* looks_like_access: brackets around a timestamp with slashes. *)
LooksLikeAccess(s) ==
  LET open  == Until(s, 1, {"["})
      close == Until(s, open + 1, {"]"})
  IN  close <= Len(s) /\ close = open + 2 /\ s[open + 1] \in DOMAIN Clf

-----------------------------------------------------------------------------
(* parse_header of logback: timestamp, level, thread if it is there, then  *)
(* logger and message around a dash.                                       *)
LogbackHeader(s) ==
  LET level == Past(s, 3, Words)
      open  == Past(s, level, Space)
      close == Until(s, open, {"]"})
      rest  == IF AtIs(s, open, "[") THEN Past(s, close + 1, Space) ELSE open
      dash  == Dash(s, rest)
  IN  IF s = <<>> \/ s[1] \notin DOMAIN Iso \/ ~AtIs(s, 2, " ") \/ level = 3
         \/ (AtIs(s, open, "[") /\ close > Len(s))
        THEN Malformed
      ELSE [ts |-> <<s[1]>>, level |-> SubSeq(s, 3, level - 1),
            thread |-> IF AtIs(s, open, "[") THEN SubSeq(s, open + 1, close - 1) ELSE <<>>,
            logger |-> IF dash = 0 THEN <<>> ELSE Trim(SubSeq(s, rest, dash - 1)),
            msg |-> From(s, IF dash = 0 THEN rest ELSE dash + 3)]

LogbackRead(h) ==
  IF h = Malformed THEN NotRead ELSE Timed(Moment(Iso, h.ts), Severity(h.level))

LogbackField(h, key) ==
  LET Filled(text) == IF text = <<>> THEN None ELSE text
  IN  IF h = Malformed THEN None
      ELSE CASE key = <<"level">>  -> Filled(h.level)
             [] key = <<"thread">> -> Filled(h.thread)
             [] key = <<"logger">> -> Filled(h.logger)
             [] key = <<"ts">>     -> Filled(h.ts)
             [] key = <<"msg">>    -> h.msg
             [] OTHER -> None

(* looks_like_logback: the level is a loud one. *)
LooksLikeLogback(s) ==
  LET level == Past(s, 3, Words)
  IN  /\ s # <<>> /\ s[1] \in DOMAIN Iso /\ AtIs(s, 2, " ")
      /\ level = 4 /\ s[3] \in {"INFO", "WARN", "ERROR"}

-----------------------------------------------------------------------------
(* What Python's logging writes: timestamp, logger, level and message      *)
(* between dashes; 0 where there is no further dash.                       *)
PythonDashes(s) ==
  LET one   == Dash(s, 1)
      two   == IF one = 0 THEN 0 ELSE Dash(s, one + 3)
      three == IF two = 0 THEN 0 ELSE Dash(s, two + 3)
  IN  <<one, two, three>>
PythonLevel(s) ==
  LET dash == PythonDashes(s)
  IN  Trim(SubSeq(s, dash[2] + 3, IF dash[3] = 0 THEN Len(s) ELSE dash[3] - 1))

PythonRead(s) ==
  LET dash == PythonDashes(s)
      ts   == Moment(Iso, SubSeq(s, 1, dash[1] - 1))
  IN  IF dash[1] = 0 THEN NotRead
      ELSE IF ts = Untimed THEN Outcome(Untimed, Unknown, "ts")
      ELSE Outcome(ts, IF dash[2] = 0 THEN Unknown ELSE Severity(PythonLevel(s)), "no")

PythonField(s, key) ==
  LET dash == PythonDashes(s)
  IN  IF dash[1] = 0 THEN None
      ELSE IF key = <<"ts">> THEN SubSeq(s, 1, dash[1] - 1)
      ELSE IF dash[2] = 0 THEN None
      ELSE CASE key = <<"logger">> -> Trim(SubSeq(s, dash[1] + 3, dash[2] - 1))
             [] key = <<"level">>  -> PythonLevel(s)
             [] key = <<"msg">>    -> IF dash[3] = 0 THEN <<>> ELSE Trim(From(s, dash[3] + 3))
             [] OTHER -> None

-----------------------------------------------------------------------------
(* split_record: the cells of a line of CSV or TSV. *)
SplitRecord(s, delim) ==
  LET from[i \in 1 .. Len(s) + 1] ==
        LET end    == Until(s, i, {delim})
            quoted == Quoted(s, i + 1, TwoQuotes)
        IN  IF i > Len(s) THEN IF s = <<>> \/ Last(s) = delim THEN << <<>> >> ELSE <<>>
            ELSE IF s[i] # "quote" THEN <<SubSeq(s, i, end - 1)>> \o from[Skip(s, end, delim)]
            ELSE IF quoted.next > Len(s) THEN <<quoted.text>>
            ELSE <<quoted.text>> \o from[Skip(s, quoted.next, delim)]
  IN  from[1]

(* column_index, or 0. *)
Column(headers, key) ==
  LET at == {n \in DOMAIN headers : headers[n] = key} IN IF at = {} THEN 0 ELSE Min(at)
CellAt(row, n) == IF n \in DOMAIN row THEN row[n] ELSE None

(* ts_and_level_with_header. *)
CsvRead(s, delim, headers) ==
  LET row == SplitRecord(s, delim)
      ts  == CellAt(row, Column(headers, <<"ts">>))
      level == CellAt(row, Column(headers, <<"level">>))
      sev == IF level = None THEN Unknown ELSE Severity(level)
  IN  IF ts \in {None, <<>>} THEN Outcome(Untimed, sev, "no") ELSE Timed(RfcMoment(ts), sev)

(* project_field_with_header: a name, or the number of a column. *)
CsvField(s, delim, headers, key) ==
  LET row == SplitRecord(s, delim)
  IN  IF Column(headers, key) # 0 THEN CellAt(row, Column(headers, key))
      ELSE IF AtIs(key, 1, "_") /\ Len(key) > 1 /\ ToSet(Tail(key)) \subseteq Digits
        THEN CellAt(row, Number(Tail(key)))
      ELSE None

(* delim_vote: the format whose delimiter is there at least twice outside quotes. *)
DelimVote(s) ==
  LET outside[i \in 1 .. Len(s) + 1, quoted \in BOOLEAN] ==
        IF i > Len(s) THEN <<>>
        ELSE IF s[i] # "quote"
          THEN (IF quoted THEN <<>> ELSE <<s[i]>>) \o outside[i + 1, quoted]
        ELSE IF quoted /\ AtIs(s, i + 1, "quote") THEN outside[i + 2, quoted]
        ELSE outside[i + 1, ~quoted]
      Count(a) == Len(SelectSeq(outside[1, FALSE], LAMBDA b : b = a))
  IN  IF Count("tab") >= 2 /\ Count("tab") > Count(",") THEN "tsv"
      ELSE IF Count(",") >= 2 THEN "csv" ELSE "none"

-----------------------------------------------------------------------------
(* A user's pattern that captures ts, level and msg at spaces, whatever is *)
(* in them; the moment may be cut to the day, which parse_padded_ts fills. *)
Captures(s) ==
  LET one == Until(s, 1, Space)
      two == Until(s, one + 1, Space)
  IN  IF two > Len(s) \/ one = 1 \/ two = one + 1 THEN Malformed
      ELSE [ts |-> SubSeq(s, 1, one - 1), level |-> SubSeq(s, one + 1, two - 1),
            msg |-> From(s, two + 1)]
Padded(text) == IF text = <<"day1">> THEN 1 ELSE RfcMoment(text)

RegexRead(c) ==
  IF c = Malformed THEN NotRead ELSE Timed(Padded(c.ts), Severity(c.level))
RegexField(c, key) ==
  IF c = Malformed THEN None
  ELSE CASE key = <<"level">> -> IF Severity(c.level) = Unknown THEN c.level
                                 ELSE Name(Severity(c.level))
         [] key = <<"ts">>  -> c.ts
         [] key = <<"msg">> -> c.msg
         [] OTHER -> None
=============================================================================
