------------------------------- MODULE Formats --------------------------------
(***************************************************************************)
(* The dispatch to the parsers and the guess at a format from the first    *)
(* lines of a source: engine/format.rs.                                    *)
(***************************************************************************)
EXTENDS Pairs, Headers, PlainText

LogFormats == {"ndjson", "logfmt", "edn", "python", "syslog", "csv", "tsv",
               "access", "logback", "journalctl", "regex", "plain"}

Delim(format) == IF format = "tsv" THEN "tab" ELSE ","

(* parse_ts_level: what an indexer makes of a line.  The columns of CSV    *)
(* and the patterns of users are not known to it.                          *)
ParseTsLevel(format, line) ==
  CASE format = "ndjson"     -> NdjsonRead(JsonMembers(line))
    [] format = "logfmt"     -> LogfmtRead(LogfmtPairs(line))
    [] format = "edn"        -> EdnRead(EdnPairs(line))
    [] format = "python"     -> PythonRead(line)
    [] format = "syslog"     -> SyslogRead(SyslogHeader(line))
    [] format = "access"     -> AccessRead(AccessLine(line))
    [] format = "logback"    -> LogbackRead(LogbackHeader(line))
    [] format = "journalctl" -> JournalRead(JsonMembers(line))
    [] format = "plain"      -> PlainRead(PlainLine(line))
    [] format \in {"csv", "tsv", "regex"} -> Outcome(Untimed, Unknown, "no")

(* What the index holds once the second passes of the engine over CSV and  *)
(* patterns are through.                                                   *)
Read(format, line, headers) ==
  CASE format = "regex" -> RegexRead(Captures(line))
    [] format \in {"csv", "tsv"} -> CsvRead(line, Delim(format), headers)
    [] OTHER -> ParseTsLevel(format, line)

(* project_field, which has no columns or pattern either. *)
ProjectField(format, line, key) ==
  CASE format = "ndjson"     -> NdjsonField(JsonMembers(line), key)
    [] format = "logfmt"     -> LogfmtField(LogfmtPairs(line), key)
    [] format = "edn"        -> EdnField(EdnPairs(line), key)
    [] format = "python"     -> PythonField(line, key)
    [] format = "syslog"     -> SyslogField(SyslogHeader(line), key)
    [] format = "access"     -> AccessField(AccessLine(line), key)
    [] format = "logback"    -> LogbackField(LogbackHeader(line), key)
    [] format = "journalctl" -> JournalField(JsonMembers(line), key)
    [] format = "plain"      -> PlainField(PlainLine(line), key)
    [] format \in {"csv", "tsv", "regex"} -> None

(* FieldCache::get with the headers or the pattern of the source. *)
Field(format, line, headers, key) ==
  CASE format = "regex" -> RegexField(Captures(line), key)
    [] format \in {"csv", "tsv"} -> CsvField(line, Delim(format), headers, key)
    [] OTHER -> ProjectField(format, line, key)

(* is_continuation: whether a line goes on with the record before it.  A   *)
(* timestamp begins with a digit.                                          *)
Continues(format, line) ==
  CASE format \in {"logfmt", "edn"} -> line # <<>> /\ line[1] \in Blank
    [] format \in {"python", "logback"} ->
         line # <<>> /\ line[1] \notin Digits \cup DOMAIN Rfc \cup DOMAIN Iso \cup DOMAIN Clf
    [] format = "syslog" -> ~AtIs(line, 1, "<")
    [] format = "plain"  -> line # <<>> /\ ~LooksLikePlain(line)
    [] OTHER -> FALSE

-----------------------------------------------------------------------------
(* looks_like_journalctl. *)
LooksLikeJournal(s) ==
  /\ AtIs(s, 1, "{")
  /\ \/ "__REALTIME_TIMESTAMP" \in ToSet(s)
     \/ \E i \in DOMAIN s : s[i] = "PRIORITY" /\ AtIs(s, i - 1, "quote") /\ AtIs(s, i + 1, "quote")

(* edn_signature: the first key is a keyword or has a tag. *)
EdnSignature(s) == LET i == Past(s, 2, Blank) IN AtIs(s, i, ":") \/ AtIs(s, i, "#")

(* logfmt_signature: two keys with a value. *)
KeyAtoms == Words \cup Digits \cup {"_", "."}
AfterPair(s, i) ==
  LET key == Past(s, i, Space)
      eq  == Past(s, key, KeyAtoms)
  IN  IF eq = key \/ ~AtIs(s, eq, "=") THEN 0
      ELSE IF AtIs(s, eq + 1, "quote") THEN Quoted(s, eq + 2, Anything).next
      ELSE Until(s, eq + 1, Space)
LogfmtSignature(s) == AfterPair(s, 1) # 0 /\ AfterPair(s, AfterPair(s, 1)) # 0

(* The vote of one line without the blanks around it, the most telling     *)
(* signature first.                                                        *)
Vote(s) ==
  IF s = <<>> THEN "blank"
  ELSE IF LooksLikeSyslog(s) THEN "syslog"
  ELSE IF LooksLikeAccess(s) THEN "access"
  ELSE IF LooksLikeLogback(s) THEN "logback"
  ELSE IF LooksLikeJournal(s) THEN "journalctl"
  ELSE IF s[1] = "{" /\ Last(s) = "}" THEN IF EdnSignature(s) THEN "edn" ELSE "ndjson"
  ELSE IF LooksLikePlain(s) THEN "plain"
  ELSE IF LogfmtSignature(s) THEN "logfmt"
  ELSE DelimVote(s)

(* The format of a source whose lines begin like this. *)
Elected(ballot) ==
  LET V(f) == Cardinality({n \in DOMAIN ballot : ballot[n] = f})
      Beats(f, rivals) == V(f) >= 2 /\ \A g \in rivals : V(f) > V(g)
      plain == V("plain") + V("logback")
  IN  IF Beats("syslog", {"ndjson", "logfmt", "edn", "access", "logback"}) THEN "syslog"
      ELSE IF Beats("access", {"ndjson", "logfmt", "edn", "logback"}) THEN "access"
      ELSE IF V("plain") = 0 /\ Beats("logback", {"ndjson", "logfmt", "edn"}) THEN "logback"
      ELSE IF Beats("journalctl", {"ndjson", "edn"}) THEN "journalctl"
      ELSE IF Beats("edn", {"ndjson", "logfmt"}) THEN "edn"
      ELSE IF Beats("logfmt", {"ndjson"}) THEN "logfmt"
      ELSE IF V("ndjson") >= 2 THEN "ndjson"
      ELSE IF /\ plain > 0 /\ (plain >= 2 \/ plain = Len(ballot) - V("blank"))
              /\ \A g \in {"logfmt", "csv", "tsv"} : plain > V(g)
        THEN "plain"
      ELSE IF Beats("tsv", {"csv"}) THEN "tsv"
      ELSE IF V("csv") >= 2 THEN "csv"
      ELSE "ndjson"
Detect(lines) ==
  Elected(FoldLeft(LAMBDA votes, line : Append(votes, Vote(Trim(line))), <<>>, lines))
=============================================================================
