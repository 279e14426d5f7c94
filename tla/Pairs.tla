-------------------------------- MODULE Pairs ---------------------------------
(***************************************************************************)
(* The formats whose lines are keys and values: logfmt (parse_logfmt.rs),  *)
(* EDN maps (parse_edn.rs), and JSON objects, as NDJSON (parse.rs,         *)
(* schema/mod.rs) and as journalctl writes them (parse_journalctl.rs).     *)
(***************************************************************************)
EXTENDS Scan

Pair(key, value) == [key |-> key, value |-> value]
NoObject == <<Pair(None, None)>>

-----------------------------------------------------------------------------
(* LogfmtPairs: the pairs from i on.  A key without "=" has an empty       *)
(* value, a quotation that is not closed takes the rest of the line.       *)
LogfmtValue(s, i) ==
  IF AtIs(s, i, "quote") THEN Quoted(s, i + 1, QuoteOrBackslash)
  ELSE [text |-> SubSeq(s, i, Until(s, i, Blank) - 1), next |-> Until(s, i, Blank), closed |-> TRUE]

LogfmtPairs(s) ==
  LET from[i \in 1 .. Len(s) + 2] ==
        LET start == Past(s, i, Blank)
            end   == Until(s, start, Blank \cup {"="})
            key   == SubSeq(s, start, end - 1)
            value == LogfmtValue(s, end + 1)
        IN  IF start > Len(s) THEN <<>>
            ELSE IF key = <<>> THEN from[start + 1]
            ELSE IF ~AtIs(s, end, "=") THEN <<Pair(key, <<>>)>> \o from[end]
            ELSE <<Pair(key, value.text)>> \o from[value.next]
  IN  from[1]

-----------------------------------------------------------------------------
(* read_element: an element of an EDN map from i on: its kind, its text    *)
(* without sigil, quotes and tag, and the place after it.                  *)
Openers == {"{", "[", "("}
Closers == {"}", "]", ")"}
Terminators == Blank \cup {","} \cup Openers \cup Closers
Ignored == Blank \cup {","}

Element(kind, text, next) == [kind |-> kind, text |-> text, next |-> next]

(* skip_balanced: the place after the bracket that closes the one before   *)
(* i; only brackets of its own kind count, and none in strings.            *)
Balanced(s, i, open, close) ==
  LET from[j \in i .. Len(s) + 1, depth \in 0 .. Len(s)] ==
        IF j > Len(s) \/ depth = 0 THEN j
        ELSE CASE s[j] = "quote" -> from[Quoted(s, j + 1, Anything).next, depth]
               [] s[j] = open    -> from[j + 1, depth + 1]
               [] s[j] = close   -> from[j + 1, depth - 1]
               [] OTHER          -> from[j + 1, depth]
  IN  from[i, 1]

ReadElement(s, from) ==
  LET read[start \in 1 .. Len(s) + 1] ==
        LET i    == Past(s, start, Ignored)
            end  == Until(s, i + 1, Terminators)
            quot == Quoted(s, i + 1, QuoteOrBackslash)
            close == CHOOSE c \in Closers : <<s[i], c>> \in {<<"{", "}">>, <<"[", "]">>, <<"(", ")">>}
        IN  IF i > Len(s) \/ AtIs(s, i, "}") \/ AtIs(s, i, "]") \/ AtIs(s, i, ")")
              THEN Element("none", <<>>, i)
            ELSE CASE s[i] = ":"       -> Element("keyword", SubSeq(s, i + 1, end - 1), end)
                   [] s[i] = "quote"   -> Element("string", quot.text, quot.next)
                   [] s[i] = "#"       -> read[end]
                   [] s[i] \in Openers -> Element("nested", <<>>, Balanced(s, i + 1, s[i], close))
                   [] OTHER            -> Element("bare", SubSeq(s, i, Until(s, i, Terminators) - 1),
                                                  Until(s, i, Terminators))
  IN  read[from]

(* EdnPairs: up to the closing brace, or to what is not a pair. *)
Elements(s, start) ==
  LET from[i \in 1 .. Len(s) + 1] ==
        LET e == ReadElement(s, i)
        IN  IF e.kind = "none" THEN <<>> ELSE <<e>> \o from[e.next]
  IN  IF AtIs(s, start, "{") THEN from[start + 1] ELSE <<>>
InPairs(elements) == [n \in 1 .. Len(elements) \div 2 |-> Pair(elements[2 * n - 1], elements[2 * n])]
EdnPairs(s) == InPairs(Elements(s, Past(s, 1, Ignored)))

(* key_matches: the name of a key, whatever its namespace. *)
Local(text) == From(text, Max({i \in DOMAIN text : text[i] = "/"} \cup {0}) + 1)
KeyMatches(key, name) == key.kind \in {"keyword", "string"} /\ Local(key.text) = name

-----------------------------------------------------------------------------
(* What serde_json makes of a line: its members, or a line that is not an  *)
(* object.  The values here are digits, and strings with the escapes of a  *)
(* quote and a backslash; any other spoils the line.  (No key, moment or   *)
(* level is written with one.)                                             *)
JsonValue(s, i) ==
  LET quot == Quoted(s, i + 1, QuoteOrBackslash)
      bare == Until(s, i, {",", "}"})
  IN  IF AtIs(s, i, "quote")
        THEN [raw |-> SubSeq(s, i, quot.next - 1), next |-> quot.next, ok |-> quot.closed /\ quot = Quoted(s, i + 1, Anything)]
      ELSE [raw |-> SubSeq(s, i, bare - 1), next |-> bare, ok |-> bare = i + 1 /\ s[i] \in Digits]
JsonMembers(s) ==
  LET from[i \in 1 .. Len(s) + 1] ==
        LET key   == Quoted(s, i + 1, {})
            value == JsonValue(s, key.next + 1)
            rest  == from[value.next + 1]
        IN  IF ~AtIs(s, i, "quote") \/ ~key.closed \/ ~AtIs(s, key.next, ":") \/ ~value.ok
              THEN NoObject
            ELSE IF AtIs(s, value.next, "}") /\ value.next = Len(s)
              THEN <<Pair(key.text, value.raw)>>
            ELSE IF ~AtIs(s, value.next, ",") \/ rest = NoObject THEN NoObject
            ELSE <<Pair(key.text, value.raw)>> \o rest
  IN  IF s = <<"{", "}">> THEN <<>> ELSE IF AtIs(s, 1, "{") /\ Len(s) > 1 THEN from[2] ELSE NoObject

(* The raw value of a key that occurs at most once (project_field of       *)
(* schema/mod.rs), and the text of a JSON string: what is between the      *)
(* quotes, its escapes as they stand.                                      *)
RawOf(members, key) ==
  LET at == {i \in DOMAIN members : members[i].key = key}
  IN  IF members = NoObject \/ at = {} THEN None ELSE members[Max(at)].value
IsString(raw) == raw # None /\ raw[1] = "quote"
Unquote(raw) == IF IsString(raw) THEN SubSeq(raw, 2, Len(raw) - 1) ELSE raw

-----------------------------------------------------------------------------
(* ts_and_level of logfmt and EDN: of several moments the last that can be *)
(* read, of several levels the last.                                       *)
PairsRead(moments, levels, any) ==
  LET read == SelectSeq(moments, LAMBDA m : m # Untimed)
      sev  == IF levels = <<>> THEN Unknown ELSE Severity(Last(levels))
  IN  IF ~any THEN NotRead
      ELSE IF read # <<>> THEN Outcome(Last(read), sev, "no")
      ELSE Outcome(Untimed, sev, IF moments = <<>> THEN "no" ELSE "ts")

(* The values of a key, in the order of the line. *)
ValuesOf(pairs, Matches(_)) ==
  LET found == SelectSeq(pairs, LAMBDA p : Matches(p.key))
  IN  [i \in DOMAIN found |-> found[i].value]
MomentsOf(texts) == [i \in DOMAIN texts |-> RfcMoment(texts[i])]

LogfmtValues(pairs, key) == ValuesOf(pairs, LAMBDA k : k = key)
LogfmtRead(pairs) ==
  PairsRead(MomentsOf(LogfmtValues(pairs, <<"ts">>)), LogfmtValues(pairs, <<"level">>), pairs # <<>>)

(* project_field of logfmt and EDN: of several values the first. *)
LogfmtField(pairs, key) ==
  LET values == LogfmtValues(pairs, key) IN IF values = <<>> THEN None ELSE Head(values)

EdnValues(pairs, key) == ValuesOf(pairs, LAMBDA k : KeyMatches(k, key))
TextsOf(values) == [i \in DOMAIN values |-> values[i].text]
EdnMoments(pairs) ==
  MomentsOf(TextsOf(SelectSeq(EdnValues(pairs, <<"ts">>), LAMBDA v : v.kind # "nested")))
EdnRead(pairs) ==
  PairsRead(EdnMoments(pairs), TextsOf(EdnValues(pairs, <<"level">>)), pairs # <<>>)
EdnField(pairs, key) ==
  LET values == EdnValues(pairs, key)
  IN  IF values = <<>> \/ Head(values).kind = "nested" THEN None ELSE Head(values).text

-----------------------------------------------------------------------------
(* ts_and_level of NDJSON: a ts or level that is not a string is an error  *)
(* of the line.                                                            *)
NdjsonRead(members) ==
  LET ts    == RawOf(members, <<"ts">>)
      level == RawOf(members, <<"level">>)
      sev   == IF level = None THEN Unknown ELSE Severity(Unquote(level))
  IN  IF members = NoObject \/ \E raw \in {ts, level} : raw # None /\ ~IsString(raw) THEN NotRead
      ELSE IF ts = None THEN Outcome(Untimed, sev, "no")
      ELSE Timed(RfcMoment(Unquote(ts)), sev)
NdjsonField(members, key) ==
  LET raw == RawOf(members, key) IN IF raw = None THEN None ELSE Unquote(raw)

(* parse_journalctl.rs: the moment is a number of microseconds, here a     *)
(* digit, and the level a priority.                                        *)
MapPriority(text) ==
  IF Len(text) # 1 \/ text[1] \notin Digits THEN Unknown
  ELSE CASE text[1] \in {"0", "1", "2"} -> Fatal [] text[1] = "3" -> Error
         [] text[1] = "4" -> Warn [] text[1] \in {"5", "6"} -> Info
         [] text[1] = "7" -> Debug [] OTHER -> Unknown
JournalRead(members) ==
  LET ts  == NdjsonField(members, <<"__REALTIME_TIMESTAMP">>)
      sev == MapPriority(NdjsonField(members, <<"PRIORITY">>))
  IN  IF ts = None THEN Outcome(Untimed, sev, "no")
      ELSE IF ts # <<>> /\ ToSet(ts) \subseteq Digits THEN Outcome(Number(ts), sev, "no")
      ELSE Outcome(Untimed, sev, "ts")
JournalField(members, key) ==
  IF key = <<"level">>
    THEN IF NdjsonField(members, <<"PRIORITY">>) = None THEN None
         ELSE Name(MapPriority(NdjsonField(members, <<"PRIORITY">>)))
  ELSE NdjsonField(members, IF key = <<"msg">> THEN <<"MESSAGE">> ELSE key)
=============================================================================
