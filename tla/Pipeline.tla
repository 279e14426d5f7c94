------------------------------ MODULE Pipeline ------------------------------
(***************************************************************************)
(* How lines become records of the index.  One file is mapped into memory  *)
(* and read line by line (io/file.rs); a stream's continuation lines are   *)
(* folded into the record before them (io/stream.rs, io/multiline.rs);     *)
(* several files are merged by time through a heap (io/merge.rs).  The     *)
(* indexer appends the records to parallel arrays (engine/indexer.rs), a   *)
(* second pass finds the times that need a header or a pattern             *)
(* (engine/mod.rs), and from then on live lines are appended one by one.   *)
(*                                                                         *)
(* Bytes are the lines they hold: [source, from, to].  Blank lines are     *)
(* skipped by every reader and are no lines here.  Severities are found,   *)
(* kept and redone with the times and are left out.                        *)
(*                                                                         *)
(* taken, what was indexed, is a history variable.                         *)
(***************************************************************************)
EXTENDS Integers, FiniteSetsExt, SequencesExt

CONSTANTS
  Loads,      (* how to load: "file", "stream", "merged"                   *)
  Formats,    (* "single": a record is a line; "folding": a line may       *)
              (* continue a record; "csv", "regex": times need more than   *)
              (* the line                                                  *)
  Lines,      (* [ts, bad, cont]: the time that is written in a line,      *)
              (* whether what is written there is no time, and whether it  *)
              (* looks like the continuation of another                    *)
  Files,      (* how many files are merged                                 *)
  MaxLines,   (* bound on the lines of a source                            *)
  MaxLive     (* bound on the lines that come live                         *)

(* TS_UNTIMED (i64::MIN) comes before every time. *)
Untimed == -1

ASSUME PipelineAssumption ==
  /\ Loads \subseteq {"file", "stream", "merged"}
  /\ Formats \subseteq {"single", "folding", "csv", "regex"}
  /\ Lines \subseteq [ts : Nat \cup {Untimed}, bad : BOOLEAN, cont : BOOLEAN]
  /\ \A l \in Lines : l.bad => l.ts = Untimed
  /\ Files \in Nat \ {0} /\ MaxLines \in Nat /\ MaxLive \in Nat

VARIABLES
  load,     (* how this run loads                                          *)
  format,   (* the format of its sources                                   *)
  text,     (* the lines of each source                                    *)
  cursor,   (* how many lines of each source were read                     *)
  pending,  (* the stream's record that may still be continued, if any     *)
  heap,     (* the merge's slots                                           *)
  locs,     (* LineIndex                                                   *)
  ts,       (* TimeIndex                                                   *)
  owned,    (* Engine::owned_lines                                         *)
  base,     (* Engine::stream_base, or None                                *)
  stats,    (* parse_stats: untimed lines, and those of a bad time         *)
  phase,    (* "unprimed" (a merge only), "load", "loaded", "ready"        *)
  taken     (* the records, in the order they were indexed                 *)

source == <<load, format, text>>
index == <<locs, ts, owned, base, taken>>
vars == <<source, cursor, pending, heap, index, stats, phase>>

None == -1

Sources == DOMAIN text
AtEnd(s) == cursor[s] = Len(text[s])

(* The next line of a source as a record. *)
Next1(s) == [source |-> s, from |-> cursor[s] + 1, to |-> cursor[s] + 1]
First(rec) == text[rec.source][rec.from]

(* LogFormat::is_continuation *)
Continues(s) == format = "folding" /\ text[s][cursor[s] + 1].cont

(* LogFormat::parse_ts_level: without header or pattern there is no time. *)
Parsed(line) == IF format \in {"csv", "regex"} THEN Untimed ELSE line.ts

Init ==
  /\ load \in Loads /\ format \in Formats
  /\ text \in [1 .. (IF load = "merged" THEN Files ELSE 1) -> BoundedSeq(Lines, MaxLines)]
  /\ cursor = [s \in DOMAIN text |-> 0]
  /\ pending = {} /\ heap = {}
  /\ locs = <<>> /\ ts = <<>> /\ owned = <<>> /\ base = None
  /\ stats = [untimed |-> 0, bad |-> 0]
  /\ phase = IF load = "merged" THEN "unprimed" ELSE "load"
  /\ taken = <<>>

-----------------------------------------------------------------------------
(* indexer::drain: a line in a file, found there again when it is needed, *)
IndexRef(rec) ==
  /\ locs' = Append(locs, [source |-> rec.source, offset |-> rec.from,
                           len |-> rec.to - rec.from + 1])
  /\ ts' = Append(ts, Parsed(First(rec)))
  /\ taken' = Append(taken, rec)
  /\ UNCHANGED <<owned, base>>

(* or bytes of its own that begin with this line, kept after those before  *)
(* (Engine::push_owned).                                                   *)
IndexOwned(rec, line) ==
  /\ locs' = Append(locs, [source |-> rec.source, offset |-> 0,
                           len |-> rec.to - rec.from + 1])
  /\ owned' = Append(owned, rec)
  /\ base' = IF base = None THEN Len(locs) ELSE base
  /\ ts' = Append(ts, Parsed(line))
  /\ taken' = Append(taken, rec)

Advance(s) == cursor' = [cursor EXCEPT ![s] = @ + 1]

-----------------------------------------------------------------------------
(* One file: FileProducer. *)
FileNext ==
  /\ load = "file" /\ phase = "load" /\ ~AtEnd(1)
  /\ Advance(1)
  /\ IndexRef(Next1(1))
  /\ UNCHANGED <<source, pending, heap, stats, phase>>

(* What the producer counted is added to the index's statistics. *)
FileEnds ==
  /\ load = "file" /\ phase = "load" /\ AtEnd(1)
  /\ stats' = [untimed |-> Cardinality({i \in DOMAIN text[1] : Parsed(text[1][i]) = Untimed}),
               bad |-> IF format \in {"csv", "regex"} THEN 0
                       ELSE Cardinality({i \in DOMAIN text[1] : text[1][i].bad})]
  /\ phase' = "loaded"
  /\ UNCHANGED <<source, cursor, pending, heap, index>>

-----------------------------------------------------------------------------
(* A stream: StreamProducer within MultiLineProducer.  A record is out     *)
(* when the line after it is read.                                         *)
StreamNext ==
  /\ load = "stream" /\ phase = "load" /\ ~AtEnd(1)
  /\ Advance(1)
  /\ \/ /\ pending = {}
        /\ pending' = {Next1(1)}
        /\ UNCHANGED index
     \/ \E rec \in pending :
          /\ Continues(1)
          /\ pending' = {[rec EXCEPT !.to = cursor[1] + 1]}
          /\ UNCHANGED index
     \/ \E rec \in pending :
          /\ ~Continues(1)
          /\ pending' = {Next1(1)}
          /\ IndexOwned(rec, First(rec))
  /\ UNCHANGED <<source, heap, stats, phase>>

(* Faulty: the record held back is forgotten at the end. *)
StreamEndsEarly ==
  /\ load = "stream" /\ phase = "load" /\ AtEnd(1)
  /\ pending' = {}
  /\ phase' = "loaded"
  /\ UNCHANGED <<source, cursor, heap, index, stats>>

(* The stream's producer is dropped with what it counted. *)
StreamEnds ==
  /\ load = "stream" /\ phase = "load" /\ AtEnd(1)
  /\ \/ pending = {} /\ UNCHANGED index
     \/ \E rec \in pending : IndexOwned(rec, First(rec))
  /\ pending' = {}
  /\ phase' = "loaded"
  /\ UNCHANGED <<source, cursor, heap, stats>>

-----------------------------------------------------------------------------
(* Several files: MergeProducer. *)
Prime ==
  /\ phase = "unprimed"
  /\ heap' = {Next1(s) : s \in {s \in Sources : ~AtEnd(s)}}
  /\ cursor' = [s \in Sources |-> IF AtEnd(s) THEN 0 ELSE 1]
  /\ phase' = "load"
  /\ UNCHANGED <<source, pending, index, stats>>

(* Faulty: a slot is ordered by its time only when it has one. *)
BeforeTimed(a, b) ==
  LET t == Parsed(First(a))
      u == Parsed(First(b))
  IN  \/ t # Untimed /\ (t < u \/ u = Untimed)
      \/ t = u /\ a.source <= b.source

(* Slot::cmp: by time, and at the same time by file. *)
Before(a, b) ==
  LET t == Parsed(First(a))
      u == Parsed(First(b))
  IN  t < u \/ (t = u /\ a.source <= b.source)

(* The least slot goes to the index, and its file's next line into its     *)
(* place.                                                                  *)
MergeNext ==
  /\ load = "merged" /\ phase = "load"
  /\ \E least \in heap :
       /\ \A slot \in heap : Before(least, slot)
       /\ IndexRef(least)
       /\ IF AtEnd(least.source)
          THEN heap' = heap \ {least} /\ UNCHANGED cursor
          ELSE /\ heap' = (heap \ {least}) \cup {Next1(least.source)}
               /\ Advance(least.source)
  /\ UNCHANGED <<source, pending, stats, phase>>

(* What the producers counted is lost with them. *)
MergeEnds ==
  /\ load = "merged" /\ phase = "load" /\ heap = {}
  /\ phase' = "loaded"
  /\ UNCHANGED <<source, cursor, pending, heap, index, stats>>

-----------------------------------------------------------------------------
(* Engine::line_bytes: the record behind a number, counted from 0. *)
LineBytesPast(i) ==
  LET loc == locs[i + 1]
  IN  IF base # None /\ i > base /\ i - base < Len(owned)
      THEN owned[i - base + 1]
      ELSE [source |-> loc.source, from |-> loc.offset, to |-> loc.offset + loc.len - 1]

LineBytes(i) ==
  LET loc == locs[i + 1]
  IN  IF base # None /\ i >= base /\ i - base < Len(owned)
      THEN owned[i - base + 1]
      ELSE [source |-> loc.source, from |-> loc.offset, to |-> loc.offset + loc.len - 1]

(* The first row of each CSV file names its columns. *)
IsHeader(i) ==
  format = "csv" /\ \A j \in 1 .. i - 1 : locs[j].source # locs[i].source

(* A row was counted as untimed when it was first read: that is taken      *)
(* back, and it is counted again if it still is.                           *)
Recount(n, i) ==
  LET line == First(LineBytes(i - 1))
  IN  [untimed |-> (IF n.untimed > 0 THEN n.untimed - 1 ELSE 0)
                   + (IF line.ts = Untimed THEN 1 ELSE 0),
       bad |-> n.bad + (IF line.bad THEN 1 ELSE 0)]

(* The rows that can be parsed only now. *)
Rows == {i \in DOMAIN ts : format \in {"csv", "regex"} /\ ~IsHeader(i)}

(* The statistics after the first k records were gone through once more. *)
Recounted[k \in 0 .. Len(locs)] ==
  IF k = 0 THEN stats
  ELSE IF k \in Rows THEN Recount(Recounted[k - 1], k) ELSE Recounted[k - 1]

(* Engine::capture_csv_headers and recompute_regex_ts_level. *)
SecondPass ==
  /\ phase = "loaded"
  /\ ts' = [i \in DOMAIN ts |-> IF i \in Rows THEN First(LineBytes(i - 1)).ts ELSE ts[i]]
  /\ stats' = Recounted[Len(locs)]
  /\ phase' = "ready"
  /\ UNCHANGED <<source, cursor, pending, heap, locs, owned, base, taken>>

(* Engine::ingest_one: a line of the file or the journal that is followed. *)
Live ==
  /\ phase = "ready" /\ (load = "file" \/ (load = "stream" /\ format = "single"))
  /\ Len(text[1]) < MaxLines + MaxLive
  /\ \E line \in Lines :
       /\ text' = [text EXCEPT ![1] = Append(@, line)]
       /\ IndexOwned(Next1(1), line)
  /\ Advance(1)
  /\ UNCHANGED <<load, format, pending, heap, stats, phase>>

Rest == phase = "ready" /\ UNCHANGED vars

Next ==
  \/ FileNext \/ FileEnds
  \/ StreamNext \/ StreamEnds
  \/ Prime \/ MergeNext \/ MergeEnds
  \/ SecondPass \/ Live \/ Rest

Spec == Init /\ [][Next]_vars

-----------------------------------------------------------------------------
(* How many records there were when the live ones began to come. *)
Loaded == IF load = "file" /\ base # None THEN base ELSE Len(taken)

(* A number leads to the bytes of the record it was given to, and to its   *)
(* time, in the file, in memory, and where the one follows the other.      *)
RecordsTrue ==
  \A i \in DOMAIN taken :
    /\ LineBytes(i - 1) = taken[i]
    /\ ts[i] = (IF phase = "ready" /\ i <= Loaded /\ ~IsHeader(i)
                THEN First(taken[i]).ts ELSE Parsed(First(taken[i])))

(* Records that are read but not indexed yet. *)
Held == pending \cup heap

(* The statistics of a file have its untimed records exactly, the second   *)
(* pass and live records notwithstanding, and no bad time that is not      *)
(* untimed, which is what the summary subtracts from each other.           *)
CountedOnce ==
  (load = "file" /\ phase = "ready") =>
    /\ stats.untimed = Cardinality({i \in 1 .. Loaded : ts[i] = Untimed})
    /\ stats.bad <= stats.untimed

(* What the comment on ParseStats says: the statistics of the producers    *)
(* are folded into those of the index, however it was loaded.  So every    *)
(* bad time is one of the untimed, and the summary of --dry-run can        *)
(* subtract them.                                                          *)
SummarySound == phase = "ready" => stats.bad <= stats.untimed

(* Engine::has_timestamps. *)
HasTimestamps == Len(ts) > 0 /\ (Len(ts) - stats.untimed) * 2 > Len(ts)

(* What its comment says: true when more than half the records carry a     *)
(* parsed timestamp.                                                       *)
TimedByMajority ==
  phase = "ready" =>
    (HasTimestamps <=> 2 * Cardinality({i \in DOMAIN ts : ts[i] # Untimed}) > Len(ts))

(* Every line that was read is in one record, indexed or held back, the    *)
(* records of a source keep its order, what is held back of a source is    *)
(* the last that was read of it, and each line is counted once.            *)
EveryLineOnce ==
  /\ \A s \in Sources : \A k \in 1 .. cursor[s] :
       \E rec \in Range(taken) \cup Held : rec.source = s /\ k \in rec.from .. rec.to
  /\ \A i, j \in DOMAIN taken :
       (i < j /\ taken[i].source = taken[j].source) => taken[i].to < taken[j].from
  /\ \A rec \in Range(taken) \cup Held :
       rec.from <= rec.to /\ rec.to <= cursor[rec.source]
  /\ \A rec \in Held :
       /\ rec.to = cursor[rec.source]
       /\ \A i \in DOMAIN taken : taken[i].source = rec.source => taken[i].to < rec.from
       /\ \A other \in Held : other.source = rec.source => other = rec
  /\ CountedOnce

(* The lines of a source that have a time have them in order. *)
InOrder(s) ==
  \A i, j \in DOMAIN text[s] :
    (i < j /\ text[s][i].ts # Untimed /\ text[s][j].ts # Untimed) =>
      text[s][i].ts <= text[s][j].ts

(* A merge of files that are in order is in order, equal times by file;    *)
(* and a line without a time, the rest of a stack trace, stays behind the  *)
(* line it came after, whatever the other files hold.                      *)
MergedInOrder ==
  (load = "merged" /\ format \notin {"csv", "regex"}) =>
    /\ \A i, j \in DOMAIN taken :
         (i < j /\ ts[i] # Untimed /\ ts[j] # Untimed /\ \A s \in Sources : InOrder(s)) =>
           \/ ts[i] < ts[j]
           \/ ts[i] = ts[j] /\ taken[i].source <= taken[j].source
    /\ \A i \in DOMAIN taken :
         (ts[i] = Untimed /\ taken[i].from > 1) =>
           i > 1 /\ taken[i - 1] = [source |-> taken[i].source,
                                    from |-> taken[i].from - 1, to |-> taken[i].from - 1]

=============================================================================
