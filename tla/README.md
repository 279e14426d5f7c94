# Verification of mgi-pulse

TLA+ models of mgi-pulse, the TLC runs that check them on small instances, and
theorems about them that TLAPS checks for every value of their constants.

mgi-pulse is a log viewer for the terminal. It loads log files, standard input
or the systemd journal into an index held in memory, shows them as tabs with
filters and a timeline, and can follow a growing log. Apart from the viewer it
has a *watch mode*, which prints the lines that match rules and collapses
repeats, a Telegram bot fed by watch mode, an MCP server, and commands that ask
a language model. There is no async runtime (docs/adr/0001): concurrency is a
few threads joined by bounded crossbeam channels, atomics and mutexes. That is
where most of what is hard to test lives, and what the models are about.

## 1. Inventory

The parts, what each keeps, what changes it, and what makes it correct. The
last column says where it is modelled.

| Part | State and operations | What is hard, and what must hold | Model |
| --- | --- | --- | --- |
| Repeat collapsing, `pulse-tui/src/collapse.rs` | a table of windows by (rule, source, text), summaries of closed windows; `offer`, `flush`, `flush_all` | windows close in three places, the table is bounded, the clock may be replayed out of order; no repeat lost or told twice | `CollapseTable`, `Collapser` |
| Watch mode, `watch.rs`, `sources.rs` | a reader thread per source, the bounded channel, the count of live sources, the collapse table, counters per rule; events, ends, timeouts, a closed output | threads end while others block; the loop ends on a count of messages; every match is printed or told of, live or replayed | `Watch` |
| Follow mode reader, `io/tail.rs`, `io/stream.rs` | descriptor, inode, read position, line scratch; read, poll, reopen, stop | rotation between any two system calls; nothing read twice, lines kept whole, the new file found | `Tail` |
| Two-phase follow, `main.rs`, `journal.rs`, `app/mod.rs` | backfill cursor, worker, channel, receiver, index | entries logged between the two phases; bursts beyond a tick's limit; a sender that is gone | `Follow` |
| Views and tabs, `app/mod.rs`, `panes/table.rs` | per tab: filters, filtered rows, cursor, scroll, bookmarks, cached histogram; one scrub and one active tab for all | keys in batches between draws over an index that grows; filters, jumps and live records disturb each other's state | `Views` |
| Timeline, `engine/histogram.rs` | none of its own; built from rows | integer arithmetic of bins and zoom windows | `Timeline` |
| Telegram alerts, `telegram.rs` | queue, lost counter, batch, a token bucket per chat, mutes; notify, batch, wait, send, retry | a thread that sleeps while the queue fills; partial delivery; a wall clock set back; the end of the program | `Alerts` |
| Telegram commands, `telegram.rs` | update offset, backoff, allowlist, a bucket per sender; poll, handle, reply | restarts between handling and acknowledging; a failed first poll; answers lost | `Bot` |
| Multi-line records, merging, `io/multiline.rs`, `io/merge.rs`, `io/file.rs` | the record held back, the heap of sources' heads | order across sources when one is out of order or a record has no time | `Pipeline` |
| Engine and indexes, `engine/mod.rs`, `indexer.rs`, `indexes.rs`, `query.rs` | records, owned lines, time and severity indexes, parse statistics; `drain`, the passes for headers and patterns, `ingest_one` | two stores under one numbering, live and loaded; which loads count untimed lines | `Pipeline`, in part; `Views` uses the index |
| Bookmark sidecar, `bookmarks_store.rs`, `app/mod.rs` | a JSON file shared by programs; load, restore, set, save | load, change, save races; a program killed while it saves; rotation and growth between save and restore | `Bookmarks` |
| Ingest and command line, `ingest.rs`, `main.rs` | none that lasts | choice of reader, what becomes of its statistics | `Pipeline`, in part |
| MCP server, `mcp.rs` | none between calls; a thread per connection, a feed per `watch_once` | one answer for each request on two transports; searches and watches over sources that grow, end and are deleted; deadlines | `Server` |
| Inspection, `inspect.rs` | none between calls; search, window, tail | the newest of several sources with a limit; reading backwards | `Inspect`, in part |
| Explain and ask, `explain.rs`, `ask.rs`, `llm.rs` | one thread's channel of text | HTTP, prompts, redaction | not modelled |
| Parsers and detection, `engine/format.rs`, `parse*.rs` | none (pure) | twelve grammars, each read by an index path and by a query path that must agree; damaged lines; a guess that must lead to the right parser | `Scan`, `Pairs`, `Headers`, `PlainText`, `Formats`, over the sources of `Lines` |
| Query language, `dsl.rs`, `predicate.rs` | none (pure) | keywords beside values and parentheses, precedence | `Query` |
| Statistics, schema, compressed input, JSON arrays | none that lasts | sequential | not modelled |
| Presentation, settings, benchmarks | none that lasts | layout | not modelled |

How they interact: sources → reader threads → channel → watch loop → collapse
table → output and alert queue → alert thread → Telegram; the command thread
shares the mutes with the alert thread and the match counters with the watch
loop. In the viewer: sources → backfill → index, then worker → channel → index
→ every tab, between the draws and the batches of keys of one loop.

The behaviours that are hard to test, each with its line and the properties
aimed at it, are the `hazards` of `PROJECT.json`.

## 2. Modules

| Module | Stands for | Extends |
| --- | --- | --- |
| `CollapseTable` | `Collapser`'s data structure: saturating time, windows, `hold`, `flush`, `flush_all` as operators | |
| `Collapser` | the collapser alone, with any sequence of calls, and a history of what it was offered | `CollapseTable` |
| `RepeatLedger` | abstract specification: events shown, held and told per key | |
| `CollapserProofs` | the theorems about `Collapser`, and that it implements the ledger | `Collapser`, `TLAPS` |
| `Watch` | readers, channel, matching, collapsing, printing, shutdown | `CollapseTable` |
| `WatchProofs` | the theorems about `Watch` | `Watch`, `TLAPS` |
| `Tail` | tailing reader, record cutter, writer, rotator | |
| `Follow` | backfill, worker, channel, bounded drain | |
| `LogFeed` | abstract specification: what --follow promises of a log, entry by entry | |
| `TailProofs` | the theorems about `Tail` and `Follow`, and that the latter implements the feed | `Tail`, `Follow`, `TLAPS` |
| `Pipeline` | from lines to indexed records: one file, a stream with folding, a merge; the second pass; live records | |
| `PipelineProofs` | the theorems about `Pipeline` | `Pipeline`, `TLAPS` |
| `Timeline` | histogram and scrub arithmetic | |
| `Views` | tabs, keys, draws and the growing index | `Timeline` |
| `ViewsProofs` | the theorems about `Views` and the timeline's arithmetic | `Views`, `TLAPS` |
| `Alerts` | alert queue, batches, mutes, token buckets, sending | |
| `Bot` | getUpdates polling and its offset, allowlist, handling, replies, restarts | |
| `TelegramProofs` | the theorems about `Alerts` and `Bot` | `Alerts`, `Bot`, `TLAPS` |
| `Bookmarks` | the sidecar file, programs that restore, save and are killed, logs that change | |
| `BookmarksProofs` | the theorems about `Bookmarks` | `Bookmarks`, `TLAPS` |
| `Scan` | atoms of a line, and how parsers walk along them | |
| `Pairs`, `Headers`, `PlainText` | the twelve parsers: of keys and values, of fixed fields, of plain text | `Scan` |
| `Formats` | dispatch, fields, continuations, the guess at a format | the three above |
| `Query` | the query language and its predicates | `Formats` |
| `Lines` | a program that writes a source of any format, with stack traces and one damaged line | `Formats` |
| `Inspect` | search, its window, the merge of several sources, tail; a user who types a query | `Lines`, `Query` |
| `Server` | both transports of the MCP server, search over changing sources, `watch_once` and its feed | |
| `ServerProofs` | the theorems about `Server` | `Server`, `TLAPS` |
| `MC*` | small instances for TLC | |

`Watch` composes the collapse table with threads and channels: the same
operators (`CollapseTable`) serve `Collapser`, where they are proved correct
for every size, and `Watch`, where they run under interleavings. `Inspect`
composes a writer (`Lines`), the parsers (`Formats`) and the query language
(`Query`): what is searched is what was parsed of what was written.

Definitions named "Faulty" in their comments (`TakeAgain`, `CutEmpty`, ...) are
no part of a specification. Each is a plausible mistake in the definition next
to it; put in its place, it must break a property, which shows that the
property depends on the code being as it is.

### How state and actions correspond to the code

**Collapser.** `table.entries` is `Collapser::entries` (opening time, count,
last occurrence), `table.closed` is `Collapser::closed`, `reported` gathers what
flushes returned. Payloads are the numbers of events in `history`, so that
"sample" and "last" can be told apart. `Track` is `offer` (with
`close_stale` and the sweep of a full table inside, as in the code), `Flush`
and `FlushAll` the other two entry points. Clock readings are arbitrary and
subtraction saturates, as `i64::saturating_sub` does.

**Watch.** `pump[s]` is where the thread of source `s` is: reading, about to
send (`hand`), done. `chan` is the bounded channel. `live` is the local variable
of `run_plan` and falls only when an `Ended` message is received. A step of the
main thread takes a message or a timeout, counts matches (`matches`), holds
repeats back, and leaves its notices in `batch`, which are printed one by one; a
print may find the output closed. `follow` chooses live watch or replay: the
collapse clock is the wall clock in one and the record's timestamp in the other.
The wall clock stops at `Horizon` while something is in flight (a line nobody
will read, behind the end of a pipe or of a reader that broke off, is not), so that what
is modelled is a thread slow by a bounded time, and moves on freely when the
system is quiet: windows must then expire with no event to close them.
A reader ends at the end of a replayed file, of an archive (compressed files are
read once, whatever the mode) or of a pipe; and `BreakOff` ends it on an I/O error at
any moment, whatever is left to read, because `StreamProducer::next` takes an error for
the end. What such a source held is lost without a word, and no property says otherwise.
What was printed and told is tallied for each key (`shown`, `told`) beside the
counters of the code, so that `MatchesAccounted` is an equation for each key and
not a total in which one key's loss could hide behind another's gain.

**Tail.** The file system is inodes holding *generations*: one life of a log from
creation or truncation on. `offset` is where the kernel has the descriptor, `read_pos`
what the program believes it consumed, `buf` is `BufReader`'s buffer between them.
`Fill`, `Stat`, and the reopen steps are separate actions because the writer and the
rotator may act between the system calls. A log is rotated in one way during a run
(`mode`), as a logrotate configuration does. `RegrowBeforePoll = FALSE` assumes that a
log emptied by copytruncate does not grow past the reader's position within one poll of
500 ms: a reader that looks at sizes takes such a log for one that only grew, and reads
on from its middle. `Texts` are the records read so far, then the line being read, then
the buffer: the order in which pieces come is an order over them, and `Seen` is the set
of the pieces in them. docs/adr/0003 describes copytruncate without that condition;
`KeepsUp` and `ReadInOrder` are under it. When the log is gone as the reader opens it
again, the reader ends (`pc = "failed"`): `KeepsUp` says what holds until then, and run
`tail_gone` shows that it happens. Other I/O errors are left out. A rotation in the
middle of a line leaves its beginning in front of the first line of the new file, as the
comment on `check_rotation` says (tail.rs:106-116): `RecordsAreLines` permits such a
record.

**Follow.** `log` counts what was logged, `after_cursor` is the journal cursor (none for
a file) that `ingest` returns, `pos` the worker's place, `took` the count
of one call of `drain_live_channel`, `live_rx` whether the receiver is kept. A
journal whose backfill finds nothing has no cursor, and what is logged until its
follower runs never lands (journal.rs:187, against README.md:275-277): that is why
`LandsOnce` asks for a cursor before it asks for no gap. `LogFeed` has neither cursor,
thread, channel nor tick: its log is `log`, its place `pos`, what has landed is the index
with the channel behind it, and what is shown the index alone. `ImplementsFeed` says
that every step of `Follow` is one of such a feed, or none.

**Pipeline.** A record is the lines it is made of, `[source, from, to]`. `cursor`
is how far each source was read, `pending` the record `MultiLineProducer` holds
back, `heap` the slots of `MergeProducer`. `locs`, `ts`, `owned` and `base` are
the engine's arrays and `stream_base`; a location in a file is found again by
`LineBytes` as the code does it, so that a wrong base or length gives other
lines. `taken` only remembers what was indexed. Each way to load ends with an
action of its own, since they differ in what becomes of the parse statistics:
only `FileEnds` keeps them. `SecondPass` is what `main` does next: for CSV and
regex formats the times found without header or pattern, none, are replaced
and the count corrected. `Live` is `ingest_one`, for a file or a journal that is
followed.

**Views.** A tab is a record of filters, rows, cursor, top row, bookmarks and cached
histogram. `Draw` is the top of the loop (drain, size, histograms, clickable tabs), on a
screen of so many bars and table rows (`screen`), then keys and clicks follow in a batch
whose movement (`wheel`) is applied at its end (`BatchEnds`). A click on a tab that was
closed since the draw selects a tab that is not there; the next use of the active tab is
then out of bounds and the program stops (`OutOfBounds`, phase `"panicked"`). The model
allows that because the code does. A cached histogram remembers the bars and the zoom it
was built for (`bars`, `over`, which the code does not keep) and whether its tab was off
screen when the zoom ended (`left`), so that `CacheTrue` says of what is drawn whether
it is the zoomed histogram or the full one.

**Alerts.** `Notify` is `try_send` and, when it fails, `Count` is the `fetch_add` that
follows it: between the two the alert thread may empty the queue and take the counter.
`Receive`/`Collect` gather the batch, `Cut` takes the muted rules out of it and
`Compose` makes its messages, of which there may be one for the lost alone; `pending`
the loops over texts and chats, `Take`/`Wait` the token bucket,
`Sent`/`Throttled`/`Refused` the outcomes of `send_text` with its one retry. Absolute
time is not kept: `since[c]` is how long ago a bucket was looked at and `mutes[r]` how
long a mute has to run, and `SetBack` moves both when the wall clock is set back. (Set
forward it fills a bucket at once, which is left out, and a retry takes no token: what
`RateKept` bounds is the messages begun.) Tokens are counted in ticks, `Unit` to a
token. `kept` is what a batch is left with once muted rules are out, and `Messages` the
texts it is cut into for every chat: one or two. `Exit` may come at any time because
nothing in `run_plan` waits for the alert thread.

**Bot.** `updates` is the server's, of those that no offset has confirmed; `From`
and `Newest` are what getUpdates does with an offset and with -1. `pc` is where
the command thread is, `offset` and `backoff` are its locals, `limits` the buckets
of senders. A call that fails may or may not have reached the server, and both are
in `Boot` and `PollFailed`. `Handle` is one turn of the loop over an `answer`: the
offset moves, the update is handled, and `Deliver` or `AnswerThrottled` is its reply.
`Die` ends the program anywhere, and the next `Start` knows nothing.

**Bookmarks.** A directory has two names, the sidecar and the temporary file, each of a
file object; `OpenTmp`, `Fill` and `Rename` are the three system calls of `save`, and a
program keeps its object when another renames it. `Index` and `RestoreMarks` are apart
because the log may be replaced between the two. A record is `<<version, n>>`, the n-th
of a log since it was last replaced; a bookmark carries the log and the record it was
set on, which the code does not have, and `MarksTrue` compares them with the record its
row stands for now. `Follow` opens the tail of a program under --follow at the end that
the file has by then, perhaps in the middle of a line, and `Ingest` numbers what it
reads on from the rows there are, whatever was missed. `Mixed` and `MixedUp` mark what
no program can tell: a log that was replaced under a program that showed it, or written
anew and as long again, and a bookmark set on a row that has another number than its
line. The first and the last of these are what breaks `MarksStay`; `MarksTrue` says that
there are no others.

**Scan to Formats.** A line is a sequence of atoms: each byte that some parser tells
apart, a word, or a whole timestamp. Every scan of the code (to a delimiter, past
blanks, through a quotation with its escapes, to the end of a block) is a recursive
function over atoms, and a parse gives the outcome or the fields that the code gives.
`ParseTsLevel` and `ProjectField` are the two dispatchers, one used by the indexer and
one by queries; `Read` adds what the second pass does for CSV and a user's pattern.
`Detect` is the vote over the first lines. `Lines` writes what the grammars at the heads
of the parsers describe, with values that need every escape of the format, and may
damage one line: cut off anywhere, or with one atom missing.

**Query and Inspect.** `Compile` is the recursive descent over the text of a
query; a predicate is the set of the records it admits. In `Inspect` a query is typed
piece by piece, with no more blanks than the pieces need, and stops growing when
nothing could make it a query. `Meanings` is the grammar at the head of dsl.rs,
written down as what each span of pieces can mean. `Search`, `SearchAll` and
`TailLines` follow inspect.rs; `Step` and `MaxBuffer` are its 64 KiB and 16 MiB.

**Server.** `sent` is what clients asked, `read` what a thread has taken, `job` the call
it is busy with, `ended` whether a line that is not UTF-8 ended the server (`ReadFails`,
on stdin; over HTTP such bytes are replaced and then are no JSON), `chan` and `next` the
feed it started: its channel and where each reader is. `Immediate` is `handle_text` for
all that is answered at once, with the checks in their order, `Refusal` what HTTP
refuses before that. `Search` reads one source per step. `Open` fixes from where a file
is followed, `Pump` and `PumpEnds` are the reader threads, `Receive`, `Tick` and
`WatchDone` the loop of `watch_once`, and `Finish` the drop of the feed, which leaves
its readers to stop (`stopping`).

## 3. What the runs check

| Run | Properties | Bounds |
| --- | --- | --- |
| `collapser` | `SummariesTrue`, `HeldOnce`, `HeldInWindow`, `ImplementsLedger` | 3 keys for a table of 2, 4 offers, a clock from -3 to 3 with window 2 |
| `watch` | `MatchesAccounted`, `ExitComplete`, `LiveCounts`, `WatchSettles`, `HeldIsTold` | a file and a journal, 2 rules of which one shadows the other, 2 texts, 3 lines, channel of 1, table of 1, fair threads |
| `tail` | `ReadInOrder`, `RecordsAreLines`, `KeepsUp` | 4 pieces, 3 generations, buffer of 2, both ways of rotating |
| `tail_gone` | `FollowsOn`, which TLC finds violated | 2 pieces, 3 generations, logs renamed and created |
| `follow` | `Arrives`, `ImplementsFeed` | 5 entries, channel of 2, 2 per tick |
| `pipeline` | `RecordsTrue`, `EveryLineOnce`, `MergedInOrder` | up to 3 lines of 4 kinds per source (two times, a bad time, a continuation), 2 merged files, 2 live lines, all formats |
| `views` | `RowsTrue`, `CursorShown`, `CacheTrue`, `ZoomInside` | 4 records of which 2 come live, 2 tabs, 4 keys, a screen of 2 bars and 2 rows or one of 3 bars and 1 row |
| `alerts` | `EachHasOneFate`, `DroppedCounted`, `RateKept`, `Drains` | 3 notices, queue of 1, batch of 2, 2 chats, buckets of one message in 2 ticks, fair threads |
| `bot` | `HandledOnce`, `OwnCommands`, `Answered` | 3 updates of 3 kinds of sender, answers of 2, 2 runs of the program, a bucket of 1 |
| `bookmarks` | `SavesKept`, `MarksTrue` | 2 programs that follow or do not, 2 logs of 1 or 2 rows, a sidecar for one of them, 2 runs, 1 live row, 1 rotation or rewriting, a clock of 2 instants |
| `inspect` | `ReadBack`, `IndexAgrees`, `DetectedIsRead`, `QueryMeans`, `SearchNewest`, `TailIsTail` | 3 lines of each of 12 formats, the first record with 6 values and 2 levels, 1 damaged line among usual texts; queries of 5 pieces alone and of one test over every full file that is whole; limits 1 and 2; steps of 8 atoms |
| `server` | `AnsweredOnce`, `SearchIsBetween`, `WatchIsPrefix`, `Settles` | a file and an archive, 3 lines written, 1 source deleted; 2 requests of 24 kinds on stdin, or one of them and a search on two connections at once; limit 2, channel of 1 |

All runs but `tail_gone` are to find their properties true. `FollowsOn` says what a
comment of the repository says, and the counterexample is what the code does
(`findings` in `PROJECT.json`, and below).

Some further promises of the repository the code keeps only in part. Each of
the following is such a promise, defined next to the property that the code does keep;
TLC finds it violated when it takes the place of the properties of the configuration
named.

| Property | Configuration | What happens |
| --- | --- | --- |
| `CursorOnScreen` | `Views.cfg` | on a table with fewer rows than the 20 the keys count on, the cursor leaves the screen |
| `FullWithoutZoom` | `ViewsZoom.cfg` | zoom, switch tabs, Esc, switch back: the zoomed histogram is drawn as the full one |
| `SummarySound` | `Pipeline.cfg` | a stream has more bad times than untimed records, and the dry run's subtraction falls below zero |
| `TimedByMajority` | `Pipeline.cfg` | a log without a single time has "timestamps" |
| `StaleSkipped` | `Bot.cfg` | a failed first call, and stale commands are run |
| `MarksStay` | `BookmarksFollow.cfg` | a log only grows, and a bookmark set on a followed row comes back on another record |
| `MarksStay` | `Bookmarks.cfg` | a log is rotated under a program, whose bookmarks come back on the records of its successor |
| `RestoredInFull` | `BookmarksTabs.cfg` | a bookmark late in a tab with few rows is dropped |
| `TailIsAll` | `Inspect.cfg` | the tail of a file is one line short |
| `AlwaysSettles` | `Server.cfg` | a line that is not UTF-8 ends the server on stdin, with every request behind it |
| `ResponsesUnanswered` | `Server.cfg` | an error response of a client is answered |

The three configurations among them that belong to no run have the bounds their
counterexamples need: five keys, a log that only grows, two tabs. `WatchEnds.cfg`,
another such, is a larger `watch` without fairness, with an archive beside the two
sources; it passes.

In a word: `watch` shows that every match is printed, told of or held back once, that a
watch that ends with its output open has told all that its readers read, and that
threads end; `tail`, `follow` and `pipeline`, each for its part of the way from the disk
to the index, that no line is read twice or out of order, and which lines are missed;
`views`, that rows, cursor and cached histograms of every tab agree with each other and
with the index; `alerts` and `bot`, that a notice has one fate in each chat, and an
update is handled once in a run; `bookmarks`, that a crash loses no save and another
program puts no bookmark on another record; `inspect`, that in the formats and lines
that `Lines` writes, the index and a query see the same, and for which lines that is
what was written; and `server`, that what is read is answered once, and searches and
watches tell the truth about sources that change meanwhile. Each is as true as the
exceptions below leave it.

**Why the bounds are enough.** In each model the interesting coincidences need few
actors, and every bound leaves room for one more of them than a coincidence needs. A
third key meets a full table of two, and two of them can share a window with a repeat
each. A channel or queue of one is full whenever it is not empty, so a sender blocks or
drops in every place where a real one of 8192 or 1000 could. A buffer of two pieces can
end in the middle of a line and of a generation, and with three generations a rotation
can follow a rotation that was not yet noticed. A tick's limit of two equals the
channel's capacity, so that a tick may end with the channel empty, full, or with its
sender gone. Four keys in two tabs make every pair of filters, a change of tabs in
between and a way back. Two chats and messages in one or two pieces leave one chat at
another message and try than the other. Three lines are a record with a continuation and
a successor, or a header with two rows, and two files of three lines can interleave, tie
and run dry in every order. Two runs of the bot with three updates leave one handled and
unconfirmed between them, with a new one behind. Two programs can overlap in every step
of a save, and as two runs one after the other the second shows what the first left, its
followed rows included. A table of two rows scrolls at its third record, and one of a
single row at every move. A replayed file ends while the pipe goes on, and either may
break off. Three lines of a format are a record that needs an escape, a stack trace or a
damaged line, and a record that must still be read after it; five pieces are two
operators with their operands, or one in parentheses after NOT. A `watch_once` with
limit two over a channel of one can be at its limit, at its deadline, and blocked in
both readers. What no bound decides is proved, for the ten components that have theorems
(section 4).

**Fairness and why the code justifies it.** A thread that can run does
(`WF` of each reader, of the main loop, of the worker, of the alert thread, of the
command thread, of the server's thread for each connection), as
the operating system's scheduler ensures, and time passes (`WF` of the
ticks). Nothing is assumed of writers, rotators, users, the Telegram server's
choice of answers, or of when a program ends. A killed journalctl closes its
pipe (`EndOfPipe` of a journal after the stop), because the feed kills it; a
pipe that the feed did not start may stay open for ever, and `WatchSettles`
leaves those out. A server that never answers is not modelled: `HttpApi` has
timeouts. That a poll of `Bot` which is tried again for ever succeeds in the end
is strong fairness of `PollAnswered`: the loop never gives up (telegram.rs:998), so
a connection that works from time to time is all it takes. In `Server` the deadline
of a call passes (`WF` of `Tick`), a dropped feed's readers see it (`WF` of
`ReaderStops`: a followed file is polled every 500 ms), and nobody has to write,
so that `Settles` covers a watch over a silent file.

`CHECK_DEADLOCK` is on in every run: where a system comes to rest by design,
a stuttering action (`Gone`, `Idle`, `Stopped`, ...) says so.

The properties that take a place in no run are those of the second table of section 3,
which the code does not keep; the type invariant and the table's bound of `Collapser`
and `LandsOnce`, which `ImplementsFeed` implies, are proved instead.

### Known disagreements

Where the code and what the repository says of it differ. The models follow the code.
Where a property is named that the code does not keep (section 3), its counterexample
shows it; the others were met in reading.

- "When the file is replaced ... we reopen it and continue from the start of the new
  file" (tail.rs:5-7, and docs/adr/0003): `check_rotation` looks at the path and opens
  it in two steps (tail.rs:133 and :145). A file that is gone in between is an error,
  and `StreamProducer::next` ends the source on it without a word (stream.rs:100-104):
  nothing that is written later is read. Run `tail_gone`.
- `Engine::has_timestamps` is "true when more than half the records carry a parsed
  timestamp" (engine/mod.rs:401). `ingest_reader`, `ingest_merged` and the paths for
  compressed files and JSON arrays drop their producers with the statistics
  (ingest.rs:286), though the engine is to collect them of every source
  (parse.rs:48-49), and `ingest_one` does not count, so that a stream without a single
  time is shown as timed. `TimedByMajority`.
- For the same reason the dry run's `untimed - ts_parse_errors` (main.rs:366) falls below
  zero for a CSV or a user's pattern on standard input: the second pass takes back marks
  that were never kept, and adds bad times. `CountedOnce`, which is part of
  `EveryLineOnce`, is about files only. `SummarySound`.
- The table draws the rows "`[scroll_top, scroll_top + visible_rows)`" (table.rs:7) of
  its own height (:217), but the keys scroll by 20 rows (app/mod.rs:240 and :253),
  whatever the terminal: on an ordinary one of 24 lines the cursor leaves the screen.
  `CursorShown` promises the screen only where the table has room for so many.
  `CursorOnScreen`.
- A zoom "bypasses the cache" (app/mod.rs:472), but `View::histogram` stores it under the
  key of the full histogram (:483), and Esc drops the cache of its own tab only
  (:1558): zoom in one tab, switch, Esc, switch back, and the zoomed histogram is drawn
  as the full one. `CacheTrue` says that this is the only way to see it: it takes five
  keys, which only `ViewsZoom.cfg` has, and the theorem any number.
- Enter "applies the current scrub selection" (app/mod.rs:1575): the bin's range is
  computed with a rounded width (:984), records are put into bins without rounding, so
  that the last bin's range can leave out the newest record.
- "Alerts are the same lines watch prints" (README.md:375): nothing joins the alert thread
  when the watch ends (watch.rs:495), and what was raised in its last two seconds is
  printed and never sent.
- "Commands queued while pulse was down are stale: skip them" (telegram.rs:976): only if
  that first call succeeds; otherwise the offset is 0 and they are run (`StaleSkipped`).
  `OwnCommands` speaks of the runs whose first call succeeded.
- "As long as the file only grows (append-only) the saved line_ids still point at the
  same records on the next open" (bookmarks_store.rs:4-6). Under --follow the tail
  begins at the end that the file has when it is opened, after the indexing: lines
  between are missed, and the rest of a line that was cut short becomes a row, so that
  rows and lines number differently from there on (`MarksStay`).
- "If the inode changed ... the saved line_ids are stale and dropped" (:7-9): the inode
  saved is that of the path when the program quits (app/mod.rs:660), not of what was
  indexed (`MarksStay`).
- Of the bookmarks restored, those "past the current engine" are left out
  (app/mod.rs:596-597): record numbers are compared with the number of rows of the tab
  (:602), so that a severity tab loses valid ones, for good with the next save
  (`RestoredInFull`).
- A format "needs at least 2 votes AND a strict majority over rival formats"
  (format.rs:272), and single lines fall back to NDJSON (:274). The code compares each
  format with some rivals only (two lines of JSON win over any number of CSV), and a
  single line of plain text is plain.
- "The last `n` records" (inspect.rs:245) are physical lines, so a stack trace counts,
  and blank lines are counted and then left out. And they are one fewer than `n` when a
  step backwards ends right before a newline (:307-311), though the comment there (:299)
  has it that `n + 1` newlines are enough (`TailIsAll`). `TailIsTail` says exactly
  when.
- Hits are "in time order" (inspect.rs:181) only of a file whose records are: of each
  source the last `limit` in the file are kept, not the newest. `SearchNewest` is about
  files in order.
- `inspect::load`, which serves `search`, the bot and the agents, attaches no pattern to a
  source of a user's format (inspect.rs:142-166): such records have no times, levels or
  fields there.
- The escapes of a JSON string are not undone when a query reads a field
  (schema/mod.rs:121-133): in ndjson and journalctl a value that needs one is found by its
  escaped spelling only. In the other formats that have escapes they are undone.
- Text that is not JSON gets a parse error (mcp.rs:195, test at :1016-1018), but on
  stdin a line that is not UTF-8 ends the server with an error (:714), and what was
  asked behind it is never read. `AnsweredOnce` is about what is read. `AlwaysSettles`.
- "A response or junk from the client: nothing to answer" (mcp.rs:212): a response that
  holds an error and no result is answered Invalid Request (:213). `ResponsesUnanswered`.
- `watch_once` is to "follow sources from now on" (mcp.rs:698): a compressed source is
  read from its start. When all its readers have ended it answers `timed_out`
  before the timeout. `WatchIsPrefix` says for whom "from now on" holds.
- A request of the modern revision that lacks its version header is answered a header
  mismatch with status 200, as to a legacy client.
- In logfmt and EDN the index takes the last of several `level` or `ts` keys, a
  query the first. A Python line without a time has no severity in the index, though a
  query finds its level. `IndexAgrees` leaves out the latter, and no line of `Lines`
  has a key twice.
- Of Python, logback and plain text, a query sees the level as it is written there,
  in capitals: `level=error` does not find `ERROR`, which a severity filter does.
- A query on CSV or a user's pattern needs the columns or the pattern, which
  `tail` and the scan of query.rs do not have: there such fields are missing.
- In a query a keyword directly before `_` is read as the keyword, a quoted value keeps
  its backslashes, and an empty bare value and a quotation that is not closed are
  accepted. `QueryMeans` is about queries without them.

## 4. What is proved

Each theorem is about every value of the module's constants that its named
assumption allows, and the assumptions say no more than the code does: limits are
positive where the code divides or waits by them, sets of sources and rules are what
the command line can give, and the marks for "none" are not values. Each rests on an
invariant that is inductive, which the property alone seldom is.

`CollapserProofs`, from `CollapseAssumption` and `ReadingsAssumption` (window, clock
range and table size are natural numbers in range; the set of keys is any set):

- `TypeCorrect`, `SummariesAreTrue`, `NothingLostOrToldTwice`, `HeldBackInTime`,
  `NeverOutgrown`: the type invariant, the three safety invariants of run
  `collapser` and the bound of the table. The inductive invariant is
  `Good(table, reported, history)`, which adds three things. *Stamped*: a window's
  opening time is the clock reading of its opener, which `HeldInWindow` needs when
  the next event is held back. *Behind*: an event's home is an earlier event of
  its key that is its own home, so that a new window cannot be anyone's home yet.
  *Covered* and *Distinct* with every window, open, closed or reported, in one set
  (`WindowsIn`), so that a window that moves from one to another is still the one.
  `offer` does up to three things in a row: close a stale window, sweep a full
  table, insert. `Good` is therefore a predicate of a table, a set of summaries
  and a history instead of the state, and there is a lemma for each of these
  parts (`ShutGood`, `EmittedGood`, `OpenedGood`, `HoldGood`); `TrackGood`
  chains them. `Saturation` says that a saturated difference compares with the
  window as the exact one does, which is why overflow at the ends of `i64` is
  harmless here.
- `TableImplementsLedger`: the collapser implements `RepeatLedger`, step by step
  (`LedgerStep`). A window claims as many repeats as it counts, and the mapping counts
  claims, as a set of pairs of a window and a number, so that no sum over sets is
  needed: closing windows (`ShutClaims`) and opening one (`OpenedClaims`) leave the
  claims of every key as they are, a repeat adds one (`HoldClaims`), a flush moves them
  from what waits to what was told (`FlushClaims`). `Good` gives what these need: the
  claims are finite, and no two windows share one.

`WatchProofs`, from `WatchAssumption`, in live watch and in replay:

- `AlwaysMatchesAccounted`: what a key was counted for is what was shown and told of it,
  what its window holds back, what its notices about to be printed tell, and the match
  about to be printed (`Books`). Of a key there is one window at most, open or closed
  (`OneOfEach`), which makes the count in the notices a value and not a sum.
- `AlwaysLiveCounts`: the number the loop ends by is that of the readers at work and of
  the ends in the channel (`Counting`). It needs `LastWord`: nothing of a source is in the
  channel behind its end, and whoever is done has said so.
- `AlwaysExitComplete`: from both and `Closing`, which says in which phase of shutdown
  how much is left. A reader that breaks off ends like any other (`BreakOff`); what it
  left unread is no part of what must be told.

`TailProofs`, of `Tail` from `TailAssumption`, for logs rotated in either way:

- `AlwaysRecordsAreLines`: with `Cut`, that the line being read holds no end of a line.
- `AlwaysReadInOrder`, under `~RegrowBeforePoll`, the condition named in section 2: it
  holds of a log that does not outgrow the reader's position between being emptied and
  the next poll. Without it the property is false, for the reason section 2 gives. The
  invariant `Whole` says what the disk looks like in each way of rotating (`Disk`), that
  the reader has of its file's generation all up to its offset and nothing newer, or
  stands behind the end of a file that was emptied under it (`Round`: `InStep` or
  `Emptied`), and that `read_pos` and the buffer make up the offset (`Ordering`).

and of `Follow` from `FollowAssumption`:

- `AlwaysLandsOnce`: what has landed is the index with the channel behind it. `Fits`
  adds that a worker's position is the last entry it sent, that it starts at the cursor,
  and that the receiver is dropped only when the worker is gone and the channel empty.
- `FollowImplementsFeed`: every step is one of `LogFeed` or leaves it as it is
  (`FeedStep`). Beside `Fits` it needs `Resumes`: before the worker starts no more
  landed than the log holds, and a journal's cursor is the last of it, so that the place
  the worker takes is the place the feed allows. `Take` moves an entry from the channel
  to the index, which is `Show` above and changes nothing that landed.

`PipelineProofs`, from `PipelineAssumption`:

- `AlwaysEveryLineOnce`: with `Flow`, every line up to a source's cursor is in one
  record that was taken or is held, and which reader holds records in which phase. It
  includes that a file's statistics count each line once (`CountedOnce`), for which
  `Tally` says what they are before and after the second pass. That pass is a recursion
  over the records: `RecountedIs` shows that it has a value for each, `RecountRows` that
  after k of them the untimed are those done and found untimed and those still to do.
- `AlwaysRecordsTrue`: with `Arrays`, the arrays have an entry for each record taken, and
  owned lines are those from the base on, without a gap.
- `AlwaysMergedInOrder`: with `Merged`. *Behind*: a line without a time is the only slot
  that waits for its predecessor, and goes before every other. *Ahead*: what was taken may
  come before all that is left, of files that are each in order.

`ViewsProofs`, from `ViewsAssumption` and `TimelineAssumption` (`None` is not a histogram;
the text for "no filter" and an invalid expression are no texts of a log):

- `AlwaysRowsTrue`, `AlwaysCursorShown`, `AlwaysCacheTrue`, `AlwaysZoomInside`: one
  invariant, `Whole`, of every tab (`Good`), the active tab and the scrub. Most
  operations leave a tab `Sound`, right but for its rows, until it is rebuilt.
  `CursorShown` is about tables with room for the rows the keys count on: the invariant
  says it of that number, and the screen is compared with it last. For `CacheTrue`,
  `Good` says of every tab that as long as there is no zoom its histogram, if it has
  one, is a full one or is marked as left behind by a zoom (`LeftGood`), and `DrawnGood`
  that what is drawn is of the zoom and fits the screen. `ZoomInside` needs that the
  times there are only ever widen, and arithmetic of bins that is in lemmas about
  `Timeline`'s operators.

`TelegramProofs`, of `Alerts` from `AlertsAssumption`:

- `RateAlwaysKept`: `RateKept` (of messages begun) for every number of chats, rate and
  size of clock step. The invariant, `Budget`, is that a chat's debt (messages begun
  less time gone by) and what its bucket holds *by now* (`Filled`, not the stored
  tokens) are together at most the cap: taking a token moves a unit from one to the
  other, time pays back at most as fast as it fills, and a clock set back only empties.
- `DroppedAlwaysCounted`: `DroppedCounted` for every capacity. The invariant, `Counted`,
  adds that dropped notices are among those raised, so that the next is new. A loss that
  is not yet counted (`counting`) is a term of the equation of its own.
- `AlwaysOneFate`: `EachHasOneFate` when no chat is listed twice (`Distinct`): the
  configuration is not checked for that, and a chat that is gets each message twice.
  `Fates` says the same of one notice and one chat: it is in one of the six places or in
  one message on its way, and in no second (`Single`). `MessagesIs` says that the texts
  made of a batch hold its notices once each, the text for the lost alone holding none.

and of `Bot` from `BotAssumption`:

- `AlwaysHandledOnce`, `OnlyOwnCommands`: with `BotInv`. The updates the server still has
  are the last that were sent (`Window`), the rest of an answer begins where the run's
  offset is (`NextId`), all that a run was sent below that is handled (`Kept`), and a run
  that learnt the backlog has only its own ahead (`Own`).

`BookmarksProofs`, from `BookmarksAssumption`, for any programs, logs and rows:

- `MarksAlwaysTrue`: a program takes its bookmarks from a file that another may have
  written, so that the invariant `MarksInv` says the same of every book there is
  (`BooksTrue`): of every file object, named or not, and of every program on its way
  from loading to saving. `UpsertIs` and `UpsertTrue` say what `upsert` does to a book.
  Rows of a program that follows are part of it: `FollowKeepsMarks` and
  `IngestKeepsMarks` say that a new row leaves the records of the rows before it as they
  are. It is a theorem about programs whose log was not mixed up, and `Mixed` and
  `MixedUp` name all that does it; that this happens is what the violated `MarksStay`
  shows.
- `SavesAlwaysKept`: with `SavesInv`. As long as no saves overlapped there is one saver
  (`OneSaver`), the temporary file is its own and holds just what it wrote (`TmpHeld`),
  the sidecar is readable and dates each log as it was saved last (`Whole`, `Dated`),
  and what is about to be saved is the sidecar with one log changed, and of too many one
  of the oldest left out (`Changed`). `InTime`, which holds of overlapping saves too,
  says that whoever saves began after all that was saved before.

`ServerProofs`, from `ServerAssumption`, for any connections, requests and sources, with
one invariant, `ServerInv`:

- `EachAnsweredOnce`, of what is read (a line that is not UTF-8 ends the reading, and
  `AlwaysSettles` shows what becomes of the rest): `Answered` says that the answers
  of a connection are those of the requests done that are due one, in their order, and
  `Asked` that the call a thread is busy with is the last request it took.
- `SearchAlwaysBetween`: `Searches` says of a search half done that it counted no more
  than its sources now hold, and, with what those still to be read hold now, no less than
  all held at first. `Total` is the size of a set of pairs (`TotalIs`), so that a sum over
  sources splits where the search stands (`PartSplit`) and grows with them (`PartGrows`).
- `WatchAlwaysPrefix`: `Watches` says that of each source the records received, then those
  in the channel, then what the reader has yet to read follow each other without a gap
  (`FirstHits`, `AllBelow`). `Told` keeps what was answered true of sources that
  grow afterwards.

What stays with TLC, and why:

- all liveness (`WatchSettles`, `HeldIsTold`, `KeepsUp`, `Arrives`, `Drains`,
  `Answered`, `Settles`): the prover handles neither fairness nor `ENABLED`;
- all of `inspect` (`ReadBack`, `IndexAgrees`, `DetectedIsRead`, `QueryMeans`,
  `SearchNewest`, `TailIsTail`): what a recursive function over a line computes would
  need induction over the line. Induction is open to the prover only in one form, that a
  set of naturals that is not empty has a least element (`Least` in `WatchProofs`,
  `ViewsProofs` and `PipelineProofs`), and only for one definition at a time.

## 5. What is not modelled, and abstractions

Layout, HTTP and the bytes of JSON are left out: sequential code that unit tests reach.
What a timestamp's digits say, the spellings of levels, the patterns of users and
regular expressions are members of small sets. In the models of the viewer, payloads are
model values or numbers, and a search, a query and a field filter each name the text
they match. The collapse key normalises digits in the message text; texts in the models
are already normalised. The model-written alert summary is left out, and so are explain
and ask (one thread that sends fragments of an answer to a pane), the statistics and the
schema (one pass, no state that outlives it), compressed input and JSON arrays (wrappers
around decoders), presentation, and the benchmarks. Of the server, the tools that answer
at once stand for each other, and capabilities and schemas are left out; of the bot,
what a command answers. Per-component notes are in `PROJECT.json`.

Some simplifications a reader should know. In `Alerts`, `Cut` reads all mutes at
one instant, while the code locks the mutes once per notice; a mute that comes
in between is the same as one that comes before or after for each notice. A batch
makes one text or two, which the split by size may make more; a clock set forward and the
retry's missing token are told above. In `Views`, text typed at a prompt counts when it is
entered. In `Server` a feed starts as a whole: when one of its sources cannot be opened
`Feed::start` returns early, and a journalctl that it had spawned for an earlier source is
dropped without being killed (sources.rs:187-219), so that it lives until its pipe breaks.
No property is about child processes.

## 6. Plan

Done, in this order: the collapser and its abstract ledger, its proofs; watch mode; the
tail reader; two-phase follow; views and timeline; alerts with their proofs; the
pipeline from lines to records; the bot; the bookmark sidecar; formats, queries and
inspection; the MCP server; the proofs about `Watch`, `Tail`, `Follow`, `Pipeline`,
`Views` and `Bot`, and of the ledger; the proofs about `Bookmarks` and `Server`, and the
feed that `Follow` implements. Left, most important first:

1. An abstract specification for `Pipeline`, a stable merge of sequences.
2. The tail reader as the source of a feed: `Tail` and `Follow` as one module, with
   rotation and the channel together.
3. The feed of `Server` and the readers of `Watch` as one module.

## 7. Running the checks

    tlc -workers 2 -config Collapser.cfg MCCollapser
    tlc -workers 2 -config Watch.cfg MCWatch          # also WatchEnds.cfg
    tlc -workers 2 -config Tail.cfg MCTail            # TailGone.cfg: a counterexample
    tlc -workers 2 -config Follow.cfg Follow
    tlc -workers 2 -config Views.cfg MCViews          # ViewsZoom.cfg: a counterexample
    tlc -workers 2 -config Pipeline.cfg MCPipeline
    tlc -workers 2 -config Alerts.cfg MCAlerts
    tlc -workers 2 -config Bot.cfg MCBot
    tlc -workers 2 -config Bookmarks.cfg MCBookmarks  # BookmarksFollow.cfg, BookmarksTabs.cfg:
                                                      # a counterexample each
    tlc -workers 2 -config Inspect.cfg MCInspect
    tlc -workers 2 -config Server.cfg MCServer
    tlapm CollapserProofs.tla     # likewise WatchProofs, TailProofs, PipelineProofs,
                                  # ViewsProofs, TelegramProofs, BookmarksProofs,
                                  # ServerProofs
