-------------------------------- MODULE Server --------------------------------
(***************************************************************************)
(* The MCP server (pulse-tui/src/mcp.rs): JSON-RPC requests arrive on      *)
(* stdin, one after another, or over HTTP, one for each connection and its *)
(* thread.  Most are answered at once; search reads the sources one by one *)
(* while they grow, watch_once follows them for a while.  A record is      *)
(* whether it matches what was asked for.                                  *)
(***************************************************************************)
EXTENDS Integers, SequencesExt, FiniteSetsExt

CONSTANTS
  Conns,       (* the connections; on stdin there is only one              *)
  Specs,       (* the sources in their order                               *)
  Archives,    (* those that are compressed: read once, never written      *)
  Archived,    (* what is in an archive                                    *)
  Requests,    (* what may be asked on each connection                     *)
  Limit,       (* the limit of a call of watch_once                        *)
  ChanCap,     (* capacity of a feed's channel (8192 in the code)          *)
  MaxRequests, (* bound on the requests of one connection                  *)
  MaxLines     (* bound on the lines written to the sources                *)

Sources == ToSet(Specs)

(* What may be asked: what is wrong with the request itself, what its body *)
(* is, what it says of the revision, and the source a tool is called for.  *)
(* A binary body is not UTF-8, and no JSON however it is read.  A response *)
(* has a result, an error response has none; a notification is what has a  *)
(* method and no id, or one that is no string and no whole number.         *)
Request ==
  [flaws : SUBSET {"unreadable", "origin", "token", "path", "verb"},
   body : {"junk", "binary", "array", "no_method", "blank", "response",
           "error_response", "notification", "ping", "method", "tool", "search", "watch_once"},
   version : {"none", "modern", "legacy", "other"},
   header : {"none", "modern", "legacy", "other"},
   named : BOOLEAN, source : Sources \cup {"all", "unknown"}]

ASSUME ServerAssumption ==
  /\ Specs \in Seq(Sources)
  /\ Archives \subseteq Sources /\ Archived \in Seq(BOOLEAN)
  /\ Requests \in [Conns -> SUBSET Request]
  /\ Limit \in Nat \ {0} /\ ChanCap \in Nat \ {0}
  /\ MaxRequests \in Nat /\ MaxLines \in Nat

VARIABLES
  transport, (* "stdio" or "http"                                          *)
  log,       (* the records of each source                                 *)
  gone,      (* the sources whose file is not there any more               *)
  sent,      (* the requests of each connection                            *)
  read,      (* how many of them its thread has taken                      *)
  job,       (* the call a thread is busy with                             *)
  chan,      (* the channel of the feed it has started                     *)
  next,      (* where each reader of that feed is, 0 without one           *)
  stopping,  (* readers of feeds that were dropped, and still run          *)
  ended,     (* stdin could not be read on, and the server is gone         *)
  replies    (* what was answered                                          *)
vars == <<transport, log, gone, sent, read, job, chan, next, stopping, ended, replies>>

Idle == [stage |-> "idle"]
NoReaders == [s \in Sources |-> 0]
Written == MapThenSumSet(LAMBDA s : Len(log[s]), Sources \ Archives)

(* The places of the matching records of a log from i on. *)
Matching(records, i) == {n \in i .. Len(records) : records[n]}

(* How many there are in all the sources a call is for. *)
Total(specs) == Cardinality(UNION {{i} \X Matching(log[specs[i]], 1) : i \in DOMAIN specs})

Init ==
  /\ transport \in {"stdio", "http"}
  /\ log = [s \in Sources |-> IF s \in Archives THEN Archived ELSE <<TRUE>>]
  /\ gone = {}
  /\ sent = [c \in Conns |-> <<>>]
  /\ read = [c \in Conns |-> 0]
  /\ job = [c \in Conns |-> Idle]
  /\ chan = [c \in Conns |-> <<>>]
  /\ next = [c \in Conns |-> NoReaders]
  /\ stopping = 0
  /\ ended = FALSE
  /\ replies = [c \in Conns |-> <<>>]

-----------------------------------------------------------------------------
(* The programs that write the logs, and the one who tidies one away.      *)
Write(s) ==
  /\ s \notin Archives /\ Written < MaxLines
  /\ \E matches \in BOOLEAN : log' = [log EXCEPT ![s] = Append(@, matches)]
  /\ UNCHANGED <<transport, ended, gone, sent, read, job, chan, next, stopping, replies>>

Delete(s) ==
  /\ gone = {} /\ gone' = {s}
  /\ UNCHANGED <<transport, ended, log, sent, read, job, chan, next, stopping, replies>>

(* A client asks.  A connection takes one request, stdin takes any number. *)
Send(c) ==
  /\ IF transport = "http" THEN sent[c] = <<>>
     ELSE c = (CHOOSE d \in Conns : TRUE) /\ ~ended
  /\ Len(sent[c]) < MaxRequests
  /\ \E req \in Requests[c] :
       /\ transport = "http" \/ req.flaws = {}
       /\ transport = "stdio" => req.header = "none"
       /\ sent' = [sent EXCEPT ![c] = Append(@, req)]
  /\ UNCHANGED <<transport, ended, log, gone, read, job, chan, next, stopping, replies>>

-----------------------------------------------------------------------------
Nothing == [nothing |-> TRUE]
Answer(id, code, status) == [id |-> id, code |-> code, status |-> status, told |-> Nothing]

(* handle_conn: what is refused before the body is looked at.              *)
FirstFlaw == <<"unreadable", "origin", "token", "path", "verb">>
StatusOf == [unreadable |-> 413, origin |-> 403, token |-> 401, path |-> 404, verb |-> 405]
Refusal(flaws) ==
  Answer(0, "refused", StatusOf[FirstFlaw[Min({n \in 1 .. 5 : FirstFlaw[n] \in flaws})]])

(* check_headers: a request of a named revision must repeat it, and what   *)
(* it is for, in its headers.                                              *)
Disagrees(req) == transport = "http" /\ req.version # "none" /\ (req.header # req.version \/ ~req.named)

(* pick: the sources a call is for. *)
Picked(req) == CASE req.source = "all" -> Specs
                 [] req.source = "unknown" -> <<>>
                 [] OTHER -> <<req.source>>

(* handle_text, but for the calls that take a while.  The 0 is null.       *)
Immediate(req, id) ==
  CASE req.body \in {"junk", "binary"} \/ (req.body = "blank" /\ transport = "http") ->
         Answer(0, "parse_error", 400)
    [] req.body = "array" -> Answer(0, "invalid_request", 400)
    [] req.body \in {"no_method", "error_response"} -> Answer(id, "invalid_request", 400)
    [] req.body \in {"response", "notification"} \/ (req.body = "blank" /\ transport = "stdio") ->
         Answer(id, "no_answer", 202)
    [] OTHER ->
         CASE Disagrees(req) -> Answer(id, "header_mismatch", 400)
           [] ~Disagrees(req) /\ req.version = "other" -> Answer(id, "unsupported_version", 400)
           [] OTHER ->
                CASE req.body = "ping" -> Answer(id, "result", 200)
                  [] req.body = "method" -> Answer(id, "method_not_found", 404)
                  [] req.body = "tool" -> Answer(id, "invalid_params", 400)
                  [] req.body \in {"search", "watch_once"} ->
                       IF Picked(req) = <<>> THEN Answer(id, "failed", 200)
                       ELSE Answer(id, "later", 200)

(* Legacy clients get their errors with a status of 200. *)
WithStatus(req, answer) ==
  IF req.header = "modern" \/ answer.code = "parse_error" \/ answer.code = "no_answer" THEN answer
  ELSE [answer EXCEPT !.status = 200]

(* Faulty: an empty answer to a notification on stdin, too. *)
ReplyAlways(c, req, answer) ==
  replies' = [replies EXCEPT ![c] =
    Append(@, IF answer.code = "refused" THEN answer ELSE WithStatus(req, answer))]

(* What a transport sends of an answer: on stdin nothing for nothing.      *)
Reply(c, req, answer) ==
  replies' = [replies EXCEPT ![c] =
    IF transport = "stdio" /\ answer.code = "no_answer" THEN @
    ELSE Append(@, IF answer.code = "refused" THEN answer ELSE WithStatus(req, answer))]

(* The job that a tool starts with. *)
Started(req, id) ==
  [stage |-> IF req.body = "search" THEN "search" ELSE "open",
   id |-> id, req |-> req, todo |-> Picked(req),
   total |-> 0, before |-> Total(Picked(req)),
   from |-> NoReaders, hits |-> <<>>, due |-> FALSE]

(* A line of stdin is read as UTF-8, a body over HTTP as what can be made  *)
(* of it: from_utf8_lossy.                                                 *)
Readable(req) == transport = "http" \/ req.body # "binary"

(* The next line of stdin, or the request of a connection. *)
Read(c) ==
  /\ ~ended /\ job[c] = Idle /\ read[c] < Len(sent[c])
  /\ Readable(sent[c][read[c] + 1])
  /\ read' = [read EXCEPT ![c] = @ + 1]
  /\ LET req == sent[c][read'[c]]
         answer == IF req.flaws # {} THEN Refusal(req.flaws) ELSE Immediate(req, read'[c])
     IN  IF answer.code = "later"
           THEN job' = [job EXCEPT ![c] = Started(req, read'[c])] /\ UNCHANGED replies
           ELSE UNCHANGED job /\ Reply(c, req, answer)
  /\ UNCHANGED <<transport, ended, log, gone, sent, chan, next, stopping>>

(* A line that is not UTF-8 is an error of the reading itself, which       *)
(* serve_stdio returns: neither this line nor a later one is answered.     *)
ReadFails(c) ==
  /\ ~ended /\ job[c] = Idle /\ read[c] < Len(sent[c])
  /\ ~Readable(sent[c][read[c] + 1])
  /\ ended' = TRUE
  /\ UNCHANGED <<transport, log, gone, sent, read, job, chan, next, stopping, replies>>

-----------------------------------------------------------------------------
(* The end of a call: its feed is dropped, which tells its readers to stop *)
(* and takes the channel away.                                             *)
Finish(c, code, told) ==
  /\ Reply(c, job[c].req, [Answer(job[c].id, code, 200) EXCEPT !.told = told])
  /\ job' = [job EXCEPT ![c] = Idle]
  /\ chan' = [chan EXCEPT ![c] = <<>>]
  /\ next' = [next EXCEPT ![c] = NoReaders]
  /\ stopping' = stopping + Cardinality({s \in Sources : next[c][s] > 0})
  /\ UNCHANGED <<transport, ended, log, gone, sent, read>>

(* Faulty: a source that cannot be opened is passed over. *)
FailSkips(c) ==
  /\ job[c].stage \in {"search", "open"} /\ job[c].todo # <<>>
  /\ Head(job[c].todo) \in gone
  /\ job' = [job EXCEPT ![c].todo = Tail(@)]
  /\ UNCHANGED <<transport, ended, log, gone, sent, read, chan, next, stopping, replies>>

(* A source that cannot be opened fails the call, whatever was found. *)
Fail(c) ==
  /\ job[c].stage \in {"search", "open"} /\ job[c].todo # <<>>
  /\ Head(job[c].todo) \in gone
  /\ Finish(c, "failed", Nothing)

(* search_json: the matches in one more source. *)
Search(c) ==
  /\ job[c].stage = "search" /\ job[c].todo # <<>>
  /\ Head(job[c].todo) \notin gone
  /\ job' = [job EXCEPT ![c].todo = Tail(@), ![c].total = @ + Total(<<Head(job[c].todo)>>)]
  /\ UNCHANGED <<transport, ended, log, gone, sent, read, chan, next, stopping, replies>>
SearchDone(c) ==
  /\ job[c].stage = "search" /\ job[c].todo = <<>>
  /\ Finish(c, "found", [total |-> job[c].total, before |-> job[c].before,
                         after |-> Total(Picked(job[c].req))])

(* Feed::start: files are followed from their end, archives read from the  *)
(* start.                                                                  *)
FeedStart(s) == IF s \in Archives THEN 1 ELSE Len(log[s]) + 1
Open(c) ==
  /\ job[c].stage = "open" /\ job[c].todo # <<>>
  /\ Head(job[c].todo) \notin gone
  /\ LET s == Head(job[c].todo)
     IN  job' = [job EXCEPT ![c].todo = Tail(@), ![c].from[s] = FeedStart(s)]
  /\ UNCHANGED <<transport, ended, log, gone, sent, read, chan, next, stopping, replies>>
Follow(c) ==
  /\ job[c].stage = "open" /\ job[c].todo = <<>>
  /\ job' = [job EXCEPT ![c].stage = "watch"]
  /\ next' = [next EXCEPT ![c] = job[c].from]
  /\ UNCHANGED <<transport, ended, log, gone, sent, read, chan, stopping, replies>>

(* Faulty: what finds no room is lost. *)
PumpDrops(c, s) ==
  /\ next[c][s] \in 1 .. Len(log[s])
  /\ chan' = [chan EXCEPT ![c] = IF Len(@) = ChanCap THEN @
                                 ELSE Append(@, [source |-> s, at |-> next[c][s]])]
  /\ next' = [next EXCEPT ![c][s] = @ + 1]
  /\ UNCHANGED <<transport, ended, log, gone, sent, read, job, stopping, replies>>

(* pump: a record is sent, and waits for room in the channel.              *)
Pump(c, s) ==
  /\ next[c][s] \in 1 .. Len(log[s]) /\ Len(chan[c]) < ChanCap
  /\ chan' = [chan EXCEPT ![c] = Append(@, [source |-> s, at |-> next[c][s]])]
  /\ next' = [next EXCEPT ![c][s] = @ + 1]
  /\ UNCHANGED <<transport, ended, log, gone, sent, read, job, stopping, replies>>
(* The end of an archive. *)
PumpEnds(c, s) ==
  /\ s \in Archives /\ next[c][s] = Len(log[s]) + 1 /\ Len(chan[c]) < ChanCap
  /\ chan' = [chan EXCEPT ![c] = Append(@, [source |-> s, at |-> 0])]
  /\ next' = [next EXCEPT ![c][s] = 0]
  /\ UNCHANGED <<transport, ended, log, gone, sent, read, job, stopping, replies>>

(* The deadline of a call passes. *)
Tick(c) ==
  /\ job[c].stage = "watch" /\ ~job[c].due
  /\ job' = [job EXCEPT ![c].due = TRUE]
  /\ UNCHANGED <<transport, ended, log, gone, sent, read, chan, next, stopping, replies>>

(* watch_once takes a message; what does not match, or is the end of a     *)
(* source, is left out.                                                    *)
Receive(c) ==
  /\ job[c].stage = "watch" /\ Len(job[c].hits) < Limit /\ ~job[c].due
  /\ chan[c] # <<>>
  /\ LET m == Head(chan[c])
     IN  job' = [job EXCEPT ![c].hits =
                   IF m.at > 0 /\ log[m.source][m.at] THEN Append(@, m) ELSE @]
  /\ chan' = [chan EXCEPT ![c] = Tail(@)]
  /\ UNCHANGED <<transport, ended, log, gone, sent, read, next, stopping, replies>>

(* Faulty: it waits for the next record however long that takes. *)
OverUntimed(c) == Len(job[c].hits) = Limit \/ (next[c] = NoReaders /\ chan[c] = <<>>)

(* It stops at the limit, at the deadline, or when all readers are gone.   *)
Over(c) == Len(job[c].hits) = Limit \/ job[c].due \/ (next[c] = NoReaders /\ chan[c] = <<>>)
WatchDone(c) ==
  /\ job[c].stage = "watch" /\ Over(c)
  /\ Finish(c, "watched", [hits |-> job[c].hits, from |-> job[c].from,
                           timedOut |-> Len(job[c].hits) < Limit, due |-> job[c].due])

(* A reader whose feed was dropped sees the stop flag, or that its channel *)
(* is gone, and ends.                                                      *)
ReaderStops ==
  /\ stopping > 0
  /\ stopping' = stopping - 1
  /\ UNCHANGED <<transport, ended, log, gone, sent, read, job, chan, next, replies>>

(* Nobody asks any more, or nobody listens. *)
Settled(c) == job[c] = Idle /\ read[c] = Len(sent[c])
Quiet == (ended \/ \A c \in Conns : Settled(c)) /\ stopping = 0 /\ UNCHANGED vars

Serve(c) == Read(c) \/ ReadFails(c) \/ Fail(c) \/ Search(c) \/ SearchDone(c) \/ Open(c) \/ Follow(c)
              \/ Receive(c) \/ WatchDone(c)
Next ==
  \/ \E s \in Sources : Write(s) \/ Delete(s)
  \/ \E c \in Conns :
       \/ Send(c) \/ Serve(c) \/ Tick(c)
       \/ \E s \in Sources : Pump(c, s) \/ PumpEnds(c, s)
  \/ ReaderStops \/ Quiet

(* Every thread runs on and time passes; nobody has to ask or to write. *)
Spec ==
  /\ Init /\ [][Next]_vars
  /\ \A c \in Conns : WF_vars(Serve(c)) /\ WF_vars(Tick(c))
  /\ WF_vars(ReaderStops)

-----------------------------------------------------------------------------
(* What is asked with an id gets one answer, with this id, in the order of *)
(* the requests, and what is refused, not JSON or not an object gets one   *)
(* that says so; nothing else is answered, but for the acknowledgement of  *)
(* HTTP and for an error response (serve_stdio, handle_conn and            *)
(* Server::handle).  It is about every line that is read, at every moment; *)
(* AlwaysSettles is about the lines after one that is not UTF-8.           *)
AnsweredOnce ==
  \A c \in Conns :
    LET done   == read[c] - (IF job[c] = Idle THEN 0 ELSE 1)
        silent == {"blank", "response", "notification"}
        due    == {n \in 1 .. done : transport = "http" \/ sent[c][n].body \notin silent}
    IN  /\ Len(replies[c]) = Cardinality(due)
        /\ \A n \in due :
             LET req  == sent[c][n]
                 said == replies[c][Cardinality({m \in due : m <= n})]
             IN  said.id = IF req.flaws # {} \/ req.body \in {"junk", "binary", "array", "blank"} THEN 0 ELSE n

(* Sources grow while they are searched one by one.  The matches that are  *)
(* told were there at the end of the search, and those that were there at  *)
(* its beginning are told; a source that is missing is an error, never a   *)
(* smaller number.                                                         *)
SearchIsBetween ==
  \A c \in Conns : \A i \in DOMAIN replies[c] :
    LET said == replies[c][i]
    IN  said.code = "found" => said.told.total \in said.told.before .. said.told.after

(* watch_once tells, of each file, the first records that match and were   *)
(* written after it was opened, and leaves none out; it tells fewer than   *)
(* it was asked for only after its deadline, or when nothing can come any  *)
(* more.                                                                   *)
WatchIsPrefix ==
  \A c \in Conns : \A i \in DOMAIN replies[c] :
    LET said == replies[c][i]
    IN  said.code = "watched" =>
          /\ \A k \in DOMAIN said.told.hits :
               LET hits == said.told.hits
                   s    == hits[k].source
               IN  {hits[j].at : j \in {j \in 1 .. k : hits[j].source = s}} =
                     {n \in Matching(log[s], said.told.from[s]) : n <= hits[k].at}
          /\ \/ Len(said.told.hits) = Limit
             \/ said.told.timedOut /\
                  (said.told.due \/ \A s \in Sources : said.told.from[s] > 0 => s \in Archives)

(* Every request is done with at last, one that follows a silent file too, *)
(* unless a line that is not UTF-8 ended the server; and no reader         *)
(* outlives the call it was started for.                                   *)
Settles ==
  /\ \A c \in Conns : ~Settled(c) ~> (Settled(c) \/ ended)
  /\ stopping > 0 ~> stopping = 0

(* What the tests say of text that is not JSON, which gets a parse error   *)
(* and does no harm to the requests after it: every line is done with at   *)
(* last, whatever bytes it holds.                                          *)
AlwaysSettles == \A c \in Conns : ~Settled(c) ~> Settled(c)

(* What the comment in Server::handle says: a response of the client is    *)
(* not answered.  (On stdin, where no acknowledgement is due.)             *)
ResponsesUnanswered ==
  transport = "stdio" =>
    \A c \in Conns :
      Len(replies[c]) <=
        Cardinality({n \in 1 .. read[c] : sent[c][n].body \notin {"response", "error_response"}})
=============================================================================
