--------------------------------- MODULE Bot ---------------------------------
(***************************************************************************)
(* Telegram commands (pulse-tui/src/telegram.rs, poll_loop and Bot).  The  *)
(* server keeps the updates that were sent to the bot until a getUpdates   *)
(* asks for a later offset; the command thread polls, handles one update   *)
(* after the other and delivers their replies.  The program may end and be *)
(* started again at any time, and keeps nothing from one run to the next.  *)
(*                                                                         *)
(* A call may fail before it reaches the server, or its answer may be lost *)
(* after the server has acted on it.  What a command does is in Inspect    *)
(* and, for mutes, in Alerts.                                              *)
(*                                                                         *)
(* sent and handled are history variables.                                 *)
(***************************************************************************)
EXTENDS Integers, SequencesExt

CONSTANTS
  AllowedUsers, AllowedChats,
  Incoming,          (* [user, chat, text] that may be sent to the bot; text  *)
                     (* is "talk", "other" (for another bot), "bad" (no *)
                     (* command there is) or "command"                   *)
  AnswerMax,         (* updates in one answer (100)                         *)
  CommandsPerMinute, (* COMMANDS_PER_MINUTE (20)                            *)
  MaxBackoff,        (* the longest wait after a failed poll, in seconds (60) *)
  MaxUpdates,        (* bound on the updates ever sent                      *)
  MaxRuns            (* bound on the runs of the program                    *)

(* A message without a sender, in a channel. *)
Nobody == "nobody"

ASSUME BotAssumption ==
  /\ Nobody \notin AllowedUsers
  /\ \A m \in Incoming : m.text \in {"talk", "other", "bad", "command"}
  /\ AnswerMax \in Nat \ {0} /\ CommandsPerMinute \in Nat \ {0} /\ MaxBackoff \in Nat \ {0}
  /\ MaxUpdates \in Nat /\ MaxRuns \in Nat

VARIABLES
  updates, (* the server's updates that no offset has confirmed             *)
  run,     (* how many times the program was started                        *)
  pc,      (* "down", "boot", "poll", "handle", "deliver", "retry",         *)
           (* "sleep"                                                       *)
  offset,  (* the first update the next poll asks for                       *)
  backoff, (* the wait after the next failed poll                           *)
  answer,  (* what is left of the last answer                               *)
  limits,  (* what each sender's bucket holds                               *)
  skipped, (* whether this run learnt what was queued before it             *)
  sent,    (* for each update, the run that was up when it was sent, or 0   *)
  handled  (* [run, id] of the updates that were handled                    *)

history == <<sent, handled>>
botVars == <<updates, run, pc, offset, backoff, answer, limits, skipped, history>>

Smaller(a, b) == IF a <= b THEN a ELSE b

Senders == {m.user : m \in Incoming} \cup {m.chat : m \in Incoming}
UpdateIds == {updates[i].id : i \in DOMAIN updates}

BotInit ==
  /\ updates = <<>> /\ run = 0 /\ pc = "down"
  /\ offset = 0 /\ backoff = 1 /\ answer = <<>>
  /\ limits = [s \in Senders |-> CommandsPerMinute]
  /\ skipped = FALSE
  /\ sent = <<>> /\ handled = <<>>

-----------------------------------------------------------------------------
(* Someone writes to the bot. *)
Write ==
  /\ Len(sent) < MaxUpdates
  /\ \E m \in Incoming : updates' = Append(updates, [id |-> Len(sent) + 1, msg |-> m])
  /\ sent' = Append(sent, IF pc \in {"down", "boot"} THEN 0 ELSE run)
  /\ UNCHANGED <<run, pc, offset, backoff, answer, limits, skipped, handled>>

(* getUpdates, as the server does it: what an offset confirms is forgotten *)
(* and the rest is the answer; offset -1 confirms all but the newest.  The *)
(* ids of what is queued follow one another.                               *)
From(n) ==
  IF updates = <<>> \/ n <= Head(updates).id THEN updates
  ELSE SubSeq(updates, n - Head(updates).id + 1, Len(updates))
Newest == IF updates = <<>> THEN <<>> ELSE <<Last(updates)>>

-----------------------------------------------------------------------------
(* start(): the command thread of a new run. *)
Start ==
  /\ pc = "down" /\ run < MaxRuns
  /\ run' = run + 1
  /\ pc' = "boot"
  /\ backoff' = 1
  /\ limits' = [s \in Senders |-> CommandsPerMinute]
  /\ UNCHANGED <<updates, offset, answer, skipped, history>>

(* The program ends, wherever its command thread is. *)
Die ==
  /\ pc # "down"
  /\ pc' = "down"
  /\ answer' = <<>>
  /\ UNCHANGED <<updates, run, offset, backoff, limits, skipped, history>>

(* Faulty: the next poll asks for the newest update once more. *)
BootAtNewest ==
  /\ pc = "boot"
  /\ \/ updates' = Newest /\ skipped' = TRUE
        /\ offset' = (IF updates = <<>> THEN 0 ELSE Last(updates).id)
     \/ updates' \in {updates, Newest} /\ skipped' = FALSE /\ offset' = 0
  /\ pc' = "poll"
  /\ UNCHANGED <<run, backoff, answer, limits, history>>

(* The first call asks for the newest update only, and the next for what   *)
(* comes after it.  If it fails, before or after it reached the server,    *)
(* the next asks for everything.                                           *)
Boot ==
  /\ pc = "boot"
  /\ \/ updates' = Newest /\ skipped' = TRUE
        /\ offset' = (IF updates = <<>> THEN 0 ELSE Last(updates).id + 1)
     \/ updates' \in {updates, Newest} /\ skipped' = FALSE /\ offset' = 0
  /\ pc' = "poll"
  /\ UNCHANGED <<run, backoff, answer, limits, history>>

(* A poll that is answered, if only with nothing after its 30 seconds. *)
PollAnswered ==
  /\ pc = "poll"
  /\ updates' = From(offset)
  /\ answer' = SubSeq(From(offset), 1, Smaller(AnswerMax, Len(From(offset))))
  /\ backoff' = 1
  /\ pc' = "handle"
  /\ UNCHANGED <<run, offset, limits, skipped, history>>

PollFailed ==
  /\ pc = "poll"
  /\ updates' \in {updates, From(offset)}
  /\ pc' = "sleep"
  /\ UNCHANGED <<run, offset, backoff, answer, limits, skipped, history>>

(* Faulty: once the wait is at its longest it gives up. *)
SleepGivingUp ==
  /\ pc = "sleep" /\ backoff < MaxBackoff
  /\ backoff' = Smaller(2 * backoff, MaxBackoff)
  /\ pc' = "poll"
  /\ UNCHANGED <<updates, run, offset, answer, limits, skipped, history>>

(* The wait after a failed poll, longer every time. *)
Sleep ==
  /\ pc = "sleep"
  /\ backoff' = Smaller(2 * backoff, MaxBackoff)
  /\ pc' = "poll"
  /\ UNCHANGED <<updates, run, offset, answer, limits, skipped, history>>

-----------------------------------------------------------------------------
Allowed(m) == m.user \in AllowedUsers \/ m.chat \in AllowedChats

(* RateLimiter of the sender, or of the chat where there is none. *)
Sender(m) == IF m.user = Nobody THEN m.chat ELSE m.user

(* handle_update: whether a message gets a reply.  A command that cannot   *)
(* be read is answered without a look at the bucket, one over the limit is *)
(* not answered at all.                                                    *)
Answers(m) ==
  /\ Allowed(m)
  /\ m.text = "bad" \/ (m.text = "command" /\ limits[Sender(m)] > 0)

Executes(m) == Answers(m) /\ m.text = "command"

(* Faulty: only an update that is answered moves the offset. *)
HandleAnswered ==
  /\ pc = "handle" /\ answer # <<>>
  /\ LET u == Head(answer)
     IN  /\ offset' = IF Answers(u.msg) THEN u.id + 1 ELSE offset
         /\ handled' = Append(handled, [run |-> run, id |-> u.id])
         /\ limits' = IF Executes(u.msg) THEN [limits EXCEPT ![Sender(u.msg)] = @ - 1]
                      ELSE limits
         /\ pc' = IF Answers(u.msg) THEN "deliver" ELSE "handle"
  /\ answer' = Tail(answer)
  /\ UNCHANGED <<updates, run, backoff, skipped, sent>>

(* One update: the offset moves past it, and it is handled. *)
Handle ==
  /\ pc = "handle" /\ answer # <<>>
  /\ LET u == Head(answer)
     IN  /\ offset' = IF u.id >= offset THEN u.id + 1 ELSE offset
         /\ handled' = Append(handled, [run |-> run, id |-> u.id])
         /\ limits' = IF Executes(u.msg) THEN [limits EXCEPT ![Sender(u.msg)] = @ - 1]
                      ELSE limits
         /\ pc' = IF Answers(u.msg) THEN "deliver" ELSE "handle"
  /\ answer' = Tail(answer)
  /\ UNCHANGED <<updates, run, backoff, skipped, sent>>

(* deliver(): the reply arrives or is given up, *)
Deliver ==
  /\ pc \in {"deliver", "retry"}
  /\ pc' = "handle"
  /\ UNCHANGED <<updates, run, offset, backoff, answer, limits, skipped, history>>

(* or the server asks for patience, once. *)
AnswerThrottled ==
  /\ pc = "deliver"
  /\ pc' = "retry"
  /\ UNCHANGED <<updates, run, offset, backoff, answer, limits, skipped, history>>

(* All of an answer is handled: the next poll. *)
PollAgain ==
  /\ pc = "handle" /\ answer = <<>>
  /\ pc' = "poll"
  /\ UNCHANGED <<updates, run, offset, backoff, answer, limits, skipped, history>>

(* Time fills the buckets. *)
Refill ==
  /\ pc # "down"
  /\ \E s \in Senders :
       limits[s] < CommandsPerMinute /\ limits' = [limits EXCEPT ![s] = @ + 1]
  /\ UNCHANGED <<updates, run, pc, offset, backoff, answer, skipped, history>>

Ended == pc = "down" /\ run = MaxRuns /\ UNCHANGED botVars

CommandThread ==
  Boot \/ PollAnswered \/ PollFailed \/ Sleep \/ Handle \/ Deliver \/ AnswerThrottled \/ PollAgain

BotNext ==
  \/ Write
  \/ Start \/ Die
  \/ CommandThread
  \/ Refill \/ Ended

BotSpec == BotInit /\ [][BotNext]_botVars

(* The command thread runs, and a connection that is tried again and again *)
(* works in the end.                                                       *)
BotFairSpec == BotSpec /\ WF_botVars(CommandThread) /\ SF_botVars(PollAnswered)

-----------------------------------------------------------------------------
HandledNow == {handled[i].id : i \in {j \in DOMAIN handled : handled[j].run = run}}

(* Within a run no update is handled twice, they are handled in the order  *)
(* they were sent, and one that was sent to this run is not forgotten by   *)
(* the server before it was handled, whatever calls fail on the way.       *)
HandledOnce ==
  /\ \A i, j \in DOMAIN handled :
       i < j /\ handled[i].run = handled[j].run => handled[i].id < handled[j].id
  /\ pc # "down" =>
       \A n \in DOMAIN sent : sent[n] = run /\ run > 0 => n \in UpdateIds \cup HandledNow

(* A run that learnt what was queued before it handles only what was sent  *)
(* to itself: nothing stale, and nothing an earlier run has handled but    *)
(* could not confirm before it ended.                                      *)
OwnCommands ==
  skipped /\ pc # "down" => \A n \in HandledNow : sent[n] = run

(* What the comment in poll_loop says: commands that were queued before a  *)
(* run began to poll are stale, and skipped.                               *)
StaleSkipped == pc # "down" => \A n \in HandledNow : sent[n] = run

(* A command that is sent to a run is handled in it, unless the run ends.  *)
Answered ==
  \A n \in 1 .. MaxUpdates :
    \A r \in 1 .. MaxRuns :
      (n \in DOMAIN sent /\ sent[n] = r /\ run = r /\ pc # "down")
        ~> (pc = "down" \/ n \in HandledNow)
=============================================================================
