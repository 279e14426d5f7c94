------------------------------- MODULE Alerts -------------------------------
(***************************************************************************)
(* Telegram alerts (pulse-tui/src/telegram.rs).  The watch loop hands its  *)
(* notices to a bounded queue and never waits (AlertNotifier); a thread of *)
(* its own collects them into batches, leaves out what is muted, and sends *)
(* each message to every chat, slowed down by a token bucket per chat      *)
(* (AlertLoop, RateLimiter).  Mutes come from the command thread (Mutes).  *)
(*                                                                         *)
(* No absolute time is kept.  The wall clock is seen in how long ago a     *)
(* bucket was last used and how long a mute has to run, and it may be set  *)
(* back once.  A token takes Unit ticks to fill.                           *)
(*                                                                         *)
(* dropped, hushed, told, failed, reported and debt are history variables. *)
(***************************************************************************)
EXTENDS Integers, FiniteSets, SequencesExt

CONSTANTS
  Rules,        (* the watch rules that alert                              *)
  All,          (* the name that mutes every rule                          *)
  Chats,        (* alert_chats, in the order they are sent to              *)
  QueueCap,     (* capacity of the queue (1000)                            *)
  BatchMax,     (* notices in a batch (50)                                 *)
  PerMinute,    (* messages a chat's bucket holds (max_per_minute)         *)
  Unit,         (* ticks until a token has filled again                    *)
  MuteTime,     (* how long a mute lasts                                   *)
  Back,         (* how far the clock may be set back                       *)
  MaxNotices    (* bound on the notices raised                             *)

ASSUME AlertsAssumption ==
  /\ All \notin Rules
  /\ Chats \in Seq(Range(Chats))
  /\ QueueCap \in Nat \ {0} /\ BatchMax \in Nat \ {0}
  /\ PerMinute \in Nat \ {0} /\ Unit \in Nat \ {0}
  /\ MuteTime \in Nat /\ Back \in Nat /\ MaxNotices \in Nat

VARIABLES
  running,    (* whether the program still runs                            *)
  raised,     (* how many notices the watch loop has raised                *)
  queue,      (* notices on their way to the alert thread                  *)
  lost,       (* the counter of those that found the queue full            *)
  counting,   (* whether the watch loop is about to raise it               *)
  batch,      (* notices collected so far                                  *)
  cut,        (* whether the batch is closed and its message not written   *)
  kept,       (* the notices of that message                               *)
  pending,    (* messages of the batch to be sent, chat by chat            *)
  attempt,    (* 0: waiting for a token, 1 or 2: which try is under way    *)
  tokens,     (* what is in each chat's bucket, in ticks                   *)
  since,      (* how long ago it was last looked at                        *)
  mutes,      (* how long each mute has to run; 0 or less is over          *)
  stepped,    (* whether the clock was set back                            *)
  dropped,    (* notices that found the queue full                         *)
  hushed,     (* those left out because they were muted                    *)
  told,       (* those sent to each chat                                   *)
  failed,     (* those in a message that could not be sent to a chat       *)
  reported,   (* how many lost notices messages have told of               *)
  debt        (* messages begun for each chat, in ticks, less time gone by *)

feed == <<raised, queue, lost, counting, dropped>>
batches == <<batch, cut, kept>>
buckets == <<tokens, since, debt>>
clock == <<mutes, stepped>>
fate == <<told, failed>>
vars == <<running, feed, batches, pending, attempt, buckets, clock, hushed, fate, reported>>

ChatSet == Range(Chats)
Cap == PerMinute * Unit

(* How far the clock can still be set back: a mute that long over is over  *)
(* for good, and a bucket left alone that much longer than it takes to     *)
(* fill is full. *)
Left == IF stepped THEN 0 ELSE Back

AtMost(a, b) == IF a <= b THEN a ELSE b
AtLeast(a, b) == IF a >= b THEN a ELSE b

Ids(notices) == {n.id : n \in ToSet(notices)}

Init ==
  /\ running = TRUE
  /\ raised = 0
  /\ queue = <<>> /\ lost = 0 /\ counting = FALSE
  /\ batch = <<>> /\ cut = FALSE /\ kept = {}
  /\ pending = <<>> /\ attempt = 0
  /\ tokens = [c \in ChatSet |-> Cap]
  /\ since = [c \in ChatSet |-> 0]
  /\ mutes = [r \in Rules \cup {All} |-> -Back]
  /\ stepped = FALSE
  /\ dropped = {} /\ hushed = {}
  /\ told = [c \in ChatSet |-> {}] /\ failed = [c \in ChatSet |-> {}]
  /\ reported = 0
  /\ debt = [c \in ChatSet |-> 0]

-----------------------------------------------------------------------------
(* The watch loop. *)

(* AlertNotifier::notify: try_send, and a full queue costs the notice. *)
Notify ==
  /\ running /\ raised < MaxNotices /\ ~counting
  /\ raised' = raised + 1
  /\ IF Len(queue) < QueueCap
     THEN /\ \E r \in Rules : queue' = Append(queue, [id |-> raised + 1, rule |-> r])
          /\ UNCHANGED <<counting, dropped>>
     ELSE /\ counting' = TRUE
          /\ dropped' = dropped \cup {raised + 1}
          /\ UNCHANGED queue
  /\ UNCHANGED <<running, lost, batches, pending, attempt, buckets, clock, hushed, fate, reported>>

(* What was dropped is counted a step later: by then the alert thread may  *)
(* have emptied the queue and taken the counter.                           *)
Count ==
  /\ running /\ counting
  /\ lost' = lost + 1
  /\ counting' = FALSE
  /\ UNCHANGED <<running, raised, queue, dropped, batches, pending, attempt, buckets, clock,
                 hushed, fate, reported>>

(* The watch ends, and the program with it, whatever the two threads do. *)
Exit ==
  /\ running
  /\ running' = FALSE
  /\ UNCHANGED <<feed, batches, pending, attempt, buckets, clock, hushed, fate, reported>>

-----------------------------------------------------------------------------
(* The alert thread. *)

Receive ==
  /\ running /\ batch = <<>> /\ ~cut /\ pending = <<>> /\ queue # <<>>
  /\ batch' = <<Head(queue)>>
  /\ queue' = Tail(queue)
  /\ UNCHANGED <<running, raised, lost, counting, dropped, cut, kept, pending, attempt, buckets,
                 clock, hushed, fate, reported>>

Collect ==
  /\ running /\ batch # <<>> /\ Len(batch) < BatchMax /\ queue # <<>>
  /\ batch' = Append(batch, Head(queue))
  /\ queue' = Tail(queue)
  /\ UNCHANGED <<running, raised, lost, counting, dropped, cut, kept, pending, attempt, buckets,
                 clock, hushed, fate, reported>>

Muted(r) == mutes[r] > 0 \/ mutes[All] > 0

(* A message goes to every chat before the next message does.              *)
ToChats(text) == [j \in DOMAIN Chats |-> [chat |-> Chats[j], text |-> text]]

(* format_alerts: the batch in one message, or in two if it is too long    *)
(* (more than two would be the same thing again); notices are in the order *)
(* they were raised, and the lost count, if there is one, is the last      *)
(* line, which may be all of the second message.                           *)
Messages(ids, n) ==
  {ToChats([ids |-> ids, lost |-> n])} \cup
  {ToChats([ids |-> {i \in ids : i <= k}, lost |-> 0]) \o
   ToChats([ids |-> {i \in ids : i > k}, lost |-> n]) :
     k \in {i \in ids : n > 0 \/ \E j \in ids : i < j}}

(* What is left of the batch without what is muted.                        *)
Unmuted == {n.id : n \in {m \in ToSet(batch) : ~Muted(m.rule)}}

(* The batch is full, or the queue was empty when its time was up: what is *)
(* muted goes.                                                             *)
Cut ==
  /\ running /\ batch # <<>> /\ (Len(batch) = BatchMax \/ queue = <<>>)
  /\ hushed' = hushed \cup (Ids(batch) \ Unmuted)
  /\ kept' = Unmuted
  /\ cut' = TRUE
  /\ batch' = <<>>
  /\ UNCHANGED <<running, feed, pending, attempt, buckets, clock, fate, reported>>

(* Faulty: what is left of a batch decides alone whether to send. *)
ComposeEmpty ==
  /\ running /\ cut
  /\ IF kept = {}
     THEN pending' = <<>> /\ UNCHANGED reported
     ELSE pending' \in Messages(kept, lost) /\ reported' = reported + lost
  /\ cut' = FALSE /\ kept' = {}
  /\ lost' = 0
  /\ UNCHANGED <<running, raised, queue, counting, dropped, batch, attempt, buckets, clock, hushed, fate>>

(* The counter is taken, and the messages are written with it.             *)
Compose ==
  /\ running /\ cut
  /\ IF kept = {} /\ lost = 0 THEN pending' = <<>> ELSE pending' \in Messages(kept, lost)
  /\ cut' = FALSE /\ kept' = {}
  /\ lost' = 0
  /\ reported' = reported + lost
  /\ UNCHANGED <<running, raised, queue, counting, dropped, batch, attempt, buckets, clock, hushed, fate>>

(* RateLimiter::try_take: what the bucket holds by now. *)
Filled(c) == AtMost(tokens[c] + AtLeast(since[c], 0), Cap)

(* Faulty: the bucket is not marked as looked at. *)
TakeAgain ==
  /\ running /\ pending # <<>> /\ attempt = 0
  /\ LET c == Head(pending).chat
     IN  /\ Filled(c) >= Unit
         /\ tokens' = [tokens EXCEPT ![c] = Filled(c) - Unit]
         /\ debt' = [debt EXCEPT ![c] = @ + Unit]
  /\ attempt' = 1
  /\ UNCHANGED <<running, feed, batches, pending, since, clock, hushed, fate, reported>>

Take ==
  /\ running /\ pending # <<>> /\ attempt = 0
  /\ LET c == Head(pending).chat
     IN  /\ Filled(c) >= Unit
         /\ tokens' = [tokens EXCEPT ![c] = Filled(c) - Unit]
         /\ since' = [since EXCEPT ![c] = 0]
         /\ debt' = [debt EXCEPT ![c] = @ + Unit]
  /\ attempt' = 1
  /\ UNCHANGED <<running, feed, batches, pending, clock, hushed, fate, reported>>

(* Faulty: what has filled so far is thrown away at each look. *)
WaitEmptied ==
  /\ running /\ pending # <<>> /\ attempt = 0
  /\ LET c == Head(pending).chat
     IN  /\ Filled(c) < Unit /\ since[c] # 0
         /\ since' = [since EXCEPT ![c] = 0]
  /\ UNCHANGED <<running, feed, batches, pending, attempt, tokens, debt, clock, hushed, fate, reported>>

(* Not enough yet: the thread sleeps.  (A look that changes nothing is no  *)
(* step.) *)
Wait ==
  /\ running /\ pending # <<>> /\ attempt = 0
  /\ LET c == Head(pending).chat
     IN  /\ Filled(c) < Unit /\ since[c] # 0
         /\ tokens' = [tokens EXCEPT ![c] = Filled(c)]
         /\ since' = [since EXCEPT ![c] = 0]
  /\ UNCHANGED <<running, feed, batches, pending, attempt, debt, clock, hushed, fate, reported>>

(* Faulty: a message that arrived is not taken off. *)
SentAgain ==
  /\ running /\ attempt > 0
  /\ LET m == Head(pending)
     IN  told' = [told EXCEPT ![m.chat] = @ \cup m.text.ids]
  /\ attempt' = 0
  /\ UNCHANGED <<running, feed, batches, pending, buckets, clock, hushed, failed, reported>>

(* send_text: the message arrives, *)
Sent ==
  /\ running /\ attempt > 0
  /\ LET m == Head(pending)
     IN  told' = [told EXCEPT ![m.chat] = @ \cup m.text.ids]
  /\ pending' = Tail(pending)
  /\ attempt' = 0
  /\ UNCHANGED <<running, feed, batches, buckets, clock, hushed, failed, reported>>

(* or the server asks for patience, once, *)
Throttled ==
  /\ running /\ attempt = 1
  /\ attempt' = 2
  /\ UNCHANGED <<running, feed, batches, pending, buckets, clock, hushed, fate, reported>>

(* or it does not arrive: the next chat is tried. *)
Refused ==
  /\ running /\ attempt > 0
  /\ LET m == Head(pending)
     IN  failed' = [failed EXCEPT ![m.chat] = @ \cup m.text.ids]
  /\ pending' = Tail(pending)
  /\ attempt' = 0
  /\ UNCHANGED <<running, feed, batches, buckets, clock, hushed, told, reported>>

-----------------------------------------------------------------------------
(* The command thread: /mute and /unmute, one name or all of them. *)
Mute ==
  /\ running
  /\ \E r \in Rules \cup {All} : mutes' = [mutes EXCEPT ![r] = MuteTime]
  /\ UNCHANGED <<running, feed, batches, pending, attempt, buckets, stepped, hushed, fate, reported>>

Unmute ==
  /\ running
  /\ \/ \E r \in Rules : mutes' = [mutes EXCEPT ![r] = -Left]
     \/ mutes' = [r \in Rules \cup {All} |-> -Left]
  /\ UNCHANGED <<running, feed, batches, pending, attempt, buckets, stepped, hushed, fate, reported>>

(* Time.  Beyond a full bucket, and beyond what a clock set back could     *)
(* bring back, it makes no difference.                                     *)
Tick ==
  /\ running
  /\ since' = [c \in ChatSet |-> AtMost(since[c] + 1, Cap + Left)]
  /\ mutes' = [r \in Rules \cup {All} |-> AtLeast(mutes[r] - 1, -Left)]
  /\ debt' = [c \in ChatSet |-> AtLeast(debt[c] - 1, 0)]
  /\ UNCHANGED <<running, feed, batches, pending, attempt, tokens, stepped, hushed, fate, reported>>

(* The wall clock is set back: a mute that was over may run again. *)
SetBack ==
  /\ running /\ ~stepped
  /\ stepped' = TRUE
  /\ since' = [c \in ChatSet |-> since[c] - Back]
  /\ mutes' = [r \in Rules \cup {All} |-> mutes[r] + Back]
  /\ UNCHANGED <<running, feed, batches, pending, attempt, tokens, debt, hushed, fate, reported>>

Gone == ~running /\ UNCHANGED vars

AlertLoop == Receive \/ Collect \/ Cut \/ Compose \/ Take \/ Wait \/ Sent \/ Throttled \/ Refused

Next ==
  \/ Notify \/ Count \/ Exit
  \/ AlertLoop
  \/ Mute \/ Unmute
  \/ Tick \/ SetBack \/ Gone

Spec == Init /\ [][Next]_vars

(* The threads run and time goes on.  Nobody is obliged to raise notices,  *)
(* to mute or to stay.                                                     *)
FairSpec == Spec /\ WF_vars(AlertLoop) /\ WF_vars(Count) /\ WF_vars(Tick)

-----------------------------------------------------------------------------
(* Every notice has one fate in each chat: it waits in the queue, the      *)
(* batch or a message, was dropped at a full queue, muted, sent, or failed *)
(* to be.  None goes missing and none is sent twice, though each chat may  *)
(* be at a different message and try.                                      *)
Collected == Ids(batch) \cup kept
EachHasOneFate ==
  \A c \in ChatSet :
    LET places == <<Ids(queue), Collected, dropped, hushed, told[c], failed[c]>> \o
                  [i \in DOMAIN pending |-> IF pending[i].chat = c THEN pending[i].text.ids ELSE {}]
    IN  /\ UNION ToSet(places) = 1 .. raised
        /\ \A i, j \in DOMAIN places : i # j => places[i] \cap places[j] = {}

(* A dropped notice is counted: the counter, the counts that went into     *)
(* messages and the one about to be made add up to the notices dropped,    *)
(* though the counter is taken while notices find the queue full, and even *)
(* when all of a batch is muted.                                           *)
DroppedCounted == Cardinality(dropped) = lost + reported + (IF counting THEN 1 ELSE 0)

(* In no stretch of time are more messages begun for a chat than its       *)
(* bucket holds and the time fills, wherever the bucket is looked at and   *)
(* though the wall clock is set back.                                      *)
RateKept == \A c \in ChatSet : debt[c] <= Cap

(* The watch raises only so much: in the end the alert thread is done with *)
(* all that was queued, unless the program ends first; and what was lost   *)
(* is told with the alerts that wait by then.  (A loss that is counted     *)
(* after the last alert was taken waits for the next one.)                 *)
Drains ==
  /\ <>[](running => queue = <<>> /\ batch = <<>> /\ ~cut /\ pending = <<>> /\ ~counting)
  /\ lost > 0 /\ (queue # <<>> \/ batch # <<>> \/ cut) ~> lost = 0 \/ ~running
=============================================================================
