--------------------------- MODULE TelegramProofs ---------------------------
(***************************************************************************)
(* The promises of the two threads that talk to Telegram.  Of the alert    *)
(* thread, for every rate, queue, batch size and number of notices: a chat *)
(* never gets more than its bucket allows, every dropped notice is         *)
(* counted, and each notice has one fate per chat.  Of the command thread, *)
(* at the end: for any updates and any number of restarts and failures,    *)
(* each update is handled once and an older run's not at all.              *)
(***************************************************************************)
EXTENDS Alerts, Bot, FiniteSetTheorems, SequenceTheorems, TLAPS

-----------------------------------------------------------------------------
(* RateKept is not inductive: what a bucket holds by now, and not only     *)
(* what was written down, is what may still be begun.                      *)
Budget ==
  /\ tokens \in [ChatSet -> 0 .. Cap]
  /\ since \in [ChatSet -> Int]
  /\ debt \in [ChatSet -> Nat]
  /\ stepped \in BOOLEAN
  /\ \A c \in ChatSet : debt[c] + Filled(c) <= Cap

(* A bucket holds a number of ticks. *)
LEMMA CapNat == Cap \in Nat /\ Unit \in Nat \ {0} /\ Back \in Nat
<1>1. PerMinute \in Nat /\ Unit \in Nat /\ Back \in Nat /\ Unit # 0
  BY AlertsAssumption
<1>2. \A m, n \in Nat : m * n \in Nat
  OBVIOUS
<1> QED BY <1>1, <1>2 DEF Cap

(* It holds no more than its cap and no less than was written down.        *)
LEMMA FilledBounds ==
  ASSUME NEW c \in ChatSet, Budget
  PROVE  /\ Filled(c) \in 0 .. Cap
         /\ Filled(c) >= tokens[c]
  BY CapNat DEF Budget, Filled, AtMost, AtLeast

(* At first every bucket is full and nothing was begun.                    *)
LEMMA BudgetInit == Init => Budget
<1> SUFFICES ASSUME Init PROVE Budget
  OBVIOUS
<1>1. /\ tokens = [c \in ChatSet |-> Cap] /\ since = [c \in ChatSet |-> 0]
      /\ debt = [c \in ChatSet |-> 0] /\ stepped = FALSE
  BY DEF Init
<1>2. ASSUME NEW c \in ChatSet PROVE debt[c] + Filled(c) <= Cap
  BY CapNat, <1>1 DEF Filled, AtMost, AtLeast
<1>3. Cap \in 0 .. Cap
  BY CapNat
<1>4. tokens \in [ChatSet -> 0 .. Cap]
  BY <1>1, <1>3
<1>5. since \in [ChatSet -> Int]
  BY <1>1
<1>6. debt \in [ChatSet -> Nat]
  BY <1>1
<1>7. stepped \in BOOLEAN
  BY <1>1
<1> QED BY <1>2, <1>4, <1>5, <1>6, <1>7 DEF Budget

(* A message begun moves a unit from the bucket to the debt, a look moves  *)
(* what has filled into it, time pays back no faster than it fills, and a  *)
(* clock set back fills nothing.                                           *)
LEMMA BudgetStep == Budget /\ [Next]_vars => Budget'
<1> SUFFICES ASSUME Budget, [Next]_vars PROVE Budget'
  OBVIOUS
<1> USE CapNat
<1>0. ASSUME UNCHANGED <<buckets, stepped>> PROVE Budget'
  BY <1>0 DEF Budget, Filled, AtMost, AtLeast, buckets
<1>1. CASE Take
  <2> DEFINE c == Head(pending).chat
  <2>1. /\ Filled(c) >= Unit
        /\ tokens' = [tokens EXCEPT ![c] = Filled(c) - Unit]
        /\ since' = [since EXCEPT ![c] = 0]
        /\ debt' = [debt EXCEPT ![c] = @ + Unit]
        /\ stepped' = stepped
    BY <1>1 DEF Take, clock
  <2> HIDE DEF c
  <2>2. ASSUME NEW d \in ChatSet, d = c
        PROVE  /\ tokens'[d] \in 0 .. Cap /\ tokens'[d] = Filled(d) - Unit
               /\ since'[d] = 0
               /\ debt'[d] = debt[d] + Unit
    BY <2>1, <2>2, FilledBounds DEF Budget
  <2>3. ASSUME NEW d \in ChatSet, d # c
        PROVE  tokens'[d] = tokens[d] /\ since'[d] = since[d] /\ debt'[d] = debt[d]
    BY <2>1, <2>3 DEF Budget
  <2>4. ASSUME NEW d \in ChatSet
        PROVE  /\ tokens'[d] \in 0 .. Cap /\ since'[d] \in Int /\ debt'[d] \in Nat
               /\ debt'[d] + Filled(d)' <= Cap
    <3>1. CASE d = c
      BY <3>1, <2>2, FilledBounds DEF Budget, Filled, AtMost, AtLeast
    <3>2. CASE d # c
      BY <3>2, <2>3 DEF Budget, Filled, AtMost, AtLeast
    <3> QED BY <3>1, <3>2
  <2>5. /\ tokens' = [d \in ChatSet |-> tokens'[d]]
        /\ since' = [d \in ChatSet |-> since'[d]]
        /\ debt' = [d \in ChatSet |-> debt'[d]]
    BY <2>1 DEF Budget
  <2>6. /\ tokens' \in [ChatSet -> 0 .. Cap] /\ since' \in [ChatSet -> Int]
        /\ debt' \in [ChatSet -> Nat]
    BY <2>4, <2>5
  <2> QED BY <2>1, <2>4, <2>6 DEF Budget
<1>2. CASE Wait
  <2> DEFINE c == Head(pending).chat
  <2>1. /\ tokens' = [tokens EXCEPT ![c] = Filled(c)]
        /\ since' = [since EXCEPT ![c] = 0]
        /\ debt' = debt /\ stepped' = stepped
    BY <1>2 DEF Wait, clock
  <2> HIDE DEF c
  <2>2. ASSUME NEW d \in ChatSet
        PROVE  /\ tokens'[d] \in 0 .. Cap /\ since'[d] \in Int
               /\ debt'[d] + Filled(d)' <= Cap
    <3>1. CASE d = c
      <4>1. tokens'[d] = Filled(d) /\ since'[d] = 0
        BY <2>1, <3>1 DEF Budget
      <4> QED BY <2>1, <4>1, FilledBounds DEF Budget, Filled, AtMost, AtLeast
    <3>2. CASE d # c
      <4>1. tokens'[d] = tokens[d] /\ since'[d] = since[d]
        BY <2>1, <3>2 DEF Budget
      <4> QED BY <2>1, <4>1 DEF Budget, Filled, AtMost, AtLeast
    <3> QED BY <3>1, <3>2
  <2>3. /\ tokens' = [d \in ChatSet |-> tokens'[d]]
        /\ since' = [d \in ChatSet |-> since'[d]]
    BY <2>1 DEF Budget
  <2>4. tokens' \in [ChatSet -> 0 .. Cap] /\ since' \in [ChatSet -> Int]
    BY <2>2, <2>3
  <2> QED BY <2>1, <2>2, <2>4 DEF Budget
<1>3. CASE Tick
  <2>1. /\ since' = [c \in ChatSet |-> AtMost(since[c] + 1, Cap + Left)]
        /\ debt' = [c \in ChatSet |-> AtLeast(debt[c] - 1, 0)]
        /\ tokens' = tokens /\ stepped' = stepped
    BY <1>3 DEF Tick
  <2>2. Left \in Nat
    BY DEF Left
  <2>3. since' \in [ChatSet -> Int] /\ debt' \in [ChatSet -> Nat]
    BY <2>1, <2>2 DEF Budget, AtMost, AtLeast
  <2>4. ASSUME NEW c \in ChatSet PROVE debt'[c] + Filled(c)' <= Cap
    BY <2>1, <2>2 DEF Budget, Filled, AtMost, AtLeast
  <2> QED BY <2>1, <2>3, <2>4 DEF Budget
<1>4. CASE SetBack
  <2>1. /\ since' = [c \in ChatSet |-> since[c] - Back]
        /\ tokens' = tokens /\ debt' = debt /\ stepped' = TRUE
    BY <1>4 DEF SetBack
  <2>2. ASSUME NEW c \in ChatSet PROVE debt'[c] + Filled(c)' <= Cap
    BY <2>1 DEF Budget, Filled, AtMost, AtLeast
  <2> QED BY <2>1, <2>2 DEF Budget
<1>5. CASE Notify BY <1>0, <1>5 DEF Notify, clock
<1>6. CASE Exit BY <1>0, <1>6 DEF Exit, clock
<1>7. CASE Receive BY <1>0, <1>7 DEF Receive, clock
<1>8. CASE Collect BY <1>0, <1>8 DEF Collect, clock
<1>9. CASE Cut BY <1>0, <1>9 DEF Cut, clock
<1>10. CASE Sent BY <1>0, <1>10 DEF Sent, clock
<1>11. CASE Throttled BY <1>0, <1>11 DEF Throttled, clock
<1>12. CASE Refused BY <1>0, <1>12 DEF Refused, clock
<1>13. CASE Mute BY <1>0, <1>13 DEF Mute
<1>14. CASE Unmute BY <1>0, <1>14 DEF Unmute
<1>15. CASE Gone \/ UNCHANGED vars BY <1>0, <1>15 DEF Gone, vars, clock
<1>16. CASE Count BY <1>0, <1>16 DEF Count, clock
<1>17. CASE Compose BY <1>0, <1>17 DEF Compose, clock
<1> QED
  BY <1>1, <1>2, <1>3, <1>4, <1>5, <1>6, <1>7, <1>8, <1>9, <1>10, <1>11,
     <1>12, <1>13, <1>14, <1>15, <1>16, <1>17 DEF Next, AlertLoop

(* RateLimiter: no chat is ever sent more than its bucket holds and the    *)
(* time since has filled, whatever the chats, the rate and the clock.      *)
THEOREM RateAlwaysKept == Spec => []RateKept
<1>1. Budget => RateKept
  <2> SUFFICES ASSUME Budget, NEW c \in ChatSet PROVE debt[c] <= Cap
    BY DEF RateKept
  <2>1. Cap \in Nat /\ Filled(c) \in 0 .. Cap
    BY CapNat, FilledBounds
  <2> QED BY <2>1 DEF Budget
<1> QED BY BudgetInit, BudgetStep, <1>1, PTL DEF Spec

-----------------------------------------------------------------------------
(* The dropped notices are among those raised, so the next one is new.     *)
Counted ==
  /\ raised \in Nat /\ lost \in Nat /\ reported \in Nat /\ counting \in BOOLEAN
  /\ dropped \subseteq 1 .. raised
  /\ DroppedCounted

(* Nothing is counted at first.                                            *)
LEMMA CountedInit == Init => Counted
<1> SUFFICES ASSUME Init PROVE Counted
  OBVIOUS
<1>1. raised = 0 /\ lost = 0 /\ reported = 0 /\ counting = FALSE /\ dropped = {}
  BY DEF Init
<1>2. Cardinality(dropped) = 0
  BY <1>1, FS_EmptySet
<1>3. (IF counting THEN 1 ELSE 0) = 0
  BY <1>1
<1>4. DroppedCounted
  BY <1>1, <1>2, <1>3 DEF DroppedCounted
<1>5. counting \in BOOLEAN
  BY <1>1
<1>6. dropped \subseteq 1 .. raised
  BY <1>1
<1> QED BY <1>1, <1>4, <1>5, <1>6 DEF Counted

(* A notice that finds the queue full is about to be counted, then it is,  *)
(* and messages that are written take the counter with them.               *)
LEMMA CountedStep == Counted /\ [Next]_vars => Counted'
<1> SUFFICES ASSUME Counted, [Next]_vars PROVE Counted'
  OBVIOUS
<1>0. ASSUME UNCHANGED <<raised, lost, counting, reported, dropped>> PROVE Counted'
  BY <1>0 DEF Counted, DroppedCounted
<1>1. CASE Notify
  <2>1. raised' = raised + 1 /\ reported' = reported /\ lost' = lost /\ ~counting
    BY <1>1 DEF Notify
  <2>2. CASE Len(queue) < QueueCap
    <3>1. counting' = counting /\ dropped' = dropped
      BY <1>1, <2>2 DEF Notify
    <3> QED BY <2>1, <3>1 DEF Counted, DroppedCounted
  <2>3. CASE ~(Len(queue) < QueueCap)
    <3>1. counting' = TRUE /\ dropped' = dropped \cup {raised + 1}
      BY <1>1, <2>3 DEF Notify
    <3>2. raised + 1 \notin dropped
      BY DEF Counted
    <3>3. IsFiniteSet(dropped)
      <4>1. 0 \in Int /\ 1 \in Int /\ raised \in Int
        BY DEF Counted
      <4>2. IsFiniteSet(1 .. raised)
        BY <4>1, FS_Interval
      <4> QED BY <4>2, FS_Subset DEF Counted
    <3>4. Cardinality(dropped') = Cardinality(dropped) + 1
      BY <3>1, <3>2, <3>3, FS_AddElement
    <3> QED BY <2>1, <3>1, <3>4 DEF Counted, DroppedCounted
  <2> QED BY <2>2, <2>3
<1>2. CASE Compose
  <2>1. /\ lost' = 0 /\ reported' = reported + lost
        /\ raised' = raised /\ dropped' = dropped /\ counting' = counting
    BY <1>2 DEF Compose
  <2> QED BY <2>1 DEF Counted, DroppedCounted
<1>3. CASE Count
  <2>1. /\ counting /\ ~counting' /\ counting' \in BOOLEAN /\ lost' = lost + 1
        /\ reported' = reported /\ raised' = raised /\ dropped' = dropped
    BY <1>3 DEF Count
  <2> QED BY <2>1 DEF Counted, DroppedCounted
<1>4. CASE Receive BY <1>0, <1>4 DEF Receive
<1>5. CASE Collect BY <1>0, <1>5 DEF Collect
<1>6. CASE Take BY <1>0, <1>6 DEF Take, feed
<1>7. CASE Wait BY <1>0, <1>7 DEF Wait, feed
<1>8. CASE Sent BY <1>0, <1>8 DEF Sent, feed
<1>9. CASE Throttled BY <1>0, <1>9 DEF Throttled, feed
<1>10. CASE Refused BY <1>0, <1>10 DEF Refused, feed
<1>11. CASE Mute BY <1>0, <1>11 DEF Mute, feed
<1>12. CASE Unmute BY <1>0, <1>12 DEF Unmute, feed
<1>13. CASE Tick BY <1>0, <1>13 DEF Tick, feed
<1>14. CASE SetBack BY <1>0, <1>14 DEF SetBack, feed
<1>15. CASE Gone \/ UNCHANGED vars BY <1>0, <1>15 DEF Gone, vars, feed
<1>16. CASE Exit BY <1>0, <1>16 DEF Exit, feed
<1>17. CASE Cut BY <1>0, <1>17 DEF Cut, feed
<1> QED
  BY <1>1, <1>2, <1>3, <1>4, <1>5, <1>6, <1>7, <1>8, <1>9, <1>10, <1>11,
     <1>12, <1>13, <1>14, <1>15, <1>16, <1>17 DEF Next, AlertLoop

(* AlertNotifier: the counter, what messages told of it and the count      *)
(* about to be made add up to the notices that found the queue full,       *)
(* whatever its capacity.                                                  *)
THEOREM DroppedAlwaysCounted == Spec => []DroppedCounted
<1>1. Counted => DroppedCounted
  BY DEF Counted
<1> QED BY CountedInit, CountedStep, <1>1, PTL DEF Spec

-----------------------------------------------------------------------------
(* A notice and a message.                                                 *)
Note == [id : Nat, rule : Rules]
Text == [ids : SUBSET Nat, lost : Nat]
Message == [chat : ChatSet, text : Text]

(* A notice waits in one of some messages to a chat, and in one only.      *)
Carries(m, c, n) == m.chat = c /\ n \in m.text.ids
Waits(S, c, n) == \E i \in DOMAIN S : Carries(S[i], c, n)
Single(S, c, n) == \A i, j \in DOMAIN S : Carries(S[i], c, n) /\ Carries(S[j], c, n) => i = j

(* No two notices of a queue are the same.                                 *)
Different(s) == \A i, j \in DOMAIN s : s[i].id = s[j].id => i = j

(* The ids of some notices.                                                *)
LEMMA IdsIs ==
  ASSUME NEW s, NEW n
  PROVE  n \in Ids(s) <=> \E i \in DOMAIN s : n = s[i].id
  BY DEF Ids, ToSet

(* A notice that is added to them.                                         *)
LEMMA IdsAppended ==
  ASSUME NEW s \in Seq(Note), NEW x \in Note, NEW n
  PROVE  n \in Ids(Append(s, x)) <=> n \in Ids(s) \/ n = x.id
<1> DEFINE t == Append(s, x)
           k == Len(s)
<1>1. /\ k \in Nat /\ DOMAIN s = 1 .. k /\ DOMAIN t = 1 .. k + 1
      /\ \A i \in 1 .. k : t[i] = s[i]
      /\ t[k + 1] = x
  OBVIOUS
<1> HIDE DEF t, k
<1>2. (\E i \in DOMAIN t : n = t[i].id) <=> (\E i \in DOMAIN s : n = s[i].id) \/ n = x.id
  <2>1. ASSUME NEW i \in DOMAIN t, n = t[i].id PROVE (\E j \in DOMAIN s : n = s[j].id) \/ n = x.id
    <3>1. i \in 1 .. k \/ i = k + 1
      BY <1>1
    <3> QED BY <2>1, <3>1, <1>1
  <2>2. ASSUME NEW i \in DOMAIN s, n = s[i].id PROVE \E j \in DOMAIN t : n = t[j].id
    <3>1. i \in DOMAIN t /\ t[i] = s[i]
      BY <1>1
    <3> QED BY <2>2, <3>1
  <2>3. k + 1 \in DOMAIN t
    BY <1>1
  <2> QED BY <2>1, <2>2, <2>3, <1>1
<1>3. n \in Ids(t) <=> n \in Ids(s) \/ n = x.id
  <2>1. n \in Ids(t) <=> \E i \in DOMAIN t : n = t[i].id
    BY IdsIs
  <2>2. n \in Ids(s) <=> \E i \in DOMAIN s : n = s[i].id
    BY IdsIs
  <2> QED BY <2>1, <2>2, <1>2
<1> QED BY <1>3 DEF t

(* The new notice is of no other's id.                                     *)
LEMMA DifferentAppended ==
  ASSUME NEW s \in Seq(Note), NEW x \in Note, Different(s), x.id \notin Ids(s)
  PROVE  Different(Append(s, x))
<1> DEFINE t == Append(s, x)
           k == Len(s)
<1>1. /\ k \in Nat /\ DOMAIN s = 1 .. k /\ DOMAIN t = 1 .. k + 1
      /\ \A i \in 1 .. k : t[i] = s[i]
      /\ t[k + 1] = x
  OBVIOUS
<1>2. \A i \in DOMAIN s : s[i].id # x.id
  BY IdsIs
<1> HIDE DEF t, k
<1>3. ASSUME NEW i \in DOMAIN t, NEW j \in DOMAIN t, t[i].id = t[j].id PROVE i = j
  <2>1. (i \in 1 .. k \/ i = k + 1) /\ (j \in 1 .. k \/ j = k + 1)
    BY <1>1
  <2> QED BY <2>1, <1>1, <1>2, <1>3 DEF Different
<1>4. Different(t)
  BY <1>3 DEF Different
<1> QED BY <1>4 DEF t

(* The notice at the head is taken out, and not a second one like it.      *)
LEMMA IdsTaken ==
  ASSUME NEW s \in Seq(Note), s # <<>>, Different(s), NEW n
  PROVE  /\ Head(s) \in Note /\ Tail(s) \in Seq(Note) /\ Different(Tail(s))
         /\ n \in Ids(s) <=> n = Head(s).id \/ n \in Ids(Tail(s))
         /\ Head(s).id \notin Ids(Tail(s))
<1> DEFINE t == Tail(s)
           k == Len(s)
<1>1. /\ k \in Nat /\ k >= 1 /\ DOMAIN s = 1 .. k /\ DOMAIN t = 1 .. k - 1
      /\ \A i \in 1 .. k - 1 : t[i] = s[i + 1]
      /\ Head(s) = s[1] /\ s[1] \in Note /\ t \in Seq(Note)
  OBVIOUS
<1> HIDE DEF t, k
<1>2. \A i \in DOMAIN t : i + 1 \in DOMAIN s /\ t[i] = s[i + 1] /\ i \in Nat /\ i + 1 # 1
  BY <1>1
<1>3. \A i \in DOMAIN s : i = 1 \/ (i - 1 \in DOMAIN t /\ s[i] = t[i - 1])
  <2> TAKE i \in DOMAIN s
  <2>1. CASE i # 1
    <3>1. i - 1 \in 1 .. k - 1 /\ (i - 1) + 1 = i
      BY <2>1, <1>1
    <3> QED BY <3>1, <1>1
  <2> QED BY <2>1
<1>4. Different(t)
  <2> SUFFICES ASSUME NEW i \in DOMAIN t, NEW j \in DOMAIN t, t[i].id = t[j].id PROVE i = j
    BY DEF Different
  <2>1. i + 1 = j + 1
    BY <1>2 DEF Different
  <2> QED BY <2>1, <1>2
<1>5. \A i \in DOMAIN t : t[i].id # s[1].id
  <2>1. 1 \in DOMAIN s
    BY <1>1
  <2> QED BY <2>1, <1>2 DEF Different
<1>6. (\E i \in DOMAIN s : n = s[i].id) <=> n = s[1].id \/ \E i \in DOMAIN t : n = t[i].id
  <2>1. 1 \in DOMAIN s
    BY <1>1
  <2> QED BY <2>1, <1>2, <1>3
<1>7. n \in Ids(s) <=> n = s[1].id \/ n \in Ids(t)
  BY <1>6, IdsIs
<1>8. s[1].id \notin Ids(t)
  BY <1>5, IdsIs
<1> QED BY <1>1, <1>4, <1>7, <1>8 DEF t

(* The message at the head is taken out.                                   *)
LEMMA WaitsTaken ==
  ASSUME NEW p \in Seq(Message), p # <<>>, NEW c, NEW n, Single(p, c, n)
  PROVE  /\ Head(p) \in Message /\ Tail(p) \in Seq(Message) /\ Single(Tail(p), c, n)
         /\ Waits(p, c, n) <=> Carries(Head(p), c, n) \/ Waits(Tail(p), c, n)
         /\ ~(Carries(Head(p), c, n) /\ Waits(Tail(p), c, n))
<1> DEFINE t == Tail(p)
           k == Len(p)
<1>1. /\ k \in Nat /\ k >= 1 /\ DOMAIN p = 1 .. k /\ DOMAIN t = 1 .. k - 1
      /\ \A i \in 1 .. k - 1 : t[i] = p[i + 1]
      /\ Head(p) = p[1] /\ p[1] \in Message /\ t \in Seq(Message)
  OBVIOUS
<1> HIDE DEF t, k
<1>2. \A i \in DOMAIN t : i + 1 \in DOMAIN p /\ t[i] = p[i + 1] /\ i \in Nat /\ i + 1 # 1
  BY <1>1
<1>3. \A i \in DOMAIN p : i = 1 \/ (i - 1 \in DOMAIN t /\ p[i] = t[i - 1])
  <2> TAKE i \in DOMAIN p
  <2>1. CASE i # 1
    <3>1. i - 1 \in 1 .. k - 1 /\ (i - 1) + 1 = i
      BY <2>1, <1>1
    <3> QED BY <3>1, <1>1
  <2> QED BY <2>1
<1>4. Single(t, c, n)
  <2> SUFFICES ASSUME NEW i \in DOMAIN t, NEW j \in DOMAIN t, Carries(t[i], c, n), Carries(t[j], c, n)
               PROVE  i = j
    BY DEF Single
  <2>1. i + 1 = j + 1
    BY <1>2 DEF Single
  <2> QED BY <2>1, <1>2
<1>5. \A i \in DOMAIN t : ~(Carries(t[i], c, n) /\ Carries(p[1], c, n))
  <2>1. 1 \in DOMAIN p
    BY <1>1
  <2> QED BY <2>1, <1>2 DEF Single
<1>6. Waits(p, c, n) <=> Carries(p[1], c, n) \/ Waits(t, c, n)
  <2>1. 1 \in DOMAIN p
    BY <1>1
  <2> QED BY <2>1, <1>2, <1>3 DEF Waits
<1>7. ~(Carries(p[1], c, n) /\ Waits(t, c, n))
  BY <1>5 DEF Waits
<1> QED BY <1>1, <1>4, <1>6, <1>7 DEF t

(* No chat is listed twice.                                                *)
Distinct == \A i, j \in DOMAIN Chats : Chats[i] = Chats[j] => i = j

(* A message to every chat reaches each of them once.                      *)
LEMMA ToChatsIs ==
  ASSUME Distinct, NEW text \in Text, NEW c \in ChatSet, NEW n
  PROVE  /\ ToChats(text) \in Seq(Message)
         /\ Waits(ToChats(text), c, n) <=> n \in text.ids
         /\ Single(ToChats(text), c, n)
<1> DEFINE p == ToChats(text)
<1>1. Chats \in Seq(ChatSet) /\ Len(Chats) \in Nat /\ DOMAIN Chats = 1 .. Len(Chats)
  BY AlertsAssumption DEF ChatSet
<1>2. /\ DOMAIN p = 1 .. Len(Chats)
      /\ \A j \in 1 .. Len(Chats) : p[j] = [chat |-> Chats[j], text |-> text]
  BY <1>1 DEF ToChats
<1>3. \A j \in 1 .. Len(Chats) : p[j] \in Message /\ p[j].chat = Chats[j] /\ p[j].text = text
  BY <1>1, <1>2 DEF Message
<1>4. p \in Seq(Message)
  <2>1. p = [j \in 1 .. Len(Chats) |-> p[j]]
    BY <1>1 DEF ToChats
  <2> HIDE DEF p
  <2> QED BY <2>1, <1>1, <1>3
<1> HIDE DEF p
<1>5. PICK j \in 1 .. Len(Chats) : Chats[j] = c
  BY <1>1 DEF ChatSet, Range
<1>6. Waits(p, c, n) <=> n \in text.ids
  BY <1>2, <1>3, <1>5 DEF Waits, Carries
<1>7. Single(p, c, n)
  BY <1>1, <1>2, <1>3 DEF Single, Carries, Distinct
<1> QED BY <1>4, <1>6, <1>7 DEF p

(* Two messages, one after the other.                                      *)
LEMMA WaitsBoth ==
  ASSUME NEW p \in Seq(Message), NEW q \in Seq(Message), NEW c, NEW n
  PROVE  /\ p \o q \in Seq(Message)
         /\ Waits(p \o q, c, n) <=> Waits(p, c, n) \/ Waits(q, c, n)
         /\ Single(p, c, n) /\ Single(q, c, n) /\ ~(Waits(p, c, n) /\ Waits(q, c, n))
              => Single(p \o q, c, n)
<1> DEFINE t == p \o q
           k == Len(p)
           l == Len(q)
<1>1. /\ k \in Nat /\ l \in Nat /\ t \in Seq(Message)
      /\ DOMAIN p = 1 .. k /\ DOMAIN q = 1 .. l /\ DOMAIN t = 1 .. k + l
      /\ \A i \in 1 .. k : t[i] = p[i]
      /\ \A i \in 1 .. l : t[k + i] = q[i]
  OBVIOUS
<1> HIDE DEF t, k, l
<1>2. \A i \in DOMAIN t : (i \in DOMAIN p /\ t[i] = p[i]) \/ (i - k \in DOMAIN q /\ t[i] = q[i - k] /\ i \in Nat)
  <2> TAKE i \in DOMAIN t
  <2>1. CASE i <= k
    BY <2>1, <1>1
  <2>2. CASE i > k
    <3>1. i - k \in 1 .. l /\ k + (i - k) = i
      BY <2>2, <1>1
    <3>2. t[k + (i - k)] = q[i - k]
      BY <3>1, <1>1
    <3> QED BY <3>1, <3>2, <1>1
  <2> QED BY <2>1, <2>2, <1>1
<1>3. Waits(t, c, n) => Waits(p, c, n) \/ Waits(q, c, n)
  BY <1>2 DEF Waits
<1>4. Waits(p, c, n) => Waits(t, c, n)
  <2>1. \A i \in DOMAIN p : i \in DOMAIN t /\ t[i] = p[i]
    BY <1>1
  <2> QED BY <2>1 DEF Waits
<1>5. Waits(q, c, n) => Waits(t, c, n)
  <2>1. \A i \in DOMAIN q : k + i \in DOMAIN t /\ t[k + i] = q[i]
    BY <1>1
  <2> QED BY <2>1 DEF Waits
<1>6. ASSUME Single(p, c, n), Single(q, c, n), ~(Waits(p, c, n) /\ Waits(q, c, n)) PROVE Single(t, c, n)
  <2> SUFFICES ASSUME NEW i \in DOMAIN t, NEW j \in DOMAIN t, Carries(t[i], c, n), Carries(t[j], c, n)
               PROVE  i = j
    BY DEF Single
  <2>1. CASE i \in DOMAIN p /\ t[i] = p[i] /\ j \in DOMAIN p /\ t[j] = p[j]
    BY <2>1, <1>6 DEF Single
  <2>2. CASE i - k \in DOMAIN q /\ t[i] = q[i - k] /\ j - k \in DOMAIN q /\ t[j] = q[j - k] /\ i \in Nat /\ j \in Nat
    <3>1. i - k = j - k
      BY <2>2, <1>6 DEF Single
    <3> QED BY <3>1, <2>2, <1>1
  <2>3. CASE (i \in DOMAIN p /\ t[i] = p[i] /\ j - k \in DOMAIN q /\ t[j] = q[j - k])
          \/ (j \in DOMAIN p /\ t[j] = p[j] /\ i - k \in DOMAIN q /\ t[i] = q[i - k])
    BY <2>3, <1>6 DEF Waits
  <2> QED BY <2>1, <2>2, <2>3, <1>2
<1> QED BY <1>1, <1>3, <1>4, <1>5, <1>6 DEF t

(* format_alerts: every notice is in one message to each chat.             *)
LEMMA MessagesIs ==
  ASSUME Distinct, NEW ids \in SUBSET Nat, NEW m \in Nat, NEW p \in Messages(ids, m)
  PROVE  /\ p \in Seq(Message)
         /\ \A c \in ChatSet : \A n : (Waits(p, c, n) <=> n \in ids) /\ Single(p, c, n)
<1>1. CASE p = ToChats([ids |-> ids, lost |-> m])
  <2> DEFINE text == [ids |-> ids, lost |-> m]
  <2>1. text \in Text /\ text.ids = ids
    BY DEF Text
  <2> HIDE DEF text
  <2>2. ToChats(text) \in Seq(Message)
    <3>1. CASE ChatSet = {}
      <4>1. Chats \in Seq(ChatSet)
        BY AlertsAssumption DEF ChatSet
      <4>2. DOMAIN Chats = {}
        BY <4>1, <3>1
      <4>3. ToChats(text) = <<>>
        BY <4>2 DEF ToChats
      <4> QED BY <4>3
    <3>2. CASE ChatSet # {}
      BY <3>2, <2>1, ToChatsIs
    <3> QED BY <3>1, <3>2
  <2>3. \A c \in ChatSet : \A n : (Waits(ToChats(text), c, n) <=> n \in ids) /\ Single(ToChats(text), c, n)
    BY <2>1, ToChatsIs
  <2> QED BY <2>2, <2>3, <1>1 DEF text
<1>2. CASE \E k \in ids : p = ToChats([ids |-> {i \in ids : i <= k}, lost |-> 0])
                               \o ToChats([ids |-> {i \in ids : i > k}, lost |-> m])
  <2>1. PICK k \in ids : p = ToChats([ids |-> {i \in ids : i <= k}, lost |-> 0])
                               \o ToChats([ids |-> {i \in ids : i > k}, lost |-> m])
    BY <1>2
  <2> DEFINE one == [ids |-> {i \in ids : i <= k}, lost |-> 0]
             two == [ids |-> {i \in ids : i > k}, lost |-> m]
  <2>2. one \in Text /\ one.ids = {i \in ids : i <= k}
    BY DEF Text
  <2>3. two \in Text /\ two.ids = {i \in ids : i > k}
    BY DEF Text
  <2>4. p = ToChats(one) \o ToChats(two)
    BY <2>1
  <2>5. \A n : (n \in ids <=> n \in one.ids \/ n \in two.ids) /\ ~(n \in one.ids /\ n \in two.ids)
    <3> TAKE n
    <3>1. n \in ids => n \in Nat /\ k \in Nat
      OBVIOUS
    <3>2. n \in one.ids <=> n \in ids /\ n <= k
      BY <2>2
    <3>3. n \in two.ids <=> n \in ids /\ n > k
      BY <2>3
    <3> HIDE DEF one, two
    <3> QED BY <3>1, <3>2, <3>3
  <2> HIDE DEF one, two
  <2>6. ToChats(one) \in Seq(Message) /\ ToChats(two) \in Seq(Message)
    <3>1. CASE ChatSet = {}
      <4>1. Chats \in Seq(ChatSet)
        BY AlertsAssumption DEF ChatSet
      <4>2. DOMAIN Chats = {}
        BY <4>1, <3>1
      <4>3. ToChats(one) = <<>> /\ ToChats(two) = <<>>
        BY <4>2 DEF ToChats
      <4> QED BY <4>3
    <3>2. CASE ChatSet # {}
      BY <3>2, <2>2, <2>3, ToChatsIs
    <3> QED BY <3>1, <3>2
  <2>7. p \in Seq(Message)
    BY <2>4, <2>6, WaitsBoth
  <2>8. ASSUME NEW c \in ChatSet, NEW n PROVE (Waits(p, c, n) <=> n \in ids) /\ Single(p, c, n)
    <3>1. /\ Waits(ToChats(one), c, n) <=> n \in one.ids
          /\ Single(ToChats(one), c, n)
      BY <2>2, ToChatsIs
    <3>2. /\ Waits(ToChats(two), c, n) <=> n \in two.ids
          /\ Single(ToChats(two), c, n)
      BY <2>3, ToChatsIs
    <3>3. /\ Waits(p, c, n) <=> Waits(ToChats(one), c, n) \/ Waits(ToChats(two), c, n)
          /\ Single(ToChats(one), c, n) /\ Single(ToChats(two), c, n)
               /\ ~(Waits(ToChats(one), c, n) /\ Waits(ToChats(two), c, n)) => Single(p, c, n)
      BY <2>4, <2>6, WaitsBoth
    <3> QED BY <3>1, <3>2, <3>3, <2>5
  <2> QED BY <2>7, <2>8
<1> QED BY <1>1, <1>2 DEF Messages

-----------------------------------------------------------------------------
(* What the variables hold.  A batch is collected, cut and written, and    *)
(* its messages are sent before the next one.                              *)
Shape ==
  /\ raised \in Nat /\ lost \in Nat /\ attempt \in Nat
  /\ cut \in BOOLEAN /\ kept \in SUBSET Nat
  /\ ~cut => kept = {}
  /\ cut => batch = <<>> /\ pending = <<>>
  /\ queue \in Seq(Note) /\ batch \in Seq(Note) /\ pending \in Seq(Message)
  /\ Different(queue) /\ Ids(queue) \subseteq 1 .. raised
  /\ attempt > 0 => pending # <<>>
  /\ batch # <<>> => pending = <<>>
  /\ told \in [ChatSet -> SUBSET Nat] /\ failed \in [ChatSet -> SUBSET Nat]

(* A number is that of a notice if it is in one of the seven places, and   *)
(* it is in no two of them.                                                *)
Fate(c, n) ==
  /\ n \in 1 .. raised <=>
       n \in Ids(queue) \/ n \in Collected \/ Waits(pending, c, n)
         \/ n \in dropped \/ n \in hushed \/ n \in told[c] \/ n \in failed[c]
  /\ n \in Ids(queue) =>
       n \notin Collected /\ ~Waits(pending, c, n)
         /\ n \notin dropped /\ n \notin hushed /\ n \notin told[c] /\ n \notin failed[c]
  /\ n \in Collected =>
       ~Waits(pending, c, n)
         /\ n \notin dropped /\ n \notin hushed /\ n \notin told[c] /\ n \notin failed[c]
  /\ Waits(pending, c, n) =>
       n \notin dropped /\ n \notin hushed /\ n \notin told[c] /\ n \notin failed[c]
  /\ n \in dropped => n \notin hushed /\ n \notin told[c] /\ n \notin failed[c]
  /\ n \in hushed => n \notin told[c] /\ n \notin failed[c]
  /\ n \in told[c] => n \notin failed[c]
  /\ Single(pending, c, n)

Fates == Shape /\ \A c \in ChatSet : \A n : Fate(c, n)

(* No notice, no place.                                                    *)
LEMMA FatesInit == Init => Fates
<1> SUFFICES ASSUME Init PROVE Fates
  OBVIOUS
<1>1. /\ raised = 0 /\ lost = 0 /\ attempt = 0 /\ queue = <<>> /\ batch = <<>> /\ pending = <<>>
      /\ cut = FALSE /\ kept = {}
      /\ dropped = {} /\ hushed = {}
      /\ told = [c \in ChatSet |-> {}] /\ failed = [c \in ChatSet |-> {}]
  BY DEF Init
<1>2. \A n : n \notin Ids(<<>>)
  BY IdsIs
<1>3. Ids(queue) = {} /\ Collected = {}
  BY <1>1, <1>2 DEF Collected
<1>4. Shape
  <2>1. Different(queue)
    BY <1>1 DEF Different
  <2>2. queue \in Seq(Note) /\ batch \in Seq(Note) /\ pending \in Seq(Message)
    BY <1>1
  <2>3. told \in [ChatSet -> SUBSET Nat] /\ failed \in [ChatSet -> SUBSET Nat]
    BY <1>1
  <2>4. raised \in Nat /\ lost \in Nat /\ attempt \in Nat /\ ~(attempt > 0)
    BY <1>1
  <2> QED BY <1>1, <1>3, <2>1, <2>2, <2>3, <2>4 DEF Shape
<1>5. ASSUME NEW c \in ChatSet, NEW n PROVE Fate(c, n)
  <2>1. ~Waits(pending, c, n) /\ Single(pending, c, n)
    BY <1>1 DEF Waits, Single
  <2>2. n \notin 1 .. raised
    BY <1>1
  <2>3. n \notin told[c] /\ n \notin failed[c]
    BY <1>1
  <2> QED BY <1>1, <1>3, <2>1, <2>2, <2>3 DEF Fate
<1> QED BY <1>4, <1>5 DEF Fates

(* AlertNotifier::notify: a new number, in the queue or dropped.           *)
LEMMA NotifyFates ==
  ASSUME Fates, Notify
  PROVE  Fates'
<1>0. raised \in Nat /\ lost \in Nat /\ queue \in Seq(Note) /\ Ids(queue) \subseteq 1 .. raised /\ Different(queue)
  BY DEF Fates, Shape
<1>1. /\ raised' = raised + 1 /\ UNCHANGED <<lost, attempt, batch, cut, kept, pending, hushed, told, failed>>
      /\ \/ /\ \E r \in Rules : queue' = Append(queue, [id |-> raised + 1, rule |-> r])
            /\ UNCHANGED dropped
         \/ dropped' = dropped \cup {raised + 1} /\ UNCHANGED queue
  BY DEF Notify, fate, batches
<1>2. \A n : n \in 1 .. raised + 1 <=> n \in 1 .. raised \/ n = raised + 1
  BY <1>0
<1>3. raised + 1 \notin 1 .. raised /\ raised + 1 \in Nat
  BY <1>0
<1>4. CASE \E r \in Rules : queue' = Append(queue, [id |-> raised + 1, rule |-> r]) /\ UNCHANGED dropped
  <2>1. PICK r \in Rules : queue' = Append(queue, [id |-> raised + 1, rule |-> r])
    BY <1>4
  <2> DEFINE x == [id |-> raised + 1, rule |-> r]
  <2>2. x \in Note /\ x.id = raised + 1
    BY <1>3 DEF Note
  <2>3. queue' = Append(queue, x)
    BY <2>1
  <2> HIDE DEF x
  <2>4. \A n : n \in Ids(queue') <=> n \in Ids(queue) \/ n = raised + 1
    BY <2>2, <2>3, <1>0, IdsAppended
  <2>5. Different(queue')
    BY <2>2, <2>3, <1>0, <1>3, DifferentAppended
  <2>6. queue' \in Seq(Note)
    BY <2>2, <2>3, <1>0
  <2>7. Ids(queue') \subseteq 1 .. raised'
    BY <2>4, <1>0, <1>1, <1>2
  <2>8. dropped' = dropped
    BY <1>4
  <2>9. Shape'
    BY <2>5, <2>6, <2>7, <2>8, <1>1, <1>3 DEF Fates, Shape
  <2>10. ASSUME NEW c \in ChatSet, NEW n PROVE Fate(c, n)'
    <3>1. Fate(c, n)
      BY DEF Fates
    <3>2. n \in Ids(queue)' <=> n \in Ids(queue) \/ n = raised + 1
      BY <2>4
    <3>3. n \in 1 .. raised' <=> n \in 1 .. raised \/ n = raised + 1
      BY <1>1, <1>2
    <3>4. Collected' = Collected
      BY <1>1 DEF Collected
    <3> QED BY <3>1, <3>2, <3>3, <3>4, <2>8, <1>1, <1>3 DEF Fate
  <2> QED BY <2>9, <2>10 DEF Fates
<1>5. CASE dropped' = dropped \cup {raised + 1} /\ UNCHANGED queue
  <2>1. Shape'
    BY <1>0, <1>1, <1>2, <1>3, <1>5 DEF Fates, Shape
  <2>2. ASSUME NEW c \in ChatSet, NEW n PROVE Fate(c, n)'
    <3>1. Fate(c, n)
      BY DEF Fates
    <3>2. n \in dropped' <=> n \in dropped \/ n = raised + 1
      BY <1>5
    <3>3. n \in 1 .. raised' <=> n \in 1 .. raised \/ n = raised + 1
      BY <1>1, <1>2
    <3>4. Collected' = Collected /\ Ids(queue)' = Ids(queue)
      BY <1>1, <1>5 DEF Collected
    <3> QED BY <3>1, <3>2, <3>3, <3>4, <1>1, <1>3 DEF Fate
  <2> QED BY <2>1, <2>2 DEF Fates
<1> QED BY <1>1, <1>4, <1>5

(* A notice goes from the queue into the batch.                            *)
LEMMA CollectFates ==
  ASSUME Fates, Receive \/ Collect
  PROVE  Fates'
<1>0. queue \in Seq(Note) /\ batch \in Seq(Note) /\ Different(queue) /\ Ids(queue) \subseteq 1 .. raised
  BY DEF Fates, Shape
<1>1. /\ queue # <<>> /\ queue' = Tail(queue) /\ batch' = Append(batch, Head(queue)) /\ pending = <<>> /\ ~cut
      /\ UNCHANGED <<raised, lost, attempt, cut, kept, pending, dropped, hushed, told, failed>>
  <2>1. CASE Receive
    <3>1. batch = <<>> /\ batch' = <<Head(queue)>>
      BY <2>1 DEF Receive
    <3>2. batch' = Append(batch, Head(queue))
      BY <3>1
    <3> QED BY <2>1, <3>2 DEF Receive, fate
  <2>2. CASE Collect
    BY <2>2 DEF Collect, fate, Fates, Shape
  <2> QED BY <2>1, <2>2
<1> DEFINE h == Head(queue).id
<1>2. /\ Head(queue) \in Note /\ Tail(queue) \in Seq(Note) /\ Different(Tail(queue))
      /\ \A n : n \in Ids(queue) <=> n = h \/ n \in Ids(Tail(queue))
      /\ h \notin Ids(Tail(queue))
  BY <1>0, <1>1, IdsTaken
<1>3. \A n : n \in Ids(batch') <=> n \in Ids(batch) \/ n = h
  BY <1>0, <1>1, <1>2, IdsAppended
<1> HIDE DEF h
<1>4. Shape'
  <2>1. batch' \in Seq(Note) /\ queue' \in Seq(Note) /\ Different(queue')
    BY <1>0, <1>1, <1>2
  <2>2. Ids(queue') \subseteq 1 .. raised'
    BY <1>0, <1>1, <1>2
  <2> QED BY <2>1, <2>2, <1>1 DEF Fates, Shape
<1>5. ASSUME NEW c \in ChatSet, NEW n PROVE Fate(c, n)'
  <2>1. Fate(c, n)
    BY DEF Fates
  <2>2. /\ n \in Ids(queue)' <=> n \in Ids(Tail(queue))
        /\ n \in Collected' <=> n \in Collected \/ n = h
        /\ n \in Ids(queue) <=> n = h \/ n \in Ids(Tail(queue))
        /\ n = h => n \notin Ids(Tail(queue))
    BY <1>1, <1>2, <1>3 DEF Collected
  <2> QED BY <2>1, <2>2, <1>1 DEF Fate
<1> QED BY <1>4, <1>5 DEF Fates

(* What was collected is muted, or kept for the message.                   *)
LEMMA CutFates ==
  ASSUME Fates, Cut
  PROVE  Fates'
<1>0. batch \in Seq(Note) /\ batch # <<>> /\ pending = <<>> /\ kept = {}
  BY DEF Fates, Shape, Cut
<1>1. /\ hushed' = hushed \cup (Ids(batch) \ Unmuted)
      /\ kept' = Unmuted /\ cut' = TRUE /\ batch' = <<>>
      /\ UNCHANGED <<raised, lost, queue, dropped, pending, attempt, told, failed>>
  BY DEF Cut, fate, feed
<1>2. Unmuted \subseteq Ids(batch)
  BY DEF Unmuted, Ids
<1>3. Ids(batch) \subseteq Nat
  <2> SUFFICES ASSUME NEW n \in Ids(batch) PROVE n \in Nat
    OBVIOUS
  <2>1. PICK i \in DOMAIN batch : n = batch[i].id
    BY IdsIs
  <2>2. batch[i] \in Note
    BY <1>0
  <2> QED BY <2>1, <2>2 DEF Note
<1>4. Ids(batch') = {}
  <2>1. \A n : n \notin Ids(<<>>)
    BY IdsIs
  <2> QED BY <2>1, <1>1
<1>5. Collected = Ids(batch) /\ Collected' = Unmuted
  BY <1>0, <1>1, <1>4 DEF Collected
<1>6. Shape'
  BY <1>0, <1>1, <1>2, <1>3 DEF Fates, Shape
<1>7. ASSUME NEW c \in ChatSet, NEW n PROVE Fate(c, n)'
  <2>1. Fate(c, n)
    BY DEF Fates
  <2>2. /\ n \in Collected' <=> n \in Unmuted
        /\ n \in Collected <=> n \in Ids(batch)
        /\ n \in hushed' <=> n \in hushed \/ (n \in Ids(batch) /\ n \notin Unmuted)
        /\ n \in Unmuted => n \in Ids(batch)
        /\ Ids(queue)' = Ids(queue)
    BY <1>1, <1>2, <1>5
  <2> QED BY <2>1, <2>2, <1>1 DEF Fate
<1> QED BY <1>6, <1>7 DEF Fates

(* What was kept goes into a message to every chat.                        *)
LEMMA ComposeFates ==
  ASSUME Distinct, Fates, Compose
  PROVE  Fates'
<1>0. /\ batch = <<>> /\ pending = <<>> /\ lost \in Nat /\ attempt \in Nat /\ kept \in SUBSET Nat
      /\ attempt = 0
  BY DEF Fates, Shape, Compose
<1>1. /\ (pending' = <<>> /\ kept = {}) \/ pending' \in Messages(kept, lost)
      /\ cut' = FALSE /\ kept' = {} /\ lost' = 0
      /\ UNCHANGED <<raised, queue, batch, dropped, attempt, hushed, told, failed>>
  BY DEF Compose, fate
<1>2. /\ pending' \in Seq(Message)
      /\ \A c \in ChatSet : \A n : (Waits(pending', c, n) <=> n \in kept) /\ Single(pending', c, n)
  <2>1. CASE pending' = <<>> /\ kept = {}
    BY <2>1 DEF Waits, Single
  <2>2. CASE pending' \in Messages(kept, lost)
    BY <2>2, <1>0, MessagesIs
  <2> QED BY <2>1, <2>2, <1>1
<1>3. Ids(batch) = {} /\ Ids(batch') = {}
  <2>1. \A n : n \notin Ids(<<>>)
    BY IdsIs
  <2> QED BY <2>1, <1>0, <1>1
<1>4. Collected = kept /\ Collected' = {}
  BY <1>1, <1>3 DEF Collected
<1>5. Shape'
  BY <1>0, <1>1, <1>2 DEF Fates, Shape
<1>6. ASSUME NEW c \in ChatSet, NEW n PROVE Fate(c, n)'
  <2>1. Fate(c, n)
    BY DEF Fates
  <2>2. /\ n \notin Collected' /\ Ids(queue)' = Ids(queue)
        /\ n \in Collected <=> n \in kept
        /\ Waits(pending, c, n)' <=> n \in kept
        /\ Single(pending, c, n)'
    BY <1>1, <1>2, <1>4
  <2>3. ~Waits(pending, c, n)
    BY <1>0 DEF Waits
  <2> QED BY <2>1, <2>2, <2>3, <1>1 DEF Fate
<1> QED BY <1>5, <1>6 DEF Fates

(* A message that arrives, or does not, is no longer waiting.              *)
LEMMA SentFates ==
  ASSUME Fates, Sent \/ Refused
  PROVE  Fates'
<1> DEFINE m == Head(pending)
<1>0. /\ pending \in Seq(Message) /\ attempt \in Nat
      /\ told \in [ChatSet -> SUBSET Nat] /\ failed \in [ChatSet -> SUBSET Nat]
  BY DEF Fates, Shape
<1>1. /\ attempt > 0 /\ pending' = Tail(pending) /\ attempt' = 0
      /\ UNCHANGED <<raised, lost, queue, batch, cut, kept, dropped, hushed>>
      /\ \/ told' = [told EXCEPT ![m.chat] = @ \cup m.text.ids] /\ UNCHANGED failed
         \/ failed' = [failed EXCEPT ![m.chat] = @ \cup m.text.ids] /\ UNCHANGED told
  BY DEF Sent, Refused, feed, batches
<1>2. pending # <<>> /\ batch = <<>> /\ ~cut
  BY <1>1 DEF Fates, Shape
<1>3. m \in Message /\ Tail(pending) \in Seq(Message)
  BY <1>0, <1>2
<1>4. m.chat \in ChatSet /\ m.text.ids \in SUBSET Nat
  BY <1>3 DEF Message, Text
<1> HIDE DEF m
<1>5. told' \in [ChatSet -> SUBSET Nat] /\ failed' \in [ChatSet -> SUBSET Nat]
  BY <1>0, <1>1, <1>4
<1>6. Shape'
  BY <1>1, <1>2, <1>3, <1>5 DEF Fates, Shape
<1>7. ASSUME NEW c \in ChatSet, NEW n PROVE Fate(c, n)'
  <2>1. Fate(c, n)
    BY DEF Fates
  <2>2. Single(pending, c, n)
    BY <2>1 DEF Fate
  <2>3. /\ Single(pending, c, n)'
        /\ Waits(pending, c, n) <=> Carries(m, c, n) \/ Waits(pending, c, n)'
        /\ ~(Carries(m, c, n) /\ Waits(pending, c, n)')
    BY <2>2, <1>0, <1>1, <1>2, WaitsTaken DEF m
  <2>4. \/ (n \in told'[c] <=> n \in told[c] \/ Carries(m, c, n)) /\ failed'[c] = failed[c]
        \/ (n \in failed'[c] <=> n \in failed[c] \/ Carries(m, c, n)) /\ told'[c] = told[c]
    <3>1. CASE told' = [told EXCEPT ![m.chat] = @ \cup m.text.ids] /\ UNCHANGED failed
      BY <3>1, <1>0, <1>4 DEF Carries
    <3>2. CASE failed' = [failed EXCEPT ![m.chat] = @ \cup m.text.ids] /\ UNCHANGED told
      BY <3>2, <1>0, <1>4 DEF Carries
    <3> QED BY <3>1, <3>2, <1>1
  <2>5. Ids(queue)' = Ids(queue) /\ Collected' = Collected /\ UNCHANGED <<raised, dropped, hushed>>
    BY <1>1 DEF Collected
  <2> QED BY <2>1, <2>3, <2>4, <2>5 DEF Fate
<1> QED BY <1>6, <1>7 DEF Fates

(* Nobody else moves a notice.                                             *)
LEMMA FatesStep == Distinct => (Fates /\ [Next]_vars => Fates')
<1> SUFFICES ASSUME Distinct, Fates, [Next]_vars PROVE Fates'
  OBVIOUS
<1>0. ASSUME UNCHANGED <<raised, queue, batch, cut, kept, pending, dropped, hushed, told, failed>>,
             lost' \in Nat, attempt' \in Nat, attempt' > 0 => pending # <<>>
      PROVE  Fates'
  <2>1. Shape'
    BY <1>0 DEF Fates, Shape
  <2>2. ASSUME NEW c \in ChatSet, NEW n PROVE Fate(c, n)'
    <3>1. Fate(c, n)
      BY DEF Fates
    <3> QED BY <3>1, <1>0 DEF Fate, Collected
  <2> QED BY <2>1, <2>2 DEF Fates
<1>1. lost \in Nat /\ attempt \in Nat /\ (attempt > 0 => pending # <<>>)
  BY DEF Fates, Shape
<1>2. CASE Notify BY <1>2, NotifyFates
<1>3. CASE Receive \/ Collect BY <1>3, CollectFates
<1>4. CASE Cut BY <1>4, CutFates
<1>5. CASE Sent \/ Refused BY <1>5, SentFates
<1>6. CASE Take BY <1>0, <1>1, <1>6 DEF Take, feed, batches, fate
<1>7. CASE Throttled BY <1>0, <1>1, <1>7 DEF Throttled, feed, batches, fate
<1>8. CASE Exit BY <1>0, <1>1, <1>8 DEF Exit, feed, batches, fate
<1>9. CASE Wait BY <1>0, <1>1, <1>9 DEF Wait, feed, batches, fate
<1>10. CASE Mute BY <1>0, <1>1, <1>10 DEF Mute, feed, batches, fate
<1>11. CASE Unmute BY <1>0, <1>1, <1>11 DEF Unmute, feed, batches, fate
<1>12. CASE Tick BY <1>0, <1>1, <1>12 DEF Tick, feed, batches, fate
<1>13. CASE SetBack BY <1>0, <1>1, <1>13 DEF SetBack, feed, batches, fate
<1>14. CASE Gone \/ UNCHANGED vars BY <1>0, <1>1, <1>14 DEF Gone, vars, feed, batches, fate
<1>15. CASE Count BY <1>0, <1>1, <1>15 DEF Count, batches, fate
<1>16. CASE Compose BY <1>16, ComposeFates
<1> QED
  BY <1>2, <1>3, <1>4, <1>5, <1>6, <1>7, <1>8, <1>9, <1>10, <1>11, <1>12, <1>13, <1>14,
     <1>15, <1>16
  DEF Next, AlertLoop

(* One sequence stands before the other.                                   *)
LEMMA OneThenOther ==
  ASSUME NEW S, NEW s \in Seq(S), NEW t \in Seq(S)
  PROVE  /\ DOMAIN (s \o t) = 1 .. Len(s) + Len(t)
         /\ \A i \in 1 .. Len(s) : (s \o t)[i] = s[i]
         /\ \A i \in 1 .. Len(t) : (s \o t)[Len(s) + i] = t[i]
<1> DEFINE st == s \o t
           m == Len(s)
           n == Len(t)
<1>1. /\ st \in Seq(S) /\ Len(st) = m + n
      /\ \A i \in 1 .. m + n : st[i] = IF i <= m THEN s[i] ELSE t[i - m]
  BY ConcatProperties, Zenon
<1> HIDE DEF st, m, n
<1>2. m \in Nat /\ n \in Nat /\ DOMAIN st = 1 .. Len(st)
  BY <1>1, LenProperties DEF m, n
<1>3. \A i \in 1 .. m : st[i] = s[i]
  BY <1>1, <1>2
<1>4. ASSUME NEW i \in 1 .. n PROVE st[m + i] = t[i]
  <2>1. m + i \in 1 .. m + n /\ ~(m + i <= m) /\ (m + i) - m = i
    BY <1>2
  <2> QED BY <1>1, <1>2, <2>1
<1>5. DOMAIN st = 1 .. m + n
  BY <1>1, <1>2
<1> QED BY <1>3, <1>4, <1>5 DEF st, m, n

(* AlertLoop: when no chat is listed twice, each notice has exactly one    *)
(* fate in every chat, for any capacity of the queue, size of batches,     *)
(* number of chats and mutes; none is lost between the threads or told     *)
(* twice.                                                                  *)
THEOREM AlwaysOneFate == Distinct => (Spec => []EachHasOneFate)
<1>1. ASSUME Fates PROVE EachHasOneFate
  <2> SUFFICES ASSUME NEW c \in ChatSet
               PROVE  LET places == <<Ids(queue), Collected, dropped, hushed, told[c], failed[c]>> \o
                            [i \in DOMAIN pending |->
                               IF pending[i].chat = c THEN pending[i].text.ids ELSE {}]
                      IN  /\ UNION ToSet(places) = 1 .. raised
                          /\ \A i, j \in DOMAIN places : i # j => places[i] \cap places[j] = {}
    BY DEF EachHasOneFate
  <2> DEFINE first == <<Ids(queue), Collected, dropped, hushed, told[c], failed[c]>>
             rest == [i \in DOMAIN pending |->
                        IF pending[i].chat = c THEN pending[i].text.ids ELSE {}]
             places == first \o rest
             k == Len(pending)
             any == UNION {Ids(queue), Collected, dropped, hushed, told[c], failed[c]}
                      \cup UNION {pending[i].text.ids : i \in DOMAIN pending}
  <2>1. pending \in Seq(Message) /\ k \in Nat /\ DOMAIN pending = 1 .. k
    BY <1>1 DEF Fates, Shape
  <2>2. rest \in Seq(SUBSET Nat) /\ Len(rest) = k
    <3>1. \A i \in 1 .. k : pending[i].text.ids \in SUBSET Nat
      <4> TAKE i \in 1 .. k
      <4>1. pending[i] \in Message
        BY <2>1
      <4> QED BY <4>1 DEF Message, Text
    <3> HIDE DEF k
    <3> QED BY <3>1, <2>1
  <2>3. \A i \in 1 .. k : \A n : n \in rest[i] <=> Carries(pending[i], c, n)
    BY <2>1 DEF Carries
  <2>4. /\ first[1] = Ids(queue) /\ first[2] = Collected /\ first[3] = dropped
        /\ first[4] = hushed /\ first[5] = told[c] /\ first[6] = failed[c]
        /\ Len(first) = 6 /\ first \in Seq({first[i] : i \in 1 .. 6})
    OBVIOUS
  <2>5. places = first \o rest
    OBVIOUS
  <2> HIDE DEF first, rest, k, places
  <2>6. /\ DOMAIN places = 1 .. 6 + k
        /\ \A i \in 1 .. 6 : places[i] = first[i]
        /\ \A i \in 1 .. k : places[6 + i] = rest[i]
    <3>1. PICK S : first \in Seq(S) /\ rest \in Seq(S)
      <4> DEFINE S == {first[i] : i \in 1 .. 6} \cup SUBSET Nat
      <4>1. first \in Seq(S) /\ rest \in Seq(S)
        BY <2>2, <2>4
      <4> QED BY <4>1
    <3>2. Len(first) = 6 /\ Len(rest) = k
      BY <2>2, <2>4
    <3>3. /\ DOMAIN (first \o rest) = 1 .. Len(first) + Len(rest)
          /\ \A i \in 1 .. Len(first) : (first \o rest)[i] = first[i]
          /\ \A i \in 1 .. Len(rest) : (first \o rest)[Len(first) + i] = rest[i]
      BY <3>1, OneThenOther
    <3> QED BY <3>2, <3>3, <2>5
  <2>7. \A p \in DOMAIN places : p = 1 \/ p = 2 \/ p = 3 \/ p = 4 \/ p = 5 \/ p = 6
                                  \/ (p \in Int /\ p > 6 /\ p - 6 \in 1 .. k)
    BY <2>1, <2>6
  <2>8. /\ places[1] = Ids(queue) /\ places[2] = Collected /\ places[3] = dropped
        /\ places[4] = hushed /\ places[5] = told[c] /\ places[6] = failed[c]
    BY <2>4, <2>6
  <2>9. ASSUME NEW i \in DOMAIN places, i \in Int, i > 6, i - 6 \in 1 .. k
        PROVE  \A n : n \in places[i] <=> Carries(pending[i - 6], c, n)
    <3>1. 6 + (i - 6) = i
      BY <2>9
    <3>2. places[i] = rest[i - 6]
      BY <3>1, <2>6, <2>9
    <3> QED BY <3>2, <2>3, <2>9
  <2>10. ASSUME NEW n PROVE n \in UNION ToSet(places) <=> n \in 1 .. raised
    <3>1. Fate(c, n)
      BY <1>1 DEF Fates
    <3>2. n \in UNION ToSet(places) <=> \E i \in DOMAIN places : n \in places[i]
      BY DEF ToSet
    <3>3. (\E i \in DOMAIN places : n \in places[i]) <=>
            n \in Ids(queue) \/ n \in Collected \/ Waits(pending, c, n)
              \/ n \in dropped \/ n \in hushed \/ n \in told[c] \/ n \in failed[c]
      <4>1. ASSUME NEW i \in DOMAIN places, n \in places[i]
            PROVE  n \in Ids(queue) \/ n \in Collected \/ Waits(pending, c, n)
                     \/ n \in dropped \/ n \in hushed \/ n \in told[c] \/ n \in failed[c]
        BY <4>1, <2>1, <2>7, <2>8, <2>9 DEF Waits
      <4>2. ASSUME Waits(pending, c, n) PROVE \E i \in DOMAIN places : n \in places[i]
        <5>1. PICK i \in 1 .. k : Carries(pending[i], c, n)
          BY <4>2, <2>1 DEF Waits
        <5>2. 6 + i \in DOMAIN places /\ n \in places[6 + i]
          BY <5>1, <2>1, <2>3, <2>6
        <5> QED BY <5>2
      <4>3. {1, 2, 3, 4, 5, 6} \subseteq DOMAIN places
        BY <2>1, <2>6
      <4> QED BY <4>1, <4>2, <4>3, <2>8
    <3> QED BY <3>1, <3>2, <3>3 DEF Fate
  <2>11. ASSUME NEW i \in DOMAIN places, NEW j \in DOMAIN places, i # j, NEW n, n \in places[i], n \in places[j]
         PROVE  FALSE
    <3>1. Fate(c, n)
      BY <1>1 DEF Fates
    <3>2. CASE i \in 1 .. 6 /\ j \in 1 .. 6
      BY <3>1, <3>2, <2>8, <2>11 DEF Fate
    <3>3. CASE i \in 1 .. 6 /\ j \in Int /\ j > 6 /\ j - 6 \in 1 .. k
      <4>1. Waits(pending, c, n)
        BY <3>3, <2>1, <2>9, <2>11 DEF Waits
      <4> QED BY <4>1, <3>1, <3>3, <2>8, <2>11 DEF Fate
    <3>4. CASE j \in 1 .. 6 /\ i \in Int /\ i > 6 /\ i - 6 \in 1 .. k
      <4>1. Waits(pending, c, n)
        BY <3>4, <2>1, <2>9, <2>11 DEF Waits
      <4> QED BY <4>1, <3>1, <3>4, <2>8, <2>11 DEF Fate
    <3>5. CASE /\ i \in Int /\ i > 6 /\ i - 6 \in 1 .. k
               /\ j \in Int /\ j > 6 /\ j - 6 \in 1 .. k
      <4>1. Carries(pending[i - 6], c, n) /\ Carries(pending[j - 6], c, n)
        BY <3>5, <2>9, <2>11
      <4>2. i - 6 = j - 6
        BY <4>1, <3>1, <3>5, <2>1 DEF Fate, Single
      <4> QED BY <4>2, <3>5, <2>11
    <3>6. \A p \in DOMAIN places : p \in 1 .. 6 \/ (p \in Int /\ p > 6 /\ p - 6 \in 1 .. k)
      <4> TAKE p \in DOMAIN places
      <4>1. CASE p \in {1, 2, 3, 4, 5, 6}
        BY <4>1
      <4> QED BY <2>7, <4>1
    <3>7. i \in 1 .. 6 \/ (i \in Int /\ i > 6 /\ i - 6 \in 1 .. k)
      BY <3>6, <2>11
    <3>8. j \in 1 .. 6 \/ (j \in Int /\ j > 6 /\ j - 6 \in 1 .. k)
      BY <3>6, <2>11, Zenon
    <3> QED BY <3>2, <3>3, <3>4, <3>5, <3>7, <3>8
  <2> QED BY <2>10, <2>11 DEF places, first, rest
<1>2. ASSUME Distinct PROVE Spec => []EachHasOneFate
  <2>1. Fates /\ [Next]_vars => Fates'
    BY <1>2, FatesStep
  <2> QED BY FatesInit, <2>1, <1>1, PTL DEF Spec
<1> QED BY <1>2

-----------------------------------------------------------------------------
(* The command thread (module Bot): what it promises of the updates it     *)
(* handles, for every number of updates and runs, every size of an answer  *)
(* and any messages.                                                       *)

Update == [id : Nat, msg : Incoming]
Entry == [run : Nat, id : Nat]

(* The updates the server has forgotten. *)
Confirmed == Len(sent) - Len(updates)

(* The first update the rest of the last answer, or else the next answer,  *)
(* can hold.                                                               *)
NextId == IF offset > Confirmed + 1 THEN offset ELSE Confirmed + 1

Up == pc \notin {"down", "boot"}

Handled(n) == \E i \in 1 .. Len(handled) : handled[i].run = run /\ handled[i].id = n

Typed ==
  /\ run \in Nat /\ offset \in Nat
  /\ pc \in {"down", "boot", "poll", "handle", "deliver", "retry", "sleep"}
  /\ updates \in Seq(Update) /\ answer \in Seq(Update)
  /\ sent \in Seq(Nat) /\ handled \in Seq(Entry)

(* What is queued is the end of what was sent, and what is left of an      *)
(* answer is what follows the updates this run is done with.               *)
Window ==
  /\ Len(updates) <= Len(sent) /\ offset <= Len(sent) + 1
  /\ \A i \in 1 .. Len(updates) : updates[i].id = Confirmed + i
  /\ \A i \in 1 .. Len(answer) : answer[i].id = NextId + i - 1
  /\ NextId + Len(answer) <= Len(sent) + 1
  /\ pc \notin {"handle", "deliver", "retry"} => answer = <<>>

(* A run that has just started was sent nothing and has handled nothing.   *)
Runs ==
  /\ pc # "down" => run > 0
  /\ \A n \in 1 .. Len(sent) : sent[n] <= run
  /\ \A i \in 1 .. Len(handled) : handled[i].run <= run /\ handled[i].id \in 1 .. Len(sent)
  /\ pc = "boot" => /\ \A n \in 1 .. Len(sent) : sent[n] # run
                    /\ \A i \in 1 .. Len(handled) : handled[i].run # run

(* The offset is past everything this run has handled. *)
Order ==
  /\ \A i, j \in 1 .. Len(handled) :
       i < j /\ handled[i].run = handled[j].run => handled[i].id < handled[j].id
  /\ Up => \A i \in 1 .. Len(handled) : handled[i].run = run => handled[i].id < offset

(* What was sent to this run is handled before the run is done with it.    *)
Remembered == Up => \A n \in 1 .. Len(sent) : sent[n] = run /\ n < NextId => Handled(n)

(* A run that learnt what was queued before it has only its own ahead of   *)
(* it, and behind it.                                                      *)
Own ==
  skipped /\ Up =>
    /\ \A n \in 1 .. Len(sent) : n >= NextId => sent[n] = run
    /\ \A i \in 1 .. Len(handled) : handled[i].run = run => sent[handled[i].id] = run

BotInv == Typed /\ Window /\ Runs /\ Order /\ Remembered /\ Own

-----------------------------------------------------------------------------
(* The lengths are numbers and the entries have their fields.              *)
LEMMA Lengths ==
  ASSUME Typed
  PROVE  /\ Len(updates) \in Nat /\ Len(answer) \in Nat
         /\ Len(sent) \in Nat /\ Len(handled) \in Nat
         /\ \A i \in 1 .. Len(updates) : updates[i].id \in Nat
         /\ \A i \in 1 .. Len(answer) : answer[i].id \in Nat
         /\ \A i \in 1 .. Len(sent) : sent[i] \in Nat
         /\ \A i \in 1 .. Len(handled) : handled[i].run \in Nat /\ handled[i].id \in Nat
<1>1. Len(updates) \in Nat /\ Len(answer) \in Nat /\ Len(sent) \in Nat /\ Len(handled) \in Nat
  BY LenProperties DEF Typed
<1>2. \A i \in 1 .. Len(updates) : updates[i] \in Update
  BY ElementOfSeq DEF Typed
<1>3. \A i \in 1 .. Len(answer) : answer[i] \in Update
  BY ElementOfSeq DEF Typed
<1>4. \A i \in 1 .. Len(sent) : sent[i] \in Nat
  BY ElementOfSeq DEF Typed
<1>5. \A i \in 1 .. Len(handled) : handled[i] \in Entry
  BY ElementOfSeq DEF Typed
<1> QED BY <1>1, <1>2, <1>3, <1>4, <1>5 DEF Update, Entry

(* getUpdates keeps the end of the queue, from the next id on.             *)
LEMMA FromIs ==
  ASSUME Typed, Window
  PROVE  /\ From(offset) \in Seq(Update)
         /\ Len(From(offset)) \in Nat /\ Len(From(offset)) <= Len(updates)
         /\ Len(sent) - Len(From(offset)) + 1 = NextId
         /\ \A i \in 1 .. Len(From(offset)) :
              From(offset)[i].id = Len(sent) - Len(From(offset)) + i
<1> USE Lengths
<1>1. CASE updates = <<>>
  <2>1. From(offset) = updates /\ Len(updates) = 0
    BY <1>1, EmptySeq DEF From
  <2> QED BY <2>1 DEF Typed, Window, NextId, Confirmed
<1>2. CASE updates # <<>>
  <2>1. Len(updates) > 0 /\ Head(updates) = updates[1]
    BY <1>2, EmptySeq DEF Typed
  <2>2. Head(updates).id = Confirmed + 1
    BY <2>1 DEF Window
  <2>3. CASE offset <= Confirmed + 1
    <3>1. From(offset) = updates
      BY <2>2, <2>3 DEF From
    <3> QED BY <2>3, <3>1 DEF Typed, Window, NextId, Confirmed
  <2>4. CASE ~(offset <= Confirmed + 1)
    <3> DEFINE m == offset - (Confirmed + 1) + 1
    <3>1. From(offset) = SubSeq(updates, m, Len(updates))
      BY <1>2, <2>2, <2>4 DEF From
    <3>2. /\ m \in Nat /\ m >= 1 /\ m <= Len(updates) + 1
          /\ offset > Confirmed + 1
      BY <2>4 DEF Typed, Window, Confirmed
    <3> HIDE DEF m
    <3>3. \A i \in m .. Len(updates) : updates[i] \in Update
      BY <3>2, ElementOfSeq DEF Typed
    <3>4. /\ From(offset) \in Seq(Update)
          /\ Len(From(offset)) = IF m <= Len(updates) THEN Len(updates) - m + 1 ELSE 0
          /\ \A i \in 1 .. Len(updates) - m + 1 : From(offset)[i] = updates[m + i - 1]
      BY <3>1, <3>2, <3>3, SubSeqProperties
    <3>5. Len(From(offset)) = Len(updates) - m + 1
      BY <3>2, <3>4
    <3>6. Len(sent) - Len(From(offset)) + 1 = NextId /\ Confirmed + m = offset
      BY <3>2, <3>5 DEF NextId, Confirmed, m, Typed
    <3>7. ASSUME NEW i \in 1 .. Len(From(offset))
          PROVE  From(offset)[i].id = Len(sent) - Len(From(offset)) + i
      <4>1. m + i - 1 \in 1 .. Len(updates) /\ From(offset)[i] = updates[m + i - 1]
        BY <3>2, <3>4, <3>5
      <4>2. From(offset)[i].id = Confirmed + (m + i - 1)
        BY <4>1 DEF Window
      <4> QED BY <3>2, <3>5, <4>2 DEF Confirmed
    <3>8. Len(From(offset)) \in Nat /\ Len(From(offset)) <= Len(updates)
      BY <3>2, <3>5
    <3> QED BY <3>4, <3>6, <3>7, <3>8
  <2> QED BY <2>3, <2>4
<1> QED BY <1>1, <1>2

(* All but the newest is confirmed at most.                                *)
LEMMA NewestIs ==
  ASSUME Typed, Window
  PROVE  /\ Newest \in Seq(Update)
         /\ Len(Newest) \in Nat /\ Len(Newest) <= Len(updates)
         /\ \A i \in 1 .. Len(Newest) : Newest[i].id = Len(sent) - Len(Newest) + i
         /\ updates = <<>> => Len(Newest) = 0 /\ Len(updates) = 0
         /\ updates # <<>> => Len(Newest) = 1 /\ Last(updates).id = Len(sent)
<1> USE Lengths
<1>1. CASE updates = <<>>
  BY <1>1, EmptySeq DEF Newest, Typed
<1>2. CASE updates # <<>>
  <2>1. Len(updates) > 0 /\ Last(updates) = updates[Len(updates)]
    BY <1>2, EmptySeq DEF Typed, Last
  <2>2. Last(updates) \in Update /\ Last(updates).id = Len(sent)
    BY <2>1, ElementOfSeq DEF Typed, Window, Confirmed
  <2>3. Newest = <<Last(updates)>>
    BY <1>2 DEF Newest, Last
  <2>4. Newest \in Seq(Update) /\ Len(Newest) = 1 /\ Newest[1] = Last(updates)
    BY <2>2, <2>3
  <2> QED BY <1>2, <2>1, <2>2, <2>4
<1> QED BY <1>1, <1>2

-----------------------------------------------------------------------------
(* It holds at first,                                                      *)
LEMMA BotInvInit == BotInit => BotInv
<1> SUFFICES ASSUME BotInit PROVE BotInv
  OBVIOUS
<1>1. /\ updates = <<>> /\ answer = <<>> /\ sent = <<>> /\ handled = <<>>
      /\ run = 0 /\ pc = "down" /\ offset = 0
  BY DEF BotInit
<1>2. Len(updates) = 0 /\ Len(answer) = 0 /\ Len(sent) = 0 /\ Len(handled) = 0
  BY <1>1
<1>3. Typed
  BY <1>1, EmptySeq DEF Typed
<1>4. Confirmed = 0 /\ NextId = 1
  BY <1>1, <1>2 DEF Confirmed, NextId
<1>5. Window /\ Runs /\ Order
  BY <1>1, <1>2, <1>4 DEF Window, Runs, Order, Up
<1>6. Remembered /\ Own
  BY <1>1 DEF Remembered, Own, Up
<1> QED BY <1>3, <1>5, <1>6 DEF BotInv

(* A step that leaves the updates and the run alone, and a thread that is  *)
(* up or down as it was.                                                   *)
LEMMA BotIdle ==
  ASSUME BotInv,
         UNCHANGED <<updates, run, offset, answer, skipped, history>>,
         pc' \in {"down", "boot", "poll", "handle", "deliver", "retry", "sleep"},
         (pc' = "boot") <=> (pc = "boot"), (pc' = "down") <=> (pc = "down"),
         answer = <<>> \/ pc' \in {"handle", "deliver", "retry"}
  PROVE  BotInv'
<1>1. /\ updates' = updates /\ run' = run /\ offset' = offset /\ answer' = answer
      /\ skipped' = skipped /\ sent' = sent /\ handled' = handled
  BY DEF history
<1>2. Confirmed' = Confirmed /\ NextId' = NextId /\ Up' = Up
  BY <1>1 DEF Confirmed, NextId, Up
<1>3. \A n : Handled(n)' <=> Handled(n)
  BY <1>1 DEF Handled
<1>4. Typed' /\ Window' /\ Runs'
  BY <1>1, <1>2 DEF BotInv, Typed, Window, Runs
<1>5. Order' /\ Own'
  BY <1>1, <1>2 DEF BotInv, Order, Own
<1>6. Remembered'
  BY <1>1, <1>2, <1>3 DEF BotInv, Remembered
<1> QED BY <1>4, <1>5, <1>6 DEF BotInv

(* A poll that reached the server, answered or not: what this run is done  *)
(* with is confirmed, and nothing else.                                    *)
LEMMA BotPolled ==
  ASSUME BotInv, pc = "poll", updates' = From(offset),
         UNCHANGED <<run, offset, skipped, history>>,
         \/ pc' = "sleep" /\ answer' = answer
         \/ pc' = "handle"
             /\ answer' = SubSeq(From(offset), 1, Smaller(AnswerMax, Len(From(offset))))
  PROVE  BotInv'
<1>1. /\ run' = run /\ offset' = offset
      /\ skipped' = skipped /\ sent' = sent /\ handled' = handled
  BY DEF history
<1>2. Typed /\ Window
  BY DEF BotInv
<1>3. /\ updates' \in Seq(Update) /\ Len(updates') \in Nat /\ Len(updates') <= Len(updates)
      /\ Len(sent) - Len(updates') + 1 = NextId
      /\ \A i \in 1 .. Len(updates') : updates'[i].id = Len(sent) - Len(updates') + i
  BY <1>2, FromIs
<1>4. Len(sent) \in Nat /\ Len(updates) \in Nat /\ offset \in Nat
  BY <1>2, Lengths DEF Typed
<1>5. NextId \in Nat /\ NextId >= offset /\ NextId <= Len(sent) + 1
  BY <1>2, <1>4 DEF NextId, Confirmed, Window
<1>6. Confirmed' + 1 = NextId /\ NextId' = NextId
  BY <1>1, <1>3, <1>4, <1>5 DEF NextId, Confirmed
<1>7. Up /\ Up'
  BY DEF Up
<1>8. answer = <<>>
  BY <1>2 DEF Window
<1>9. /\ answer' \in Seq(Update) /\ Len(answer') \in Nat
      /\ Len(answer') <= Len(updates')
      /\ \A i \in 1 .. Len(answer') : answer'[i] = updates'[i]
  <2>1. CASE answer' = answer
    BY <1>2, <1>3, <1>8, <2>1, EmptySeq
  <2>2. CASE answer' = SubSeq(From(offset), 1, Smaller(AnswerMax, Len(From(offset))))
    <3> DEFINE k == Smaller(AnswerMax, Len(updates'))
    <3>1. k \in Nat /\ k <= Len(updates')
      BY <1>3, BotAssumption DEF Smaller
    <3>2. \A i \in 1 .. k : updates'[i] \in Update
      BY <1>3, <3>1, ElementOfSeq
    <3>3. answer' = SubSeq(updates', 1, k)
      BY <2>2
    <3> HIDE DEF k
    <3>4. /\ answer' \in Seq(Update)
          /\ Len(answer') = IF 1 <= k THEN k - 1 + 1 ELSE 0
          /\ \A i \in 1 .. k - 1 + 1 : answer'[i] = updates'[1 + i - 1]
      BY <3>1, <3>2, <3>3, SubSeqProperties
    <3>5. Len(answer') = k
      BY <3>1, <3>4
    <3> QED BY <3>1, <3>4, <3>5
  <2> QED BY <2>1, <2>2
<1>10. Typed'
  BY <1>1, <1>2, <1>3, <1>9 DEF Typed
<1>11. Window'
  <2>1. \A i \in 1 .. Len(updates') : updates'[i].id = Confirmed' + i
    BY <1>1, <1>3 DEF Confirmed
  <2>2. ASSUME NEW i \in 1 .. Len(answer') PROVE answer'[i].id = NextId' + i - 1
    <3>1. i \in 1 .. Len(updates') /\ answer'[i] = updates'[i]
      BY <1>3, <1>9
    <3>2. answer'[i].id = Confirmed' + i
      BY <2>1, <3>1
    <3>3. Confirmed' \in Int /\ i \in Int
      BY <1>1, <1>3, <1>4, <1>9 DEF Confirmed
    <3> QED BY <1>6, <3>2, <3>3
  <2>3. NextId' + Len(answer') <= Len(sent') + 1
    BY <1>1, <1>3, <1>4, <1>6, <1>9 DEF Confirmed
  <2>4. pc' \notin {"handle", "deliver", "retry"} => answer' = <<>>
    BY <1>8
  <2>5. Len(updates') <= Len(sent') /\ offset' <= Len(sent') + 1
    BY <1>1, <1>2, <1>3, <1>4 DEF Window
  <2> QED BY <2>1, <2>2, <2>3, <2>4, <2>5 DEF Window
<1>12. Runs' /\ Order' /\ Own'
  BY <1>1, <1>6, <1>7 DEF BotInv, Runs, Order, Own
<1>13. Remembered'
  BY <1>1, <1>6, <1>7 DEF BotInv, Remembered, Handled
<1> QED BY <1>10, <1>11, <1>12, <1>13 DEF BotInv

(* A queue that was cut as a run starts: nothing in it was sent to the run *)
(* and nothing was handled.                                                *)
LEMMA BotBoots ==
  ASSUME BotInv, Boot
  PROVE  BotInv'
<1>1. /\ run' = run /\ answer' = answer /\ sent' = sent /\ handled' = handled
      /\ pc = "boot" /\ pc' = "poll" /\ updates' \in {updates, Newest}
  BY DEF Boot, history
<1>0. \/ /\ updates' = Newest /\ skipped' = TRUE
         /\ offset' = (IF updates = <<>> THEN 0 ELSE Last(updates).id + 1)
      \/ skipped' = FALSE /\ offset' = 0
  BY DEF Boot, Last
<1>2. Typed /\ Window /\ Runs
  BY DEF BotInv
<1>3. /\ Len(sent) \in Nat /\ Len(updates) \in Nat /\ Len(updates) <= Len(sent)
      /\ answer = <<>>
  BY <1>1, <1>2, Lengths DEF Window
<1>4. /\ updates' \in Seq(Update) /\ Len(updates') \in Nat /\ Len(updates') <= Len(updates)
      /\ \A i \in 1 .. Len(updates') : updates'[i].id = Confirmed' + i
  <2>1. CASE updates' = updates
    BY <1>1, <1>2, <1>3, <2>1 DEF Typed, Window, Confirmed
  <2>2. CASE updates' = Newest
    BY <1>1, <1>2, <2>2, NewestIs DEF Confirmed
  <2> QED BY <1>1, <2>1, <2>2
<1>5. offset' \in Nat /\ offset' <= Len(sent) + 1
  <2>1. updates # <<>> => Last(updates).id = Len(sent)
    BY <1>2, NewestIs
  <2> QED BY <1>0, <1>3, <2>1
<1>6. skipped' => NextId' = Len(sent) + 1
  <2> SUFFICES ASSUME skipped' PROVE NextId' = Len(sent) + 1
    OBVIOUS
  <2>1. /\ updates' = Newest
        /\ offset' = (IF updates = <<>> THEN 0 ELSE Last(updates).id + 1)
    BY <1>0
  <2>2. CASE updates = <<>>
    <3>1. Len(updates') = 0 /\ offset' = 0
      BY <1>2, <2>1, <2>2, NewestIs
    <3> QED BY <1>1, <1>3, <3>1 DEF NextId, Confirmed
  <2>3. CASE updates # <<>>
    <3>1. Len(updates') = 1 /\ offset' = Len(sent) + 1
      BY <1>2, <2>1, <2>3, NewestIs
    <3> QED BY <1>1, <1>3, <3>1 DEF NextId, Confirmed
  <2> QED BY <2>2, <2>3
<1>7. Confirmed' \in Nat /\ Confirmed' <= Len(sent)
  BY <1>1, <1>3, <1>4 DEF Confirmed
<1>8. NextId' \in Nat /\ NextId' <= Len(sent) + 1
  <2>1. NextId' = offset' \/ NextId' = Confirmed' + 1
    BY DEF NextId
  <2>2. Confirmed' + 1 \in Nat /\ Confirmed' + 1 <= Len(sent) + 1
    <3> DEFINE c == Confirmed'
    <3>1. c \in Nat /\ c <= Len(sent) /\ Len(sent) \in Nat
      BY <1>3, <1>7
    <3> HIDE DEF c
    <3>2. c + 1 \in Nat /\ c + 1 <= Len(sent) + 1
      BY <3>1
    <3> QED BY <3>2 DEF c
  <2> QED BY <1>5, <2>1, <2>2
<1>9. Typed'
  BY <1>1, <1>2, <1>4, <1>5 DEF Typed
<1>10. Window'
  <2>1. Len(answer') = 0 /\ answer' = <<>>
    BY <1>1, <1>3
  <2>2. Len(updates') <= Len(sent') /\ offset' <= Len(sent') + 1
    BY <1>1, <1>3, <1>4, <1>5
  <2>3. NextId' + Len(answer') <= Len(sent') + 1
    BY <1>1, <1>8, <2>1
  <2>4. \A i \in 1 .. Len(answer') : answer'[i].id = NextId' + i - 1
    BY <2>1
  <2> QED BY <1>4, <2>1, <2>2, <2>3, <2>4 DEF Window
<1>11. /\ \A n \in 1 .. Len(sent) : sent[n] # run
       /\ \A i \in 1 .. Len(handled) : handled[i].run # run
       /\ run > 0
  BY <1>1, <1>2 DEF Runs
<1>12. Runs' /\ Order'
  BY <1>1, <1>2, <1>11 DEF BotInv, Runs, Order
<1>13. Remembered'
  BY <1>1, <1>11 DEF Remembered
<1>14. Own'
  BY <1>1, <1>3, <1>6, <1>11 DEF Own
<1> QED BY <1>9, <1>10, <1>12, <1>13, <1>14 DEF BotInv

(* An update that is handled is the next one, and all before it that were  *)
(* sent to this run are handled.                                           *)
LEMMA BotHandles ==
  ASSUME BotInv, Handle
  PROVE  BotInv'
<1> DEFINE u == Head(answer)
<1>1. /\ pc = "handle" /\ answer # <<>>
      /\ offset' = IF u.id >= offset THEN u.id + 1 ELSE offset
      /\ handled' = Append(handled, [run |-> run, id |-> u.id])
      /\ pc' \in {"deliver", "handle"}
      /\ answer' = Tail(answer)
      /\ updates' = updates /\ run' = run /\ skipped' = skipped /\ sent' = sent
  BY DEF Handle
<1>2. Typed /\ Window /\ Runs
  BY DEF BotInv
<1>3. /\ Len(sent) \in Nat /\ Len(updates) \in Nat /\ Len(updates) <= Len(sent)
      /\ Len(handled) \in Nat /\ Len(answer) \in Nat /\ Len(answer) > 0
      /\ offset \in Nat /\ run \in Nat
      /\ \A i \in 1 .. Len(handled) : handled[i].run \in Nat /\ handled[i].id \in Nat
  BY <1>1, <1>2, Lengths, EmptySeq DEF Typed, Window
<1>4. /\ NextId \in Nat /\ NextId > 0 /\ NextId >= offset
      /\ Confirmed \in Nat /\ NextId >= Confirmed + 1
      /\ NextId + Len(answer) <= Len(sent) + 1
  BY <1>2, <1>3 DEF NextId, Confirmed, Window
<1>5. u.id = NextId
  <2>1. u = answer[1] /\ 1 \in 1 .. Len(answer)
    BY <1>3
  <2>2. answer[1].id = NextId + 1 - 1
    BY <1>2, <2>1 DEF Window
  <2> QED BY <1>4, <2>1, <2>2
<1>6. offset' = NextId + 1 /\ handled' = Append(handled, [run |-> run, id |-> NextId])
  BY <1>1, <1>3, <1>4, <1>5
<1> HIDE DEF u
<1>7. Confirmed' = Confirmed /\ NextId' = NextId + 1
  <2>1. Confirmed' = Confirmed
    BY <1>1 DEF Confirmed
  <2> QED BY <1>4, <1>6, <2>1 DEF NextId
<1>8. /\ answer' \in Seq(Update) /\ Len(answer') = Len(answer) - 1
      /\ \A i \in 1 .. Len(answer') : answer'[i] = answer[i + 1]
  BY <1>1, <1>2, HeadTailProperties DEF Typed
<1>9. [run |-> run, id |-> NextId] \in Entry
  BY <1>3, <1>4 DEF Entry
<1>10. /\ handled' \in Seq(Entry) /\ Len(handled') = Len(handled) + 1
       /\ \A i \in 1 .. Len(handled) : handled'[i] = handled[i]
       /\ handled'[Len(handled) + 1].run = run
       /\ handled'[Len(handled) + 1].id = NextId
  BY <1>2, <1>6, <1>9, AppendProperties DEF Typed
<1>11. \A i \in 1 .. Len(handled') : i \in 1 .. Len(handled) \/ i = Len(handled) + 1
  BY <1>3, <1>10
<1>12. Up /\ Up'
  BY <1>1 DEF Up
<1>13. NextId \in 1 .. Len(sent)
  BY <1>3, <1>4
<1>14. Typed'
  <2>1. offset' \in Nat
    BY <1>4, <1>6
  <2> QED BY <1>1, <1>2, <1>8, <1>10, <2>1 DEF Typed
<1>15. Window'
  <2>1. Len(updates') <= Len(sent') /\ offset' <= Len(sent') + 1
    BY <1>1, <1>3, <1>6, <1>13
  <2>2. \A i \in 1 .. Len(updates') : updates'[i].id = Confirmed' + i
    BY <1>1, <1>2, <1>7 DEF Window
  <2>3. ASSUME NEW i \in 1 .. Len(answer') PROVE answer'[i].id = NextId' + i - 1
    <3>1. i + 1 \in 1 .. Len(answer) /\ answer'[i] = answer[i + 1]
      BY <1>3, <1>8
    <3>2. answer'[i].id = NextId + (i + 1) - 1
      BY <1>2, <3>1 DEF Window
    <3> QED BY <1>3, <1>4, <1>7, <1>8, <3>2
  <2>4. NextId' + Len(answer') <= Len(sent') + 1
    BY <1>1, <1>3, <1>4, <1>7, <1>8
  <2> QED BY <1>1, <2>1, <2>2, <2>3, <2>4 DEF Window
<1>16. Runs'
  <2>1. ASSUME NEW i \in 1 .. Len(handled')
        PROVE  handled'[i].run <= run /\ handled'[i].id \in 1 .. Len(sent)
    <3>1. CASE i \in 1 .. Len(handled)
      BY <1>2, <1>10, <3>1 DEF Runs
    <3>2. CASE i = Len(handled) + 1
      BY <1>3, <1>10, <1>13, <3>2
    <3> QED BY <1>11, <3>1, <3>2
  <2> QED BY <1>1, <1>2, <2>1 DEF Runs
<1>17. Order'
  <2>1. ASSUME NEW i \in 1 .. Len(handled), handled[i].run = run
        PROVE  handled[i].id < NextId /\ handled[i].id < NextId + 1
    <3>1. handled[i].id < offset
      BY <1>12, <2>1 DEF BotInv, Order
    <3>2. handled[i].id \in Nat /\ offset \in Nat /\ NextId \in Nat /\ NextId >= offset
      BY <1>3, <1>4, <2>1
    <3> QED BY <3>1, <3>2
  <2>2. ASSUME NEW i \in 1 .. Len(handled'), NEW j \in 1 .. Len(handled'), i < j,
               handled'[i].run = handled'[j].run
        PROVE  handled'[i].id < handled'[j].id
    <3>1. i \in 1 .. Len(handled) /\ handled'[i] = handled[i]
      BY <1>3, <1>10, <2>2
    <3>2. CASE j \in 1 .. Len(handled)
      BY <1>10, <2>2, <3>1, <3>2 DEF BotInv, Order
    <3>3. CASE j = Len(handled) + 1
      BY <1>10, <2>1, <2>2, <3>1, <3>3
    <3> QED BY <1>11, <3>2, <3>3
  <2>3. ASSUME NEW i \in 1 .. Len(handled'), handled'[i].run = run
        PROVE  handled'[i].id < NextId + 1
    <3>1. CASE i \in 1 .. Len(handled)
      BY <1>10, <2>1, <2>3, <3>1
    <3>2. CASE i = Len(handled) + 1
      BY <1>4, <1>10, <3>2
    <3> QED BY <1>11, <3>1, <3>2
  <2> QED BY <1>1, <1>6, <2>2, <2>3 DEF Order
<1>18. Remembered'
  <2>1. ASSUME NEW n \in 1 .. Len(sent), sent[n] = run, n < NextId + 1
        PROVE  \E i \in 1 .. Len(handled') : handled'[i].run = run /\ handled'[i].id = n
    <3>1. CASE n = NextId
      <4>1. Len(handled) + 1 \in 1 .. Len(handled')
        BY <1>3, <1>10
      <4> QED BY <1>10, <3>1, <4>1
    <3>2. CASE n # NextId
      <4>1. n < NextId
        BY <1>4, <2>1, <3>2
      <4>2. PICK i \in 1 .. Len(handled) : handled[i].run = run /\ handled[i].id = n
        BY <1>12, <2>1, <4>1 DEF BotInv, Remembered, Handled
      <4>3. i \in 1 .. Len(handled') /\ handled'[i] = handled[i]
        BY <1>3, <1>10
      <4> QED BY <4>2, <4>3
    <3> QED BY <3>1, <3>2
  <2> QED BY <1>1, <1>7, <2>1 DEF Remembered, Handled
<1>19. Own'
  <2> SUFFICES ASSUME skipped
               PROVE  /\ \A n \in 1 .. Len(sent) : n >= NextId + 1 => sent[n] = run
                      /\ \A i \in 1 .. Len(handled') :
                           handled'[i].run = run => sent[handled'[i].id] = run
    BY <1>1, <1>7 DEF Own
  <2>1. /\ \A n \in 1 .. Len(sent) : n >= NextId => sent[n] = run
        /\ \A i \in 1 .. Len(handled) : handled[i].run = run => sent[handled[i].id] = run
    BY <1>12 DEF BotInv, Own
  <2>2. sent[NextId] = run
    BY <1>4, <1>13, <2>1
  <2> QED BY <1>4, <1>10, <1>11, <2>1, <2>2
<1> QED BY <1>14, <1>15, <1>16, <1>17, <1>18, <1>19 DEF BotInv

(* What is written comes after all there is; it is sent to the run that is *)
(* up by then.                                                             *)
LEMMA BotWrites ==
  ASSUME BotInv, Write
  PROVE  BotInv'
<1> DEFINE r == IF pc \in {"down", "boot"} THEN 0 ELSE run
<1>1. PICK m \in Incoming : updates' = Append(updates, [id |-> Len(sent) + 1, msg |-> m])
  BY DEF Write
<1>2. /\ sent' = Append(sent, r)
      /\ run' = run /\ pc' = pc /\ offset' = offset /\ answer' = answer
      /\ skipped' = skipped /\ handled' = handled
  BY DEF Write
<1>3. Typed /\ Window /\ Runs
  BY DEF BotInv
<1>4. /\ Len(sent) \in Nat /\ Len(updates) \in Nat /\ Len(updates) <= Len(sent)
      /\ Len(answer) \in Nat /\ offset \in Nat /\ run \in Nat /\ offset <= Len(sent) + 1
      /\ \A i \in 1 .. Len(handled) : handled[i].run \in Nat /\ handled[i].id \in 1 .. Len(sent)
  BY <1>3, Lengths DEF Typed, Window, Runs
<1>5. r \in Nat /\ r <= run /\ (Up => r = run) /\ (pc = "boot" => r # run)
  BY <1>3, <1>4 DEF Up, Runs
<1> HIDE DEF r
<1>6. [id |-> Len(sent) + 1, msg |-> m] \in Update
  BY <1>4 DEF Update
<1>7. /\ updates' \in Seq(Update) /\ Len(updates') = Len(updates) + 1
      /\ \A i \in 1 .. Len(updates) : updates'[i] = updates[i]
      /\ updates'[Len(updates) + 1].id = Len(sent) + 1
  BY <1>1, <1>3, <1>6, AppendProperties DEF Typed
<1>8. /\ sent' \in Seq(Nat) /\ Len(sent') = Len(sent) + 1
      /\ \A i \in 1 .. Len(sent) : sent'[i] = sent[i]
      /\ sent'[Len(sent) + 1] = r
  BY <1>2, <1>3, <1>5, AppendProperties DEF Typed
<1>9. \A n \in 1 .. Len(sent') : n \in 1 .. Len(sent) \/ n = Len(sent) + 1
  BY <1>4, <1>8
<1>10. Confirmed' = Confirmed /\ Confirmed \in Nat
  BY <1>4, <1>7, <1>8 DEF Confirmed
<1>11. NextId' = NextId /\ Up' = Up
  BY <1>2, <1>10 DEF NextId, Up
<1>12. NextId \in Nat /\ NextId + Len(answer) <= Len(sent) + 1
  BY <1>3, <1>4, <1>10 DEF NextId, Window
<1>13. Typed'
  BY <1>2, <1>3, <1>7, <1>8 DEF Typed
<1>14. Window'
  <2>1. ASSUME NEW i \in 1 .. Len(updates') PROVE updates'[i].id = Confirmed + i
    <3>1. CASE i \in 1 .. Len(updates)
      BY <1>3, <1>7, <3>1 DEF Window
    <3>2. CASE i = Len(updates) + 1
      BY <1>4, <1>7, <3>2 DEF Confirmed
    <3> QED BY <1>4, <1>7, <3>1, <3>2
  <2>2. Len(updates') <= Len(sent') /\ offset' <= Len(sent') + 1
    BY <1>2, <1>4, <1>7, <1>8
  <2>3. NextId' + Len(answer') <= Len(sent') + 1
    BY <1>2, <1>4, <1>8, <1>11, <1>12
  <2> QED BY <1>2, <1>3, <1>10, <1>11, <2>1, <2>2, <2>3 DEF Window
<1>15. Runs'
  <2>1. ASSUME NEW n \in 1 .. Len(sent') PROVE sent'[n] <= run /\ (pc = "boot" => sent'[n] # run)
    BY <1>3, <1>5, <1>8, <1>9 DEF Runs
  <2>2. \A i \in 1 .. Len(handled) : handled[i].id \in 1 .. Len(sent')
    BY <1>4, <1>8
  <2> QED BY <1>2, <1>3, <2>1, <2>2 DEF Runs
<1>16. Order'
  BY <1>2, <1>11 DEF BotInv, Order
<1>17. Remembered'
  <2>1. \A n : Handled(n)' <=> Handled(n)
    BY <1>2 DEF Handled
  <2>2. ASSUME Up, NEW n \in 1 .. Len(sent'), sent'[n] = run, n < NextId PROVE Handled(n)
    <3>1. n \in 1 .. Len(sent)
      BY <1>4, <1>9, <1>12, <2>2
    <3> QED BY <1>8, <2>2, <3>1 DEF BotInv, Remembered
  <2> QED BY <1>2, <1>11, <2>1, <2>2 DEF Remembered
<1>18. Own'
  <2> SUFFICES ASSUME skipped, Up
               PROVE  /\ \A n \in 1 .. Len(sent') : n >= NextId => sent'[n] = run
                      /\ \A i \in 1 .. Len(handled) :
                           handled[i].run = run => sent'[handled[i].id] = run
    BY <1>2, <1>11 DEF Own
  <2>1. /\ \A n \in 1 .. Len(sent) : n >= NextId => sent[n] = run
        /\ \A i \in 1 .. Len(handled) : handled[i].run = run => sent[handled[i].id] = run
    BY DEF BotInv, Own
  <2> QED BY <1>4, <1>5, <1>8, <1>9, <2>1
<1> QED BY <1>13, <1>14, <1>15, <1>16, <1>17, <1>18 DEF BotInv

(* and every step keeps it.                                                *)
LEMMA BotStep == BotInv /\ [BotNext]_botVars => BotInv'
<1> SUFFICES ASSUME BotInv, [BotNext]_botVars PROVE BotInv'
  OBVIOUS
<1>1. /\ Typed /\ Window /\ Runs
      /\ pc \in {"down", "boot", "poll", "handle", "deliver", "retry", "sleep"}
  BY DEF BotInv, Typed
<1>2. CASE Write
  BY <1>2, BotWrites
<1>3. CASE Start
  <2>1. /\ pc = "down" /\ pc' = "boot" /\ run' = run + 1
        /\ updates' = updates /\ offset' = offset /\ answer' = answer
        /\ sent' = sent /\ handled' = handled
    BY <1>3 DEF Start, history
  <2>2. Confirmed' = Confirmed /\ NextId' = NextId /\ ~Up'
    BY <2>1 DEF Confirmed, NextId, Up
  <2>3. run \in Nat /\ \A n \in 1 .. Len(sent) : sent[n] \in Nat
        /\ \A i \in 1 .. Len(handled) : handled[i].run \in Nat
    BY <1>1, Lengths DEF Typed
  <2>4. Typed' /\ Window'
    BY <1>1, <2>1, <2>2 DEF Typed, Window
  <2>5. Runs'
    BY <1>1, <2>1, <2>3 DEF Runs
  <2>6. Order' /\ Remembered' /\ Own'
    BY <2>1, <2>2 DEF BotInv, Order, Remembered, Own
  <2> QED BY <2>4, <2>5, <2>6 DEF BotInv
<1>4. CASE Die
  <2>1. /\ pc' = "down" /\ run' = run /\ answer' = <<>>
        /\ updates' = updates /\ offset' = offset
        /\ sent' = sent /\ handled' = handled
    BY <1>4 DEF Die, history
  <2>2. Confirmed' = Confirmed /\ NextId' = NextId /\ ~Up'
    BY <2>1 DEF Confirmed, NextId, Up
  <2>3. <<>> \in Seq(Update) /\ Len(answer') = 0 /\ Len(answer) \in Nat
    BY <1>1, <2>1, Lengths
  <2>4. Typed'
    BY <1>1, <2>1, <2>3 DEF Typed
  <2>5. NextId + 0 <= Len(sent) + 1
    <3>1. Len(sent) \in Nat /\ Len(updates) \in Nat /\ offset \in Nat
      BY <1>1, Lengths DEF Typed
    <3>2. Len(updates) <= Len(sent) /\ offset <= Len(sent) + 1
      BY <1>1 DEF Window
    <3> QED BY <3>1, <3>2 DEF NextId, Confirmed
  <2>6. Window'
    BY <1>1, <2>1, <2>2, <2>3, <2>5 DEF Window
  <2>7. Runs' /\ Order' /\ Remembered' /\ Own'
    BY <1>1, <2>1, <2>2 DEF BotInv, Runs, Order, Remembered, Own
  <2> QED BY <2>4, <2>6, <2>7 DEF BotInv
<1>5. CASE Boot
  BY <1>5, BotBoots
<1>6. CASE PollAnswered
  BY <1>6, BotPolled DEF PollAnswered, history
<1>7. CASE PollFailed
  <2>1. CASE updates' = From(offset)
    BY <1>7, <2>1, BotPolled DEF PollFailed, history
  <2>2. CASE updates' = updates
    <3>1. answer = <<>>
      BY <1>1, <1>7 DEF PollFailed, Window
    <3> QED BY <1>7, <2>2, <3>1, BotIdle DEF PollFailed
  <2> QED BY <1>7, <2>1, <2>2 DEF PollFailed
<1>8. CASE Sleep
  <2>1. answer = <<>>
    BY <1>1, <1>8 DEF Sleep, Window
  <2> QED BY <1>8, <2>1, BotIdle DEF Sleep
<1>9. CASE Handle
  BY <1>9, BotHandles
<1>10. CASE Deliver
  BY <1>10, BotIdle DEF Deliver
<1>11. CASE AnswerThrottled
  BY <1>11, BotIdle DEF AnswerThrottled
<1>12. CASE PollAgain
  BY <1>12, BotIdle DEF PollAgain
<1>13. CASE Refill \/ Ended \/ UNCHANGED botVars
  <2>1. UNCHANGED <<updates, run, pc, offset, answer, skipped, history>>
    BY <1>13 DEF Refill, Ended, botVars
  <2>2. answer = <<>> \/ pc' \in {"handle", "deliver", "retry"}
    BY <1>1, <2>1 DEF Window
  <2> QED BY <1>1, <2>1, <2>2, BotIdle
<1> QED
  BY <1>2, <1>3, <1>4, <1>5, <1>6, <1>7, <1>8, <1>9, <1>10, <1>11, <1>12, <1>13
  DEF BotNext, CommandThread

-----------------------------------------------------------------------------
(* HandledNow are the ids of this run's entries.                           *)
LEMMA HandledNowIs ==
  ASSUME Typed
  PROVE  \A n : n \in HandledNow <=> Handled(n)
<1>1. DOMAIN handled = 1 .. Len(handled)
  BY LenProperties DEF Typed
<1> QED BY <1>1 DEF HandledNow, Handled

(* poll_loop: a run handles no update twice and none out of order, and the *)
(* server forgets none that was sent to the run before it was handled,     *)
(* whichever calls fail and however much an answer holds.                  *)
THEOREM AlwaysHandledOnce == BotSpec => []HandledOnce
<1>1. BotInv => HandledOnce
  <2> SUFFICES ASSUME BotInv PROVE HandledOnce
    OBVIOUS
  <2>1. Typed /\ Window /\ Runs /\ Order /\ Remembered
    BY DEF BotInv
  <2>2. /\ DOMAIN handled = 1 .. Len(handled) /\ DOMAIN sent = 1 .. Len(sent)
        /\ DOMAIN updates = 1 .. Len(updates)
    BY <2>1, LenProperties DEF Typed
  <2>3. ASSUME pc # "down", NEW n \in 1 .. Len(sent), sent[n] = run
        PROVE  n \in UpdateIds \cup HandledNow
    <3>1. Up
      BY <2>1, <2>3 DEF Runs, Up
    <3>2. CASE n < NextId
      BY <2>1, <2>3, <3>1, <3>2, HandledNowIs DEF Remembered
    <3>3. CASE ~(n < NextId)
      <4>1. /\ Len(sent) \in Nat /\ Len(updates) \in Nat /\ offset \in Nat
            /\ Len(updates) <= Len(sent)
        BY <2>1, Lengths DEF Typed, Window
      <4>2. n >= Confirmed + 1 /\ Confirmed \in Nat
        BY <3>3, <4>1 DEF NextId, Confirmed
      <4>3. n - Confirmed \in 1 .. Len(updates)
        BY <4>1, <4>2 DEF Confirmed
      <4>4. updates[n - Confirmed].id = Confirmed + (n - Confirmed)
        BY <2>1, <4>3 DEF Window
      <4>5. updates[n - Confirmed].id = n
        BY <4>2, <4>4
      <4> QED BY <2>2, <4>3, <4>5 DEF UpdateIds
    <3> QED BY <3>2, <3>3
  <2> QED BY <2>1, <2>2, <2>3 DEF HandledOnce, Order
<1> QED BY BotInvInit, BotStep, <1>1, PTL DEF BotSpec

(* poll_loop: a run that learnt what was queued before it handles only     *)
(* what was sent to itself, however often the program was started before.  *)
THEOREM OnlyOwnCommands == BotSpec => []OwnCommands
<1>1. BotInv => OwnCommands
  <2> SUFFICES ASSUME BotInv, skipped, pc # "down", NEW n \in HandledNow
               PROVE  sent[n] = run
    BY DEF OwnCommands
  <2>1. Typed /\ Runs /\ Own
    BY DEF BotInv
  <2>2. PICK i \in 1 .. Len(handled) : handled[i].run = run /\ handled[i].id = n
    BY <2>1, HandledNowIs DEF Handled
  <2>3. Up
    BY <2>1, <2>2 DEF Runs, Up
  <2> QED BY <2>1, <2>2, <2>3 DEF Own
<1> QED BY BotInvInit, BotStep, <1>1, PTL DEF BotSpec
=============================================================================
