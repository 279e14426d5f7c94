----------------------------- MODULE ServerProofs -----------------------------
(***************************************************************************)
(* The promises of the MCP server, for any connections, sources, requests, *)
(* limit and channel: every request gets its one answer, the number a      *)
(* search tells was true at some moment of it, and a watch leaves out no   *)
(* record.                                                                 *)
(***************************************************************************)
EXTENDS Server, FiniteSetTheorems, SequenceTheorems, TLAPS

-----------------------------------------------------------------------------
(* What the variables hold. *)
Message == [source : Sources, at : Nat]
Job ==
  [stage : {"search", "open", "watch"}, id : Nat, req : Request, todo : Seq(Sources),
   total : Nat, before : Nat, from : [Sources -> Nat], hits : Seq(Message), due : BOOLEAN]

IsSeq(s) == \E S : s \in Seq(S)

Typed ==
  /\ transport \in {"stdio", "http"}
  /\ log \in [Sources -> Seq(BOOLEAN)]
  /\ sent \in [Conns -> Seq(Request)]
  /\ read \in [Conns -> Nat] /\ \A c \in Conns : read[c] <= Len(sent[c])
  /\ job \in [Conns -> Job \cup {Idle}]
  /\ chan \in [Conns -> Seq(Message)]
  /\ next \in [Conns -> [Sources -> Nat]]
  /\ replies = [c \in Conns |-> replies[c]] /\ \A c \in Conns : IsSeq(replies[c])

-----------------------------------------------------------------------------
(* Sequences of whatever is in them. *)
LEMMA IsSeqHas ==
  ASSUME NEW s, IsSeq(s)
  PROVE  Len(s) \in Nat /\ DOMAIN s = 1 .. Len(s)
<1>1. PICK S : s \in Seq(S)
  BY DEF IsSeq
<1> QED BY <1>1, LenProperties

LEMMA AppendIs ==
  ASSUME NEW s, IsSeq(s), NEW x
  PROVE  LET t == Append(s, x)
         IN  /\ IsSeq(t) /\ Len(t) = Len(s) + 1 /\ DOMAIN t = 1 .. Len(s) + 1
             /\ t[Len(s) + 1] = x /\ \A i \in 1 .. Len(s) : t[i] = s[i]
<1> DEFINE t == Append(s, x)
<1>1. PICK S : s \in Seq(S)
  BY DEF IsSeq
<1>2. s \in Seq(S \cup {x})
  <2>1. Len(s) \in Nat /\ s \in [1 .. Len(s) -> S]
    BY <1>1, LenProperties
  <2>2. s \in [1 .. Len(s) -> S \cup {x}]
    BY <2>1
  <2> QED BY <2>1, <2>2
<1>3. /\ t \in Seq(S \cup {x}) /\ Len(t) = Len(s) + 1
      /\ t[Len(s) + 1] = x /\ \A i \in 1 .. Len(s) : t[i] = s[i]
  <2>1. x \in S \cup {x}
    OBVIOUS
  <2> QED BY <1>2, <2>1, AppendProperties
<1>4. DOMAIN t = 1 .. Len(s) + 1
  BY <1>3, LenProperties
<1> QED BY <1>3, <1>4 DEF IsSeq

LEMMA TailIs ==
  ASSUME NEW S, NEW s \in Seq(S), s # <<>>
  PROVE  /\ Head(s) = s[1] /\ s[1] \in S /\ Len(s) \in Nat \ {0} /\ DOMAIN s = 1 .. Len(s)
         /\ Tail(s) \in Seq(S) /\ Len(Tail(s)) = Len(s) - 1 /\ DOMAIN Tail(s) = 1 .. Len(s) - 1
         /\ \A i \in 1 .. Len(s) - 1 : Tail(s)[i] = s[i + 1]
<1>1. Len(s) \in Nat \ {0} /\ DOMAIN s = 1 .. Len(s)
  BY EmptySeq, LenProperties
<1>2. /\ Tail(s) \in Seq(S) /\ Len(Tail(s)) = Len(s) - 1
      /\ \A i \in 1 .. Len(Tail(s)) : Tail(s)[i] = s[i + 1]
  BY HeadTailProperties
<1>3. DOMAIN Tail(s) = 1 .. Len(s) - 1
  BY <1>2, LenProperties
<1>4. Head(s) = s[1] /\ s[1] \in S
  BY <1>1
<1> QED BY <1>1, <1>2, <1>3, <1>4

LEMMA InIsSeq ==
  ASSUME NEW S, NEW s \in Seq(S)
  PROVE  IsSeq(s)
BY DEF IsSeq

-----------------------------------------------------------------------------
(* A thread is idle, or has a job. *)
LEMMA JobIs ==
  ASSUME Typed, NEW c \in Conns
  PROVE  /\ job[c] = Idle <=> job[c].stage = "idle"
         /\ job[c] # Idle => job[c] \in Job
<1>1. job[c] \in Job \cup {Idle} /\ Idle.stage = "idle"
  BY DEF Typed, Idle
<1>2. \A j \in Job : j.stage # "idle"
  BY DEF Job
<1> QED BY <1>1, <1>2

LEMMA PickedIs ==
  ASSUME NEW req \in Request
  PROVE  Picked(req) \in Seq(Sources)
<1>1. req.source \in Sources \cup {"all", "unknown"}
  BY DEF Request
<1>2. Specs \in Seq(Sources) /\ <<>> \in Seq(Sources)
  BY ServerAssumption
<1>3. req.source \in Sources => <<req.source>> \in Seq(Sources)
  OBVIOUS
<1> QED BY <1>1, <1>2, <1>3 DEF Picked

(* One more answer is there, of this id, kind and contents. *)
Answers(c, id, code, told) ==
  \E said : /\ said.id = id /\ said.code = code /\ said.told = told
            /\ replies' = [replies EXCEPT ![c] = Append(replies[c], said)]

(* An answer goes out as it is, but for its status; on stdin, nothing goes *)
(* out for no answer.                                                      *)
LEMMA ReplyIs ==
  ASSUME Typed, NEW c \in Conns, NEW req, NEW id, NEW code, NEW status, NEW told,
         Reply(c, req, [id |-> id, code |-> code, status |-> status, told |-> told])
  PROVE  /\ transport = "stdio" /\ code = "no_answer" => replies' = replies
         /\ ~(transport = "stdio" /\ code = "no_answer") => Answers(c, id, code, told)
<1> DEFINE answer == [id |-> id, code |-> code, status |-> status, told |-> told]
           said == IF answer.code = "refused" THEN answer ELSE WithStatus(req, answer)
<1>1. said.id = id /\ said.code = code /\ said.told = told
  BY DEF WithStatus
<1>2. CASE transport = "stdio" /\ code = "no_answer"
  BY <1>2 DEF Reply, Typed
<1>3. CASE ~(transport = "stdio" /\ code = "no_answer")
  <2>1. replies' = [replies EXCEPT ![c] = Append(replies[c], said)]
    BY <1>3 DEF Reply
  <2>2. Answers(c, id, code, told)
    <3> HIDE DEF said
    <3> QED BY <1>1, <2>1 DEF Answers
  <2> QED BY <1>3, <2>2
<1> QED BY <1>2, <1>3

LEMMA RepliesTyped ==
  ASSUME Typed, NEW c \in Conns, NEW said,
         replies' = [replies EXCEPT ![c] = Append(replies[c], said)]
  PROVE  /\ replies' = [d \in Conns |-> replies'[d]] /\ \A d \in Conns : IsSeq(replies'[d])
         /\ replies'[c] = Append(replies[c], said)
         /\ \A d \in Conns \ {c} : replies'[d] = replies[d]
<1>1. /\ replies'[c] = Append(replies[c], said) /\ \A d \in Conns \ {c} : replies'[d] = replies[d]
      /\ replies' = [d \in Conns |-> replies'[d]]
  BY DEF Typed
<1>2. IsSeq(replies'[c])
  BY <1>1, AppendIs DEF Typed
<1> QED BY <1>1, <1>2 DEF Typed

(* What is answered at once repeats the id that was asked with, unless it  *)
(* could not be read.                                                      *)
Silent == {"blank", "response", "notification"}
IdOf(req, n) == IF req.flaws # {} \/ req.body \in {"junk", "binary", "array", "blank"} THEN 0 ELSE n

Fits(via, req, id, said, code) ==
  /\ code \notin {"found", "watched", "refused"}
  /\ code = "no_answer" => req.body \in Silent
  /\ via = "stdio" /\ req.body \in Silent => code = "no_answer"
  /\ code = "later" => req.body \in {"search", "watch_once"} /\ Picked(req) # <<>>
  /\ ~(via = "stdio" /\ req.body = "blank") =>
       said = IF req.body \in {"junk", "binary", "array", "blank"} THEN 0 ELSE id

Fitting(via, req, id, answer) ==
  \E said, code, status : answer = Answer(said, code, status) /\ Fits(via, req, id, said, code)

LEMMA ImmediateIs ==
  ASSUME Typed, NEW req \in Request, NEW id
  PROVE  Fitting(transport, req, id, Immediate(req, id))
<1> DEFINE a == Immediate(req, id)
<1>0. /\ transport \in {"stdio", "http"}
      /\ req.body \in {"junk", "binary", "array", "no_method", "blank", "response",
                       "error_response", "notification", "ping", "method", "tool", "search", "watch_once"}
  BY DEF Typed, Request
<1>1. CASE req.body \in {"junk", "binary"} \/ (req.body = "blank" /\ transport = "http")
  <2>1. a = Answer(0, "parse_error", 400)
    BY <1>1 DEF Immediate
  <2>2. Fits(transport, req, id, 0, "parse_error")
    BY <1>0, <1>1 DEF Fits, Silent
  <2> QED BY <2>1, <2>2 DEF Fitting
<1>2. CASE req.body = "array"
  <2>1. a = Answer(0, "invalid_request", 400)
    BY <1>2 DEF Immediate
  <2>2. Fits(transport, req, id, 0, "invalid_request")
    BY <1>0, <1>2 DEF Fits, Silent
  <2> QED BY <2>1, <2>2 DEF Fitting
<1>3. CASE req.body \in {"no_method", "error_response"}
  <2>1. a = Answer(id, "invalid_request", 400)
    BY <1>3 DEF Immediate
  <2>2. Fits(transport, req, id, id, "invalid_request")
    BY <1>0, <1>3 DEF Fits, Silent
  <2> QED BY <2>1, <2>2 DEF Fitting
<1>4. CASE req.body \in {"response", "notification"} \/ (req.body = "blank" /\ transport = "stdio")
  <2>1. a = Answer(id, "no_answer", 202)
    BY <1>0, <1>4 DEF Immediate
  <2>2. Fits(transport, req, id, id, "no_answer")
    BY <1>0, <1>4 DEF Fits, Silent
  <2> QED BY <2>1, <2>2 DEF Fitting
<1>5. CASE req.body \in {"ping", "method", "tool", "search", "watch_once"}
  <2> DEFINE rest == CASE req.body = "ping" -> Answer(id, "result", 200)
                       [] req.body = "method" -> Answer(id, "method_not_found", 404)
                       [] req.body = "tool" -> Answer(id, "invalid_params", 400)
                       [] req.body \in {"search", "watch_once"} ->
                            IF Picked(req) = <<>> THEN Answer(id, "failed", 200)
                            ELSE Answer(id, "later", 200)
             checked == CASE Disagrees(req) -> Answer(id, "header_mismatch", 400)
                          [] ~Disagrees(req) /\ req.version = "other" -> Answer(id, "unsupported_version", 400)
                          [] OTHER -> rest
  <2>1. a = checked
    BY <1>5 DEF Immediate
  <2>2. \/ rest = Answer(id, "result", 200) \/ rest = Answer(id, "method_not_found", 404)
        \/ rest = Answer(id, "invalid_params", 400) \/ rest = Answer(id, "failed", 200)
        \/ /\ rest = Answer(id, "later", 200)
           /\ req.body \in {"search", "watch_once"} /\ Picked(req) # <<>>
    <3>1. CASE req.body = "ping"
      BY <3>1
    <3>2. CASE req.body = "method"
      BY <3>2
    <3>3. CASE req.body = "tool"
      BY <3>3
    <3>4. CASE req.body \in {"search", "watch_once"}
      <4>1. rest = IF Picked(req) = <<>> THEN Answer(id, "failed", 200) ELSE Answer(id, "later", 200)
        BY <3>4
      <4> HIDE DEF rest
      <4> QED BY <3>4, <4>1
    <3> QED BY <1>5, <3>1, <3>2, <3>3, <3>4
  <2> HIDE DEF rest
  <2>3. \/ checked = Answer(id, "header_mismatch", 400) \/ checked = Answer(id, "unsupported_version", 400)
        \/ checked = rest
    OBVIOUS
  <2> HIDE DEF a, checked
  <2>4. ASSUME NEW code \in {"header_mismatch", "unsupported_version", "result", "method_not_found",
                             "invalid_params", "failed"},
               NEW status
        PROVE  Fitting(transport, req, id, Answer(id, code, status))
    <3>1. Fits(transport, req, id, id, code)
      BY <1>5 DEF Fits, Silent
    <3> QED BY <3>1 DEF Fitting
  <2>5. req.body \in {"search", "watch_once"} /\ Picked(req) # <<>> => Fitting(transport, req, id, Answer(id, "later", 200))
    <3>1. req.body \in {"search", "watch_once"} /\ Picked(req) # <<>> => Fits(transport, req, id, id, "later")
      BY <1>5 DEF Fits, Silent
    <3> QED BY <3>1 DEF Fitting
  <2>6. /\ Fitting(transport, req, id, Answer(id, "header_mismatch", 400)) /\ Fitting(transport, req, id, Answer(id, "unsupported_version", 400))
        /\ Fitting(transport, req, id, Answer(id, "result", 200)) /\ Fitting(transport, req, id, Answer(id, "method_not_found", 404))
        /\ Fitting(transport, req, id, Answer(id, "invalid_params", 400)) /\ Fitting(transport, req, id, Answer(id, "failed", 200))
    BY <2>4
  <2>7. Fitting(transport, req, id, rest)
    BY <2>2, <2>5, <2>6
  <2>8. Fitting(transport, req, id, a)
    BY <2>1, <2>3, <2>6, <2>7
  <2> QED BY <2>8 DEF a
<1> QED BY <1>0, <1>1, <1>2, <1>3, <1>4, <1>5

(* Read starts a job, or gives the one answer that is due, if one is.      *)
LEMMA ReadIs ==
  ASSUME Typed, NEW c \in Conns, Read(c), transport = "stdio" => sent[c][read[c] + 1].flaws = {}
  PROVE  LET n   == read[c] + 1
             req == sent[c][n]
         IN  /\ n \in 1 .. Len(sent[c]) /\ n \in Nat /\ req \in Request
             /\ job[c] = Idle /\ read' = [read EXCEPT ![c] = n]
             /\ UNCHANGED <<transport, log, gone, sent, chan, next, stopping>>
             /\ \/ /\ req.flaws = {} /\ req.body \in {"search", "watch_once"} /\ Picked(req) # <<>>
                   /\ job' = [job EXCEPT ![c] = Started(req, n)] /\ UNCHANGED replies
                \/ /\ transport = "stdio" /\ req.body \in Silent
                   /\ UNCHANGED <<job, replies>>
                \/ /\ ~(transport = "stdio" /\ req.body \in Silent) /\ UNCHANGED job
                   /\ \E said : /\ said.id = IdOf(req, n) /\ said.code \notin {"found", "watched"}
                                /\ replies' = [replies EXCEPT ![c] = Append(replies[c], said)]
<1> DEFINE n   == read[c] + 1
           req == sent[c][n]
           answer == IF req.flaws # {} THEN Refusal(req.flaws) ELSE Immediate(req, n)
<1>1. /\ read \in [Conns -> Nat] /\ sent \in [Conns -> Seq(Request)] /\ sent[c] \in Seq(Request)
      /\ read[c] \in Nat
  BY DEF Typed
<1>2. read[c] < Len(sent[c]) /\ Len(sent[c]) \in Nat
  BY <1>1, LenProperties DEF Read
<1>3. n \in 1 .. Len(sent[c]) /\ n \in Nat /\ req \in Request
  BY <1>1, <1>2, ElementOfSeq
<1>4. read' = [read EXCEPT ![c] = n] /\ read'[c] = n
  BY <1>1 DEF Read
<1>5. job[c] = Idle /\ UNCHANGED <<transport, log, gone, sent, chan, next, stopping>>
  BY DEF Read
<1>6. \/ answer.code = "later" /\ job' = [job EXCEPT ![c] = Started(req, n)] /\ UNCHANGED replies
      \/ answer.code # "later" /\ UNCHANGED job /\ Reply(c, req, answer)
  <2>1. LET q == sent[c][read'[c]]
            a == IF q.flaws # {} THEN Refusal(q.flaws) ELSE Immediate(q, read'[c])
        IN  IF a.code = "later"
              THEN job' = [job EXCEPT ![c] = Started(q, read'[c])] /\ UNCHANGED replies
              ELSE UNCHANGED job /\ Reply(c, q, a)
    BY DEF Read
  <2> QED BY <1>4, <2>1
<1> HIDE DEF n, req
<1>7. CASE req.flaws # {}
  <2> DEFINE status == StatusOf[FirstFlaw[Min({k \in 1 .. 5 : FirstFlaw[k] \in req.flaws})]]
  <2>1. answer = [id |-> 0, code |-> "refused", status |-> status, told |-> Nothing]
    BY <1>7 DEF Refusal, Answer
  <2> HIDE DEF status
  <2>2. Reply(c, req, [id |-> 0, code |-> "refused", status |-> status, told |-> Nothing]) /\ UNCHANGED job
    BY <1>6, <2>1
  <2>3. Answers(c, 0, "refused", Nothing)
    BY <2>2, ReplyIs
  <2>4. transport # "stdio" /\ IdOf(req, n) = 0
    BY <1>7 DEF IdOf, req, n
  <2>5. \E said : /\ said.id = IdOf(req, n) /\ said.code \notin {"found", "watched"}
                  /\ replies' = [replies EXCEPT ![c] = Append(replies[c], said)]
    BY <2>3, <2>4 DEF Answers
  <2> QED BY <1>3, <1>4, <1>5, <2>2, <2>4, <2>5 DEF n, req
<1>8. CASE req.flaws = {}
  <2>1. PICK said, code, status :
           Immediate(req, n) = Answer(said, code, status) /\ Fits(transport, req, n, said, code)
    BY <1>3, ImmediateIs DEF Fitting
  <2>2. answer = [id |-> said, code |-> code, status |-> status, told |-> Nothing]
    BY <1>8, <2>1 DEF Answer
  <2>3. CASE code = "later"
    <3>1. job' = [job EXCEPT ![c] = Started(req, n)] /\ UNCHANGED replies
      BY <1>6, <2>2, <2>3
    <3>2. req.body \in {"search", "watch_once"} /\ Picked(req) # <<>>
      BY <2>1, <2>3 DEF Fits
    <3> QED BY <1>3, <1>4, <1>5, <1>8, <3>1, <3>2 DEF n, req
  <2>4. CASE code # "later"
    <3>1. /\ Reply(c, req, [id |-> said, code |-> code, status |-> status, told |-> Nothing])
          /\ UNCHANGED job
      BY <1>6, <2>2, <2>4
    <3>2. /\ transport = "stdio" /\ code = "no_answer" => replies' = replies
          /\ ~(transport = "stdio" /\ code = "no_answer") => Answers(c, said, code, Nothing)
      BY <3>1, ReplyIs
    <3>3. CASE transport = "stdio" /\ req.body \in Silent
      <4>1. replies' = replies
        BY <2>1, <3>2, <3>3 DEF Fits
      <4> QED BY <1>3, <1>4, <1>5, <3>1, <3>3, <4>1 DEF n, req
    <3>4. CASE ~(transport = "stdio" /\ req.body \in Silent)
      <4>1. ~(transport = "stdio" /\ code = "no_answer") /\ said = IdOf(req, n)
        BY <1>8, <2>1, <3>4 DEF IdOf, Silent, Fits
      <4>2. \E x : /\ x.id = IdOf(req, n) /\ x.code \notin {"found", "watched"}
                   /\ replies' = [replies EXCEPT ![c] = Append(replies[c], x)]
        BY <2>1, <3>2, <4>1 DEF Fits, Answers
      <4> QED BY <1>3, <1>4, <1>5, <3>1, <3>4, <4>2 DEF n, req
    <3> QED BY <3>3, <3>4
  <2> QED BY <2>3, <2>4
<1> QED BY <1>7, <1>8

(* A job ends with one answer, with the id it was asked with.              *)
LEMMA FinishIs ==
  ASSUME Typed, NEW c \in Conns, NEW code, NEW told, Finish(c, code, told), code # "no_answer"
  PROVE  /\ Answers(c, job[c].id, code, told)
         /\ job' = [job EXCEPT ![c] = Idle] /\ chan' = [chan EXCEPT ![c] = <<>>]
         /\ next' = [next EXCEPT ![c] = NoReaders]
         /\ UNCHANGED <<transport, log, gone, sent, read>>
<1> DEFINE answer == Answer(job[c].id, code, 200)
           full == [answer EXCEPT !.told = told]
<1>1. answer = [id |-> job[c].id, code |-> code, status |-> 200, told |-> Nothing]
  BY DEF Answer
<1>2. Reply(c, job[c].req, full)
  BY DEF Finish
<1> HIDE DEF answer
<1>3. full = [id |-> job[c].id, code |-> code, status |-> 200, told |-> told]
  <2>1. answer \in [id : {job[c].id}, code : {code}, status : {200}, told : {Nothing}]
    BY <1>1
  <2>2. full \in [id : {job[c].id}, code : {code}, status : {200}, told : {told}]
    BY <2>1
  <2> HIDE DEF full
  <2> QED BY <2>2
<1> HIDE DEF full
<1>4. Reply(c, job[c].req, [id |-> job[c].id, code |-> code, status |-> 200, told |-> told])
  BY <1>2, <1>3
<1>5. Answers(c, job[c].id, code, told)
  BY <1>4, ReplyIs
<1> QED BY <1>5 DEF Finish

-----------------------------------------------------------------------------
(* AnsweredOnce of one connection: what it is done with, and what of that  *)
(* is due an answer.                                                       *)
Done(c) == read[c] - (IF job[c] = Idle THEN 0 ELSE 1)
DueOf(via, asked, done) == {n \in 1 .. done : via = "http" \/ asked[n].body \notin Silent}
UpTo(due, n) == {m \in due : m <= n}
InOrder(due, asked, given) ==
  /\ Len(given) = Cardinality(due)
  /\ \A n \in due : given[Cardinality(UpTo(due, n))].id = IdOf(asked[n], n)
Answered(c) == InOrder(DueOf(transport, sent[c], Done(c)), sent[c], replies[c])

LEMMA AnsweredAll == AnsweredOnce <=> \A c \in Conns : Answered(c)
<1>1. ASSUME NEW c \in Conns
      PROVE  Answered(c) <=>
               LET done   == read[c] - (IF job[c] = Idle THEN 0 ELSE 1)
                   silent == {"blank", "response", "notification"}
                   due    == {n \in 1 .. done : transport = "http" \/ sent[c][n].body \notin silent}
               IN  /\ Len(replies[c]) = Cardinality(due)
                   /\ \A n \in due :
                        LET req  == sent[c][n]
                            said == replies[c][Cardinality({m \in due : m <= n})]
                        IN  said.id = IF req.flaws # {} \/ req.body \in {"junk", "binary", "array", "blank"} THEN 0 ELSE n
  BY DEF Answered, InOrder, UpTo, IdOf, DueOf, Silent, Done
<1> QED BY <1>1 DEF AnsweredOnce

(* Rank and number in a set of numbers that grows at its end.              *)
LEMMA DueIs ==
  ASSUME NEW via, NEW asked, NEW done \in Nat
  PROVE  LET due == DueOf(via, asked, done)
         IN  /\ due \subseteq 1 .. done /\ IsFiniteSet(due) /\ Cardinality(due) \in Nat
             /\ \A n \in due : /\ Cardinality(UpTo(due, n)) \in 1 .. Cardinality(due)
                               /\ n \in UpTo(due, n)
<1> DEFINE due == DueOf(via, asked, done)
<1>1. due \subseteq 1 .. done
  BY DEF DueOf
<1>2. IsFiniteSet(due) /\ Cardinality(due) \in Nat
  <2>1. IsFiniteSet(1 .. done)
    BY FS_Interval
  <2> QED BY <1>1, <2>1, FS_Subset, FS_CardinalityType
<1>3. ASSUME NEW n \in due
      PROVE  Cardinality(UpTo(due, n)) \in 1 .. Cardinality(due) /\ n \in UpTo(due, n)
  <2>1. UpTo(due, n) \subseteq due /\ n \in UpTo(due, n)
    BY <1>1 DEF UpTo
  <2>2. IsFiniteSet(UpTo(due, n)) /\ Cardinality(UpTo(due, n)) <= Cardinality(due)
    BY <1>2, <2>1, FS_Subset
  <2>3. Cardinality(UpTo(due, n)) \in Nat
    BY <2>2, FS_CardinalityType
  <2>4. Cardinality(UpTo(due, n)) # 0
    BY <2>1, <2>2, FS_EmptySet
  <2> QED BY <1>2, <2>1, <2>2, <2>3, <2>4
<1> QED BY <1>1, <1>2, <1>3

(* One request more is done with, and has its answer if one is due.        *)
LEMMA OneMore ==
  ASSUME NEW via, NEW asked, NEW done \in Nat, NEW given, IsSeq(given), NEW new,
         InOrder(DueOf(via, asked, done), asked, given),
         IF via = "http" \/ asked[done + 1].body \notin Silent
         THEN \E said : said.id = IdOf(asked[done + 1], done + 1) /\ new = Append(given, said)
         ELSE new = given
  PROVE  InOrder(DueOf(via, asked, done + 1), asked, new)
<1> DEFINE due  == DueOf(via, asked, done)
           more == DueOf(via, asked, done + 1)
           d    == done + 1
<1>1. /\ due \subseteq 1 .. done /\ IsFiniteSet(due) /\ Cardinality(due) \in Nat
      /\ \A n \in due : Cardinality(UpTo(due, n)) \in 1 .. Cardinality(due)
  BY DueIs
<1>2. CASE ~(via = "http" \/ asked[d].body \notin Silent)
  <2>1. more = due
    BY <1>2 DEF DueOf
  <2> QED BY <1>2, <2>1
<1>3. CASE via = "http" \/ asked[d].body \notin Silent
  <2>1. PICK said : said.id = IdOf(asked[d], d) /\ new = Append(given, said)
    BY <1>3
  <2>2. /\ Len(new) = Len(given) + 1 /\ new[Len(given) + 1] = said
        /\ \A i \in 1 .. Len(given) : new[i] = given[i]
    BY <2>1, AppendIs
  <2>3. more = due \cup {d}
    BY <1>3 DEF DueOf
  <2>4. Len(given) = Cardinality(due) /\ \A n \in due : given[Cardinality(UpTo(due, n))].id = IdOf(asked[n], n)
    BY DEF InOrder
  <2> HIDE DEF due, more
  <2>5. d \notin due
    BY <1>1
  <2>6. Cardinality(more) = Cardinality(due) + 1
    BY <1>1, <2>3, <2>5, FS_AddElement
  <2>7. \A n \in due : UpTo(more, n) = UpTo(due, n)
    BY <1>1, <2>3 DEF UpTo
  <2>8. UpTo(more, d) = more
    <3>1. \A n \in more : n <= d
      BY <1>1, <2>3
    <3> QED BY <3>1 DEF UpTo
  <2>9. ASSUME NEW n \in more
        PROVE  new[Cardinality(UpTo(more, n))].id = IdOf(asked[n], n)
    <3>1. CASE n = d
      <4>1. Cardinality(UpTo(more, n)) = Len(given) + 1
        BY <2>4, <2>6, <2>8, <3>1
      <4> QED BY <2>1, <2>2, <3>1, <4>1
    <3>2. CASE n \in due
      <4>1. UpTo(more, n) = UpTo(due, n) /\ Cardinality(UpTo(due, n)) \in 1 .. Len(given)
        BY <1>1, <2>4, <2>7, <3>2
      <4>2. new[Cardinality(UpTo(due, n))] = given[Cardinality(UpTo(due, n))]
        BY <2>2, <4>1
      <4> QED BY <2>4, <3>2, <4>1, <4>2
    <3> QED BY <2>3, <3>1, <3>2
  <2>10. Len(new) = Cardinality(more)
    BY <2>2, <2>4, <2>6
  <2> QED BY <2>9, <2>10 DEF InOrder, more
<1> QED BY <1>2, <1>3

-----------------------------------------------------------------------------
(* The places of the matches in some of the sources of a call. *)
Part(specs, lo, hi, logs) == UNION {{i} \X Matching(logs[specs[i]], 1) : i \in lo .. hi}

(* More records were written since. *)
More(logs, more) ==
  \A s \in Sources : /\ Len(logs[s]) <= Len(more[s])
                     /\ \A n \in 1 .. Len(logs[s]) : more[s][n] = logs[s][n]

LEMMA MatchingIs ==
  ASSUME NEW records \in Seq(BOOLEAN), NEW i \in Nat
  PROVE  /\ IsFiniteSet(Matching(records, i)) /\ Cardinality(Matching(records, i)) \in Nat
         /\ Matching(records, i) \subseteq i .. Len(records) /\ Len(records) \in Nat
<1>1. Len(records) \in Nat
  BY LenProperties
<1>2. Matching(records, i) \subseteq i .. Len(records)
  BY DEF Matching
<1>3. IsFiniteSet(i .. Len(records))
  BY <1>1, FS_Interval
<1> QED BY <1>1, <1>2, <1>3, FS_Subset, FS_CardinalityType

LEMMA PartFinite ==
  ASSUME NEW logs \in [Sources -> Seq(BOOLEAN)], NEW specs \in Seq(Sources),
         NEW lo \in Nat \ {0}, NEW hi \in Nat, hi <= Len(specs)
  PROVE  IsFiniteSet(Part(specs, lo, hi, logs)) /\ Cardinality(Part(specs, lo, hi, logs)) \in Nat
<1> DEFINE rows == {{i} \X Matching(logs[specs[i]], 1) : i \in lo .. hi}
<1>1. IsFiniteSet(lo .. hi)
  BY FS_Interval
<1>2. IsFiniteSet(rows)
  <2> DEFINE f == [i \in lo .. hi |-> {i} \X Matching(logs[specs[i]], 1)]
  <2>1. f \in [lo .. hi -> rows] /\ \A T \in rows : \E i \in lo .. hi : f[i] = T
    OBVIOUS
  <2> HIDE DEF f, rows
  <2>2. f \in Surjection(lo .. hi, rows)
    BY <2>1 DEF Surjection
  <2> QED BY <1>1, <2>2, FS_Surjection
<1>3. ASSUME NEW i \in lo .. hi
      PROVE  IsFiniteSet({i} \X Matching(logs[specs[i]], 1))
  <2>1. Len(specs) \in Nat /\ i \in 1 .. Len(specs)
    BY LenProperties
  <2>2. logs[specs[i]] \in Seq(BOOLEAN)
    BY <2>1, ElementOfSeq
  <2>3. IsFiniteSet(Matching(logs[specs[i]], 1)) /\ IsFiniteSet({i})
    BY <2>2, MatchingIs, FS_Singleton
  <2> QED BY <2>3, FS_Product
<1>4. IsFiniteSet(UNION rows)
  BY <1>2, <1>3, FS_UNION
<1> QED BY <1>4, FS_CardinalityType DEF Part

LEMMA InPart ==
  ASSUME NEW specs, NEW lo, NEW hi, NEW logs, NEW x
  PROVE  x \in Part(specs, lo, hi, logs) <=> \E i \in lo .. hi : x \in {i} \X Matching(logs[specs[i]], 1)
BY DEF Part

(* Of one source more. *)
LEMMA PartSplit ==
  ASSUME NEW logs \in [Sources -> Seq(BOOLEAN)], NEW specs \in Seq(Sources),
         NEW lo \in Nat \ {0}, NEW mid \in Nat, NEW up, up = mid + 1, NEW hi \in Nat,
         lo <= mid + 1, mid <= hi, hi <= Len(specs)
  PROVE  Cardinality(Part(specs, lo, hi, logs))
           = Cardinality(Part(specs, lo, mid, logs)) + Cardinality(Part(specs, up, hi, logs))
<1> DEFINE A == Part(specs, lo, mid, logs)
           B == Part(specs, up, hi, logs)
           C == Part(specs, lo, hi, logs)
<1>1. IsFiniteSet(A) /\ IsFiniteSet(B) /\ Cardinality(A) \in Nat /\ Cardinality(B) \in Nat
  <2>1. Len(specs) \in Nat /\ mid <= Len(specs) /\ mid + 1 \in Nat \ {0}
    BY LenProperties
  <2> QED BY <2>1, PartFinite
<1>2. C = A \cup B
  <2>1. \A x : x \in C <=> x \in A \/ x \in B
    <3> TAKE x
    <3>1. \A i : i \in lo .. hi <=> i \in lo .. mid \/ i \in mid + 1 .. hi
      OBVIOUS
    <3> QED BY <3>1, InPart
  <2> QED BY <2>1
<1>3. A \cap B = {}
  <2>1. ASSUME NEW x \in A, x \in B PROVE FALSE
    <3>1. PICK i \in lo .. mid : x \in {i} \X Matching(logs[specs[i]], 1)
      BY InPart
    <3>2. PICK j \in mid + 1 .. hi : x \in {j} \X Matching(logs[specs[j]], 1)
      BY <2>1, InPart
    <3> QED BY <3>1, <3>2
  <2> QED BY <2>1
<1> HIDE DEF A, B, C
<1>4. Cardinality(A \cup B) = Cardinality(A) + Cardinality(B) - Cardinality(A \cap B)
  BY <1>1, FS_Union
<1>5. Cardinality(A \cap B) = 0
  BY <1>3, FS_EmptySet
<1> QED BY <1>1, <1>2, <1>4, <1>5 DEF A, B, C

LEMMA PartOne ==
  ASSUME Typed, NEW specs \in Seq(Sources), NEW k \in 1 .. Len(specs)
  PROVE  Cardinality(Part(specs, k, k, log)) = Total(<<specs[k]>>)
<1> DEFINE M == Matching(log[specs[k]], 1)
<1>1. k \in Nat /\ specs[k] \in Sources
  BY ElementOfSeq, LenProperties
<1>2. IsFiniteSet(M) /\ Cardinality(M) \in Nat
  BY <1>1, MatchingIs DEF Typed
<1>3. Part(specs, k, k, log) = {k} \X M
  <2>1. k .. k = {k}
    BY <1>1
  <2> QED BY <2>1 DEF Part
<1>4. UNION {{i} \X Matching(log[<<specs[k]>>[i]], 1) : i \in DOMAIN <<specs[k]>>} = {1} \X M
  <2>1. DOMAIN <<specs[k]>> = {1} /\ <<specs[k]>>[1] = specs[k]
    OBVIOUS
  <2> QED BY <2>1
<1>5. Cardinality({k}) = 1 /\ Cardinality({1}) = 1 /\ IsFiniteSet({k}) /\ IsFiniteSet({1})
  BY FS_Singleton
<1> HIDE DEF M
<1>6. Cardinality({k} \X M) = Cardinality(M) /\ Cardinality({1} \X M) = Cardinality(M)
  <2>1. Cardinality({k} \X M) = Cardinality({k}) * Cardinality(M)
    BY <1>2, <1>5, FS_Product
  <2>2. Cardinality({1} \X M) = Cardinality({1}) * Cardinality(M)
    BY <1>2, <1>5, FS_Product
  <2> QED BY <1>2, <1>5, <2>1, <2>2
<1> QED BY <1>3, <1>4, <1>6 DEF Total, M

(* The sources only grow, and so do the matches in them. *)
LEMMA PartGrows ==
  ASSUME Typed, Typed', More(log, log'), NEW specs \in Seq(Sources),
         NEW lo \in Nat \ {0}, NEW hi \in Nat, hi <= Len(specs)
  PROVE  Cardinality(Part(specs, lo, hi, log)) <= Cardinality(Part(specs, lo, hi, log'))
<1>1. log \in [Sources -> Seq(BOOLEAN)] /\ log' \in [Sources -> Seq(BOOLEAN)]
  BY DEF Typed
<1>2. ASSUME NEW i \in lo .. hi
      PROVE  Matching(log[specs[i]], 1) \subseteq Matching(log'[specs[i]], 1)
  <2>1. specs[i] \in Sources
    BY LenProperties, ElementOfSeq
  <2>2. Len(log[specs[i]]) \in Nat /\ Len(log'[specs[i]]) \in Nat
    BY <1>1, <2>1, LenProperties
  <2> QED BY <2>1, <2>2 DEF More, Matching
<1>3. Part(specs, lo, hi, log) \subseteq Part(specs, lo, hi, log')
  <2>1. ASSUME NEW x \in Part(specs, lo, hi, log) PROVE x \in Part(specs, lo, hi, log')
    <3>1. PICK i \in lo .. hi : x \in {i} \X Matching(log[specs[i]], 1)
      BY InPart
    <3>2. x \in {i} \X Matching(log'[specs[i]], 1)
      BY <1>2, <3>1
    <3> QED BY <3>2, InPart
  <2> QED BY <2>1
<1>4. IsFiniteSet(Part(specs, lo, hi, log'))
  BY <1>1, PartFinite
<1> QED BY <1>3, <1>4, FS_Subset

LEMMA TotalIs ==
  ASSUME NEW specs \in Seq(Sources)
  PROVE  Total(specs) = Cardinality(Part(specs, 1, Len(specs), log))
<1>1. DOMAIN specs = 1 .. Len(specs)
  BY LenProperties
<1> QED BY <1>1 DEF Total, Part

-----------------------------------------------------------------------------
(* Whether a record of a source is among the first k hits, or the first k  *)
(* messages.                                                               *)
Took(hits, k, s, n) == \E j \in 1 .. k : hits[j].source = s /\ hits[j].at = n

(* What watch_once has is, of each source, the matches up to the last one. *)
FirstHits(hits, from, logs) ==
  \A k \in DOMAIN hits :
    LET s == hits[k].source
    IN  /\ from[s] > 0 /\ hits[k].at \in from[s] .. Len(logs[s])
        /\ \A n \in Nat \ {0} :
             Took(hits, k, s, n) <=> n \in from[s] .. hits[k].at /\ logs[s][n]

(* The matches of a source below n are those it has and those among the    *)
(* first k messages.                                                       *)
AllBelow(hits, queue, k, s, from, below, logs) ==
  \A n \in Nat \ {0} :
    (n \in from[s] .. below - 1 /\ logs[s][n]) <=>
      (Took(hits, Len(hits), s, n) \/ (Took(queue, k, s, n) /\ logs[s][n]))

(* A watch under way: also a message on its way, and a reader, continues   *)
(* what was received and sent before it; a file's reader does not end.     *)
Watches(hits, from, queue, at, logs) ==
  /\ Len(hits) <= Limit
  /\ FirstHits(hits, from, logs)
  /\ \A s \in Sources : at[s] > 0 =>
       /\ from[s] \in 1 .. at[s] /\ at[s] <= Len(logs[s]) + 1
       /\ AllBelow(hits, queue, Len(queue), s, from, at[s], logs)
  /\ \A i \in DOMAIN queue : queue[i].at > 0 =>
       LET s == queue[i].source
       IN  /\ from[s] > 0 /\ queue[i].at \in from[s] .. Len(logs[s])
           /\ AllBelow(hits, queue, i - 1, s, from, queue[i].at, logs)
  /\ \A s \in Sources \ Archives : from[s] > 0 => at[s] > 0

Logs == [Sources -> Seq(BOOLEAN)]
Places == [Sources -> Nat]

LEMMA MessageIs ==
  ASSUME NEW queue \in Seq(Message), NEW i \in DOMAIN queue
  PROVE  queue[i] \in Message /\ queue[i].source \in Sources /\ queue[i].at \in Nat
<1>1. DOMAIN queue = 1 .. Len(queue)
  BY LenProperties
<1>2. queue[i] \in Message
  BY <1>1, ElementOfSeq
<1> QED BY <1>2 DEF Message

LEMMA FirstHitsGrow ==
  ASSUME NEW hits \in Seq(Message), NEW from \in Places, NEW logs \in Logs, NEW more \in Logs,
         FirstHits(hits, from, logs), More(logs, more)
  PROVE  FirstHits(hits, from, more)
<1> SUFFICES ASSUME NEW k \in DOMAIN hits
             PROVE  LET s == hits[k].source
                    IN  /\ from[s] > 0 /\ hits[k].at \in from[s] .. Len(more[s])
                        /\ \A n \in Nat \ {0} :
                             Took(hits, k, s, n) <=> n \in from[s] .. hits[k].at /\ more[s][n]
  BY DEF FirstHits
<1> DEFINE s == hits[k].source
<1>1. s \in Sources /\ hits[k].at \in Nat
  BY MessageIs
<1>2. Len(logs[s]) \in Nat /\ Len(more[s]) \in Nat /\ Len(logs[s]) <= Len(more[s]) /\ from[s] \in Nat
  BY <1>1, LenProperties DEF Logs, Places, More
<1>3. /\ from[s] > 0 /\ hits[k].at \in from[s] .. Len(logs[s])
      /\ \A n \in Nat \ {0} : Took(hits, k, s, n) <=> n \in from[s] .. hits[k].at /\ logs[s][n]
  BY DEF FirstHits
<1>4. \A n \in 1 .. Len(logs[s]) : more[s][n] = logs[s][n]
  BY <1>1 DEF More
<1> HIDE DEF s
<1>5. from[s] > 0 /\ hits[k].at \in from[s] .. Len(more[s])
  BY <1>2, <1>3
<1>6. \A n \in Nat \ {0} : Took(hits, k, s, n) <=> n \in from[s] .. hits[k].at /\ more[s][n]
  BY <1>2, <1>3, <1>4
<1> QED BY <1>5, <1>6 DEF s

LEMMA AllBelowGrow ==
  ASSUME NEW hits \in Seq(Message), NEW queue, NEW k, NEW s \in Sources,
         NEW from \in Places, NEW below \in Nat, NEW logs \in Logs, NEW more \in Logs,
         More(logs, more), from[s] > 0, below <= Len(logs[s]) + 1,
         \A n \in Nat \ {0} : Took(queue, k, s, n) => n <= Len(logs[s]),
         AllBelow(hits, queue, k, s, from, below, logs)
  PROVE  AllBelow(hits, queue, k, s, from, below, more)
<1>1. Len(logs[s]) \in Nat /\ from[s] \in Nat
  BY LenProperties DEF Logs, Places
<1>2. \A n \in 1 .. Len(logs[s]) : more[s][n] = logs[s][n]
  BY DEF More
<1>3. ASSUME NEW n \in Nat \ {0}
      PROVE  (n \in from[s] .. below - 1 /\ more[s][n]) <=>
                (Took(hits, Len(hits), s, n) \/ (Took(queue, k, s, n) /\ more[s][n]))
  <2>1. (n \in from[s] .. below - 1 /\ logs[s][n]) <=>
          (Took(hits, Len(hits), s, n) \/ (Took(queue, k, s, n) /\ logs[s][n]))
    BY DEF AllBelow
  <2>2. n \in from[s] .. below - 1 => more[s][n] = logs[s][n]
    BY <1>1, <1>2
  <2>3. Took(queue, k, s, n) => more[s][n] = logs[s][n]
    BY <1>1, <1>2
  <2> QED BY <2>1, <2>2, <2>3
<1> QED BY <1>3 DEF AllBelow

(* Messages are of records that are there. *)
LEMMA QueueThere ==
  ASSUME NEW hits, NEW from \in Places, NEW queue \in Seq(Message), NEW at, NEW logs \in Logs,
         Watches(hits, from, queue, at, logs), NEW s, NEW k \in 0 .. Len(queue)
  PROVE  \A n \in Nat \ {0} : Took(queue, k, s, n) => n <= Len(logs[s])
<1> SUFFICES ASSUME NEW n \in Nat \ {0}, Took(queue, k, s, n) PROVE n <= Len(logs[s])
  OBVIOUS
<1>1. PICK j \in 1 .. k : queue[j].source = s /\ queue[j].at = n
  BY DEF Took
<1>2. j \in DOMAIN queue /\ queue[j].at > 0 /\ queue[j] \in Message
  BY <1>1, LenProperties, ElementOfSeq
<1>3. queue[j].at \in from[s] .. Len(logs[s])
  BY <1>1, <1>2 DEF Watches
<1>4. Len(logs[s]) \in Nat /\ from[s] \in Nat
  <2>1. s \in Sources
    BY <1>1, <1>2 DEF Message
  <2> QED BY <2>1, LenProperties DEF Logs, Places
<1> QED BY <1>1, <1>3, <1>4

LEMMA WatchGrows ==
  ASSUME NEW hits \in Seq(Message), NEW from \in Places, NEW queue \in Seq(Message),
         NEW at \in Places, NEW logs \in Logs, NEW more \in Logs,
         Watches(hits, from, queue, at, logs), More(logs, more)
  PROVE  Watches(hits, from, queue, at, more)
<1>0. Len(queue) \in Nat /\ DOMAIN queue = 1 .. Len(queue)
  BY LenProperties
<1>1. Len(hits) <= Limit /\ FirstHits(hits, from, more) /\ \A s \in Sources \ Archives : from[s] > 0 => at[s] > 0
  BY FirstHitsGrow DEF Watches
<1>2. ASSUME NEW s \in Sources, at[s] > 0
      PROVE  /\ from[s] \in 1 .. at[s] /\ at[s] <= Len(more[s]) + 1
             /\ AllBelow(hits, queue, Len(queue), s, from, at[s], more)
  <2>1. /\ from[s] \in 1 .. at[s] /\ at[s] <= Len(logs[s]) + 1
        /\ AllBelow(hits, queue, Len(queue), s, from, at[s], logs)
    BY <1>2 DEF Watches
  <2>2. /\ Len(logs[s]) \in Nat /\ Len(more[s]) \in Nat /\ Len(logs[s]) <= Len(more[s])
        /\ at[s] \in Nat /\ from[s] \in Nat /\ from[s] > 0
    BY <2>1, LenProperties DEF Logs, Places, More
  <2>3. \A n \in Nat \ {0} : Took(queue, Len(queue), s, n) => n <= Len(logs[s])
    BY <1>0, QueueThere
  <2> QED BY <2>1, <2>2, <2>3, AllBelowGrow
<1>3. ASSUME NEW i \in DOMAIN queue, queue[i].at > 0
      PROVE  LET s == queue[i].source
             IN  /\ from[s] > 0 /\ queue[i].at \in from[s] .. Len(more[s])
                 /\ AllBelow(hits, queue, i - 1, s, from, queue[i].at, more)
  <2>1. PICK s \in Sources : s = queue[i].source
    BY MessageIs
  <2>2. /\ from[s] > 0 /\ queue[i].at \in from[s] .. Len(logs[s])
        /\ AllBelow(hits, queue, i - 1, s, from, queue[i].at, logs)
    BY <1>3, <2>1 DEF Watches
  <2>3. /\ Len(logs[s]) \in Nat /\ Len(more[s]) \in Nat /\ Len(logs[s]) <= Len(more[s])
        /\ from[s] \in Nat /\ queue[i].at \in Nat
    BY <2>1, MessageIs, LenProperties DEF Logs, Places, More
  <2>4. i - 1 \in 0 .. Len(queue)
    BY <1>0
  <2>5. \A n \in Nat \ {0} : Took(queue, i - 1, s, n) => n <= Len(logs[s])
    BY <2>4, QueueThere
  <2>6. AllBelow(hits, queue, i - 1, s, from, queue[i].at, more)
    BY <2>2, <2>3, <2>5, AllBelowGrow
  <2> QED BY <2>1, <2>2, <2>3, <2>6
<1> QED BY <1>1, <1>2, <1>3 DEF Watches

(* The watch begins: nothing was sent, and the readers are at the end of   *)
(* the files.                                                              *)
LEMMA WatchBegins ==
  ASSUME NEW from \in Places, NEW logs \in Logs, \A s \in Sources : from[s] <= Len(logs[s]) + 1
  PROVE  Watches(<<>>, from, <<>>, from, logs)
<1>1. Limit \in Nat \ {0} /\ Len(<<>>) = 0 /\ DOMAIN <<>> = {}
  BY ServerAssumption
<1>2. \A s, n : ~Took(<<>>, 0, s, n)
  BY DEF Took
<1>3. ASSUME NEW s \in Sources, from[s] > 0
      PROVE  AllBelow(<<>>, <<>>, Len(<<>>), s, from, from[s], logs)
  <2>1. from[s] \in Nat /\ \A n \in Nat : n \notin from[s] .. from[s] - 1
    BY DEF Places
  <2> QED BY <1>1, <1>2, <2>1 DEF AllBelow
<1>4. \A s \in Sources : from[s] \in Nat
  BY DEF Places
<1> QED BY <1>1, <1>3, <1>4 DEF Watches, FirstHits

(* What is among the first k after one more, or without the first. *)
LEMMA TookMore ==
  ASSUME NEW queue \in Seq(Message), NEW m \in Message, NEW s, NEW n
  PROVE  LET more == Append(queue, m)
         IN  /\ more \in Seq(Message) /\ Len(more) = Len(queue) + 1 /\ DOMAIN more = 1 .. Len(queue) + 1
             /\ more[Len(queue) + 1] = m /\ \A i \in 1 .. Len(queue) : more[i] = queue[i]
             /\ \A k \in 0 .. Len(queue) : Took(more, k, s, n) <=> Took(queue, k, s, n)
             /\ Took(more, Len(queue) + 1, s, n) <=>
                  Took(queue, Len(queue), s, n) \/ (m.source = s /\ m.at = n)
<1> DEFINE more == Append(queue, m)
<1>1. /\ Len(queue) \in Nat /\ more \in Seq(Message) /\ Len(more) = Len(queue) + 1
      /\ more[Len(queue) + 1] = m /\ \A i \in 1 .. Len(queue) : more[i] = queue[i]
  BY AppendProperties, LenProperties
<1>2. DOMAIN more = 1 .. Len(queue) + 1
  BY <1>1, LenProperties
<1> HIDE DEF more
<1>3. ASSUME NEW k \in 0 .. Len(queue)
      PROVE  Took(more, k, s, n) <=> Took(queue, k, s, n)
  <2>1. \A j \in 1 .. k : more[j] = queue[j]
    BY <1>1
  <2> QED BY <2>1 DEF Took
<1>4. Took(more, Len(queue) + 1, s, n) <=> Took(queue, Len(queue), s, n) \/ (m.source = s /\ m.at = n)
  <2>1. \A j : j \in 1 .. Len(queue) + 1 <=> j \in 1 .. Len(queue) \/ j = Len(queue) + 1
    BY <1>1
  <2> QED BY <1>1, <2>1 DEF Took
<1> QED BY <1>1, <1>2, <1>3, <1>4 DEF more

LEMMA TookLess ==
  ASSUME NEW queue \in Seq(Message), queue # <<>>, NEW k \in 1 .. Len(queue), NEW s, NEW n
  PROVE  Took(queue, k, s, n) <=>
           (queue[1].source = s /\ queue[1].at = n) \/ Took(Tail(queue), k - 1, s, n)
<1>1. /\ Len(queue) \in Nat
      /\ \A i \in 1 .. Len(queue) - 1 : Tail(queue)[i] = queue[i + 1]
  BY TailIs
<1>2. ASSUME NEW j \in 1 .. k, j # 1, queue[j].source = s, queue[j].at = n
      PROVE  Took(Tail(queue), k - 1, s, n)
  <2>1. j - 1 \in 1 .. k - 1 /\ Tail(queue)[j - 1] = queue[j]
    BY <1>1, <1>2
  <2> QED BY <1>2, <2>1 DEF Took
<1>3. ASSUME NEW j \in 1 .. k - 1, Tail(queue)[j].source = s, Tail(queue)[j].at = n
      PROVE  Took(queue, k, s, n)
  <2>1. j + 1 \in 1 .. k /\ Tail(queue)[j] = queue[j + 1]
    BY <1>1
  <2> QED BY <1>3, <2>1 DEF Took
<1>4. 1 \in 1 .. k
  BY <1>1
<1> QED BY <1>2, <1>3, <1>4 DEF Took

(* A reader sends a record. *)
LEMMA WatchSends ==
  ASSUME NEW hits \in Seq(Message), NEW from \in Places, NEW queue \in Seq(Message),
         NEW at \in Places, NEW logs \in Logs, Watches(hits, from, queue, at, logs),
         NEW s \in Sources, at[s] \in 1 .. Len(logs[s])
  PROVE  Watches(hits, from, Append(queue, [source |-> s, at |-> at[s]]), [at EXCEPT ![s] = @ + 1], logs)
<1> DEFINE m == [source |-> s, at |-> at[s]]
           more == Append(queue, m)
           L == Len(queue)
           after == [at EXCEPT ![s] = at[s] + 1]
<1>1. m \in Message /\ m.source = s /\ m.at = at[s]
  BY DEF Message, Places
<1>2. /\ L \in Nat /\ Len(more) = L + 1 /\ DOMAIN more = 1 .. L + 1
      /\ more[L + 1] = m /\ \A i \in 1 .. L : more[i] = queue[i]
  BY <1>1, TookMore, LenProperties
<1>3. \A r : \A n \in Nat \ {0} : \A k \in 0 .. L : Took(more, k, r, n) <=> Took(queue, k, r, n)
  <2>1. ASSUME NEW r, NEW n PROVE \A k \in 0 .. L : Took(more, k, r, n) <=> Took(queue, k, r, n)
    BY <1>1, TookMore
  <2> QED BY <2>1
<1>a. \A r : \A n \in Nat \ {0} :
        Took(more, L + 1, r, n) <=> Took(queue, L, r, n) \/ (m.source = r /\ m.at = n)
  BY <1>1, TookMore
<1>4. after[s] = at[s] + 1 /\ \A r \in Sources \ {s} : after[r] = at[r]
  BY DEF Places
<1>5. /\ Len(logs[s]) \in Nat /\ at[s] \in Nat /\ from[s] \in Nat
      /\ from[s] \in 1 .. at[s] /\ AllBelow(hits, queue, L, s, from, at[s], logs)
  BY LenProperties DEF Logs, Places, Watches
<1> HIDE DEF more, m, after
<1>6. ASSUME NEW r \in Sources, after[r] > 0
      PROVE  /\ from[r] \in 1 .. after[r] /\ after[r] <= Len(logs[r]) + 1
             /\ AllBelow(hits, more, Len(more), r, from, after[r], logs)
  <2>1. CASE r = s
    <3>1. from[r] \in 1 .. after[r] /\ after[r] <= Len(logs[r]) + 1
      BY <1>4, <1>5, <2>1
    <3>2. ASSUME NEW n \in Nat \ {0}
          PROVE  (n \in from[s] .. after[s] - 1 /\ logs[s][n]) <=>
                   (Took(hits, Len(hits), s, n) \/ (Took(more, L + 1, s, n) /\ logs[s][n]))
      <4>1. (n \in from[s] .. at[s] - 1 /\ logs[s][n]) <=>
              (Took(hits, Len(hits), s, n) \/ (Took(queue, L, s, n) /\ logs[s][n]))
        BY <1>5 DEF AllBelow
      <4>2. n \in from[s] .. after[s] - 1 <=> n \in from[s] .. at[s] - 1 \/ n = at[s]
        BY <1>4, <1>5
      <4>3. Took(more, L + 1, s, n) <=> Took(queue, L, s, n) \/ n = at[s]
        BY <1>1, <1>a
      <4> QED BY <4>1, <4>2, <4>3
    <3> QED BY <1>2, <2>1, <3>1, <3>2 DEF AllBelow
  <2>2. CASE r # s
    <3>1. /\ from[r] \in 1 .. at[r] /\ at[r] <= Len(logs[r]) + 1 /\ after[r] = at[r]
          /\ AllBelow(hits, queue, L, r, from, at[r], logs)
      BY <1>4, <1>6, <2>2 DEF Watches
    <3>2. \A n \in Nat \ {0} : Took(more, L + 1, r, n) <=> Took(queue, L, r, n)
      BY <1>1, <1>a, <2>2
    <3> QED BY <1>2, <3>1, <3>2 DEF AllBelow
  <2> QED BY <2>1, <2>2
<1>7. ASSUME NEW i \in DOMAIN more, more[i].at > 0
      PROVE  LET r == more[i].source
             IN  /\ from[r] > 0 /\ more[i].at \in from[r] .. Len(logs[r])
                 /\ AllBelow(hits, more, i - 1, r, from, more[i].at, logs)
  <2>1. CASE i = L + 1
    <3>1. more[i] = m /\ i - 1 = L
      BY <1>2, <2>1
    <3>2. AllBelow(hits, more, L, s, from, at[s], logs)
      <4>1. \A n \in Nat \ {0} : Took(more, L, s, n) <=> Took(queue, L, s, n)
        BY <1>2, <1>3
      <4> QED BY <1>5, <4>1 DEF AllBelow
    <3> QED BY <1>1, <1>5, <3>1, <3>2
  <2>2. CASE i \in 1 .. L
    <3>1. i \in DOMAIN queue /\ more[i] = queue[i] /\ i - 1 \in 0 .. L
      BY <1>2, <2>2, LenProperties
    <3>2. PICK r : r = queue[i].source
      OBVIOUS
    <3>3. /\ from[r] > 0 /\ queue[i].at \in from[r] .. Len(logs[r])
          /\ AllBelow(hits, queue, i - 1, r, from, queue[i].at, logs)
      BY <1>7, <3>1, <3>2 DEF Watches
    <3>4. AllBelow(hits, more, i - 1, r, from, queue[i].at, logs)
      <4>1. \A n \in Nat \ {0} : Took(more, i - 1, r, n) <=> Took(queue, i - 1, r, n)
        BY <1>3, <3>1
      <4> QED BY <3>3, <4>1 DEF AllBelow
    <3> QED BY <3>1, <3>2, <3>3, <3>4
  <2> QED BY <1>2, <2>1, <2>2
<1>8. \A r \in Sources \ Archives : from[r] > 0 => after[r] > 0
  <2>1. \A r \in Sources \ Archives : from[r] > 0 => at[r] > 0
    BY DEF Watches
  <2> QED BY <1>4, <1>5, <2>1
<1>9. Len(hits) <= Limit /\ FirstHits(hits, from, logs)
  BY DEF Watches
<1>10. Watches(hits, from, more, after, logs)
  BY <1>6, <1>7, <1>8, <1>9 DEF Watches
<1> QED BY <1>10 DEF more, m, after

(* The reader of an archive says that it ends. *)
LEMMA WatchEnds ==
  ASSUME NEW hits \in Seq(Message), NEW from \in Places, NEW queue \in Seq(Message),
         NEW at \in Places, NEW logs \in Logs, Watches(hits, from, queue, at, logs),
         NEW s \in Archives
  PROVE  Watches(hits, from, Append(queue, [source |-> s, at |-> 0]), [at EXCEPT ![s] = 0], logs)
<1> DEFINE m == [source |-> s, at |-> 0]
           more == Append(queue, m)
           L == Len(queue)
           after == [at EXCEPT ![s] = 0]
<1>0. s \in Sources
  BY ServerAssumption
<1>1. m \in Message /\ m.source = s /\ m.at = 0
  BY <1>0 DEF Message
<1>2. /\ L \in Nat /\ Len(more) = L + 1 /\ DOMAIN more = 1 .. L + 1
      /\ more[L + 1] = m /\ \A i \in 1 .. L : more[i] = queue[i]
  BY <1>1, TookMore, LenProperties
<1>3. \A r : \A n \in Nat \ {0} : \A k \in 0 .. L : Took(more, k, r, n) <=> Took(queue, k, r, n)
  <2>1. m \in Message
    BY <1>1
  <2> HIDE DEF m
  <2> QED BY <2>1, TookMore
<1>4. \A r : \A n \in Nat \ {0} : Took(more, L + 1, r, n) <=> Took(queue, L, r, n)
  BY <1>1, TookMore
<1>5. after[s] = 0 /\ \A r \in Sources \ {s} : after[r] = at[r]
  BY <1>0 DEF Places
<1> HIDE DEF more, m, after
<1>6. ASSUME NEW r \in Sources, after[r] > 0
      PROVE  /\ from[r] \in 1 .. after[r] /\ after[r] <= Len(logs[r]) + 1
             /\ AllBelow(hits, more, Len(more), r, from, after[r], logs)
  <2>1. r # s /\ after[r] = at[r]
    BY <1>5, <1>6
  <2>2. /\ from[r] \in 1 .. at[r] /\ at[r] <= Len(logs[r]) + 1
        /\ AllBelow(hits, queue, L, r, from, at[r], logs)
    BY <1>6, <2>1 DEF Watches
  <2> QED BY <1>2, <1>4, <2>1, <2>2 DEF AllBelow
<1>7. ASSUME NEW i \in DOMAIN more, more[i].at > 0
      PROVE  LET r == more[i].source
             IN  /\ from[r] > 0 /\ more[i].at \in from[r] .. Len(logs[r])
                 /\ AllBelow(hits, more, i - 1, r, from, more[i].at, logs)
  <2>1. i \in DOMAIN queue /\ more[i] = queue[i] /\ i - 1 \in 0 .. L
    BY <1>1, <1>2, <1>7, LenProperties
  <2>2. PICK r : r = queue[i].source
    OBVIOUS
  <2>3. /\ from[r] > 0 /\ queue[i].at \in from[r] .. Len(logs[r])
        /\ AllBelow(hits, queue, i - 1, r, from, queue[i].at, logs)
    BY <1>7, <2>1, <2>2 DEF Watches
  <2>4. AllBelow(hits, more, i - 1, r, from, queue[i].at, logs)
    BY <1>3, <2>1, <2>3 DEF AllBelow
  <2> QED BY <2>1, <2>2, <2>3, <2>4
<1>8. \A r \in Sources \ Archives : from[r] > 0 => after[r] > 0
  BY <1>5 DEF Watches
<1>9. Len(hits) <= Limit /\ FirstHits(hits, from, logs)
  BY DEF Watches
<1>10. Watches(hits, from, more, after, logs)
  BY <1>6, <1>7, <1>8, <1>9 DEF Watches
<1> QED BY <1>10 DEF more, m, after

(* A message is received, and kept if it matches. *)
LEMMA WatchReceives ==
  ASSUME NEW hits \in Seq(Message), NEW from \in Places, NEW queue \in Seq(Message),
         NEW at \in Places, NEW logs \in Logs, Watches(hits, from, queue, at, logs),
         queue # <<>>, Len(hits) < Limit, NEW now,
         now = IF queue[1].at > 0 /\ logs[queue[1].source][queue[1].at] THEN Append(hits, queue[1]) ELSE hits
  PROVE  Watches(now, from, Tail(queue), at, logs) /\ now \in Seq(Message)
<1>1. PICK m \in Message : m = queue[1]
  BY TailIs
<1>2. PICK s \in Sources : s = m.source
  BY DEF Message
<1>3. PICK rest \in Seq(Message) : rest = Tail(queue)
  BY TailIs
<1> DEFINE L == Len(queue)
           H == Len(hits)
<1>4. /\ L \in Nat \ {0} /\ DOMAIN queue = 1 .. L /\ Len(rest) = L - 1 /\ DOMAIN rest = 1 .. L - 1
      /\ \A i \in 1 .. L - 1 : rest[i] = queue[i + 1]
  BY <1>3, TailIs
<1>5. H \in Nat /\ DOMAIN hits = 1 .. H /\ m.at \in Nat /\ Limit \in Nat /\ H < Limit
  BY LenProperties, ServerAssumption DEF Message
<1>6. \A r, n : \A k \in 1 .. L :
        Took(queue, k, r, n) <=> (s = r /\ m.at = n) \/ Took(rest, k - 1, r, n)
  BY <1>1, <1>2, <1>3, TookLess
<1> DEFINE kept == m.at > 0 /\ logs[s][m.at]
<1>7. now = IF kept THEN Append(hits, m) ELSE hits
  BY <1>1, <1>2
<1>8. /\ now \in Seq(Message) /\ Len(now) = (IF kept THEN H + 1 ELSE H) /\ DOMAIN now = 1 .. Len(now)
      /\ \A i \in 1 .. H : now[i] = hits[i]
      /\ kept => now[H + 1] = m
  BY <1>5, <1>7, TookMore
<1>9. \A r : \A n \in Nat \ {0} : \A k \in 0 .. H : Took(now, k, r, n) <=> Took(hits, k, r, n)
  <2>1. CASE now = hits
    BY <2>1
  <2>2. CASE now = Append(hits, m)
    <3>1. m \in Message
      BY <1>1
    <3>2. \A r : \A n \in Nat \ {0} : \A k \in 0 .. H :
            Took(Append(hits, m), k, r, n) <=> Took(hits, k, r, n)
      BY <3>1, TookMore
    <3> QED BY <2>2, <3>2
  <2> QED BY <1>7, <2>1, <2>2
<1>a. kept => \A r : \A n \in Nat \ {0} :
                Took(now, H + 1, r, n) <=> Took(hits, H, r, n) \/ (s = r /\ m.at = n)
  <2>1. SUFFICES ASSUME kept PROVE \A r : \A n \in Nat \ {0} :
                Took(now, H + 1, r, n) <=> Took(hits, H, r, n) \/ (s = r /\ m.at = n)
    OBVIOUS
  <2>2. now = Append(hits, m)
    BY <1>7, <2>1
  <2>3. \A r : \A n \in Nat \ {0} :
          Took(Append(hits, m), H + 1, r, n) <=> Took(hits, H, r, n) \/ (m.source = r /\ m.at = n)
    BY <1>1, TookMore
  <2> QED BY <1>2, <2>2, <2>3
<1>10. m.at > 0 => /\ from[s] > 0 /\ m.at \in from[s] .. Len(logs[s])
                   /\ AllBelow(hits, queue, 0, s, from, m.at, logs)
  <2>1. 1 \in DOMAIN queue /\ 1 - 1 = 0
    BY <1>4
  <2> QED BY <1>1, <1>2, <2>1 DEF Watches
<1>11. Len(logs[s]) \in Nat /\ from[s] \in Nat
  BY LenProperties DEF Logs, Places
<1>12. FirstHits(hits, from, logs)
  BY DEF Watches
<1> HIDE DEF kept
<1>13. FirstHits(now, from, logs)
  <2> SUFFICES ASSUME NEW k \in DOMAIN now
               PROVE  LET r == now[k].source
                      IN  /\ from[r] > 0 /\ now[k].at \in from[r] .. Len(logs[r])
                          /\ \A n \in Nat \ {0} :
                               Took(now, k, r, n) <=> n \in from[r] .. now[k].at /\ logs[r][n]
    BY DEF FirstHits
  <2>1. CASE k \in 1 .. H
    <3>1. now[k] = hits[k] /\ k \in DOMAIN hits /\ k \in 0 .. H
      BY <1>5, <1>8, <2>1
    <3>2. PICK r : r = hits[k].source
      OBVIOUS
    <3>3. /\ from[r] > 0 /\ hits[k].at \in from[r] .. Len(logs[r])
          /\ \A n \in Nat \ {0} : Took(hits, k, r, n) <=> n \in from[r] .. hits[k].at /\ logs[r][n]
      BY <1>12, <3>1, <3>2 DEF FirstHits
    <3>4. \A n \in Nat \ {0} : Took(now, k, r, n) <=> Took(hits, k, r, n)
      BY <1>9, <3>1
    <3> QED BY <3>1, <3>2, <3>3, <3>4
  <2>2. CASE kept /\ k = H + 1
    <3>1. now[k] = m /\ logs[s][m.at] /\ m.at > 0
      BY <1>8, <2>2 DEF kept
    <3>2. ASSUME NEW n \in Nat \ {0}
          PROVE  Took(now, k, s, n) <=> n \in from[s] .. m.at /\ logs[s][n]
      <4>1. (n \in from[s] .. m.at - 1 /\ logs[s][n]) <=>
              (Took(hits, H, s, n) \/ (Took(queue, 0, s, n) /\ logs[s][n]))
        BY <1>10, <3>1 DEF AllBelow
      <4>2. ~Took(queue, 0, s, n)
        BY DEF Took
      <4>3. Took(now, k, s, n) <=> Took(hits, H, s, n) \/ n = m.at
        BY <1>a, <2>2
      <4>4. n \in from[s] .. m.at <=> n \in from[s] .. m.at - 1 \/ n = m.at
        BY <1>5, <1>10, <1>11, <3>1
      <4> QED BY <3>1, <4>1, <4>2, <4>3, <4>4
    <3> QED BY <1>2, <1>10, <3>1, <3>2
  <2>3. k \in 1 .. H \/ (kept /\ k = H + 1)
    BY <1>5, <1>8
  <2> QED BY <2>1, <2>2, <2>3
(* What was among the messages is among the hits, or still on its way. *)
<1>14. ASSUME NEW r, NEW k \in 1 .. L, NEW below, AllBelow(hits, queue, k, r, from, below, logs)
       PROVE  AllBelow(now, rest, k - 1, r, from, below, logs)
  <2>1. ASSUME NEW n \in Nat \ {0}
        PROVE  (n \in from[r] .. below - 1 /\ logs[r][n]) <=>
                 (Took(now, Len(now), r, n) \/ (Took(rest, k - 1, r, n) /\ logs[r][n]))
    <3>1. (n \in from[r] .. below - 1 /\ logs[r][n]) <=>
            (Took(hits, H, r, n) \/ (Took(queue, k, r, n) /\ logs[r][n]))
      BY <1>14 DEF AllBelow
    <3>2. Took(queue, k, r, n) <=> (s = r /\ m.at = n) \/ Took(rest, k - 1, r, n)
      BY <1>6
    <3>3. Took(now, Len(now), r, n) <=> Took(hits, H, r, n) \/ (kept /\ s = r /\ m.at = n)
      <4>1. H \in 0 .. H /\ Len(now) = IF kept THEN H + 1 ELSE H
        BY <1>5, <1>8
      <4>2. Took(now, H, r, n) <=> Took(hits, H, r, n)
        BY <1>9, <4>1
      <4> QED BY <1>a, <4>1, <4>2
    <3>4. s = r /\ m.at = n => (kept <=> logs[r][n])
      BY DEF kept
    <3> QED BY <3>1, <3>2, <3>3, <3>4
  <2> QED BY <2>1 DEF AllBelow
<1>15. ASSUME NEW r \in Sources, at[r] > 0
       PROVE  /\ from[r] \in 1 .. at[r] /\ at[r] <= Len(logs[r]) + 1
              /\ AllBelow(now, rest, Len(rest), r, from, at[r], logs)
  <2>1. /\ from[r] \in 1 .. at[r] /\ at[r] <= Len(logs[r]) + 1
        /\ AllBelow(hits, queue, L, r, from, at[r], logs)
    BY <1>15 DEF Watches
  <2>2. L \in 1 .. L
    BY <1>4
  <2> QED BY <1>4, <1>14, <2>1, <2>2
<1>16. ASSUME NEW i \in DOMAIN rest, rest[i].at > 0
       PROVE  LET r == rest[i].source
              IN  /\ from[r] > 0 /\ rest[i].at \in from[r] .. Len(logs[r])
                  /\ AllBelow(now, rest, i - 1, r, from, rest[i].at, logs)
  <2>1. rest[i] = queue[i + 1] /\ i + 1 \in DOMAIN queue /\ i + 1 - 1 = i /\ i \in 1 .. L
    BY <1>4
  <2>2. PICK r : r = rest[i].source
    OBVIOUS
  <2>3. /\ from[r] > 0 /\ rest[i].at \in from[r] .. Len(logs[r])
        /\ AllBelow(hits, queue, i, r, from, rest[i].at, logs)
    <3>1. PICK p \in DOMAIN queue : p = i + 1
      BY <2>1
    <3>2. queue[p].at > 0 /\ queue[p].source = r /\ queue[p] = rest[i] /\ p - 1 = i
      BY <1>16, <2>1, <2>2, <3>1
    <3>3. /\ from[r] > 0 /\ queue[p].at \in from[r] .. Len(logs[r])
          /\ AllBelow(hits, queue, p - 1, r, from, queue[p].at, logs)
      BY <3>2 DEF Watches
    <3> QED BY <3>2, <3>3
  <2>4. AllBelow(now, rest, i - 1, r, from, rest[i].at, logs)
    BY <1>14, <2>1, <2>3
  <2> QED BY <2>2, <2>3, <2>4
<1>17. Len(now) <= Limit /\ \A r \in Sources \ Archives : from[r] > 0 => at[r] > 0
  BY <1>5, <1>8 DEF Watches
<1> QED BY <1>3, <1>8, <1>13, <1>15, <1>16, <1>17 DEF Watches

-----------------------------------------------------------------------------
(* A request that is worked on is the one that was read last; on stdin     *)
(* nothing is refused unread.                                              *)
Asked(c) ==
  /\ transport = "stdio" => \A n \in 1 .. Len(sent[c]) : sent[c][n].flaws = {}
  /\ job[c] # Idle =>
       /\ job[c].id = read[c] /\ read[c] > 0 /\ job[c].req = sent[c][read[c]]
       /\ job[c].req.flaws = {} /\ job[c].req.body \in {"search", "watch_once"}

(* A search has counted the sources before those it still has to read: no  *)
(* more than there is in them now, and with what there is in the others no *)
(* less than there was.                                                    *)
Searches(specs, todo, total, before, logs) ==
  LET k == Len(specs) - Len(todo)
  IN  /\ Len(todo) <= Len(specs) /\ \A i \in 1 .. Len(todo) : todo[i] = specs[k + i]
      /\ total <= Cardinality(Part(specs, 1, k, logs))
      /\ before <= total + Cardinality(Part(specs, k + 1, Len(specs), logs))

Searching(c) ==
  job[c].stage = "search" =>
    Searches(Picked(job[c].req), job[c].todo, job[c].total, job[c].before, log)

(* Readers run, and send, while a call watches. *)
Watching(c) ==
  /\ job[c].stage = "open" =>
       job[c].hits = <<>> /\ \A s \in Sources : job[c].from[s] <= Len(log[s]) + 1
  /\ job[c].stage = "watch" => Watches(job[c].hits, job[c].from, chan[c], next[c], log)
  /\ job[c].stage # "watch" => chan[c] = <<>> /\ next[c] = NoReaders

(* What was told stays true while the sources grow. *)
FoundTrue(said) == said.code = "found" => said.told.total \in said.told.before .. said.told.after

WatchedTrue(said, logs) ==
  said.code = "watched" =>
    /\ said.told.hits \in Seq(Message) /\ said.told.from \in Places
    /\ FirstHits(said.told.hits, said.told.from, logs)
    /\ \/ Len(said.told.hits) = Limit
       \/ said.told.timedOut /\
            (said.told.due \/ \A s \in Sources : said.told.from[s] > 0 => s \in Archives)

Told(c) == \A i \in DOMAIN replies[c] : FoundTrue(replies[c][i]) /\ WatchedTrue(replies[c][i], log)

Good(c) == Asked(c) /\ Answered(c) /\ Searching(c) /\ Watching(c) /\ Told(c)
ServerInv == Typed /\ \A c \in Conns : Good(c)

-----------------------------------------------------------------------------
(* The hits of each source, as WatchIsPrefix has them. *)
Leading(hits, from, logs) ==
  \A k \in DOMAIN hits :
    LET s == hits[k].source
    IN  {hits[j].at : j \in {j \in 1 .. k : hits[j].source = s}} =
          {n \in Matching(logs[s], from[s]) : n <= hits[k].at}

LEMMA HitsAre ==
  ASSUME NEW hits \in Seq(Message), NEW from \in Places, NEW logs \in Logs,
         FirstHits(hits, from, logs)
  PROVE  Leading(hits, from, logs)
<1> SUFFICES ASSUME NEW k \in DOMAIN hits, NEW s, s = hits[k].source
             PROVE  {hits[j].at : j \in {j \in 1 .. k : hits[j].source = s}} =
                      {n \in Matching(logs[s], from[s]) : n <= hits[k].at}
  BY Zenon DEF Leading
<1>1. s \in Sources /\ hits[k].at \in Nat /\ DOMAIN hits = 1 .. Len(hits) /\ Len(hits) \in Nat
  BY MessageIs, LenProperties
<1>2. Len(logs[s]) \in Nat /\ from[s] \in Nat
  BY <1>1, LenProperties DEF Logs, Places
<1>3. /\ from[s] > 0 /\ hits[k].at \in from[s] .. Len(logs[s])
      /\ \A n \in Nat \ {0} : Took(hits, k, s, n) <=> n \in from[s] .. hits[k].at /\ logs[s][n]
  BY DEF FirstHits
<1>4. ASSUME NEW j \in 1 .. k, hits[j].source = s PROVE hits[j].at \in Nat \ {0}
  <2>1. j \in DOMAIN hits
    BY <1>1
  <2>2. hits[j].at \in from[s] .. Len(logs[s])
    BY <1>4, <2>1 DEF FirstHits
  <2> QED BY <1>2, <1>3, <2>2
<1>5. ASSUME NEW n
      PROVE  n \in {hits[j].at : j \in {j \in 1 .. k : hits[j].source = s}} <=>
               n \in Nat \ {0} /\ Took(hits, k, s, n)
  BY <1>4 DEF Took
<1>6. ASSUME NEW n
      PROVE  n \in {m \in Matching(logs[s], from[s]) : m <= hits[k].at} <=>
               n \in Nat \ {0} /\ n \in from[s] .. hits[k].at /\ logs[s][n]
  BY <1>1, <1>2, <1>3 DEF Matching
<1> QED BY <1>3, <1>5, <1>6

LEMMA InvMeans == ServerInv => AnsweredOnce /\ SearchIsBetween /\ WatchIsPrefix
<1> SUFFICES ASSUME ServerInv PROVE AnsweredOnce /\ SearchIsBetween /\ WatchIsPrefix
  OBVIOUS
<1>1. AnsweredOnce
  BY AnsweredAll DEF ServerInv, Good
<1>2. SearchIsBetween
  BY DEF ServerInv, Good, Told, FoundTrue, SearchIsBetween
<1>3. ASSUME NEW c \in Conns, NEW i \in DOMAIN replies[c], replies[c][i].code = "watched"
      PROVE  LET said == replies[c][i]
             IN  /\ \A k \in DOMAIN said.told.hits :
                      LET hits == said.told.hits
                          s    == hits[k].source
                      IN  {hits[j].at : j \in {j \in 1 .. k : hits[j].source = s}} =
                            {n \in Matching(log[s], said.told.from[s]) : n <= hits[k].at}
                 /\ \/ Len(said.told.hits) = Limit
                    \/ said.told.timedOut /\
                         (said.told.due \/ \A s \in Sources : said.told.from[s] > 0 => s \in Archives)
  <2>1. WatchedTrue(replies[c][i], log)
    BY DEF ServerInv, Good, Told
  <2>2. log \in Logs
    BY DEF ServerInv, Typed, Logs
  <2>3. /\ replies[c][i].told.hits \in Seq(Message) /\ replies[c][i].told.from \in Places
        /\ FirstHits(replies[c][i].told.hits, replies[c][i].told.from, log)
    BY <1>3, <2>1 DEF WatchedTrue
  <2>4. Leading(replies[c][i].told.hits, replies[c][i].told.from, log)
    BY <2>2, <2>3, HitsAre
  <2>5. \/ Len(replies[c][i].told.hits) = Limit
        \/ replies[c][i].told.timedOut /\
             (replies[c][i].told.due \/ \A s \in Sources : replies[c][i].told.from[s] > 0 => s \in Archives)
    BY <1>3, <2>1 DEF WatchedTrue
  <2> QED BY <2>4, <2>5, Zenon DEF Leading
<1>4. WatchIsPrefix
  BY <1>3 DEF WatchIsPrefix
<1> QED BY <1>1, <1>2, <1>4

-----------------------------------------------------------------------------
(* What holds of a connection depends on it alone, and on the sources.     *)
LEMMA GoodKept ==
  ASSUME NEW c \in Conns, Good(c), UNCHANGED <<transport, log>>, sent'[c] = sent[c],
         read'[c] = read[c], job'[c] = job[c], chan'[c] = chan[c], next'[c] = next[c],
         replies'[c] = replies[c]
  PROVE  Good(c)'
<1>1. Asked(c)'
  BY DEF Good, Asked
<1>2. Answered(c)'
  <2>1. Done(c)' = Done(c)
    BY DEF Done
  <2> QED BY <2>1 DEF Good, Answered
<1>3. Searching(c)'
  BY DEF Good, Searching
<1>4. Watching(c)'
  BY DEF Good, Watching
<1>5. Told(c)'
  BY DEF Good, Told
<1> QED BY <1>1, <1>2, <1>3, <1>4, <1>5 DEF Good

LEMMA OnlyOne ==
  ASSUME ServerInv, NEW c \in Conns, Typed', Good(c)', UNCHANGED <<transport, log>>,
         \A d \in Conns \ {c} : /\ sent'[d] = sent[d] /\ read'[d] = read[d] /\ job'[d] = job[d]
                                /\ chan'[d] = chan[d] /\ next'[d] = next[d]
                                /\ replies'[d] = replies[d]
  PROVE  ServerInv'
<1>1. ASSUME NEW d \in Conns \ {c} PROVE Good(d)'
  BY GoodKept DEF ServerInv
<1> QED BY <1>1 DEF ServerInv

LEMMA NothingHappens ==
  ASSUME ServerInv, UNCHANGED <<transport, log, sent, read, job, chan, next, replies>>
  PROVE  ServerInv'
<1>1. Typed'
  BY DEF ServerInv, Typed
<1>2. \A c \in Conns : Good(c)'
  BY GoodKept DEF ServerInv
<1> QED BY <1>1, <1>2 DEF ServerInv

(* A job goes on: what was read and answered stays. *)
LEMMA JobGoesOn ==
  ASSUME ServerInv, NEW c \in Conns, UNCHANGED <<transport, log, sent, read, replies>>,
         job[c] # Idle, NEW new \in Job, new.id = job[c].id, new.req = job[c].req,
         job' = [job EXCEPT ![c] = new],
         chan' \in [Conns -> Seq(Message)], next' \in [Conns -> [Sources -> Nat]],
         \A d \in Conns \ {c} : chan'[d] = chan[d] /\ next'[d] = next[d],
         Searching(c)', Watching(c)'
  PROVE  ServerInv'
<1>1. Typed'
  BY DEF ServerInv, Typed
<1>2. job'[c] = new /\ new # Idle /\ \A d \in Conns \ {c} : job'[d] = job[d]
  <2>1. new # Idle
    <3>1. new.stage # "idle"
      BY DEF Job
    <3> QED BY <3>1 DEF Idle
  <2>2. job \in [Conns -> Job \cup {Idle}]
    BY DEF ServerInv, Typed
  <2> QED BY <2>1, <2>2
<1>3. Asked(c)' /\ Answered(c)' /\ Told(c)'
  <2>1. Asked(c)'
    BY <1>2 DEF ServerInv, Good, Asked
  <2>2. Done(c)' = Done(c)
    BY <1>2 DEF Done
  <2>3. Answered(c)' /\ Told(c)'
    BY <2>2 DEF ServerInv, Good, Answered, Told
  <2> QED BY <2>1, <2>3
<1>4. Good(c)'
  BY <1>3 DEF Good
<1> QED BY <1>1, <1>2, <1>4, OnlyOne

LEMMA DoneIs ==
  ASSUME ServerInv, NEW c \in Conns
  PROVE  /\ Done(c) \in Nat /\ Done(c) <= Len(sent[c]) /\ Done(c) <= read[c]
         /\ read[c] \in Nat /\ Len(sent[c]) \in Nat /\ read[c] <= Len(sent[c])
<1>1. read[c] \in Nat /\ Len(sent[c]) \in Nat /\ read[c] <= Len(sent[c])
  BY LenProperties DEF ServerInv, Typed
<1>2. job[c] # Idle => read[c] > 0
  BY DEF ServerInv, Good, Asked
<1> QED BY <1>1, <1>2 DEF Done

LEMMA InitKeeps == Init => ServerInv
<1> SUFFICES ASSUME Init PROVE ServerInv
  OBVIOUS
<1>1. /\ log \in [Sources -> Seq(BOOLEAN)]
      /\ \A c \in Conns : /\ sent[c] = <<>> /\ read[c] = 0 /\ job[c] = Idle /\ chan[c] = <<>>
                          /\ next[c] = NoReaders /\ replies[c] = <<>>
  <2>1. <<TRUE>> \in Seq(BOOLEAN) /\ Archived \in Seq(BOOLEAN)
    BY ServerAssumption
  <2> QED BY <2>1 DEF Init
<1>2. Typed
  <2>1. IsSeq(<<>>) /\ <<>> \in Seq(Request) /\ <<>> \in Seq(Message) /\ Len(<<>>) = 0
    BY DEF IsSeq
  <2>2. NoReaders \in [Sources -> Nat]
    BY DEF NoReaders
  <2>3. \A c \in Conns : read[c] <= Len(sent[c])
    BY <1>1, <2>1
  <2>4. sent \in [Conns -> Seq(Request)] /\ read \in [Conns -> Nat] /\ job \in [Conns -> Job \cup {Idle}]
    BY <2>1 DEF Init
  <2>5. chan \in [Conns -> Seq(Message)] /\ next \in [Conns -> [Sources -> Nat]]
    BY <2>1, <2>2 DEF Init
  <2>6. replies = [c \in Conns |-> replies[c]] /\ \A c \in Conns : IsSeq(replies[c])
    BY <2>1 DEF Init
  <2> QED BY <1>1, <2>3, <2>4, <2>5, <2>6 DEF Init, Typed
<1>3. ASSUME NEW c \in Conns PROVE Good(c)
  <2>1. job[c] = Idle /\ job[c].stage = "idle"
    BY <1>1 DEF Idle
  <2>2. Asked(c)
    BY <1>1, <2>1 DEF Asked
  <2>3. Answered(c)
    <3>1. Done(c) = 0
      BY <1>1 DEF Done
    <3>2. DueOf(transport, sent[c], 0) = {}
      BY DEF DueOf
    <3>3. InOrder({}, sent[c], replies[c])
      <4>1. Len(replies[c]) = 0 /\ Cardinality({}) = 0
        BY <1>1, FS_EmptySet
      <4> QED BY <4>1 DEF InOrder
    <3> QED BY <3>1, <3>2, <3>3 DEF Answered
  <2>4. Searching(c) /\ Watching(c) /\ Told(c)
    BY <1>1, <2>1 DEF Searching, Watching, Told
  <2> QED BY <2>2, <2>3, <2>4 DEF Good
<1> QED BY <1>2, <1>3 DEF ServerInv

(* A source grows: what was counted, received and told stays true. *)
LEMMA WriteKeeps ==
  ASSUME ServerInv, NEW s \in Sources, Write(s)
  PROVE  ServerInv'
<1>1. PICK matches \in BOOLEAN : log' = [log EXCEPT ![s] = Append(log[s], matches)]
  BY DEF Write
<1>2. UNCHANGED <<transport, sent, read, job, chan, next, replies>>
  BY DEF Write
<1>3. log \in Logs /\ log' \in Logs /\ More(log, log')
  <2>1. log \in Logs
    BY DEF ServerInv, Typed, Logs
  <2>2. /\ Append(log[s], matches) \in Seq(BOOLEAN) /\ Len(Append(log[s], matches)) = Len(log[s]) + 1
        /\ \A n \in 1 .. Len(log[s]) : Append(log[s], matches)[n] = log[s][n]
        /\ Len(log[s]) \in Nat
    BY <2>1, AppendProperties, LenProperties DEF Logs
  <2>3. \A r \in Sources : Len(log[r]) \in Nat /\ (r # s => log'[r] = log[r])
    BY <1>1, <2>1, LenProperties DEF Logs
  <2>4. log'[s] = Append(log[s], matches)
    BY <1>1, <2>1 DEF Logs
  <2>5. log' \in Logs
    BY <1>1, <2>1, <2>2 DEF Logs
  <2>6. ASSUME NEW r \in Sources
        PROVE  Len(log[r]) <= Len(log'[r]) /\ \A n \in 1 .. Len(log[r]) : log'[r][n] = log[r][n]
    <3>1. CASE r = s
      BY <2>2, <2>4, <3>1
    <3>2. CASE r # s
      BY <2>3, <3>2
    <3> QED BY <3>1, <3>2
  <2> QED BY <2>1, <2>5, <2>6 DEF More
<1>4. Typed'
  BY <1>2, <1>3 DEF ServerInv, Typed, Logs
<1>5. ASSUME NEW c \in Conns PROVE Good(c)'
  <2>0. Good(c) /\ Typed
    BY DEF ServerInv
  <2>1. Asked(c)' /\ Answered(c)'
    <3>1. Done(c)' = Done(c)
      BY <1>2 DEF Done
    <3>2. Answered(c)'
      BY <1>2, <2>0, <3>1 DEF Good, Answered
    <3>3. Asked(c)'
      BY <1>2, <2>0 DEF Good, Asked
    <3> QED BY <3>2, <3>3
  <2>2. Searching(c)'
    <3> SUFFICES ASSUME job[c].stage = "search"
                 PROVE  Searches(Picked(job[c].req), job[c].todo, job[c].total, job[c].before, log')
      BY <1>2 DEF Searching, Picked
    <3>1. job[c] \in Job
      BY <2>0, JobIs
    <3>2. PICK specs \in Seq(Sources) : specs = Picked(job[c].req)
      BY <3>1, PickedIs DEF Job
    <3> DEFINE todo == job[c].todo
               k == Len(specs) - Len(todo)
    <3>3. Searches(specs, todo, job[c].total, job[c].before, log)
      BY <2>0, <3>2 DEF Good, Searching
    <3>4. /\ Len(specs) \in Nat /\ Len(todo) \in Nat /\ job[c].total \in Nat /\ job[c].before \in Nat
          /\ Len(todo) <= Len(specs)
      BY <3>1, <3>3, LenProperties DEF Job, Searches
    <3>5. k \in Nat /\ k <= Len(specs) /\ k + 1 \in Nat \ {0} /\ 1 \in Nat \ {0}
      BY <3>4
    <3> HIDE DEF k
    <3>6. /\ Cardinality(Part(specs, 1, k, log)) <= Cardinality(Part(specs, 1, k, log'))
          /\ Cardinality(Part(specs, k + 1, Len(specs), log)) <= Cardinality(Part(specs, k + 1, Len(specs), log'))
      BY <1>3, <1>4, <2>0, <3>4, <3>5, PartGrows
    <3>7. ASSUME NEW logs \in Logs
          PROVE  /\ Cardinality(Part(specs, 1, k, logs)) \in Nat
                 /\ Cardinality(Part(specs, k + 1, Len(specs), logs)) \in Nat
      <4>1. logs \in [Sources -> Seq(BOOLEAN)] /\ Len(specs) <= Len(specs)
        BY <3>4 DEF Logs
      <4> QED BY <3>4, <3>5, <4>1, PartFinite
    <3>8. /\ job[c].total <= Cardinality(Part(specs, 1, k, log))
          /\ job[c].before <= job[c].total + Cardinality(Part(specs, k + 1, Len(specs), log))
          /\ \A i \in 1 .. Len(todo) : todo[i] = specs[k + i]
      BY <3>3 DEF Searches, k
    <3>9. /\ job[c].total <= Cardinality(Part(specs, 1, k, log'))
          /\ job[c].before <= job[c].total + Cardinality(Part(specs, k + 1, Len(specs), log'))
      BY <1>3, <3>4, <3>6, <3>7, <3>8
    <3> QED BY <3>2, <3>4, <3>8, <3>9 DEF Searches, k
  <2>3. Watching(c)'
    <3>1. CASE job[c].stage = "open"
      <4>1. \A r \in Sources : job[c].from[r] <= Len(log'[r]) + 1
        <5>1. \A r \in Sources : Len(log[r]) \in Nat /\ Len(log'[r]) \in Nat /\ Len(log[r]) <= Len(log'[r])
          BY <1>3, LenProperties DEF Logs, More
        <5>2. \A r \in Sources : job[c].from[r] \in Nat /\ job[c].from[r] <= Len(log[r]) + 1
          BY <2>0, <3>1, JobIs DEF Job, Good, Watching
        <5> QED BY <5>1, <5>2
      <4> QED BY <1>2, <2>0, <3>1, <4>1 DEF Good, Watching
    <3>2. CASE job[c].stage = "watch"
      <4>1. /\ job[c].hits \in Seq(Message) /\ job[c].from \in Places
            /\ chan[c] \in Seq(Message) /\ next[c] \in Places
        BY <2>0, <3>2, JobIs DEF Job, Typed, Places
      <4>2. Watches(job[c].hits, job[c].from, chan[c], next[c], log)
        BY <2>0, <3>2 DEF Good, Watching
      <4>3. Watches(job[c].hits, job[c].from, chan[c], next[c], log')
        BY <1>3, <4>1, <4>2, WatchGrows
      <4> QED BY <1>2, <3>2, <4>3 DEF Watching
    <3>3. CASE job[c].stage \notin {"open", "watch"}
      BY <1>2, <2>0, <3>3 DEF Good, Watching
    <3> QED BY <3>1, <3>2, <3>3
  <2>4. Told(c)'
    <3> SUFFICES ASSUME NEW i \in DOMAIN replies[c]
                 PROVE  FoundTrue(replies[c][i]) /\ WatchedTrue(replies[c][i], log')
      BY <1>2 DEF Told
    <3>1. FoundTrue(replies[c][i]) /\ WatchedTrue(replies[c][i], log)
      BY <2>0 DEF Good, Told
    <3>2. WatchedTrue(replies[c][i], log')
      BY <1>3, <3>1, FirstHitsGrow DEF WatchedTrue
    <3> QED BY <3>1, <3>2
  <2> QED BY <2>1, <2>2, <2>3, <2>4 DEF Good
<1> QED BY <1>4, <1>5 DEF ServerInv

(* A client asks: what was asked before it stays. *)
LEMMA SendKeeps ==
  ASSUME ServerInv, NEW c \in Conns, Send(c)
  PROVE  ServerInv'
<1>1. PICK req \in Requests[c] : /\ transport = "http" \/ req.flaws = {}
                                 /\ sent' = [sent EXCEPT ![c] = Append(sent[c], req)]
  BY DEF Send
<1>2. UNCHANGED <<transport, log, read, job, chan, next, replies>>
  BY DEF Send
<1>3. Typed /\ Good(c) /\ sent \in [Conns -> Seq(Request)] /\ transport \in {"stdio", "http"}
  BY DEF ServerInv, Typed
<1>4. req \in Request
  BY ServerAssumption
<1>5. /\ Append(sent[c], req) \in Seq(Request) /\ Len(Append(sent[c], req)) = Len(sent[c]) + 1
      /\ Append(sent[c], req)[Len(sent[c]) + 1] = req
      /\ \A n \in 1 .. Len(sent[c]) : Append(sent[c], req)[n] = sent[c][n]
      /\ Len(sent[c]) \in Nat
  BY <1>3, <1>4, AppendProperties, LenProperties
<1>6. sent'[c] = Append(sent[c], req) /\ \A d \in Conns \ {c} : sent'[d] = sent[d]
  BY <1>1, <1>3
<1>7. \A d \in Conns : read[d] <= Len(sent'[d])
  <2>1. read[c] \in Nat /\ \A d \in Conns : read[d] <= Len(sent[d])
    BY <1>3 DEF Typed
  <2>2. read[c] <= Len(sent'[c])
    BY <1>5, <1>6, <2>1
  <2> QED BY <1>6, <2>1, <2>2
<1>8. Typed'
  <2>1. sent' \in [Conns -> Seq(Request)]
    BY <1>1, <1>3, <1>5
  <2> QED BY <1>2, <1>3, <1>7, <2>1 DEF Typed
<1>9. /\ Done(c) \in Nat /\ Done(c) <= Len(sent[c]) /\ Done(c)' = Done(c)
      /\ read[c] \in Nat /\ read[c] <= Len(sent[c])
  BY <1>2, DoneIs DEF Done
<1>10. Asked(c)'
  <2>1. transport = "stdio" => \A n \in 1 .. Len(sent'[c]) : sent'[c][n].flaws = {}
    BY <1>1, <1>3, <1>5, <1>6 DEF Good, Asked
  <2>2. read[c] > 0 => sent'[c][read[c]] = sent[c][read[c]]
    BY <1>5, <1>6, <1>9
  <2> QED BY <1>2, <1>3, <2>1, <2>2 DEF Good, Asked
<1>11. Answered(c)'
  <2>1. \A n \in 1 .. Done(c) : sent'[c][n] = sent[c][n]
    BY <1>5, <1>6, <1>9
  <2>2. DueOf(transport, sent'[c], Done(c)) = DueOf(transport, sent[c], Done(c))
    BY <2>1 DEF DueOf
  <2>3. DueOf(transport, sent[c], Done(c)) \subseteq 1 .. Done(c)
    BY DEF DueOf
  <2>4. InOrder(DueOf(transport, sent[c], Done(c)), sent[c], replies[c])
    BY <1>3 DEF Good, Answered
  <2> DEFINE due == DueOf(transport, sent[c], Done(c))
  <2> HIDE DEF due
  <2>5. InOrder(due, sent'[c], replies[c])
    BY <2>1, <2>3, <2>4 DEF due, InOrder
  <2> QED BY <1>2, <1>9, <2>2, <2>5 DEF Answered, due
<1>12. Searching(c)' /\ Watching(c)' /\ Told(c)'
  BY <1>2, <1>3 DEF Good, Searching, Watching, Told, Picked
<1>13. Good(c)'
  BY <1>10, <1>11, <1>12 DEF Good
<1> QED BY <1>2, <1>6, <1>8, <1>13, OnlyOne

(* A new answer is like those before it, and the others are as they were.  *)
LEMMA ToldMore ==
  ASSUME Typed, NEW c \in Conns, NEW said, UNCHANGED log, Told(c),
         FoundTrue(said), WatchedTrue(said, log), replies'[c] = Append(replies[c], said)
  PROVE  Told(c)'
<1>1. /\ DOMAIN replies'[c] = 1 .. Len(replies[c]) + 1 /\ Len(replies[c]) \in Nat
      /\ DOMAIN replies[c] = 1 .. Len(replies[c])
      /\ replies'[c][Len(replies[c]) + 1] = said
      /\ \A i \in 1 .. Len(replies[c]) : replies'[c][i] = replies[c][i]
  BY AppendIs, IsSeqHas DEF Typed
<1> SUFFICES ASSUME NEW i \in DOMAIN replies'[c]
             PROVE  FoundTrue(replies'[c][i]) /\ WatchedTrue(replies'[c][i], log)
  BY DEF Told
<1>2. CASE i \in 1 .. Len(replies[c])
  BY <1>1, <1>2 DEF Told
<1>3. CASE i = Len(replies[c]) + 1
  BY <1>1, <1>3
<1> QED BY <1>1, <1>2, <1>3

(* A call ends: the last request that was read is done with, and has its   *)
(* answer.                                                                 *)
LEMMA FinishKeeps ==
  ASSUME ServerInv, NEW c \in Conns, NEW code, NEW told, Finish(c, code, told),
         job[c] # Idle, code # "no_answer",
         \A said : said.code = code /\ said.told = told => FoundTrue(said) /\ WatchedTrue(said, log)
  PROVE  ServerInv'
<1>1. Typed /\ Good(c)
  BY DEF ServerInv
<1>2. /\ Answers(c, job[c].id, code, told)
      /\ job' = [job EXCEPT ![c] = Idle] /\ chan' = [chan EXCEPT ![c] = <<>>]
      /\ next' = [next EXCEPT ![c] = NoReaders]
      /\ UNCHANGED <<transport, log, gone, sent, read>>
  BY <1>1, FinishIs
<1>3. PICK said : /\ said.id = job[c].id /\ said.code = code /\ said.told = told
                  /\ replies' = [replies EXCEPT ![c] = Append(replies[c], said)]
  BY <1>2 DEF Answers
<1>4. /\ replies' = [d \in Conns |-> replies'[d]] /\ \A d \in Conns : IsSeq(replies'[d])
      /\ replies'[c] = Append(replies[c], said)
      /\ \A d \in Conns \ {c} : replies'[d] = replies[d]
  BY <1>1, <1>3, RepliesTyped
<1>5. /\ job'[c] = Idle /\ chan'[c] = <<>> /\ next'[c] = NoReaders
      /\ \A d \in Conns \ {c} : job'[d] = job[d] /\ chan'[d] = chan[d] /\ next'[d] = next[d]
  BY <1>1, <1>2 DEF Typed
<1>6. Typed'
  <2>1. <<>> \in Seq(Message) /\ NoReaders \in [Sources -> Nat]
    BY DEF NoReaders
  <2>2. job' \in [Conns -> Job \cup {Idle}]
    BY <1>1, <1>2 DEF Typed
  <2>3. chan' \in [Conns -> Seq(Message)] /\ next' \in [Conns -> [Sources -> Nat]]
    BY <1>1, <1>2, <2>1 DEF Typed
  <2> QED BY <1>1, <1>2, <1>4, <2>2, <2>3 DEF Typed
<1>7. Asked(c)'
  BY <1>1, <1>2, <1>5 DEF Good, Asked
<1>8. Answered(c)'
  <2>1. /\ read[c] \in Nat /\ read[c] > 0 /\ job[c].id = read[c]
        /\ sent[c][read[c]].flaws = {} /\ sent[c][read[c]].body \in {"search", "watch_once"}
    BY <1>1 DEF Good, Asked, Typed
  <2>2. Done(c) = read[c] - 1 /\ Done(c)' = read[c]
    BY <1>2, <1>5, <2>1 DEF Done
  <2>3. Done(c) \in Nat /\ Done(c) + 1 = read[c]
    BY <2>1, <2>2
  <2>4. InOrder(DueOf(transport, sent[c], Done(c)), sent[c], replies[c]) /\ IsSeq(replies[c])
    BY <1>1 DEF Good, Answered, Typed
  <2>5. sent[c][read[c]].body \notin Silent /\ IdOf(sent[c][read[c]], read[c]) = read[c]
    BY <2>1 DEF Silent, IdOf
  <2>6. said.id = IdOf(sent[c][Done(c) + 1], Done(c) + 1) /\ sent[c][Done(c) + 1].body \notin Silent
    BY <1>3, <2>1, <2>3, <2>5
  <2>7. InOrder(DueOf(transport, sent[c], Done(c) + 1), sent[c], replies'[c])
    BY <1>4, <2>3, <2>4, <2>6, OneMore
  <2> QED BY <1>2, <2>2, <2>3, <2>7 DEF Answered
<1>9. Searching(c)' /\ Watching(c)'
  BY <1>5 DEF Searching, Watching, Idle
<1>10. Told(c)'
  BY <1>1, <1>2, <1>3, <1>4, ToldMore DEF Good
<1>11. Good(c)'
  BY <1>7, <1>8, <1>9, <1>10 DEF Good
<1> QED BY <1>2, <1>4, <1>5, <1>6, <1>11, OnlyOne

(* What is counted of a call that has just begun is in its sources. *)
LEMMA TotalParts ==
  ASSUME Typed, NEW specs \in Seq(Sources)
  PROVE  /\ Total(specs) \in Nat /\ Total(specs) = Cardinality(Part(specs, 1, Len(specs), log))
         /\ Cardinality(Part(specs, 1, 0, log)) = 0
         /\ Cardinality(Part(specs, Len(specs) + 1, Len(specs), log)) = 0
<1>1. Len(specs) \in Nat /\ log \in [Sources -> Seq(BOOLEAN)]
  BY LenProperties DEF Typed
<1>2. Cardinality(Part(specs, 1, Len(specs), log)) \in Nat
  <2>1. Len(specs) <= Len(specs) /\ 1 \in Nat \ {0}
    BY <1>1
  <2> QED BY <1>1, <2>1, PartFinite
<1>3. Part(specs, 1, 0, log) = {} /\ Part(specs, Len(specs) + 1, Len(specs), log) = {}
  <2>1. 1 .. 0 = {} /\ Len(specs) + 1 .. Len(specs) = {}
    BY <1>1
  <2>2. \A x : x \notin Part(specs, 1, 0, log) /\ x \notin Part(specs, Len(specs) + 1, Len(specs), log)
    BY <2>1, InPart
  <2> QED BY <2>2
<1> QED BY <1>2, <1>3, TotalIs, FS_EmptySet

LEMMA StartedIs ==
  ASSUME Typed, NEW req \in Request, NEW n \in Nat
  PROVE  /\ Started(req, n) \in Job /\ Started(req, n).id = n /\ Started(req, n).req = req
         /\ Started(req, n).stage \in {"search", "open"}
         /\ Started(req, n).hits = <<>> /\ Started(req, n).from = NoReaders
         /\ Searches(Picked(req), Started(req, n).todo, Started(req, n).total, Started(req, n).before, log)
<1>1. PICK specs \in Seq(Sources) : specs = Picked(req)
  BY PickedIs
<1>2. Len(specs) \in Nat /\ Total(specs) \in Nat /\ <<>> \in Seq(Message) /\ NoReaders \in [Sources -> Nat]
  BY LenProperties, TotalParts DEF NoReaders
<1>3. PICK j : j = Started(req, n)
  OBVIOUS
<1>4. j = [stage |-> IF req.body = "search" THEN "search" ELSE "open",
           id |-> n, req |-> req, todo |-> specs, total |-> 0, before |-> Total(specs),
           from |-> NoReaders, hits |-> <<>>, due |-> FALSE]
  BY <1>1, <1>3 DEF Started
<1>5. j \in Job
  BY <1>2, <1>4 DEF Job
<1>6. Searches(specs, specs, 0, Total(specs), log)
  <2>1. /\ Total(specs) = Cardinality(Part(specs, 1, Len(specs), log))
        /\ Cardinality(Part(specs, 1, 0, log)) = 0
    BY <1>2, TotalParts
  <2>2. /\ Len(specs) - Len(specs) = 0 /\ Len(specs) <= Len(specs) /\ 0 + 1 = 1
        /\ \A i \in 1 .. Len(specs) : 0 + i = i
    BY <1>2
  <2>3. /\ 0 <= Cardinality(Part(specs, 1, 0, log))
        /\ Total(specs) <= 0 + Cardinality(Part(specs, 0 + 1, Len(specs), log))
    BY <1>2, <2>1, <2>2
  <2> QED BY <2>2, <2>3 DEF Searches
<1> QED BY <1>1, <1>3, <1>4, <1>5, <1>6

(* A request is read: it becomes a job, or has its answer, if it is due    *)
(* one.                                                                    *)
LEMMA ReadKeeps ==
  ASSUME ServerInv, NEW c \in Conns, Read(c)
  PROVE  ServerInv'
<1>1. Typed /\ Good(c)
  BY DEF ServerInv
<1>2. PICK n : n = read[c] + 1
  OBVIOUS
<1>3. PICK req : req = sent[c][n]
  OBVIOUS
<1>4. transport = "stdio" => sent[c][read[c] + 1].flaws = {}
  <2>1. read[c] < Len(sent[c]) /\ read[c] \in Nat /\ Len(sent[c]) \in Nat
    BY <1>1, LenProperties DEF Read, Typed
  <2>2. read[c] + 1 \in 1 .. Len(sent[c])
    BY <2>1
  <2> QED BY <1>1, <2>2 DEF Good, Asked
<1>5. /\ n \in 1 .. Len(sent[c]) /\ n \in Nat /\ req \in Request
      /\ job[c] = Idle /\ read' = [read EXCEPT ![c] = n]
      /\ UNCHANGED <<transport, log, gone, sent, chan, next, stopping>>
      /\ \/ /\ req.flaws = {} /\ req.body \in {"search", "watch_once"} /\ Picked(req) # <<>>
            /\ job' = [job EXCEPT ![c] = Started(req, n)] /\ UNCHANGED replies
         \/ /\ transport = "stdio" /\ req.body \in Silent
            /\ UNCHANGED <<job, replies>>
         \/ /\ ~(transport = "stdio" /\ req.body \in Silent) /\ UNCHANGED job
            /\ \E said : /\ said.id = IdOf(req, n) /\ said.code \notin {"found", "watched"}
                         /\ replies' = [replies EXCEPT ![c] = Append(replies[c], said)]
  BY <1>1, <1>2, <1>3, <1>4, ReadIs
<1>6. read \in [Conns -> Nat] /\ read[c] \in Nat /\ read'[c] = n /\ \A d \in Conns \ {c} : read'[d] = read[d]
  BY <1>1, <1>5 DEF Typed
<1>7. read' \in [Conns -> Nat] /\ \A d \in Conns : read'[d] <= Len(sent'[d])
  <2>1. read' \in [Conns -> Nat]
    BY <1>5, <1>6
  <2>2. Len(sent[c]) \in Nat /\ n <= Len(sent[c])
    BY <1>1, <1>5, LenProperties DEF Typed
  <2> QED BY <1>1, <1>5, <1>6, <2>1, <2>2 DEF Typed
<1>8. Done(c) = read[c] /\ Done(c) \in Nat /\ Done(c) + 1 = n /\ n # 0
  BY <1>2, <1>5, <1>6 DEF Done
<1>9. InOrder(DueOf(transport, sent[c], Done(c)), sent[c], replies[c]) /\ IsSeq(replies[c])
  BY <1>1 DEF Good, Answered, Typed
<1>10. transport \in {"stdio", "http"}
  BY <1>1 DEF Typed
<1>11. job[c].stage = "idle" /\ chan[c] = <<>> /\ next[c] = NoReaders
  BY <1>1, <1>5 DEF Good, Watching, Idle
<1>12. CASE /\ req.flaws = {} /\ req.body \in {"search", "watch_once"} /\ Picked(req) # <<>>
            /\ job' = [job EXCEPT ![c] = Started(req, n)] /\ UNCHANGED replies
  <2>1. PICK new \in Job : new = Started(req, n)
    BY <1>1, <1>5, StartedIs
  <2>2. /\ new.id = n /\ new.req = req /\ new.stage \in {"search", "open"}
        /\ new.hits = <<>> /\ new.from = NoReaders
        /\ Searches(Picked(req), new.todo, new.total, new.before, log)
    BY <1>1, <1>5, <2>1, StartedIs
  <2>3. job'[c] = new /\ (\A d \in Conns \ {c} : job'[d] = job[d]) /\ job' \in [Conns -> Job \cup {Idle}]
    BY <1>1, <1>12, <2>1 DEF Typed
  <2>4. Typed'
    BY <1>1, <1>5, <1>7, <1>12, <2>3 DEF Typed
  <2>5. new # Idle
    BY <2>2 DEF Idle
  <2>6. Asked(c)'
    BY <1>1, <1>3, <1>5, <1>6, <1>8, <1>12, <2>2, <2>3 DEF Good, Asked
  <2>7. Answered(c)'
    <3>1. Done(c)' = Done(c)
      BY <1>2, <1>6, <1>8, <2>3, <2>5 DEF Done
    <3> QED BY <1>5, <1>9, <1>12, <3>1 DEF Answered
  <2>8. Searching(c)'
    BY <1>5, <2>2, <2>3 DEF Searching, Picked
  <2>9. Watching(c)'
    <3>1. \A s \in Sources : new.from[s] <= Len(log[s]) + 1
      <4>1. \A s \in Sources : Len(log[s]) \in Nat /\ NoReaders[s] = 0
        BY <1>1, LenProperties DEF Typed, NoReaders
      <4> QED BY <2>2, <4>1
    <3> QED BY <1>5, <1>11, <2>2, <2>3, <3>1 DEF Watching
  <2>10. Told(c)'
    BY <1>1, <1>5, <1>12 DEF Good, Told
  <2>11. Good(c)'
    BY <2>6, <2>7, <2>8, <2>9, <2>10 DEF Good
  <2> QED BY <1>5, <1>6, <1>12, <2>3, <2>4, <2>11, OnlyOne
(* The others are done with at once. *)
<1>13. ASSUME UNCHANGED job,
              replies' = [d \in Conns |-> replies'[d]], \A d \in Conns : IsSeq(replies'[d]),
              \A d \in Conns \ {c} : replies'[d] = replies[d],
              IF transport = "http" \/ req.body \notin Silent
              THEN \E said : said.id = IdOf(req, n) /\ replies'[c] = Append(replies[c], said)
              ELSE replies'[c] = replies[c],
              Told(c)'
       PROVE  ServerInv'
  <2>1. Typed'
    BY <1>1, <1>5, <1>7, <1>13 DEF Typed
  <2>2. Asked(c)'
    BY <1>1, <1>5, <1>13 DEF Good, Asked
  <2>3. Answered(c)'
    <3>1. Done(c)' = Done(c) + 1
      BY <1>5, <1>6, <1>8, <1>13 DEF Done
    <3>2. InOrder(DueOf(transport, sent[c], Done(c) + 1), sent[c], replies'[c])
      <4>1. req = sent[c][Done(c) + 1] /\ n = Done(c) + 1
        BY <1>3, <1>8
      <4> QED BY <1>8, <1>9, <1>13, <4>1, OneMore
    <3> QED BY <1>5, <3>1, <3>2 DEF Answered
  <2>4. Searching(c)' /\ Watching(c)'
    BY <1>1, <1>5, <1>11, <1>13 DEF Good, Searching, Watching
  <2>5. Good(c)'
    BY <1>13, <2>2, <2>3, <2>4 DEF Good
  <2> QED BY <1>5, <1>6, <1>13, <2>1, <2>5, OnlyOne
<1>14. CASE transport = "stdio" /\ req.body \in Silent /\ UNCHANGED <<job, replies>>
  <2>1. Told(c)'
    BY <1>1, <1>5, <1>14 DEF Good, Told
  <2> QED BY <1>1, <1>13, <1>14, <2>1 DEF Typed
<1>15. CASE /\ ~(transport = "stdio" /\ req.body \in Silent) /\ UNCHANGED job
            /\ \E said : /\ said.id = IdOf(req, n) /\ said.code \notin {"found", "watched"}
                         /\ replies' = [replies EXCEPT ![c] = Append(replies[c], said)]
  <2>1. PICK said : /\ said.id = IdOf(req, n) /\ said.code \notin {"found", "watched"}
                    /\ replies' = [replies EXCEPT ![c] = Append(replies[c], said)]
    BY <1>15
  <2>2. /\ replies' = [d \in Conns |-> replies'[d]] /\ \A d \in Conns : IsSeq(replies'[d])
        /\ replies'[c] = Append(replies[c], said)
        /\ \A d \in Conns \ {c} : replies'[d] = replies[d]
    BY <1>1, <2>1, RepliesTyped
  <2>3. Told(c)'
    <3>1. FoundTrue(said) /\ WatchedTrue(said, log)
      BY <2>1 DEF FoundTrue, WatchedTrue
    <3> QED BY <1>1, <1>5, <2>2, <3>1, ToldMore DEF Good
  <2> QED BY <1>10, <1>13, <1>15, <2>1, <2>2, <2>3
<1> QED BY <1>5, <1>12, <1>14, <1>15

LEMMA FailKeeps ==
  ASSUME ServerInv, NEW c \in Conns, Fail(c)
  PROVE  ServerInv'
<1>1. job[c] # Idle /\ Finish(c, "failed", Nothing)
  BY DEF Fail, Idle
<1>2. \A said : said.code = "failed" => FoundTrue(said) /\ WatchedTrue(said, log)
  BY DEF FoundTrue, WatchedTrue
<1> QED BY <1>1, <1>2, FinishKeeps

(* No source is left: what was counted is between what there was and what  *)
(* there is.                                                               *)
LEMMA SearchDoneKeeps ==
  ASSUME ServerInv, NEW c \in Conns, SearchDone(c)
  PROVE  ServerInv'
<1>1. job[c].stage = "search" /\ job[c].todo = <<>> /\ Typed /\ Searching(c)
  BY DEF SearchDone, ServerInv, Good
<1>2. job[c] \in Job /\ job[c] # Idle
  BY <1>1, JobIs
<1>3. PICK specs \in Seq(Sources) : specs = Picked(job[c].req)
  BY <1>2, PickedIs DEF Job
<1> DEFINE told == [total |-> job[c].total, before |-> job[c].before, after |-> Total(specs)]
<1>4. Finish(c, "found", told)
  BY <1>3 DEF SearchDone
<1>5. told.total \in told.before .. told.after
  <2>1. Searches(specs, <<>>, job[c].total, job[c].before, log)
    BY <1>1, <1>3 DEF Searching
  <2>2. Len(specs) \in Nat /\ Len(<<>>) = 0 /\ Len(specs) - 0 = Len(specs)
    BY LenProperties
  <2>3. /\ job[c].total <= Cardinality(Part(specs, 1, Len(specs), log))
        /\ job[c].before <= job[c].total + Cardinality(Part(specs, Len(specs) + 1, Len(specs), log))
    BY <2>1, <2>2 DEF Searches
  <2>4. /\ Total(specs) \in Nat /\ Total(specs) = Cardinality(Part(specs, 1, Len(specs), log))
        /\ Cardinality(Part(specs, Len(specs) + 1, Len(specs), log)) = 0
    BY <1>1, TotalParts
  <2>5. job[c].total \in Nat /\ job[c].before \in Nat
    BY <1>2 DEF Job
  <2> QED BY <2>3, <2>4, <2>5
<1> HIDE DEF told
<1>6. \A said : said.code = "found" /\ said.told = told => FoundTrue(said) /\ WatchedTrue(said, log)
  BY <1>5 DEF FoundTrue, WatchedTrue
<1> QED BY <1>2, <1>4, <1>6, FinishKeeps

(* The call has what it was asked for, or its time is over, or nothing is  *)
(* read and nothing on its way.                                            *)
LEMMA WatchDoneKeeps ==
  ASSUME ServerInv, NEW c \in Conns, WatchDone(c)
  PROVE  ServerInv'
<1>1. job[c].stage = "watch" /\ Over(c) /\ Typed /\ Watching(c)
  BY DEF WatchDone, ServerInv, Good
<1>2. job[c] \in Job /\ job[c] # Idle
  BY <1>1, JobIs
<1>3. job[c].hits \in Seq(Message) /\ job[c].from \in Places /\ Len(job[c].hits) \in Nat
  BY <1>2, LenProperties DEF Job, Places
<1> DEFINE told == [hits |-> job[c].hits, from |-> job[c].from,
                    timedOut |-> Len(job[c].hits) < Limit, due |-> job[c].due]
<1>4. Finish(c, "watched", told)
  BY DEF WatchDone
<1>5. Watches(job[c].hits, job[c].from, chan[c], next[c], log)
  BY <1>1 DEF Watching
<1>6. \/ Len(job[c].hits) = Limit
      \/ /\ Len(job[c].hits) < Limit
         /\ job[c].due \/ \A s \in Sources : job[c].from[s] > 0 => s \in Archives
  <2>1. Len(job[c].hits) <= Limit /\ Limit \in Nat
    BY <1>5, ServerAssumption DEF Watches
  <2>2. CASE next[c] = NoReaders
    <3>1. \A s \in Sources \ Archives : job[c].from[s] > 0 => next[c][s] > 0
      BY <1>5 DEF Watches
    <3>2. \A s \in Sources : next[c][s] = 0
      BY <2>2 DEF NoReaders
    <3> QED BY <1>3, <2>1, <3>1, <3>2
  <2> QED BY <1>1, <1>3, <2>1, <2>2 DEF Over
<1>7. ASSUME NEW said, said.code = "watched", said.told = told
      PROVE  FoundTrue(said) /\ WatchedTrue(said, log)
  <2>1. /\ told.hits = job[c].hits /\ told.from = job[c].from /\ told.due = job[c].due
        /\ told.timedOut = (Len(job[c].hits) < Limit)
    OBVIOUS
  <2> HIDE DEF told
  <2>2. FirstHits(told.hits, told.from, log)
    BY <1>5, <2>1 DEF Watches
  <2>3. \/ Len(told.hits) = Limit
        \/ told.timedOut /\ (told.due \/ \A s \in Sources : told.from[s] > 0 => s \in Archives)
    BY <1>6, <2>1
  <2>4. WatchedTrue(said, log)
    BY <1>3, <1>7, <2>1, <2>2, <2>3 DEF WatchedTrue
  <2> QED BY <1>7, <2>4 DEF FoundTrue
<1> QED BY <1>2, <1>4, <1>7, FinishKeeps

-----------------------------------------------------------------------------
(* The matches in one more source are counted. *)
LEMMA SearchKeeps ==
  ASSUME ServerInv, NEW c \in Conns, Search(c)
  PROVE  ServerInv'
<1>1. job[c].stage = "search" /\ job[c].todo # <<>> /\ Typed /\ Searching(c) /\ Watching(c)
  BY DEF Search, ServerInv, Good
<1>2. job[c] \in Job /\ job[c] # Idle
  BY <1>1, JobIs
<1>3. PICK todo \in Seq(Sources) : todo = job[c].todo
  BY <1>2 DEF Job
<1>4. /\ Head(todo) = todo[1] /\ todo[1] \in Sources /\ Len(todo) \in Nat \ {0}
      /\ Tail(todo) \in Seq(Sources) /\ Len(Tail(todo)) = Len(todo) - 1
      /\ \A i \in 1 .. Len(todo) - 1 : Tail(todo)[i] = todo[i + 1]
  BY <1>1, <1>3, TailIs
<1>5. PICK specs \in Seq(Sources) : specs = Picked(job[c].req)
  BY <1>2, PickedIs DEF Job
<1>6. PICK more : more = Total(<<todo[1]>>)
  OBVIOUS
<1>7. more \in Nat
  <2>1. <<todo[1]>> \in Seq(Sources)
    BY <1>4
  <2> QED BY <1>1, <1>6, <2>1, TotalParts
<1> DEFINE new == [job[c] EXCEPT !.todo = Tail(todo), !.total = job[c].total + more]
<1>8. /\ new \in Job /\ new.id = job[c].id /\ new.req = job[c].req /\ new.stage = "search"
      /\ new.todo = Tail(todo) /\ new.total = job[c].total + more /\ new.before = job[c].before
  <2>1. PICK n \in Nat : n = job[c].total + more
    BY <1>2, <1>7 DEF Job
  <2>2. new = [job[c] EXCEPT !.todo = Tail(todo), !.total = n]
    BY <2>1
  <2> HIDE DEF new
  <2>3. new \in Job
    BY <1>2, <1>4, <2>2 DEF Job
  <2>4. /\ new.id = job[c].id /\ new.req = job[c].req /\ new.stage = job[c].stage
        /\ new.todo = Tail(todo) /\ new.total = n /\ new.before = job[c].before
    BY <1>2, <2>2 DEF Job
  <2> QED BY <1>1, <2>1, <2>3, <2>4
<1>9. job' = [job EXCEPT ![c] = new] /\ UNCHANGED <<transport, log, sent, read, chan, next, replies>>
  BY <1>1, <1>2, <1>3, <1>4, <1>6 DEF Search, Typed, Job
<1> HIDE DEF new
<1>10. job'[c] = new
  BY <1>1, <1>9 DEF Typed
<1>N. PICK N : N = Len(specs)
  OBVIOUS
<1>k. PICK k : k = N - Len(todo)
  OBVIOUS
<1>11. /\ Len(todo) <= N /\ \A i \in 1 .. Len(todo) : todo[i] = specs[k + i]
       /\ job[c].total <= Cardinality(Part(specs, 1, k, log))
       /\ job[c].before <= job[c].total + Cardinality(Part(specs, k + 1, N, log))
  BY <1>1, <1>3, <1>5, <1>N, <1>k DEF Searching, Searches
<1>12. /\ N \in Nat /\ k \in Nat /\ k + 1 \in 1 .. N /\ N - Len(Tail(todo)) = k + 1
       /\ k + 1 \in Nat \ {0} /\ job[c].total \in Nat /\ job[c].before \in Nat
  <2>1. N \in Nat
    BY <1>N, LenProperties
  <2>2. job[c].total \in Nat /\ job[c].before \in Nat
    BY <1>2 DEF Job
  <2>4. k \in Nat /\ k + 1 \in 1 .. N /\ N - Len(Tail(todo)) = k + 1 /\ k + 1 \in Nat \ {0}
    <3>0. PICK l \in Nat \ {0} : l = Len(todo)
      BY <1>4
    <3>1. k = N - l /\ l <= N /\ Len(Tail(todo)) = l - 1
      BY <1>4, <1>11, <1>k, <3>0
    <3>2. k \in Nat /\ k + 1 \in 1 .. N /\ N - (l - 1) = k + 1
      BY <2>1, <3>0, <3>1
    <3>3. k + 1 \in Nat \ {0}
      BY <3>2
    <3> QED BY <3>1, <3>2, <3>3
  <2> QED BY <2>1, <2>2, <2>4
<1>13. specs[k + 1] = todo[1] /\ \A i \in 1 .. Len(todo) - 1 : Tail(todo)[i] = specs[k + 1 + i]
  <2>1. specs[k + 1] = todo[1]
    BY <1>4, <1>11
  <2>2. ASSUME NEW i \in 1 .. Len(todo) - 1 PROVE Tail(todo)[i] = specs[k + 1 + i]
    <3>1. i + 1 \in 1 .. Len(todo)
      BY <1>4
    <3>2. k + (i + 1) = k + 1 + i
      <4>1. k \in Nat /\ i \in Nat
        BY <1>12
      <4> QED BY <4>1
    <3> QED BY <1>4, <1>11, <3>1, <3>2
  <2> QED BY <2>1, <2>2
<1>14. log \in [Sources -> Seq(BOOLEAN)]
  BY <1>1 DEF Typed
<1>15. PICK m : m = k + 1
  OBVIOUS
<1>16. PICK A \in Nat : A = Cardinality(Part(specs, 1, k, log))
  <2>1. k <= Len(specs) /\ 1 \in Nat \ {0}
    BY <1>12, <1>N
  <2> QED BY <1>12, <1>14, <2>1, PartFinite
<1>17. PICK B \in Nat : B = Cardinality(Part(specs, m + 1, N, log))
  <2>1. N <= Len(specs) /\ m + 1 \in Nat \ {0}
    BY <1>12, <1>15, <1>N
  <2> QED BY <1>12, <1>14, <2>1, PartFinite
<1>18. Cardinality(Part(specs, m, m, log)) = more
  BY <1>1, <1>6, <1>12, <1>13, <1>15, PartOne, <1>N
<1>a. Cardinality(Part(specs, 1, m, log)) = A + more
  <2>1. 1 <= k + 1 /\ k <= m /\ m <= Len(specs) /\ 1 \in Nat \ {0} /\ m \in Nat
    BY <1>12, <1>15, <1>N
  <2>2. Cardinality(Part(specs, 1, m, log))
          = Cardinality(Part(specs, 1, k, log)) + Cardinality(Part(specs, k + 1, m, log))
    <3>1. m = k + 1 /\ m \in Nat /\ k \in Nat
      BY <1>12, <1>15
    <3>2. PICK one \in Nat \ {0} : one = 1
      OBVIOUS
    <3>3. one <= k + 1
      BY <2>1, <3>2
    <3>4. Cardinality(Part(specs, one, m, log))
            = Cardinality(Part(specs, one, k, log)) + Cardinality(Part(specs, m, m, log))
      BY <1>14, <2>1, <3>1, <3>3, PartSplit
    <3> QED BY <1>15, <3>2, <3>4
  <2> QED BY <1>15, <1>16, <1>18, <2>2
<1>b. Cardinality(Part(specs, m, N, log)) = more + B
  <2>1. m <= m + 1 /\ m <= N /\ N <= Len(specs) /\ m \in Nat \ {0} /\ m \in Nat
    BY <1>12, <1>15, <1>N
  <2>2. Cardinality(Part(specs, m, N, log))
          = Cardinality(Part(specs, m, m, log)) + Cardinality(Part(specs, m + 1, N, log))
    <3>1. PICK up : up = m + 1
      OBVIOUS
    <3>2. m <= m /\ N \in Nat
      <4>1. m <= m
        BY <2>1
      <4>2. N \in Nat
        BY <1>12
      <4> QED BY <4>1, <4>2
    <3>3. Cardinality(Part(specs, m, N, log))
            = Cardinality(Part(specs, m, m, log)) + Cardinality(Part(specs, up, N, log))
      BY <1>14, <2>1, <3>1, <3>2, PartSplit
    <3> QED BY <3>1, <3>3
  <2> QED BY <1>17, <1>18, <2>2
<1>c. Searches(specs, new.todo, new.total, new.before, log)
  <2>1. job[c].total <= A /\ job[c].before <= job[c].total + (more + B)
    BY <1>11, <1>15, <1>16, <1>b
  <2>2. new.total <= A + more /\ new.before <= new.total + B
    <3>1. \A t, b \in Nat : t <= A /\ b <= t + (more + B) => t + more <= A + more /\ b <= t + more + B
      BY <1>7
    <3>2. new.total = job[c].total + more /\ new.before = job[c].before
      BY <1>8
    <3> QED BY <1>12, <2>1, <3>1, <3>2
  <2>3. /\ new.total <= Cardinality(Part(specs, 1, m, log))
        /\ new.before <= new.total + Cardinality(Part(specs, m + 1, N, log))
    BY <1>17, <1>a, <2>2
  <2>4. Len(Tail(todo)) <= N /\ N - Len(Tail(todo)) = m
    BY <1>4, <1>11, <1>12, <1>15
  <2> QED BY <1>4, <1>8, <1>13, <1>15, <1>N, <2>3, <2>4 DEF Searches
<1>19. Searching(c)'
  BY <1>5, <1>8, <1>9, <1>10, <1>c DEF Searching, Picked
<1>20. Watching(c)'
  BY <1>1, <1>8, <1>9, <1>10 DEF Watching
<1> QED BY <1>1, <1>2, <1>8, <1>9, <1>19, <1>20, JobGoesOn DEF Typed

(* One more source is opened: its reader begins no later than after its    *)
(* last record.                                                            *)
LEMMA OpenKeeps ==
  ASSUME ServerInv, NEW c \in Conns, Open(c)
  PROVE  ServerInv'
<1>1. job[c].stage = "open" /\ job[c].todo # <<>> /\ Typed /\ Watching(c)
  BY DEF Open, ServerInv, Good
<1>2. job[c] \in Job /\ job[c] # Idle
  BY <1>1, JobIs
<1>3. PICK todo \in Seq(Sources) : todo = job[c].todo
  BY <1>2 DEF Job
<1>4. PICK s \in Sources : s = Head(job[c].todo)
  BY <1>1, <1>3, TailIs
<1>5. PICK rest \in Seq(Sources) : rest = Tail(job[c].todo)
  BY <1>1, <1>3, TailIs
<1>6. PICK start : start = FeedStart(s)
  OBVIOUS
<1>7. start \in Nat /\ start <= Len(log[s]) + 1 /\ \A r \in Sources : Len(log[r]) \in Nat
  BY <1>1, <1>6, LenProperties DEF FeedStart, Typed
<1>8. PICK from \in Places : from = [job[c].from EXCEPT ![s] = start]
  BY <1>2, <1>7 DEF Job, Places
<1>9. \A r \in Sources : from[r] <= Len(log[r]) + 1
  <2>1. \A r \in Sources : job[c].from[r] <= Len(log[r]) + 1
    BY <1>1 DEF Watching
  <2>2. from[s] = start /\ \A r \in Sources \ {s} : from[r] = job[c].from[r]
    BY <1>2, <1>8 DEF Job
  <2> QED BY <1>7, <2>1, <2>2
<1>10. PICK new : new = [job[c] EXCEPT !.todo = rest, !.from = from]
  OBVIOUS
<1>11. new \in Job
  BY <1>2, <1>5, <1>8, <1>10 DEF Job, Places
<1>12. /\ new.id = job[c].id /\ new.req = job[c].req /\ new.stage = "open"
       /\ new.hits = job[c].hits /\ new.from = from
  BY <1>1, <1>2, <1>10 DEF Job
<1>13. job' = [job EXCEPT ![c] = new] /\ UNCHANGED <<transport, log, sent, read, chan, next, replies>>
  <2>1. job' = [job EXCEPT ![c] = [job[c] EXCEPT !.todo = Tail(job[c].todo), !.from = [job[c].from EXCEPT ![s] = start]]]
    BY <1>1, <1>2, <1>4, <1>6 DEF Open, Typed, Job
  <2>2. UNCHANGED <<transport, log, sent, read, chan, next, replies>>
    BY DEF Open
  <2> QED BY <1>5, <1>8, <1>10, <2>1, <2>2
<1>14. job'[c] = new
  BY <1>1, <1>13 DEF Typed
<1>15. Searching(c)' /\ Watching(c)'
  BY <1>1, <1>9, <1>12, <1>13, <1>14 DEF Searching, Watching
<1> QED BY <1>1, <1>2, <1>11, <1>12, <1>13, <1>15, JobGoesOn DEF Typed

(* All are open: the readers begin, and nothing was sent yet. *)
LEMMA FollowKeeps ==
  ASSUME ServerInv, NEW c \in Conns, Follow(c)
  PROVE  ServerInv'
<1>1. job[c].stage = "open" /\ Typed /\ Watching(c)
  BY DEF Follow, ServerInv, Good
<1>2. job[c] \in Job /\ job[c] # Idle
  BY <1>1, JobIs
<1>3. PICK from \in Places : from = job[c].from
  BY <1>2 DEF Job, Places
<1>4. PICK new : new = [job[c] EXCEPT !.stage = "watch"]
  OBVIOUS
<1>5. new \in Job
  BY <1>2, <1>4 DEF Job
<1>6. /\ new.id = job[c].id /\ new.req = job[c].req /\ new.stage = "watch"
      /\ new.hits = job[c].hits /\ new.from = from
  BY <1>2, <1>3, <1>4 DEF Job
<1>7. job' = [job EXCEPT ![c] = new] /\ UNCHANGED <<transport, log, sent, read, chan, replies>>
  BY <1>4 DEF Follow
<1>8. next' = [next EXCEPT ![c] = from]
  BY <1>3 DEF Follow
<1>9. /\ next' \in [Conns -> [Sources -> Nat]] /\ next'[c] = from /\ job'[c] = new
      /\ \A d \in Conns \ {c} : next'[d] = next[d]
  BY <1>1, <1>7, <1>8 DEF Typed, Places
<1>10. Watches(<<>>, from, <<>>, from, log)
  BY <1>1, <1>3, WatchBegins DEF Watching, Typed, Logs
<1>11. new.hits = <<>> /\ chan[c] = <<>>
  BY <1>1, <1>6 DEF Watching
<1>12. Searching(c)' /\ Watching(c)'
  BY <1>6, <1>7, <1>9, <1>10, <1>11 DEF Searching, Watching
<1> QED BY <1>1, <1>2, <1>5, <1>6, <1>7, <1>9, <1>12, JobGoesOn DEF Typed

(* The deadline passes. *)
LEMMA TickKeeps ==
  ASSUME ServerInv, NEW c \in Conns, Tick(c)
  PROVE  ServerInv'
<1>1. job[c].stage = "watch" /\ Typed /\ Watching(c)
  BY DEF Tick, ServerInv, Good
<1>2. job[c] \in Job /\ job[c] # Idle
  BY <1>1, JobIs
<1>3. PICK new : new = [job[c] EXCEPT !.due = TRUE]
  OBVIOUS
<1>4. new \in Job
  BY <1>2, <1>3 DEF Job
<1>5. /\ new.id = job[c].id /\ new.req = job[c].req /\ new.stage = "watch"
      /\ new.hits = job[c].hits /\ new.from = job[c].from
  BY <1>1, <1>2, <1>3 DEF Job
<1>6. job' = [job EXCEPT ![c] = new] /\ UNCHANGED <<transport, log, sent, read, chan, next, replies>>
  BY <1>3 DEF Tick
<1>7. job'[c] = new
  BY <1>1, <1>6 DEF Typed
<1>8. Searching(c)' /\ Watching(c)'
  BY <1>1, <1>5, <1>6, <1>7 DEF Searching, Watching
<1> QED BY <1>1, <1>2, <1>4, <1>5, <1>6, <1>8, JobGoesOn DEF Typed

(* A message is taken. *)
LEMMA ReceiveKeeps ==
  ASSUME ServerInv, NEW c \in Conns, Receive(c)
  PROVE  ServerInv'
<1>1. /\ job[c].stage = "watch" /\ Len(job[c].hits) < Limit /\ chan[c] # <<>>
      /\ Typed /\ Watching(c)
  BY DEF Receive, ServerInv, Good
<1>2. job[c] \in Job /\ job[c] # Idle
  BY <1>1, JobIs
<1>3. PICK hits \in Seq(Message) : hits = job[c].hits
  BY <1>2 DEF Job
<1>4. PICK from \in Places : from = job[c].from
  BY <1>2 DEF Job, Places
<1>5. PICK queue \in Seq(Message) : queue = chan[c]
  BY <1>1 DEF Typed
<1>6. PICK m : m = queue[1]
  OBVIOUS
<1>7. Head(queue) = m /\ Tail(queue) \in Seq(Message)
  BY <1>1, <1>5, <1>6, TailIs
<1>8. PICK now : now = IF m.at > 0 /\ log[m.source][m.at] THEN Append(hits, m) ELSE hits
  OBVIOUS
<1>9. Watches(now, from, Tail(queue), next[c], log) /\ now \in Seq(Message)
  <2>1. log \in Logs /\ next[c] \in Places
    BY <1>1 DEF Typed, Logs, Places
  <2>2. Watches(hits, from, queue, next[c], log)
    BY <1>1, <1>3, <1>4, <1>5 DEF Watching
  <2>3. Len(hits) < Limit /\ queue # <<>>
    BY <1>1, <1>3, <1>5
  <2> QED BY <1>6, <1>8, <2>1, <2>2, <2>3, WatchReceives
<1>10. PICK new : new = [job[c] EXCEPT !.hits = now]
  OBVIOUS
<1>11. new \in Job
  BY <1>2, <1>9, <1>10 DEF Job
<1>12. /\ new.id = job[c].id /\ new.req = job[c].req /\ new.stage = "watch"
       /\ new.hits = now /\ new.from = from
  BY <1>1, <1>2, <1>4, <1>10 DEF Job
<1>13. /\ job' = [job EXCEPT ![c] = new] /\ chan' = [chan EXCEPT ![c] = Tail(queue)]
       /\ UNCHANGED <<transport, log, sent, read, next, replies>>
  <2>1. job' = [job EXCEPT ![c] = [job[c] EXCEPT !.hits = IF m.at > 0 /\ log[m.source][m.at] THEN Append(job[c].hits, m) ELSE job[c].hits]]
    BY <1>1, <1>2, <1>5, <1>7 DEF Receive, Typed, Job
  <2>2. chan' = [chan EXCEPT ![c] = Tail(queue)] /\ UNCHANGED <<transport, log, sent, read, next, replies>>
    BY <1>5 DEF Receive
  <2> QED BY <1>3, <1>8, <1>10, <2>1, <2>2
<1>14. /\ job'[c] = new /\ chan'[c] = Tail(queue) /\ chan' \in [Conns -> Seq(Message)]
       /\ \A d \in Conns \ {c} : chan'[d] = chan[d]
  BY <1>1, <1>7, <1>13 DEF Typed
<1>15. Searching(c)' /\ Watching(c)'
  BY <1>9, <1>12, <1>13, <1>14 DEF Searching, Watching
<1> QED BY <1>1, <1>2, <1>11, <1>12, <1>13, <1>14, <1>15, JobGoesOn DEF Typed

(* A reader sends, or ends. *)
LEMMA ReaderKeeps ==
  ASSUME ServerInv, NEW c \in Conns, job[c].stage = "watch",
         UNCHANGED <<transport, log, sent, read, job, replies>>,
         NEW queue \in Seq(Message), NEW at \in Places,
         chan' = [chan EXCEPT ![c] = queue], next' = [next EXCEPT ![c] = at],
         Watches(job[c].hits, job[c].from, queue, at, log)
  PROVE  ServerInv'
<1>1. Typed /\ Good(c)
  BY DEF ServerInv
<1>2. /\ chan' \in [Conns -> Seq(Message)] /\ next' \in [Conns -> [Sources -> Nat]]
      /\ chan'[c] = queue /\ next'[c] = at
      /\ \A d \in Conns \ {c} : chan'[d] = chan[d] /\ next'[d] = next[d]
  BY <1>1 DEF Typed, Places
<1>3. Typed'
  BY <1>1, <1>2 DEF Typed
<1>4. Asked(c)' /\ Searching(c)' /\ Told(c)'
  BY <1>1 DEF Good, Asked, Searching, Told
<1>5. Answered(c)'
  <2>1. Done(c)' = Done(c)
    BY DEF Done
  <2> QED BY <1>1, <2>1 DEF Good, Answered
<1>6. Watching(c)'
  BY <1>2 DEF Watching
<1>7. Good(c)'
  BY <1>4, <1>5, <1>6 DEF Good
<1> QED BY <1>2, <1>3, <1>7, OnlyOne

LEMMA ReadersWatch ==
  ASSUME ServerInv, NEW c \in Conns, NEW s \in Sources, next[c][s] > 0
  PROVE  /\ job[c].stage = "watch" /\ chan[c] \in Seq(Message) /\ next[c] \in Places /\ log \in Logs
         /\ job[c].hits \in Seq(Message) /\ job[c].from \in Places
         /\ Watches(job[c].hits, job[c].from, chan[c], next[c], log)
<1>1. Typed /\ Watching(c)
  BY DEF ServerInv, Good
<1>2. job[c].stage = "watch"
  <2>1. next[c] # NoReaders
    BY DEF NoReaders
  <2> QED BY <1>1, <2>1 DEF Watching
<1>3. job[c] \in Job
  BY <1>1, <1>2, JobIs
<1>4. Watches(job[c].hits, job[c].from, chan[c], next[c], log)
  BY <1>1, <1>2 DEF Watching
<1> QED BY <1>1, <1>2, <1>3, <1>4 DEF Typed, Job, Places, Logs

LEMMA PumpKeeps ==
  ASSUME ServerInv, NEW c \in Conns, NEW s \in Sources, Pump(c, s)
  PROVE  ServerInv'
<1>1. PICK n \in 1 .. Len(log[s]) : n = next[c][s]
  BY DEF Pump
<1>2. n > 0 /\ n \in Nat
  OBVIOUS
<1>3. /\ job[c].stage = "watch" /\ chan[c] \in Seq(Message) /\ next[c] \in Places /\ log \in Logs
      /\ job[c].hits \in Seq(Message) /\ job[c].from \in Places
      /\ Watches(job[c].hits, job[c].from, chan[c], next[c], log)
  BY <1>1, <1>2, ReadersWatch
<1>4. PICK queue : queue = Append(chan[c], [source |-> s, at |-> n])
  OBVIOUS
<1>5. PICK at : at = [next[c] EXCEPT ![s] = n + 1]
  OBVIOUS
<1>6. queue \in Seq(Message) /\ at \in Places
  <2>1. [source |-> s, at |-> n] \in Message
    BY <1>2 DEF Message
  <2>2. queue \in Seq(Message)
    BY <1>3, <1>4, <2>1, AppendProperties
  <2> QED BY <1>2, <1>3, <1>5, <2>2 DEF Places
<1>7. Watches(job[c].hits, job[c].from, queue, at, log)
  <2>1. Watches(job[c].hits, job[c].from, Append(chan[c], [source |-> s, at |-> next[c][s]]),
                [next[c] EXCEPT ![s] = @ + 1], log)
    BY <1>1, <1>3, WatchSends
  <2>2. [next[c] EXCEPT ![s] = @ + 1] = at
    BY <1>1, <1>5
  <2> QED BY <1>1, <1>4, <2>1, <2>2
<1>8. chan' = [chan EXCEPT ![c] = queue] /\ next' = [next EXCEPT ![c] = at]
  BY <1>1, <1>4, <1>5 DEF Pump, ServerInv, Typed
<1>9. UNCHANGED <<transport, log, sent, read, job, replies>>
  BY DEF Pump
<1> QED BY <1>3, <1>6, <1>7, <1>8, <1>9, ReaderKeeps

LEMMA PumpEndsKeeps ==
  ASSUME ServerInv, NEW c \in Conns, NEW s \in Sources, PumpEnds(c, s)
  PROVE  ServerInv'
<1>1. s \in Archives /\ next[c][s] = Len(log[s]) + 1
  BY DEF PumpEnds
<1>2. next[c][s] > 0
  <2>1. Len(log[s]) \in Nat
    BY LenProperties DEF ServerInv, Typed
  <2> QED BY <1>1, <2>1
<1>3. /\ job[c].stage = "watch" /\ chan[c] \in Seq(Message) /\ next[c] \in Places /\ log \in Logs
      /\ job[c].hits \in Seq(Message) /\ job[c].from \in Places
      /\ Watches(job[c].hits, job[c].from, chan[c], next[c], log)
  BY <1>2, ReadersWatch
<1>4. PICK queue : queue = Append(chan[c], [source |-> s, at |-> 0])
  OBVIOUS
<1>5. PICK at : at = [next[c] EXCEPT ![s] = 0]
  OBVIOUS
<1>6. queue \in Seq(Message) /\ at \in Places
  <2>1. [source |-> s, at |-> 0] \in Message
    BY DEF Message
  <2>2. queue \in Seq(Message)
    BY <1>3, <1>4, <2>1, AppendProperties
  <2> QED BY <1>3, <1>5, <2>2 DEF Places
<1>7. Watches(job[c].hits, job[c].from, queue, at, log)
  BY <1>1, <1>3, <1>4, <1>5, WatchEnds
<1>8. chan' = [chan EXCEPT ![c] = queue] /\ next' = [next EXCEPT ![c] = at]
  BY <1>4, <1>5 DEF PumpEnds, ServerInv, Typed
<1>9. UNCHANGED <<transport, log, sent, read, job, replies>>
  BY DEF PumpEnds
<1> QED BY <1>3, <1>6, <1>7, <1>8, <1>9, ReaderKeeps

-----------------------------------------------------------------------------
LEMMA ServerStep == ServerInv /\ [Next]_vars => ServerInv'
<1> SUFFICES ASSUME ServerInv, [Next]_vars PROVE ServerInv'
  OBVIOUS
<1>1. ASSUME NEW s \in Sources, Write(s) PROVE ServerInv'
  BY <1>1, WriteKeeps
<1>2. ASSUME NEW s \in Sources, Delete(s) PROVE ServerInv'
  BY <1>2, NothingHappens DEF Delete
<1>3. ASSUME NEW c \in Conns, Send(c) PROVE ServerInv'
  BY <1>3, SendKeeps
<1>3a. ASSUME NEW c \in Conns, ReadFails(c) PROVE ServerInv'
  BY <1>3a, NothingHappens DEF ReadFails
<1>4. ASSUME NEW c \in Conns, Serve(c) PROVE ServerInv'
  BY <1>4, ReadKeeps, FailKeeps, SearchKeeps, SearchDoneKeeps, OpenKeeps, FollowKeeps, ReceiveKeeps,
     WatchDoneKeeps, <1>3a DEF Serve
<1>5. ASSUME NEW c \in Conns, Tick(c) PROVE ServerInv'
  BY <1>5, TickKeeps
<1>6. ASSUME NEW c \in Conns, NEW s \in Sources, Pump(c, s) PROVE ServerInv'
  BY <1>6, PumpKeeps
<1>7. ASSUME NEW c \in Conns, NEW s \in Sources, PumpEnds(c, s) PROVE ServerInv'
  BY <1>7, PumpEndsKeeps
<1>8. CASE ReaderStops
  BY <1>8, NothingHappens DEF ReaderStops
<1>9. CASE Quiet \/ UNCHANGED vars
  BY <1>9, NothingHappens DEF Quiet, vars
<1> QED BY <1>1, <1>2, <1>3, <1>4, <1>5, <1>6, <1>7, <1>8, <1>9 DEF Next

LEMMA ServerAlways == Spec => []ServerInv
BY InitKeeps, ServerStep, PTL DEF Spec

(* Every request that is read and has an id is answered once, with this id *)
(* and in the order of the requests, whatever was refused, failed or took  *)
(* long before it; what needs no answer gets none, but for HTTP's          *)
(* acknowledgement and for an error response (serve_stdio, handle_conn and *)
(* Server::handle).  It says nothing of the lines that stand behind one    *)
(* that is not UTF-8, which are never read.                                *)
THEOREM EachAnsweredOnce == Spec => []AnsweredOnce
BY ServerAlways, InvMeans, PTL

(* What search tells of sources that grow while it reads them is never     *)
(* more than they hold at its end, and never less than they held at its    *)
(* beginning (search_json).                                                *)
THEOREM SearchAlwaysBetween == Spec => []SearchIsBetween
BY ServerAlways, InvMeans, PTL

(* What watch_once tells of each file has no gap: the matches from where   *)
(* it was opened up to the last one told, through a channel of any size;   *)
(* and it tells fewer than its limit only when its time is over or nothing *)
(* can come (watch_once, Feed::start and pump).                            *)
THEOREM WatchAlwaysPrefix == Spec => []WatchIsPrefix
BY ServerAlways, InvMeans, PTL
=============================================================================
